------------------------------ MODULE ExactIO -------------------------------
(***************************************************************************)
(* readExact, writeExact and their noexcept versions (src/Syscalls.cpp):   *)
(* loops over read() and write(), which transfer any part of what is       *)
(* asked for, or fail.  A writer and a reader use them on the two ends of  *)
(* a pipe, call after call.                                                *)
(*                                                                         *)
(* After a failure the throwing versions leave the caller without a        *)
(* position in the stream, and it gives up.  The _nt versions report the   *)
(* bytes transferred through a pointer, to a variable that the caller set  *)
(* to 0; the caller goes on from there.  Byte number i of the stream is    *)
(* represented by i.                                                       *)
(***************************************************************************)
EXTENDS Naturals, Sequences

CONSTANTS
  MaxBytes,    \* bound: bytes in the whole stream
  MaxCount,    \* largest count of a call
  Capacity     \* of the pipe

ASSUME IOAssumption ==
  /\ MaxBytes \in Nat /\ MaxCount \in Nat /\ Capacity \in Nat \ {0}

VARIABLES
  pipe,        \* bytes in the pipe
  wr, rd,      \* state of the writer's and of the reader's call
  sent,        \* how much of the stream the writer takes for written
  data,        \* bytes that the reader has been given
  buf          \* the buffer of the reader's call

ioVars == <<pipe, wr, rd, sent, data, buf>>

\* A call: nt is its version, succ is *bytesSuccRead or *bytesSuccWritten.
Call(nt, count) == [st |-> "loop", nt |-> nt, count |-> count, soFar |-> 0, succ |-> 0]

NoCall   == [st |-> "idle", nt |-> FALSE, count |-> 0, soFar |-> 0, succ |-> 0]
GivenUp  == [NoCall EXCEPT !.st = "closed"]

IOInit ==
  /\ pipe = <<>> /\ data = <<>> /\ buf = <<>>
  /\ sent = 0
  /\ wr = NoCall /\ rd = NoCall

Loops(c) == c.st = "loop" /\ c.soFar < c.count
Ends(c)  == c.st = "loop" /\ c.soFar = c.count

\* soFar += n, and the report of the _nt versions.
Advanced(c, n) ==
  [c EXCEPT !.soFar = @ + n, !.succ = IF c.nt THEN c.soFar + n ELSE @]

-----------------------------------------------------------------------------
(* writeExact, writeExact_nt *)

WriteCall ==
  /\ wr.st = "idle"
  /\ \E nt \in BOOLEAN, n \in 0 .. MaxCount :
       sent + n <= MaxBytes /\ wr' = Call(nt, n)
  /\ UNCHANGED <<pipe, rd, sent, data, buf>>

\* Mutation of Write: every turn starts from the beginning of the buffer.
WriteFromStart ==
  /\ Loops(wr)
  /\ \E n \in 1 .. wr.count - wr.soFar :
       /\ Len(pipe) + n <= Capacity
       /\ pipe' = pipe \o [i \in 1 .. n |-> sent + i]
       /\ wr' = Advanced(wr, n)
  /\ UNCHANGED <<rd, sent, data, buf>>

\* write(fd, buf + soFar, count - soFar) accepts some of it.
Write ==
  /\ Loops(wr)
  /\ \E n \in 1 .. wr.count - wr.soFar :
       /\ Len(pipe) + n <= Capacity
       /\ pipe' = pipe \o [i \in 1 .. n |-> sent + wr.soFar + i]
       /\ wr' = Advanced(wr, n)
  /\ UNCHANGED <<rd, sent, data, buf>>

\* write() fails: writeExact throws, writeExact_nt returns -1.
WriteFails ==
  /\ Loops(wr)
  /\ \/ ~wr.nt /\ wr' = GivenUp /\ UNCHANGED sent
     \/ wr.nt /\ wr' = NoCall /\ sent' = sent + wr.succ
  /\ UNCHANGED <<pipe, rd, data, buf>>

\* The loop ends and the call returns the number of its turns.
WriteReturns ==
  /\ Ends(wr)
  /\ wr' = NoCall
  /\ sent' = sent + wr.count
  /\ UNCHANGED <<pipe, rd, data, buf>>

WriterCloses ==
  /\ wr.st = "idle"
  /\ wr' = GivenUp
  /\ UNCHANGED <<pipe, rd, sent, data, buf>>

-----------------------------------------------------------------------------
(* readExact, readExact_nt *)

ReadCall ==
  /\ rd.st = "idle"
  /\ \E nt \in BOOLEAN, n \in 0 .. MaxCount :
       /\ Len(data) + n <= MaxBytes
       /\ rd' = Call(nt, n)
       /\ buf' = [i \in 1 .. n |-> 0]
  /\ UNCHANGED <<pipe, wr, sent, data>>

\* read(fd, buf + soFar, count - soFar) returns some bytes.
Read ==
  /\ Loops(rd)
  /\ \E n \in 1 .. rd.count - rd.soFar :
       /\ n <= Len(pipe)
       /\ buf' = [i \in DOMAIN buf |->
                    IF i > rd.soFar /\ i <= rd.soFar + n
                    THEN pipe[i - rd.soFar] ELSE buf[i]]
       /\ pipe' = SubSeq(pipe, n + 1, Len(pipe))
       /\ rd' = Advanced(rd, n)
  /\ UNCHANGED <<wr, sent, data>>

\* What a caller of readExact_nt has after a short count.
Salvaged == data \o SubSeq(buf, 1, rd.succ)

\* read() returns 0: readExact throws "EOF reached", readExact_nt returns 0.
ReadEOF ==
  /\ Loops(rd)
  /\ pipe = <<>> /\ wr.st = "closed"
  /\ rd' = GivenUp
  /\ data' = IF rd.nt THEN Salvaged ELSE data
  /\ buf' = <<>>
  /\ UNCHANGED <<pipe, wr, sent>>

\* read() fails: readExact throws, readExact_nt returns -1.
ReadFails ==
  /\ Loops(rd)
  /\ \/ ~rd.nt /\ rd' = GivenUp /\ UNCHANGED data
     \/ rd.nt /\ rd' = NoCall /\ data' = Salvaged
  /\ buf' = <<>>
  /\ UNCHANGED <<pipe, wr, sent>>

ReadReturns ==
  /\ Ends(rd)
  /\ rd' = NoCall
  /\ data' = data \o buf
  /\ buf' = <<>>
  /\ UNCHANGED <<pipe, wr, sent>>

IONext ==
  \/ WriteCall \/ Write \/ WriteFails \/ WriteReturns \/ WriterCloses
  \/ ReadCall \/ Read \/ ReadEOF \/ ReadFails \/ ReadReturns

IOSpec == IOInit /\ [][IONext]_ioVars

-----------------------------------------------------------------------------
(* Properties *)

\* What the reader's caller has been given is the beginning of the stream, and
\* together with its unfinished call and the pipe it is all that the writer has
\* written: no byte is lost, doubled or moved by short transfers, by failures
\* in the middle of a call or by resuming from the reported count.
StreamIntact ==
  LET all == data \o SubSeq(buf, 1, rd.soFar) \o pipe IN
  /\ data = [i \in DOMAIN data |-> i]
  /\ rd.st # "closed" =>
       /\ all = [i \in DOMAIN all |-> i]
       /\ wr.st # "closed" => Len(all) = sent + wr.soFar
=============================================================================

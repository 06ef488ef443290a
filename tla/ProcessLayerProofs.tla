------------------------- MODULE ProcessLayerProofs -------------------------
(***************************************************************************)
(* Proofs about the layer below the IPC classes: NetLinkListener for any   *)
(* events, interfaces and size of the socket's queue; mkdir_p for any      *)
(* number of processes, depth of the chain and length of the paths; the    *)
(* Exact functions for any stream, counts and capacity of the pipe.        *)
(*                                                                         *)
(* That the listener's list does not change under the walk rests on        *)
(* m_ifaceEvsMtx being held for the whole of it (WalkLocked), callbacks    *)
(* included.  That mkdir_p throws for no other reason than the four of     *)
(* MkdirOutcome rests on what it has found missing: on its way up, some    *)
(* level of the path one component longer (Lacking), and on its way back   *)
(* the very directory it is to make (Blocked).                             *)
(***************************************************************************)
EXTENDS NetLinkListener, ExactIO, MkdirP, SequenceTheorems, TLAPS

-----------------------------------------------------------------------------
(* NetLinkListener *)

\* The processor holds m_ifaceEvsMtx exactly while it walks over the list
\* and calls callbacks.
WalkLocked == mtx <=> pc \in Walking

\* The thread exists only once getInstance() has set the holder.
NotStarted == holder = "none" => pc = "off"

WalkInv == mtx \in BOOLEAN /\ WalkLocked /\ WalkSafe /\ NotStarted

-----------------------------------------------------------------------------
\* Every step of the processor, of the users and of the kernel keeps the walk
\* safe.
LEMMA WalkStep == WalkInv /\ [Next]_vars => WalkInv'
<1> SUFFICES ASSUME WalkInv, [Next]_vars PROVE WalkInv'
  OBVIOUS
<1> USE DEF WalkInv, WalkLocked, WalkSafe, Walking, NotStarted, Step, Terminates,
            list, wire
<1>1. CASE getInstance
  BY <1>1 DEF getInstance
<1>2. CASE Destroy
  BY <1>2 DEF Destroy
<1>3. CASE Join
  BY <1>3 DEF Join
<1>4. ASSUME NEW c \in Sub, addInterfaceEvent(c) PROVE WalkInv'
  BY <1>4 DEF addInterfaceEvent
<1>5. ASSUME NEW c \in Sub, removeInterfaceEvent(c) PROVE WalkInv'
  BY <1>5 DEF removeInterfaceEvent, Removes
<1>6. ASSUME NEW m \in Msg, Arrive(m) PROVE WalkInv'
  BY <1>6 DEF Arrive
<1>7. CASE Socket \/ Bind \/ Recvmsg
  BY <1>7 DEF Socket, Bind, Recvmsg
<1>8. CASE Receive \/ ReceiveOverrun \/ Interrupted
  BY <1>8 DEF Receive, ReceiveOverrun, Interrupted
<1>9. CASE Parse
  BY <1>9 DEF Parse
<1>10. CASE processEvent
  BY <1>10 DEF processEvent
<1>11. CASE Visit \/ Callback
  BY <1>11 DEF Visit, Callback
<1>12. CASE EndOfWalk
  BY <1>12 DEF EndOfWalk
<1>13. CASE UNCHANGED vars
  BY <1>13 DEF vars
<1> QED
  BY <1>1, <1>2, <1>3, <1>4, <1>5, <1>6, <1>7, <1>8, <1>9, <1>10, <1>11, <1>12,
     <1>13 DEF Next, Processor

\* The invariant holds in every behaviour of the listener.
LEMMA WalkInductive == Spec => []WalkInv
<1>1. Init => WalkInv
  BY DEF Init, WalkInv, WalkLocked, WalkSafe, Walking, NotStarted
<1> QED
  BY <1>1, WalkStep, PTL DEF Spec

\* Every registration that processEvent has still to look at is in the list:
\* removeInterfaceEvent returns only when no walk can call the callback any
\* more, for any number of registrations and threads.
THEOREM WalkIsSafe == Spec => []WalkSafe
<1>1. WalkInv => WalkSafe
  BY DEF WalkInv
<1> QED
  BY <1>1, WalkInductive, PTL

-----------------------------------------------------------------------------
(* mkdir_p *)

CallSt == {"check", "mkdir", "returned", "threw"}

CallRec == [st : CallSt, path : Path, at : Int, raced : BOOLEAN, failed : BOOLEAN]

DirTypes ==
  /\ kind \in [0 .. Depth -> {"none", "dir", "file"}]
  /\ call \in [Maker -> CallRec]

\* What exists has only directories above it.
Chain ==
  /\ kind[0] = "dir"
  /\ \A l \in 1 .. Depth : kind[l] # "none" =>
       \A j \in 0 .. l - 1 : kind[j] = "dir"

\* The call has found the path of k components missing, and unless another
\* process has made a directory of it since, it still is.
Lacking(c, k) ==
  c.failed \/ c.raced \/ \E i \in 1 .. k : kind[Lev(c.path, i)] # "dir"

\* The directory that mkdir is to make is not there, unless another process made
\* one, or the component is no name.
Blocked(c, k) ==
  c.failed \/ c.raced \/ ~Named(c.path, k) \/ kind[Lev(c.path, k)] # "dir"

\* The recursion of mkdir_p on its way up and on its way back.
Climbing(c) ==
  c.st = "check" =>
    /\ c.at <= Len(c.path)
    /\ c.at < Len(c.path) => Lacking(c, c.at + 1)

Making(c) ==
  c.st = "mkdir" =>
    /\ c.at <= Len(c.path)
    /\ Exists(c.path, c.at - 1)
    /\ Blocked(c, c.at)

\* What MkdirOutcome says of one call, at a component of its path.
Outcome(c) ==
  /\ c.st = "threw" => c.at <= Len(c.path)
  /\ c.st = "returned" => Exists(c.path, Len(c.path))
  /\ c.st = "threw" /\ ~c.failed =>
       \/ kind[Lev(c.path, c.at)] = "file"
       \/ ~Named(c.path, c.at)
       \/ c.raced

CallInv(c) == Climbing(c) /\ Making(c) /\ Outcome(c)

DirInv == DirTypes /\ Chain /\ \A p \in Maker : CallInv(call[p])

-----------------------------------------------------------------------------
\* A path leads through levels of the chain.
LEMMA PathLevels ==
  ASSUME NEW s \in Path
  PROVE  /\ Len(s) \in Nat
         /\ DOMAIN s = 1 .. Len(s)
         /\ \A k \in Int : k <= Len(s) => Lev(s, k) \in 0 .. Depth
<1>1. PICK n \in 0 .. MaxLen : s \in [1 .. n -> 0 .. Depth]
  BY DEF Path
<1>2. n \in Nat /\ Len(s) = n /\ DOMAIN s = 1 .. n
  BY <1>1, DirAssumption
<1> QED
  BY <1>1, <1>2, DirAssumption DEF Lev

\* A step of the call's own process changes st, at and failed of its record.
Moved(r, st, at, f) == [r EXCEPT !.st = st, !.at = at, !.failed = f]

\* The other fields stay.
LEMMA MovedRecord ==
  ASSUME NEW r \in CallRec, NEW st \in CallSt, NEW at \in Int, NEW f \in BOOLEAN
  PROVE  /\ Moved(r, st, at, f) \in CallRec
         /\ Moved(r, st, at, f).st = st
         /\ Moved(r, st, at, f).at = at
         /\ Moved(r, st, at, f).failed = f
         /\ Moved(r, st, at, f).path = r.path
         /\ Moved(r, st, at, f).raced = r.raced
<1> DEFINE y == [r EXCEPT !.st = st, !.at = at]
<1>1. y \in CallRec
  BY DEF CallRec
<1>2. Moved(r, st, at, f) = [y EXCEPT !.failed = f]
  BY DEF CallRec, Moved
<1> HIDE DEF y
<1>3. [y EXCEPT !.failed = f] \in CallRec
  BY <1>1 DEF CallRec
<1>4. /\ Moved(r, st, at, f).st = st
      /\ Moved(r, st, at, f).at = at
      /\ Moved(r, st, at, f).failed = f
      /\ Moved(r, st, at, f).path = r.path
      /\ Moved(r, st, at, f).raced = r.raced
  BY DEF CallRec, Moved
<1> QED
  BY <1>2, <1>3, <1>4

\* A directory made by another process may be on the path of the record.
LEMMA RacedRecord ==
  ASSUME NEW r \in CallRec, NEW f \in BOOLEAN,
         NEW x, x = [r EXCEPT !.raced = f]
  PROVE  /\ x \in CallRec
         /\ x.raced = f
         /\ x.st = r.st /\ x.at = r.at /\ x.failed = r.failed /\ x.path = r.path
BY DEF CallRec

\* Every step of mkdir_p keeps its account of the levels, whatever other
\* processes make meanwhile.
LEMMA DirStep == DirInv /\ DirNext => DirInv'
<1> SUFFICES ASSUME DirInv, NEW p \in Maker,
                    \/ mkdir_p(p) \/ CheckFound(p) \/ CheckMissing(p)
                    \/ Mkdir(p) \/ MkdirFails(p)
             PROVE  DirInv'
  BY DEF DirNext
<1> DEFINE c == call[p]
           k == call[p].at
           s == call[p].path
<1>0. /\ c \in CallRec /\ k \in Int /\ s \in Path
      /\ c.failed \in BOOLEAN /\ c.raced \in BOOLEAN
      /\ c.st \in CallSt
      /\ Len(s) \in Nat /\ DOMAIN s = 1 .. Len(s)
      /\ \A i \in Int : i <= Len(s) => Lev(s, i) \in 0 .. Depth
  BY PathLevels DEF DirInv, DirTypes, CallRec
\* A step of one call that makes no directory.
<1>1. ASSUME NEW x \in CallRec, kind' = kind, call' = [call EXCEPT ![p] = x],
             CallInv(x)
      PROVE  DirInv'
  <2>1. \A q \in Maker : call'[q] = IF q = p THEN x ELSE call[q]
    BY <1>1 DEF DirInv, DirTypes
  <2>2. \A q \in Maker : CallInv(call'[q])
    BY <1>1, <2>1 DEF DirInv
  <2>3. \A q \in Maker : CallInv(call[q])'
    BY <1>1, <2>2 DEF CallInv, Climbing, Making, Outcome, Lacking, Blocked, Exists
  <2>4. (DirTypes /\ Chain)'
    BY <1>1 DEF DirInv, DirTypes, Chain
  <2> QED
    BY <2>3, <2>4 DEF DirInv
<1>2. CASE mkdir_p(p)
  <2>1. PICK y \in Path : call' = [call EXCEPT ![p] = Call_p(y)]
    BY <1>2 DEF mkdir_p
  <2>2. Call_p(y) \in CallRec
    BY <2>1, PathLevels DEF Call_p, CallRec, CallSt
  <2>3. CallInv(Call_p(y))
    BY <2>1, PathLevels DEF CallInv, Climbing, Making, Outcome, Call_p
  <2> QED
    BY <1>1, <1>2, <2>1, <2>2, <2>3 DEF mkdir_p
<1>3. CASE CheckFound(p)
  <2> DEFINE st == IF k = Len(s) THEN "returned" ELSE "mkdir"
             x  == Moved(c, st, k + 1, c.failed)
  <2>1. kind' = kind /\ c.st = "check" /\ Exists(s, k)
    BY <1>3 DEF CheckFound
  <2>2. call' = [call EXCEPT ![p] = x]
    BY <1>0, <1>3 DEF CheckFound, CallRec, Moved
  <2>3. /\ x \in CallRec
        /\ x.st = st /\ x.at = k + 1 /\ x.failed = c.failed
        /\ x.path = s /\ x.raced = c.raced
    BY <1>0, MovedRecord DEF CallSt
  <2>4. k <= Len(s) /\ (k < Len(s) => Lacking(c, k + 1))
    BY <2>1 DEF DirInv, CallInv, Climbing
  <2> HIDE DEF x
  <2>5. ASSUME k = Len(s) PROVE CallInv(x)
    BY <2>1, <2>3, <2>5 DEF CallInv, Climbing, Making, Outcome
  <2>6. ASSUME k < Len(s) PROVE CallInv(x)
    <3>1. x.st = "mkdir" /\ k + 1 <= Len(s) /\ k + 1 - 1 = k
      BY <1>0, <2>3, <2>6
    <3>2. Blocked(x, k + 1)
      <4>1. Lacking(c, k + 1)
        BY <2>4, <2>6
      <4>2. ASSUME NEW i \in 1 .. k + 1, kind[Lev(s, i)] # "dir" PROVE i = k + 1
        BY <1>0, <2>1, <4>2 DEF Exists
      <4> QED
        BY <2>3, <4>1, <4>2 DEF Lacking, Blocked
    <3>3. Exists(x.path, x.at - 1) /\ x.at <= Len(x.path)
      <4>1. x.at - 1 = k /\ x.path = s
        BY <1>0, <2>3
      <4> QED
        BY <2>1, <2>3, <3>1, <4>1
    <3> QED
      BY <2>3, <3>1, <3>2, <3>3 DEF CallInv, Climbing, Making, Outcome
  <2>7. CallInv(x)
    BY <1>0, <2>4, <2>5, <2>6
  <2> QED
    BY <1>1, <2>1, <2>2, <2>3, <2>7
<1>4. CASE CheckMissing(p)
  <2> DEFINE f == c.failed \/ Exists(s, k)
             x == Moved(c, "check", k - 1, f)
  <2>1. kind' = kind /\ c.st = "check"
    BY <1>4 DEF CheckMissing
  <2>2. call' = [call EXCEPT ![p] = x]
    BY <1>0, <1>4 DEF CheckMissing, CallRec, Moved
  <2>3. f \in BOOLEAN /\ (~f => ~Exists(s, k)) /\ (c.failed => f)
    OBVIOUS
  <2> HIDE DEF f
  <2>4. /\ x \in CallRec
        /\ x.st = "check" /\ x.at = k - 1 /\ x.failed = f
        /\ x.path = s /\ x.raced = c.raced
    BY <1>0, <2>3, MovedRecord DEF CallSt
  <2>5. k <= Len(s)
    BY <2>1 DEF DirInv, CallInv, Climbing
  <2> HIDE DEF x
  <2>6. Lacking(x, k)
    <3>1. ASSUME ~f PROVE \E i \in 1 .. k : kind[Lev(s, i)] # "dir"
      <4>1. PICK i \in 0 .. k : kind[Lev(s, i)] # "dir"
        BY <2>3, <3>1 DEF Exists
      <4>2. i # 0
        BY <4>1 DEF DirInv, Chain, Lev
      <4> QED
        BY <1>0, <4>1, <4>2
    <3> QED
      BY <2>4, <3>1 DEF Lacking
  <2>7. CallInv(x)
    BY <1>0, <2>4, <2>5, <2>6 DEF CallInv, Climbing, Making, Outcome
  <2> QED
    BY <1>1, <2>1, <2>2, <2>4, <2>7
<1>5. CASE Mkdir(p)
  <2> DEFINE st == IF k = Len(s) THEN "returned" ELSE "mkdir"
             l  == Lev(s, k)
  <2>1. /\ c.st = "mkdir" /\ Named(s, k) /\ kind[l] = "none" /\ Exists(s, k - 1)
        /\ kind' = [kind EXCEPT ![l] = "dir"]
        /\ k <= Len(s)
    BY <1>5 DEF Mkdir, CanMake, DirInv, CallInv, Making
  <2>2. k \in 1 .. Len(s) /\ l \in 1 .. Depth /\ Lev(s, k - 1) = l - 1
    BY <1>0, <2>1, DirAssumption DEF Named
  <2>3. call'[p] = Moved(c, st, k + 1, c.failed)
    BY <1>0, <1>5 DEF Mkdir, CallRec, Moved
  <2>4. /\ \A q \in Maker : q # p =>
             call'[q] = [call[q] EXCEPT !.raced = @ \/ On(l, call[q].path)]
        /\ call' = [q \in Maker |-> call'[q]]
    BY <1>5 DEF Mkdir
  <2>5. /\ call'[p] \in CallRec
        /\ call'[p].st = st /\ call'[p].at = k + 1
        /\ call'[p].failed = c.failed
        /\ call'[p].path = s /\ call'[p].raced = c.raced
    BY <1>0, <2>3, MovedRecord DEF CallSt
  <2>6. \A j \in 0 .. Depth : kind'[j] = IF j = l THEN "dir" ELSE kind[j]
    BY <2>1, <2>2 DEF DirInv, DirTypes
  <2>7. (DirTypes /\ Chain)'
    <3>1. call' \in [Maker -> CallRec]
      <4>1. \A q \in Maker : q # p => call'[q] \in CallRec
        <5> SUFFICES ASSUME NEW q \in Maker, q # p PROVE call'[q] \in CallRec
          OBVIOUS
        <5> DEFINE f == call[q].raced \/ On(l, call[q].path)
        <5>1. f \in BOOLEAN /\ call[q] \in CallRec
          BY DEF DirInv, DirTypes
        <5>2. call'[q] = [call[q] EXCEPT !.raced = f]
          BY <2>4, <5>1 DEF CallRec
        <5> HIDE DEF f
        <5> QED
          BY <5>1, <5>2, RacedRecord
      <4> QED
        BY <2>4, <2>5, <4>1
    <3>2. kind' \in [0 .. Depth -> {"none", "dir", "file"}]
      BY <2>1 DEF DirInv, DirTypes
    <3>3. kind[l - 1] = "dir"
      BY <1>0, <2>1, <2>2 DEF Exists
    <3>4. \A j \in 0 .. l - 1 : kind[j] = "dir"
      BY <2>2, <3>3, DirAssumption DEF DirInv, Chain
    <3>5. Chain'
      BY <2>2, <2>6, <3>4, DirAssumption DEF DirInv, Chain
    <3> QED
      BY <3>1, <3>2, <3>5 DEF DirTypes
  <2>8. CallInv(call[p])'
    <3>1. \A i \in 0 .. k : kind'[Lev(s, i)] = "dir"
      BY <1>0, <2>1, <2>2, <2>6 DEF Exists
    <3>2. CASE k = Len(s)
      BY <2>5, <3>1, <3>2 DEF CallInv, Climbing, Making, Outcome, Exists
    <3>3. CASE k # Len(s)
      <4>1. k + 1 <= Len(s) /\ k + 1 - 1 = k
        BY <1>0, <2>1, <3>3
      <4>2. ~Named(s, k + 1) \/ kind'[Lev(s, k + 1)] # "dir"
        <5>1. ASSUME Named(s, k + 1) PROVE kind'[Lev(s, k + 1)] # "dir"
          <6>1. Lev(s, k + 1) = l + 1 /\ l + 1 \in 1 .. Depth
            BY <1>0, <2>2, <4>1, <5>1, DirAssumption DEF Named
          <6>2. kind[l + 1] = "none"
            BY <2>1, <2>2, <6>1 DEF DirInv, Chain
          <6> QED
            BY <2>2, <2>6, <6>1, <6>2
        <5> QED
          BY <5>1
      <4>3. /\ call'[p].st = "mkdir"
            /\ call'[p].at <= Len(call'[p].path)
            /\ \A i \in 0 .. call'[p].at - 1 : kind'[Lev(call'[p].path, i)] = "dir"
            /\ \/ ~Named(call'[p].path, call'[p].at)
               \/ kind'[Lev(call'[p].path, call'[p].at)] # "dir"
        <5>1. call'[p].at - 1 = k /\ call'[p].at = k + 1 /\ call'[p].path = s
          BY <1>0, <2>5
        <5> QED
          BY <2>5, <3>1, <3>3, <4>1, <4>2, <5>1
      <4> QED
        BY <4>3 DEF CallInv, Climbing, Making, Outcome, Exists, Blocked
    <3> QED
      BY <3>2, <3>3
  <2>9. ASSUME NEW q \in Maker, q # p PROVE CallInv(call[q])'
    <3> DEFINE d == call[q]
               f == call[q].raced \/ On(l, call[q].path)
    <3>1. /\ d \in CallRec /\ d.at \in Int /\ d.path \in Path /\ CallInv(d)
          /\ Len(d.path) \in Nat /\ DOMAIN d.path = 1 .. Len(d.path)
          /\ \A i \in Int : i <= Len(d.path) => Lev(d.path, i) \in 0 .. Depth
      BY PathLevels DEF DirInv, DirTypes, CallRec
    <3>2. /\ call'[q].raced = f
          /\ call'[q].st = d.st /\ call'[q].at = d.at
          /\ call'[q].failed = d.failed /\ call'[q].path = d.path
      <4>1. f \in BOOLEAN /\ call'[q] = [d EXCEPT !.raced = f]
        BY <2>4, <2>9, <3>1 DEF CallRec
      <4> HIDE DEF f
      <4> QED
        BY <3>1, <4>1, RacedRecord
    <3>3. \A i \in 1 .. Len(d.path) : Lev(d.path, i) = l => f
      BY <3>1 DEF On, Lev
    <3>4. d.raced => f
      OBVIOUS
    <3> HIDE DEF f
    <3>5. \A i \in Int : i <= Len(d.path) /\ kind[Lev(d.path, i)] = "dir" =>
            kind'[Lev(d.path, i)] = "dir"
      BY <2>6, <3>1
    <3>6. \A i \in Int : i <= Len(d.path) /\ kind[Lev(d.path, i)] = "file" =>
            kind'[Lev(d.path, i)] = "file"
      BY <2>1, <2>6, <3>1
    <3>7. \A i \in 1 .. Len(d.path) :
            kind[Lev(d.path, i)] # "dir" => f \/ kind'[Lev(d.path, i)] # "dir"
      BY <2>6, <3>1, <3>3
    <3>8. Climbing(call[q])'
      BY <3>1, <3>2, <3>4, <3>7 DEF CallInv, Climbing, Lacking
    <3>9. Making(call[q])'
      BY <3>1, <3>2, <3>4, <3>5, <3>7 DEF CallInv, Making, Exists, Blocked, Named
    <3>10. Outcome(call[q])'
      <4>1. d.st = "returned" => \A i \in 0 .. Len(d.path) : kind'[Lev(d.path, i)] = "dir"
        BY <3>1, <3>5 DEF CallInv, Outcome, Exists
      <4>2. ASSUME d.st = "threw", ~d.failed
            PROVE  kind'[Lev(d.path, d.at)] = "file" \/ ~Named(d.path, d.at) \/ f
        BY <3>1, <3>4, <3>6, <4>2 DEF CallInv, Outcome
      <4> QED
        BY <3>1, <3>2, <4>1, <4>2 DEF CallInv, Outcome, Exists
    <3> QED
      BY <3>8, <3>9, <3>10 DEF CallInv
  <2> QED
    BY <2>7, <2>8, <2>9 DEF DirInv
<1>6. CASE MkdirFails(p)
  <2> DEFINE f == c.failed \/ CanMake(s, k)
             x == Moved(c, "threw", k, f)
  <2>1. kind' = kind /\ c.st = "mkdir"
    BY <1>6 DEF MkdirFails
  <2>2. call' = [call EXCEPT ![p] = x]
    BY <1>0, <1>6 DEF MkdirFails, CallRec, Moved
  <2>3. f \in BOOLEAN /\ (~f => ~CanMake(s, k) /\ ~c.failed)
    OBVIOUS
  <2> HIDE DEF f
  <2>4. /\ x \in CallRec
        /\ x.st = "threw" /\ x.at = k /\ x.failed = f
        /\ x.path = s /\ x.raced = c.raced
    BY <1>0, <2>3, MovedRecord DEF CallSt
  <2>5. k <= Len(s) /\ Exists(s, k - 1) /\ Blocked(c, k)
    BY <2>1 DEF DirInv, CallInv, Making
  <2> HIDE DEF x
  <2>6. ~f => kind[Lev(s, k)] = "file" \/ ~Named(s, k) \/ c.raced
    <3>1. kind[Lev(s, k)] \in {"none", "dir", "file"}
      BY <1>0, <2>5 DEF DirInv, DirTypes
    <3> QED
      BY <2>3, <2>5, <3>1 DEF CanMake, Blocked
  <2>7. CallInv(x)
    BY <2>4, <2>5, <2>6 DEF CallInv, Climbing, Making, Outcome
  <2> QED
    BY <1>1, <2>1, <2>2, <2>4, <2>7
<1> QED
  BY <1>2, <1>3, <1>4, <1>5, <1>6

\* mkdir_p returns only when the whole path is there, and throws only for a
\* failed system call, a file in the way, a "." or ".." in the missing part of
\* the path, or a directory of the path that another process made during the
\* call.
THEOREM MkdirIsHonest == DirSpec => []MkdirOutcome
<1>1. DirInit => DirInv
  <2> SUFFICES ASSUME DirInit PROVE DirInv
    OBVIOUS
  <2>1. <<>> \in Path
    BY DirAssumption DEF Path
  <2>2. Call_p(<<>>) \in CallRec
    BY <2>1 DEF CallRec, CallSt, Call_p
  <2>3. [Call_p(<<>>) EXCEPT !.st = "returned"] \in CallRec
    BY <2>2 DEF CallRec, CallSt
  <2>4. DirTypes /\ Chain
    BY <2>3, DirAssumption DEF DirInit, DirTypes, Chain
  <2>5. \A p \in Maker : call[p].st = "returned" /\ call[p].path = <<>>
    BY DEF DirInit, Call_p
  <2> QED
    BY <2>4, <2>5 DEF DirInv, Chain, CallInv, Climbing, Making, Outcome, Exists, Lev
<1>2. DirInv /\ UNCHANGED dirVars => DirInv'
  BY DEF dirVars, DirInv, DirTypes, Chain, CallInv, Climbing, Making, Outcome,
         Lacking, Blocked, Exists
<1>3. DirInv /\ [DirNext]_dirVars => DirInv'
  BY <1>2, DirStep
<1>4. DirInv => MkdirOutcome
  BY DEF DirInv, CallInv, Outcome, Exists, MkdirOutcome
<1> QED
  BY <1>1, <1>3, <1>4, PTL DEF DirSpec

-----------------------------------------------------------------------------
(* readExact, writeExact and their _nt versions *)

IOCall == [st : {"idle", "loop", "closed"}, nt : BOOLEAN, count : Nat, soFar : Nat,
           succ : Nat]

\* The count of a call: within what was asked for, reported by the _nt versions,
\* and 0 outside a call.
Counts(c) ==
  /\ c \in IOCall
  /\ c.soFar <= c.count
  /\ c.nt => c.succ = c.soFar
  /\ c.st # "loop" => c.count = 0

\* The bytes of s are the ones that follow byte k of the stream.
Follows(s, k) == \A i \in 1 .. Len(s) : s[i] = k + i

\* The first r bytes of b are the ones that follow byte k.
Begins(b, r, k) == \A i \in 1 .. r : b[i] = k + i

IOTypes ==
  /\ pipe \in Seq(Nat) /\ data \in Seq(Nat) /\ buf \in Seq(Nat)
  /\ sent \in Nat
  /\ Counts(wr) /\ Counts(rd)
  /\ Len(buf) = rd.count

\* The stream from the reader's end to the writer's, byte by byte.
Stream ==
  /\ Follows(data, 0)
  /\ rd.st # "closed" =>
       /\ Begins(buf, rd.soFar, Len(data))
       /\ Follows(pipe, Len(data) + rd.soFar)
       /\ wr.st # "closed" => Len(data) + rd.soFar + Len(pipe) = sent + wr.soFar

IOInv == IOTypes /\ Stream

\* A call begins with nothing transferred and ends without a count.
LEMMA CallCounts ==
  /\ \A nt \in BOOLEAN, n \in Nat :
       /\ Counts(Call(nt, n))
       /\ Call(nt, n).st = "loop" /\ Call(nt, n).soFar = 0 /\ Call(nt, n).count = n
  /\ Counts(NoCall) /\ NoCall.st = "idle" /\ NoCall.count = 0 /\ NoCall.soFar = 0
  /\ Counts(GivenUp) /\ GivenUp.st = "closed" /\ GivenUp.count = 0 /\ GivenUp.soFar = 0
<1>1. ASSUME NEW nt \in BOOLEAN, NEW n \in Nat
      PROVE  /\ Counts(Call(nt, n))
             /\ Call(nt, n).st = "loop" /\ Call(nt, n).soFar = 0 /\ Call(nt, n).count = n
  BY DEF Call, Counts, IOCall
<1>2. Counts(NoCall) /\ NoCall.st = "idle" /\ NoCall.count = 0 /\ NoCall.soFar = 0
  BY DEF NoCall, Counts, IOCall
<1>3. Counts(GivenUp) /\ GivenUp.st = "closed" /\ GivenUp.count = 0 /\ GivenUp.soFar = 0
  <2>1. /\ NoCall \in IOCall /\ ~NoCall.nt
        /\ NoCall.count = 0 /\ NoCall.soFar = 0 /\ NoCall.succ = 0
    BY DEF NoCall, IOCall
  <2>2. /\ GivenUp \in IOCall /\ GivenUp.nt = NoCall.nt
        /\ GivenUp.st = "closed" /\ GivenUp.count = 0 /\ GivenUp.soFar = 0
    BY <2>1 DEF GivenUp, IOCall
  <2> QED
    BY <2>1, <2>2 DEF Counts
<1> QED
  BY <1>1, <1>2, <1>3

\* A transfer of n bytes is counted and reported.
LEMMA AdvancedCounts ==
  ASSUME NEW c, Counts(c), NEW n \in Nat, c.soFar + n <= c.count, c.st = "loop"
  PROVE  /\ Counts(Advanced(c, n))
         /\ Advanced(c, n).st = "loop"
         /\ Advanced(c, n).count = c.count
         /\ Advanced(c, n).soFar = c.soFar + n
<1> DEFINE m == IF c.nt THEN c.soFar + n ELSE c.succ
<1>1. c \in IOCall /\ c.soFar \in Nat /\ c.count \in Nat
  BY DEF Counts, IOCall
<1>2. m \in Nat /\ (c.nt => m = c.soFar + n)
  BY <1>1 DEF IOCall
<1>3. Advanced(c, n) = [c EXCEPT !.soFar = @ + n, !.succ = m]
  BY <1>1 DEF Advanced, IOCall
<1> HIDE DEF m
<1>4. Advanced(c, n) \in IOCall
  <2> DEFINE d == [c EXCEPT !.soFar = @ + n]
  <2>1. d \in IOCall
    BY <1>1 DEF IOCall
  <2>2. Advanced(c, n) = [d EXCEPT !.succ = m]
    BY <1>1, <1>3 DEF IOCall
  <2> HIDE DEF d
  <2> QED
    BY <1>2, <2>1, <2>2 DEF IOCall
<1>5. /\ Advanced(c, n).st = c.st
      /\ Advanced(c, n).nt = c.nt
      /\ Advanced(c, n).count = c.count
      /\ Advanced(c, n).soFar = c.soFar + n
      /\ Advanced(c, n).succ = m
  BY <1>1, <1>2, <1>3 DEF IOCall
<1> QED
  BY <1>1, <1>2, <1>4, <1>5 DEF Counts

\* Bytes that follow each other still do when they are joined.
LEMMA FollowsConcat ==
  ASSUME NEW s \in Seq(Nat), NEW t \in Seq(Nat), NEW k \in Nat,
         Follows(s, k), Follows(t, k + Len(s))
  PROVE  s \o t \in Seq(Nat) /\ Len(s \o t) = Len(s) + Len(t) /\ Follows(s \o t, k)
BY ConcatProperties DEF Follows

\* Nothing has been read into a new buffer.
LEMMA BeginsEmpty == \A b, k : Begins(b, 0, k)
BY DEF Begins

\* The first n bytes of a buffer.
LEMMA Prefix ==
  ASSUME NEW s \in Seq(Nat), NEW n \in 0 .. Len(s)
  PROVE  /\ SubSeq(s, 1, n) \in Seq(Nat)
         /\ Len(SubSeq(s, 1, n)) = n
         /\ \A i \in 1 .. n : SubSeq(s, 1, n)[i] = s[i]
BY SubSeqProperties

\* Without its first n bytes a sequence follows the byte n later.
LEMMA FollowsDrop ==
  ASSUME NEW s \in Seq(Nat), NEW n \in 0 .. Len(s), NEW k \in Nat, Follows(s, k)
  PROVE  LET t == SubSeq(s, n + 1, Len(s)) IN
         t \in Seq(Nat) /\ Len(t) = Len(s) - n /\ Follows(t, k + n)
BY SubSeqProperties DEF Follows

\* What the reader has been given grows by the transferred part of its buffer.
LEMMA Given ==
  ASSUME IOInv, NEW s, rd.st # "closed",
         s = SubSeq(buf, 1, rd.soFar) \/ (s = buf /\ rd.soFar = rd.count)
  PROVE  /\ data \o s \in Seq(Nat)
         /\ Len(data \o s) = Len(data) + rd.soFar
         /\ Follows(data \o s, 0)
<1>1. rd.soFar \in 0 .. Len(buf)
  BY DEF IOInv, IOTypes, Counts, IOCall
<1>2. /\ s \in Seq(Nat) /\ Len(s) = rd.soFar
      /\ \A i \in 1 .. rd.soFar : s[i] = buf[i]
  BY <1>1, Prefix DEF IOInv, IOTypes
<1>3. Follows(s, 0 + Len(data))
  BY <1>2 DEF IOInv, IOTypes, Stream, Follows, Begins
<1> QED
  BY <1>2, <1>3, FollowsConcat DEF IOInv, IOTypes, Stream

\* A function on 1 .. n is a sequence of length n.
LEMMA FunIsSeq ==
  ASSUME NEW n \in Nat, NEW s \in [1 .. n -> Nat]
  PROVE  s \in Seq(Nat) /\ Len(s) = n
OBVIOUS

\* Buffer b after read(fd, b + r, ...) has put the first n bytes of s into it.
Filled(b, s, r, n) ==
  [i \in DOMAIN b |-> IF i > r /\ i <= r + n THEN s[i - r] ELSE b[i]]

\* The buffer then has the next n bytes of the stream, where they belong.
LEMMA FilledBuffer ==
  ASSUME NEW b \in Seq(Nat), NEW s \in Seq(Nat),
         NEW r \in Nat, NEW n \in Nat, NEW k \in Nat,
         n <= Len(s), r + n <= Len(b),
         Begins(b, r, k),
         Follows(s, k + r)
  PROVE  /\ Filled(b, s, r, n) \in Seq(Nat)
         /\ Len(Filled(b, s, r, n)) = Len(b)
         /\ Begins(Filled(b, s, r, n), r + n, k)
<1> DEFINE c == Filled(b, s, r, n)
<1>1. DOMAIN b = 1 .. Len(b) /\ Len(b) \in Nat /\ Len(s) \in Nat
  OBVIOUS
<1>2. ASSUME NEW i \in 1 .. Len(b), i > r, i <= r + n
      PROVE  s[i - r] = k + i
  <2>1. i - r \in 1 .. Len(s)
    BY <1>1, <1>2
  <2> QED
    BY <2>1 DEF Follows
<1>3. \A i \in 1 .. r + n : c[i] = k + i
  <2> SUFFICES ASSUME NEW i \in 1 .. r + n PROVE c[i] = k + i
    OBVIOUS
  <2>1. i \in DOMAIN b
    BY <1>1
  <2>2. CASE i > r
    BY <1>1, <1>2, <2>1, <2>2 DEF Filled
  <2>3. CASE ~(i > r)
    BY <2>1, <2>3 DEF Filled, Begins
  <2> QED
    BY <2>2, <2>3
<1>4. c \in [1 .. Len(b) -> Nat]
  <2>1. \A i \in 1 .. Len(b) : b[i] \in Nat
    OBVIOUS
  <2>2. \A i \in 1 .. Len(b) : i > r /\ i <= r + n => s[i - r] \in Nat
    BY <1>2
  <2> QED
    BY <1>1, <2>1, <2>2 DEF Filled
<1> QED
  BY <1>1, <1>3, <1>4, FunIsSeq DEF Begins

\* Every turn of the loops, every failure and every call keeps the stream.
LEMMA IOStep == IOInv /\ IONext => IOInv'
<1> SUFFICES ASSUME IOInv, IONext PROVE IOInv'
  OBVIOUS
<1>0. /\ rd.soFar \in 0 .. rd.count /\ rd.count \in Nat /\ Len(buf) = rd.count
      /\ wr.soFar \in 0 .. wr.count /\ wr.count \in Nat
      /\ rd.nt => rd.succ = rd.soFar
      /\ wr.nt => wr.succ = wr.soFar
      /\ rd.st = "idle" => rd.soFar = 0
      /\ wr.st = "idle" => wr.soFar = 0
      /\ sent \in Nat /\ Len(data) \in Nat /\ Len(pipe) \in Nat
      /\ pipe \in Seq(Nat) /\ data \in Seq(Nat) /\ buf \in Seq(Nat)
      /\ Counts(wr) /\ Counts(rd)
  BY DEF IOInv, IOTypes, Counts, IOCall
<1>1. CASE WriteCall
  <2>1. PICK nt \in BOOLEAN, n \in Nat : wr' = Call(nt, n)
    BY <1>1, IOAssumption DEF WriteCall
  <2>2. Counts(wr') /\ wr'.st = "loop" /\ wr'.soFar = 0
    BY <2>1, CallCounts
  <2> QED
    BY <1>0, <1>1, <2>2 DEF WriteCall, IOInv, IOTypes, Stream
<1>2. CASE Write
  <2>1. PICK n \in 1 .. wr.count - wr.soFar :
          /\ pipe' = pipe \o [i \in 1 .. n |-> sent + wr.soFar + i]
          /\ wr' = Advanced(wr, n)
    BY <1>2 DEF Write
  <2> DEFINE s == [i \in 1 .. n |-> sent + wr.soFar + i]
  <2>2. wr.st = "loop" /\ UNCHANGED <<rd, sent, data, buf>>
    BY <1>2 DEF Write, Loops
  <2>3. Counts(wr') /\ wr'.st = "loop" /\ wr'.soFar = wr.soFar + n
    <3>1. n \in Nat /\ wr.soFar + n <= wr.count
      BY <1>0
    <3> QED
      BY <1>0, <2>1, <2>2, <3>1, AdvancedCounts
  <2>4. s \in Seq(Nat) /\ Len(s) = n
    <3>1. s \in [1 .. n -> Nat] /\ n \in Nat
      BY <1>0
    <3> QED
      BY <3>1, FunIsSeq
  <2>5. Follows(s, sent + wr.soFar)
    BY <2>4 DEF Follows
  <2>6. pipe' = pipe \o s
    BY <2>1
  <2> HIDE DEF s
  <2>7. pipe' \in Seq(Nat) /\ Len(pipe') = Len(pipe) + n
    BY <1>0, <2>4, <2>6, ConcatProperties
  <2>8. ASSUME rd.st # "closed" PROVE Follows(pipe', Len(data) + rd.soFar)
    <3>1. /\ Len(data) + rd.soFar + Len(pipe) = sent + wr.soFar
          /\ Follows(pipe, Len(data) + rd.soFar)
          /\ Len(data) + rd.soFar \in Nat
      BY <1>0, <2>2, <2>8 DEF IOInv, Stream
    <3>2. Follows(s, Len(data) + rd.soFar + Len(pipe))
      BY <2>5, <3>1
    <3> QED
      BY <1>0, <2>4, <2>6, <3>1, <3>2, FollowsConcat
  <2>9. IOTypes'
    BY <1>0, <2>2, <2>3, <2>7 DEF IOTypes
  <2>10. ASSUME rd.st # "closed"
         PROVE  Len(data) + rd.soFar + Len(pipe') = sent + wr'.soFar
    <3> DEFINE d == Len(data)
               r == rd.soFar
               m == Len(pipe)
               w == wr.soFar
    <3>1. d + r + m = sent + w
      BY <2>2, <2>10 DEF IOInv, Stream
    <3>2. d \in Nat /\ r \in Nat /\ m \in Nat /\ w \in Nat /\ sent \in Nat /\ n \in Nat
      BY <1>0
    <3> HIDE DEF d, r, m, w
    <3>3. d + r + (m + n) = sent + (w + n)
      BY <3>1, <3>2
    <3> QED
      BY <2>3, <2>7, <3>3 DEF d, r, m, w
  <2>11. Stream'
    BY <2>2, <2>8, <2>10 DEF IOInv, Stream
  <2> QED
    BY <2>9, <2>11 DEF IOInv
<1>3. CASE WriteFails
  BY <1>0, <1>3, CallCounts DEF WriteFails, IOInv, IOTypes, Stream, Loops
<1>4. CASE WriteReturns
  BY <1>0, <1>4, CallCounts DEF WriteReturns, IOInv, IOTypes, Stream, Ends
<1>5. CASE WriterCloses
  BY <1>0, <1>5, CallCounts DEF WriterCloses, IOInv, IOTypes, Stream
<1>6. CASE ReadCall
  <2>1. PICK nt \in BOOLEAN, n \in Nat :
          rd' = Call(nt, n) /\ buf' = [i \in 1 .. n |-> 0]
    BY <1>6, IOAssumption DEF ReadCall
  <2>2. Counts(rd') /\ rd'.st = "loop" /\ rd'.soFar = 0 /\ rd'.count = n
    BY <2>1, CallCounts
  <2>3. buf' \in Seq(Nat) /\ Len(buf') = n
    BY <2>1, FunIsSeq
  <2> QED
    BY <1>0, <1>6, <2>2, <2>3, BeginsEmpty DEF ReadCall, IOInv, IOTypes, Stream
<1>7. CASE Read
  <2>1. PICK n \in 1 .. rd.count - rd.soFar :
          /\ n <= Len(pipe)
          /\ buf' = [i \in DOMAIN buf |->
                       IF i > rd.soFar /\ i <= rd.soFar + n
                       THEN pipe[i - rd.soFar] ELSE buf[i]]
          /\ pipe' = SubSeq(pipe, n + 1, Len(pipe))
          /\ rd' = Advanced(rd, n)
    BY <1>7 DEF Read
  <2>2. rd.st = "loop" /\ UNCHANGED <<wr, sent, data>>
    BY <1>7 DEF Read, Loops
  <2>3. /\ Counts(rd') /\ rd'.st = "loop" /\ rd'.soFar = rd.soFar + n
        /\ rd'.count = rd.count
    <3>1. n \in Nat /\ rd.soFar + n <= rd.count
      BY <1>0
    <3> QED
      BY <1>0, <2>1, <2>2, <3>1, AdvancedCounts
  <2>4. /\ Begins(buf, rd.soFar, Len(data))
        /\ Follows(pipe, Len(data) + rd.soFar)
    BY <2>2 DEF IOInv, Stream
  <2>5. buf' = Filled(buf, pipe, rd.soFar, n)
    BY <2>1 DEF Filled
  <2>6. /\ buf' \in Seq(Nat) /\ Len(buf') = Len(buf)
        /\ Begins(buf', rd.soFar + n, Len(data))
    <3>1. n \in Nat /\ n <= Len(pipe) /\ rd.soFar + n <= Len(buf)
      BY <1>0, <2>1
    <3>2. buf \in Seq(Nat) /\ pipe \in Seq(Nat) /\ rd.soFar \in Nat /\ Len(data) \in Nat
      BY <1>0
    <3>3. /\ Filled(buf, pipe, rd.soFar, n) \in Seq(Nat)
          /\ Len(Filled(buf, pipe, rd.soFar, n)) = Len(buf)
          /\ Begins(Filled(buf, pipe, rd.soFar, n), rd.soFar + n, Len(data))
      BY <2>4, <3>1, <3>2, FilledBuffer
    <3> QED
      BY <2>5, <3>3
  <2>7. /\ pipe' \in Seq(Nat) /\ Len(pipe') = Len(pipe) - n
        /\ Follows(pipe', Len(data) + rd.soFar + n)
    <3>1. n <= Len(pipe)
      BY <2>1
    <3>2. Len(pipe) \in Nat /\ Len(data) \in Nat /\ rd.soFar \in Nat /\ rd.count \in Nat
      BY <1>0
    <3>3. n \in 0 .. Len(pipe) /\ Len(data) + rd.soFar \in Nat
      BY <3>1, <3>2
    <3> QED
      BY <1>0, <2>1, <2>4, <3>3, FollowsDrop
  <2>8. IOTypes'
    BY <1>0, <2>2, <2>3, <2>6, <2>7 DEF IOTypes
  <2>9. Stream'
    <3>1. /\ Len(data) + (rd.soFar + n) = Len(data) + rd.soFar + n
          /\ Len(data) + (rd.soFar + n) + (Len(pipe) - n) = Len(data) + rd.soFar + Len(pipe)
      BY <1>0
    <3> QED
      BY <2>2, <2>3, <2>6, <2>7, <3>1 DEF IOInv, Stream
  <2> QED
    BY <2>8, <2>9 DEF IOInv
<1>8. CASE ReadEOF
  BY <1>0, <1>8, Given, CallCounts
     DEF ReadEOF, Salvaged, IOInv, IOTypes, Stream, Loops
<1>9. CASE ReadFails
  <2>1. CASE ~rd.nt
    BY <1>0, <1>9, <2>1, CallCounts DEF ReadFails, IOInv, IOTypes, Stream
  <2>2. CASE rd.nt
    <3>1. /\ rd.st = "loop" /\ rd' = NoCall /\ buf' = <<>>
          /\ data' = data \o SubSeq(buf, 1, rd.soFar)
          /\ UNCHANGED <<pipe, wr, sent>>
      BY <1>0, <1>9, <2>2 DEF ReadFails, Salvaged, Loops
    <3>2. data' \in Seq(Nat) /\ Len(data') = Len(data) + rd.soFar /\ Follows(data', 0)
      BY <3>1, Given
    <3> QED
      BY <1>0, <3>1, <3>2, CallCounts, BeginsEmpty DEF IOInv, IOTypes, Stream
  <2> QED
    BY <2>1, <2>2
<1>10. CASE ReadReturns
  <2>1. /\ rd.st = "loop" /\ rd.soFar = rd.count
        /\ rd' = NoCall /\ data' = data \o buf /\ buf' = <<>>
        /\ UNCHANGED <<pipe, wr, sent>>
    BY <1>10 DEF ReadReturns, Ends
  <2>2. data' \in Seq(Nat) /\ Len(data') = Len(data) + rd.soFar /\ Follows(data', 0)
    BY <2>1, Given
  <2> QED
    BY <1>0, <2>1, <2>2, CallCounts, BeginsEmpty DEF IOInv, IOTypes, Stream
<1> QED
  BY <1>1, <1>2, <1>3, <1>4, <1>5, <1>6, <1>7, <1>8, <1>9, <1>10 DEF IONext

\* A sequence that follows byte 0 is the sequence of its indices.
LEMMA FollowsZero ==
  ASSUME NEW s \in Seq(Nat), Follows(s, 0)
  PROVE  s = [i \in DOMAIN s |-> i]
<1>1. \A i \in DOMAIN s : s[i] = i
  BY DEF Follows
<1> QED
  BY <1>1

\* The byte-by-byte account is what StreamIntact says of the whole.
LEMMA StreamIsWhole == IOInv => StreamIntact
<1> SUFFICES ASSUME IOInv PROVE StreamIntact
  OBVIOUS
<1> DEFINE got == data \o SubSeq(buf, 1, rd.soFar)
           all == got \o pipe
<1>1. data = [i \in DOMAIN data |-> i]
  BY FollowsZero DEF IOInv, IOTypes, Stream
<1>2. ASSUME rd.st # "closed"
      PROVE  all = [i \in DOMAIN all |-> i] /\ Len(all) = Len(data) + rd.soFar + Len(pipe)
  <2>1. got \in Seq(Nat) /\ Len(got) = Len(data) + rd.soFar /\ Follows(got, 0)
    BY <1>2, Given
  <2> HIDE DEF got
  <2>2. pipe \in Seq(Nat) /\ Follows(pipe, 0 + Len(got))
    BY <1>2, <2>1 DEF IOInv, IOTypes, Stream, Counts, IOCall
  <2>3. all \in Seq(Nat) /\ Len(all) = Len(got) + Len(pipe) /\ Follows(all, 0)
    BY <2>1, <2>2, FollowsConcat
  <2> HIDE DEF all
  <2> QED
    BY <2>1, <2>3, FollowsZero
<1> QED
  BY <1>1, <1>2 DEF StreamIntact, IOInv, Stream

-----------------------------------------------------------------------------
\* readExact, writeExact and their _nt versions lose, double and move no byte,
\* through short transfers and failures in any turn of their loops.
THEOREM StreamIsIntact == IOSpec => []StreamIntact
<1>1. IOInit => IOInv
  BY CallCounts, BeginsEmpty DEF IOInit, IOInv, IOTypes, Stream, Follows
<1>2. IOInv /\ UNCHANGED ioVars => IOInv'
  BY DEF ioVars, IOInv, IOTypes, Stream
<1>3. IOInv /\ [IONext]_ioVars => IOInv'
  BY <1>2, IOStep
<1> QED
  BY <1>1, <1>3, StreamIsWhole, PTL DEF IOSpec
=============================================================================

-------------------------- MODULE ManagerLifecycle --------------------------
(***************************************************************************)
(* Birth and death of IPC::BufferManager (src/IPC_BufferManager.cpp):      *)
(* getInstance(), init(), initPointers() and ~BufferManager().  Processes  *)
(* find the manager's segment through a key in IPC_BUFFER_MANAGER_FILE;    *)
(* the first one creates it, the last one unlinks the file and removes the *)
(* segment.  init() holds a file lock, the destructor the mutex in the     *)
(* segment: nothing excludes one from the other.                           *)
(*                                                                         *)
(* System calls are steps.  They may fail, and a process may be killed     *)
(* between any two of them.  A process that has ended may start again.     *)
(* What the segment holds is the subject of BufferManager.tla.             *)
(***************************************************************************)
EXTENDS Integers, FiniteSets

CONSTANTS
  Proc,        \* processes
  NoProc,
  MaxGen,      \* bound: files and segments made over time
  MaxDeaths    \* bound: processes killed over time

ASSUME ConstAssumption ==
  /\ NoProc \notin Proc
  /\ IsFiniteSet(Proc)
  /\ MaxGen \in Nat
  /\ MaxDeaths \in Nat

Gen  == 1 .. MaxGen
NONE == 0       \* no file, no descriptor, empty file

VARIABLES
  name,        \* file that IPC_BUFFER_MANAGER_FILE names
  content,     \* content[f]: the segment whose key is in file f
  flock,       \* flock[f]: process with the file lock on f
  exists,      \* exists[s]: shmget finds segment s
  ref_count,   \* m_control->ref_count in segment s
  mtx,         \* mtx[s]: holder of the Mutex in segment s
  attached,    \* attached[s]: processes with segment s attached (shm_nattch)
  fd,          \* fd[p]: file that p's init() has open
  m_shmId,     \* m_shmId[p]: segment that p's instance uses
  pc,
  made,        \* number of files and of segments made so far
  deaths,      \* number of processes killed so far
  split,       \* history: something happened that may lead to two managers
  orphans      \* history: segments given up by a failure in a critical window

files == <<name, content, flock>>
segs  == <<exists, ref_count, mtx, attached>>
hist  == <<made, deaths, split, orphans>>
vars  == <<files, segs, fd, m_shmId, pc, hist>>

PCs == {"none", "opened", "reading", "create", "lookup", "attachNew",
        "attach", "control", "write", "count", "close", "ready", "broken",
        "explode", "leave", "unlock", "detachLast", "detach", "rmid", "gone",
        "dead"}

\* Between opening the file and having been counted in ref_count.
Initialising == {"opened", "reading", "create", "lookup", "attachNew",
                 "attach", "control", "write", "count"}

\* Counted in ref_count, and not yet in the destructor.
Ready == {"close", "ready"}

Init ==
  /\ name = NONE
  /\ content = [f \in Gen |-> NONE]
  /\ flock = [f \in Gen |-> NoProc]
  /\ exists = [s \in Gen |-> FALSE]
  /\ ref_count = [s \in Gen |-> 0]
  /\ mtx = [s \in Gen |-> NoProc]
  /\ attached = [s \in Gen |-> {}]
  /\ fd = [p \in Proc |-> NONE]
  /\ m_shmId = [p \in Proc |-> NONE]
  /\ pc = [p \in Proc |-> "none"]
  /\ made = [file |-> 0, seg |-> 0]
  /\ deaths = 0
  /\ split = FALSE
  /\ orphans = {}

Step(p, from, to) == pc[p] = from /\ pc' = [pc EXCEPT ![p] = to]

\* The file lock and the descriptor of p are released.
Closed(p) ==
  /\ flock' = [f \in Gen |-> IF flock[f] = p THEN NoProc ELSE flock[f]]
  /\ fd' = [fd EXCEPT ![p] = NONE]

Detached(p) == [s \in Gen |-> attached[s] \ {p}]

\* init() throws without m_mtx: the guards release the file, but instanceHolder
\* is already set and the next getInstance() returns the unusable instance.
Throws(p, from) ==
  /\ Step(p, from, "broken")
  /\ Closed(p)
  /\ UNCHANGED <<name, content, exists, ref_count, mtx, m_shmId, hist>>

-----------------------------------------------------------------------------
\* First getInstance() of a process; open(O_RDWR|O_CREAT) makes the file when
\* the name is free.
Open(p) ==
  /\ Step(p, "none", "opened")
  /\ \/ /\ name # NONE
        /\ fd' = [fd EXCEPT ![p] = name]
        /\ UNCHANGED <<name, made>>
     \/ /\ name = NONE
        /\ made.file < MaxGen
        /\ name' = made.file + 1
        /\ made' = [made EXCEPT !.file = @ + 1]
        /\ fd' = [fd EXCEPT ![p] = made.file + 1]
  /\ UNCHANGED <<content, flock, segs, m_shmId, deaths, split, orphans>>

\* Mutation of LockFile: no FileLock in init().
LockFileSkipped(p) ==
  /\ Step(p, "opened", "reading")
  /\ UNCHANGED <<files, segs, fd, m_shmId, hist>>

\* FileLock fdLock(*fd) and its guard: locks the file that was opened, whatever
\* the name designates by now.
LockFile(p) ==
  /\ Step(p, "opened", "reading")
  /\ flock[fd[p]] = NoProc
  /\ flock' = [flock EXCEPT ![fd[p]] = p]
  /\ UNCHANGED <<name, content, segs, fd, m_shmId, hist>>

\* System::read of the key; an empty file makes p the creator.
ReadKey(p) ==
  /\ Step(p, "reading", IF content[fd[p]] = NONE THEN "create" ELSE "lookup")
  /\ m_shmId' = [m_shmId EXCEPT ![p] = content[fd[p]]]
  /\ UNCHANGED <<files, segs, fd, hist>>

\* shmget(allocShmKey(), IPC_CREAT|IPC_EXCL).  The kernel zeroes the segment,
\* which is a LOCKED mutex: held by the creator until it is initialised.
ShmGetNew(p) ==
  /\ Step(p, "create", "attachNew")
  /\ made.seg < MaxGen
  /\ made' = [made EXCEPT !.seg = @ + 1]
  /\ m_shmId' = [m_shmId EXCEPT ![p] = made.seg + 1]
  /\ exists' = [exists EXCEPT ![made.seg + 1] = TRUE]
  /\ mtx' = [mtx EXCEPT ![made.seg + 1] = p]
  /\ UNCHANGED <<files, ref_count, attached, fd, deaths, split, orphans>>

\* open, fcntl, read or the creator's shmget fails, or the file holds junk.
InitThrows(p) ==
  \E from \in {"none", "opened", "reading", "create"} :
    Throws(p, from) /\ UNCHANGED attached

\* shmget(key) of an existing segment, which throws when it has been removed.
ShmGet(p) ==
  \/ /\ Step(p, "lookup", "attach")
     /\ exists[m_shmId[p]]
     /\ UNCHANGED <<files, segs, fd, m_shmId, hist>>
  \/ /\ Throws(p, "lookup")
     /\ UNCHANGED attached

\* shmat; by id it also works on a removed segment that others have attached.
ShmAt(p) ==
  /\ Step(p, "attachNew", "control") \/ Step(p, "attach", "count")
  /\ exists[m_shmId[p]] \/ attached[m_shmId[p]] # {}
  /\ attached' = [attached EXCEPT ![m_shmId[p]] = @ \cup {p}]
  /\ UNCHANGED <<files, exists, ref_count, mtx, fd, m_shmId, hist>>

\* shmat fails: a creator leaves a segment that no file will ever name.
ShmAtFails(p) ==
  \/ Throws(p, "attach") /\ UNCHANGED attached
  \/ /\ Step(p, "attachNew", "broken")
     /\ Closed(p)
     /\ orphans' = orphans \cup {m_shmId[p]}
     /\ UNCHANGED <<name, content, segs, m_shmId, made, deaths, split>>

\* The creator's half of initPointers, and initDescriptors.
InitControl(p) ==
  /\ Step(p, "control", "write")
  /\ mtx' = [mtx EXCEPT ![m_shmId[p]] = NoProc]
  /\ ref_count' = [ref_count EXCEPT ![m_shmId[p]] = 1]
  /\ UNCHANGED <<files, exists, attached, fd, m_shmId, hist>>

\* System::write of the key.  When it fails init() throws, but with m_mtx and
\* m_control set the instance works, in a segment that no file names.
WriteKey(p) ==
  \/ /\ Step(p, "write", "close")
     /\ content' = [content EXCEPT ![fd[p]] = m_shmId[p]]
     /\ UNCHANGED <<name, flock, segs, fd, m_shmId, hist>>
  \/ /\ Step(p, "write", "ready")
     /\ Closed(p)
     /\ split' = TRUE
     /\ UNCHANGED <<name, content, segs, m_shmId, made, deaths, orphans>>

\* The other half of initPointers: ++ref_count under the segment's mutex.
Count(p) ==
  /\ Step(p, "count", "close")
  /\ mtx[m_shmId[p]] = NoProc
  /\ ref_count' = [ref_count EXCEPT ![m_shmId[p]] = @ + 1]
  /\ UNCHANGED <<files, exists, mtx, attached, fd, m_shmId, hist>>

\* EINTR makes that lock() throw: init() fails with m_mtx set, and the instance
\* works without being counted.
CountInterrupted(p) ==
  /\ Step(p, "count", "ready")
  /\ mtx[m_shmId[p]] # NoProc
  /\ Closed(p)
  /\ split' = TRUE
  /\ UNCHANGED <<name, content, segs, m_shmId, made, deaths, orphans>>

\* End of init(): the file lock is released and the file closed.
CloseFile(p) ==
  /\ Step(p, "close", "ready")
  /\ Closed(p)
  /\ UNCHANGED <<name, content, segs, m_shmId, hist>>

-----------------------------------------------------------------------------
\* get_SysNumAttached.
NumAttached(s) == Cardinality(attached[s])

\* ~BufferManager up to its decision, with the mutex locked: the last counted
\* instance, or the only attached one, is to explode the manager.  Another
\* process that has the file open but is not yet counted goes unnoticed.
Destructor(p) ==
  LET s == m_shmId[p]
      last == ref_count[s] = 1 \/ NumAttached(s) = 1 IN
  /\ Step(p, "ready", IF last THEN "explode" ELSE "leave")
  /\ mtx[s] = NoProc
  /\ mtx' = [mtx EXCEPT ![s] = p]
  /\ ref_count' = [ref_count EXCEPT ![s] = @ - 1]
  /\ UNCHANGED <<files, exists, attached, fd, m_shmId, hist>>

\* Mutation of Unlink: the file is left.
UnlinkForgotten(p) ==
  /\ Step(p, "explode", "unlock")
  /\ UNCHANGED <<files, segs, fd, m_shmId, hist>>

\* unlink(IPC_BUFFER_MANAGER_FILE), by name.
Unlink(p) ==
  /\ Step(p, "explode", "unlock")
  /\ name' = NONE
  /\ split' = (split \/ \E q \in Proc \ {p} : pc[q] \in Initialising)
  /\ UNCHANGED <<content, flock, segs, fd, m_shmId, made, deaths, orphans>>

\* m_mtx->unlock() in either branch.
UnlockMtx(p) ==
  /\ Step(p, "unlock", "detachLast") \/ Step(p, "leave", "detach")
  /\ mtx' = [mtx EXCEPT ![m_shmId[p]] = NoProc]
  /\ UNCHANGED <<files, exists, ref_count, attached, fd, m_shmId, hist>>

\* shmdt in either branch.
ShmDt(p) ==
  /\ Step(p, "detachLast", "rmid") \/ Step(p, "detach", "gone")
  /\ attached' = Detached(p)
  /\ UNCHANGED <<files, exists, ref_count, mtx, fd, m_shmId, hist>>

\* Mutation of RmId: the segment is only detached.
RmIdForgotten(p) ==
  /\ Step(p, "rmid", "gone")
  /\ UNCHANGED <<files, segs, fd, m_shmId, hist>>

\* shmctl(m_shmId, IPC_RMID): the key is free, attached processes keep the
\* memory.
RmId(p) ==
  /\ Step(p, "rmid", "gone")
  /\ exists' = [exists EXCEPT ![m_shmId[p]] = FALSE]
  /\ UNCHANGED <<files, ref_count, mtx, attached, fd, m_shmId, hist>>

\* A process whose init() threw uses its instance, or destroys it at exit:
\* m_mtx is null and the process dies.
UseBroken(p) ==
  /\ Step(p, "broken", "dead")
  /\ attached' = Detached(p)
  /\ UNCHANGED <<files, exists, ref_count, mtx, fd, m_shmId, hist>>

\* The process is killed.  Its file is closed and its segment detached; a
\* segment without a name, or one that was to be removed, is given up.
Crash(p) ==
  /\ pc[p] \notin {"none", "broken", "gone", "dead"}
  /\ deaths < MaxDeaths
  /\ pc' = [pc EXCEPT ![p] = "dead"]
  /\ Closed(p)
  /\ attached' = Detached(p)
  /\ deaths' = deaths + 1
  /\ orphans' = IF pc[p] \in {"attachNew", "control", "write", "unlock",
                              "detachLast", "rmid"}
                THEN orphans \cup {m_shmId[p]} ELSE orphans
  /\ UNCHANGED <<name, content, exists, ref_count, mtx, m_shmId, made, split>>

\* A new process in the place of one that has ended.
Restart(p) ==
  /\ Step(p, "gone", "none") \/ Step(p, "dead", "none")
  /\ m_shmId' = [m_shmId EXCEPT ![p] = NONE]
  /\ UNCHANGED <<files, segs, fd, hist>>

Next ==
  \E p \in Proc :
    \/ InitThrows(p) \/ Open(p) \/ LockFile(p) \/ ReadKey(p)
    \/ ShmGetNew(p) \/ ShmGet(p)
    \/ ShmAt(p) \/ ShmAtFails(p) \/ InitControl(p) \/ WriteKey(p)
    \/ Count(p) \/ CountInterrupted(p) \/ CloseFile(p)
    \/ Destructor(p) \/ Unlink(p) \/ UnlockMtx(p) \/ ShmDt(p) \/ RmId(p)
    \/ UseBroken(p) \/ Crash(p) \/ Restart(p)

Spec == Init /\ [][Next]_vars

-----------------------------------------------------------------------------
(* Properties *)

\* The file never names a removed segment: ~BufferManager unlinks before it
\* removes, so whoever opens the name finds a manager that shmget can find,
\* whatever races and failures went before.
FileNamesLiveSegment ==
  name # NONE /\ content[name] # NONE => exists[content[name]]

\* All instances in use share the one segment that the file names, unless a
\* process was inside init() while the last instance unlinked the file, or a
\* creator failed to write the key: init() and ~BufferManager have no lock in
\* common, and these are the only ways to get two managers.
OneManager ==
  ~split =>
    \A p, q \in Proc :
      /\ pc[p] \in Ready /\ pc[q] \in Ready => m_shmId[p] = m_shmId[q]
      /\ pc[p] \in Ready => name # NONE /\ content[name] = m_shmId[p]

\* No manager's segment is lost: it is found by name, attached, about to be
\* removed, or was given up by a process that failed between shmget and writing
\* the key or between unlink and IPC_RMID.  Without deaths this holds even with
\* two managers (ref_count makes the last instance of each remove it); with one
\* manager, processes killed elsewhere are made up for by shm_nattch = 1 or by
\* the next process that attaches.
NoSegmentLeaked ==
  ~split \/ deaths = 0 =>
    \A s \in Gen \ orphans : exists[s] =>
      \/ name # NONE /\ content[name] = s
      \/ attached[s] # {}
      \/ \E p \in Proc : m_shmId[p] = s /\ pc[p] \in {"attachNew", "rmid"}

\* A key that has been written into a file is never replaced, although creators
\* die and fail after shmget and others create again, in the same file or in the
\* next one: who has read a key, or is about to, works with whoever wrote it.
KeyWrittenOnce ==
  [][\A f \in Gen : content[f] # NONE => content'[f] = content[f]]_vars
=============================================================================

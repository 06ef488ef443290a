----------------------------- MODULE FileMutex ------------------------------
(***************************************************************************)
(* IPC::FileMutex (src/IPC_FileMutex.cpp): processes that agree only on a  *)
(* file name meet on one futex word.  The constructor opens the file,      *)
(* takes a FileLock on it and reads a shared-memory key; the process that  *)
(* finds the file empty creates a segment, initialises the word in it and  *)
(* only then writes the key.                                               *)
(*                                                                         *)
(* System calls are steps of their own, any of which may fail, and a       *)
(* process may be killed between any two.  A constructor that throws       *)
(* unwinds (lock_guard, openAutoClose) and may be called again.  lock()    *)
(* and unlock() are the single steps of the abstract lock that Mutex       *)
(* implements.                                                             *)
(***************************************************************************)
EXTENDS Naturals, FiniteSets

CONSTANTS
  Proc,       \* processes, one FileMutex each, all on the same file
  NoProc,
  Key,        \* shared-memory keys getRandom may return
  NoKey,      \* content of the empty file, m_sharedMemKey = -1
  Foreign,    \* keys of segments that other programs created
  Mortal      \* processes that may be killed

ASSUME ConstAssumption ==
  /\ NoProc \notin Proc
  /\ NoKey \notin Key
  /\ Foreign \subseteq Key
  /\ Mortal \subseteq Proc

VARIABLES
  flock, m_locker,    \* the FileLock on the file
  fileKey,            \* content of the file
  word,               \* word[k]: first word of the segment with key k
  m_sharedMemKey,     \* m_sharedMemKey[p], the segment p's m_mtx points into
  pc

vars == <<flock, m_locker, fileKey, word, m_sharedMemKey, pc>>

FL == INSTANCE FileLock

LOCKED   == 0   \* also what the kernel fills a new segment with
UNLOCKED == 1
ABSENT   == 2   \* no segment has this key

PCs == {"none", "opened", "reading", "create", "init", "write", "attach",
        "close", "unwind", "ready", "locked", "crit", "dead"}

\* Control points between fdLock.lock() and the end of initUsingFile.
InInit == {"reading", "create", "init", "write", "attach", "close", "unwind"}

Init ==
  /\ FL!Init
  /\ fileKey = NoKey
  /\ word = [k \in Key |-> IF k \in Foreign THEN LOCKED ELSE ABSENT]
  /\ m_sharedMemKey = [p \in Proc |-> NoKey]
  /\ pc = [p \in Proc |-> "none"]

Step(p, from, to) == pc[p] = from /\ pc' = [pc EXCEPT ![p] = to]

-----------------------------------------------------------------------------
\* System::openAutoClose(m_filename, O_RDWR|O_CREAT): nobody removes the file,
\* so every process opens the same one.
Open(p) ==
  /\ Step(p, "none", "opened")
  /\ UNCHANGED <<flock, m_locker, fileKey, word, m_sharedMemKey>>

\* Mutation of LockFile: the file lock is not taken.
LockFileSkipped(p) ==
  /\ Step(p, "opened", "reading")
  /\ UNCHANGED <<flock, m_locker, fileKey, word, m_sharedMemKey>>

\* lock_guard<FileLock> g(fdLock).
LockFile(p) ==
  /\ Step(p, "opened", "reading")
  /\ FL!lock(p)
  /\ UNCHANGED <<fileKey, word, m_sharedMemKey>>

\* F_SETLKW fails (EINTR, EDEADLK): the constructor throws.
LockFileFails(p) ==
  /\ Step(p, "opened", "none")
  /\ UNCHANGED <<flock, m_locker, fileKey, word, m_sharedMemKey>>

\* System::read(*fd, &m_sharedMemKey, ...): an empty file makes p the creator; a
\* read that fails throws.
ReadKey(p) ==
  /\ \/ /\ Step(p, "reading", IF fileKey = NoKey THEN "create" ELSE "attach")
        /\ m_sharedMemKey' = [m_sharedMemKey EXCEPT ![p] = fileKey]
     \/ /\ Step(p, "reading", "unwind")
        /\ UNCHANGED m_sharedMemKey
  /\ UNCHANGED <<flock, m_locker, fileKey, word>>

\* Mutation of CreateSegment: shmget without IPC_EXCL.
CreateSegmentShared(p) ==
  /\ \E k \in Key :
       /\ m_sharedMemKey' = [m_sharedMemKey EXCEPT ![p] = k]
       /\ word' = [word EXCEPT ![k] = IF @ = ABSENT THEN LOCKED ELSE @]
       /\ Step(p, "create", "init") \/ Step(p, "create", "unwind")
  /\ UNCHANGED <<flock, m_locker, fileKey>>

\* initFutexStorage(getRandom(...), true): IPC_EXCL refuses a key in use; shmat
\* may fail after shmget has created the segment.
CreateSegment(p) ==
  /\ \E k \in Key :
       /\ m_sharedMemKey' = [m_sharedMemKey EXCEPT ![p] = k]
       /\ \/ /\ word[k] = ABSENT
             /\ word' = [word EXCEPT ![k] = LOCKED]
             /\ Step(p, "create", "init") \/ Step(p, "create", "unwind")
          \/ /\ word[k] # ABSENT
             /\ Step(p, "create", "unwind")
             /\ UNCHANGED word
  /\ UNCHANGED <<flock, m_locker, fileKey>>

\* Mutation of InitWord: the creator does not initialise the word.
InitWordForgotten(p) ==
  /\ Step(p, "init", "write")
  /\ UNCHANGED <<flock, m_locker, fileKey, word, m_sharedMemKey>>

\* m_mtx = new Mutex(futexPtr, true).
InitWord(p) ==
  /\ Step(p, "init", "write")
  /\ word' = [word EXCEPT ![m_sharedMemKey[p]] = UNLOCKED]
  /\ UNCHANGED <<flock, m_locker, fileKey, m_sharedMemKey>>

\* System::write(*fd, &m_sharedMemKey, ...), which throws when it fails.
WriteKey(p) ==
  /\ \/ /\ Step(p, "write", "close")
        /\ fileKey' = m_sharedMemKey[p]
     \/ /\ Step(p, "write", "unwind")
        /\ UNCHANGED fileKey
  /\ UNCHANGED <<flock, m_locker, word, m_sharedMemKey>>

\* Mutation of Attach: every constructor builds Mutex(futexPtr, true).
AttachReinit(p) ==
  /\ Step(p, "attach", "close")
  /\ word' = [word EXCEPT ![m_sharedMemKey[p]] = UNLOCKED]
  /\ UNCHANGED <<flock, m_locker, fileKey, m_sharedMemKey>>

\* initFutexStorage(m_sharedMemKey) and new Mutex(futexPtr, false); shmget finds
\* the segment or fails, shmat may fail.
Attach(p) ==
  /\ \/ /\ Step(p, "attach", "close")
        /\ word[m_sharedMemKey[p]] # ABSENT
     \/ Step(p, "attach", "unwind")
  /\ UNCHANGED <<flock, m_locker, fileKey, word, m_sharedMemKey>>

\* End of initUsingFile: the guard unlocks, the descriptor is closed.
CloseFile(p) ==
  /\ Step(p, "close", "ready")
  /\ FL!unlock(p)
  /\ UNCHANGED <<fileKey, word, m_sharedMemKey>>

\* Mutation of Unwind: the exception leaves the file locked.
UnwindKeepsLock(p) ==
  /\ Step(p, "unwind", "none")
  /\ m_sharedMemKey' = [m_sharedMemKey EXCEPT ![p] = NoKey]
  /\ UNCHANGED <<flock, m_locker, fileKey, word>>

\* The same on the way out of an exception: there is no object.
Unwind(p) ==
  /\ Step(p, "unwind", "none")
  /\ FL!unlock(p)
  /\ m_sharedMemKey' = [m_sharedMemKey EXCEPT ![p] = NoKey]
  /\ UNCHANGED <<fileKey, word>>

-----------------------------------------------------------------------------
\* lock(): m_mtx->lock() returns.
Lock(p) ==
  /\ Step(p, "ready", "locked")
  /\ word[m_sharedMemKey[p]] = UNLOCKED
  /\ word' = [word EXCEPT ![m_sharedMemKey[p]] = LOCKED]
  /\ UNCHANGED <<flock, m_locker, fileKey, m_sharedMemKey>>

\* unlock(): m_mtx->unlock().
Unlock(p) ==
  /\ \/ /\ Step(p, "locked", "ready")
        /\ word[m_sharedMemKey[p]] = LOCKED
        /\ word' = [word EXCEPT ![m_sharedMemKey[p]] = UNLOCKED]
     \/ /\ Step(p, "locked", "crit")
        /\ word[m_sharedMemKey[p]] # LOCKED
        /\ UNCHANGED word
  /\ UNCHANGED <<flock, m_locker, fileKey, m_sharedMemKey>>

\* Mutation of Destroy: the key outlives the object.
DestroyKeepsKey(p) ==
  /\ Step(p, "ready", "none")
  /\ UNCHANGED <<flock, m_locker, fileKey, word, m_sharedMemKey>>

\* ~FileMutex: shmdt only, the segment and the file stay for the others.
Destroy(p) ==
  /\ Step(p, "ready", "none")
  /\ m_sharedMemKey' = [m_sharedMemKey EXCEPT ![p] = NoKey]
  /\ UNCHANGED <<flock, m_locker, fileKey, word>>

\* The process is killed: the kernel drops its file lock, not the futex word.
Crash(p) ==
  /\ p \in Mortal
  /\ pc[p] \notin {"dead", "crit"}
  /\ pc' = [pc EXCEPT ![p] = "dead"]
  /\ FL!Died(p)
  /\ UNCHANGED <<fileKey, word, m_sharedMemKey>>

Next ==
  \E p \in Proc :
    \/ Open(p) \/ LockFile(p) \/ LockFileFails(p) \/ ReadKey(p)
    \/ CreateSegment(p) \/ InitWord(p) \/ WriteKey(p) \/ Attach(p)
    \/ CloseFile(p) \/ Unwind(p)
    \/ Lock(p) \/ Unlock(p) \/ Destroy(p) \/ Crash(p)

Spec == Init /\ [][Next]_vars

\* A running constructor goes on, and the kernel does not pass over a process
\* blocked in F_SETLKW for ever while the lock keeps becoming free.
Fairness ==
  \A p \in Proc :
    /\ SF_vars(LockFile(p))
    /\ WF_vars(ReadKey(p) \/ CreateSegment(p) \/ InitWord(p) \/ WriteKey(p)
               \/ Attach(p) \/ CloseFile(p) \/ Unwind(p))

FairSpec == Spec /\ Fairness

-----------------------------------------------------------------------------
TypeOK ==
  /\ FL!TypeOK
  /\ fileKey \in Key \cup {NoKey}
  /\ word \in [Key -> {LOCKED, UNLOCKED, ABSENT}]
  /\ m_sharedMemKey \in [Proc -> Key \cup {NoKey}]
  /\ pc \in [Proc -> PCs]
  /\ \A p \in Proc :
       pc[p] \in {"none", "opened", "reading"} => m_sharedMemKey[p] = NoKey

\* All constructed FileMutex objects point to the word of the one segment the
\* file names, whoever created it, failed or died on the way.
SameWord ==
  \A p \in Proc : pc[p] \in {"ready", "locked"} =>
    /\ fileKey # NoKey
    /\ m_sharedMemKey[p] = fileKey

\* At most one process is between lock() and unlock() of the mutex of the file.
MutualExclusion ==
  \A p, q \in Proc : pc[p] = "locked" /\ pc[q] = "locked" => p = q

\* unlock() never reaches its "IPC::Mutex CRIT" throw.
NeverCrit == \A p \in Proc : pc[p] # "crit"

\* The key in the file is the key of an existing segment whose word has been
\* initialised: LOCKED only on behalf of a holder, alive or dead, never because
\* nobody ever unlocked the zero-filled memory.
PublishedIsInitialised ==
  fileKey # NoKey =>
    /\ word[fileKey] # ABSENT
    /\ word[fileKey] = LOCKED => \E p \in Proc : pc[p] \in {"locked", "dead"}

\* Segments of other programs are never written.
ForeignUntouched == \A k \in Foreign : word[k] = LOCKED

\* A FileLock that believes it is locked has the kernel's lock.
LockerHasLock == \A p \in Proc : m_locker[p] => flock = p

\* A constructor waiting for the file lock gets past it although processes in
\* front of it fail or die inside initUsingFile.
InitNotBlocked == \A p \in Proc : pc[p] = "opened" ~> pc[p] # "opened"

-----------------------------------------------------------------------------
\* The FileMutex objects on one file implement one abstract lock.
AbsLock == INSTANCE AbstractLock WITH
  holders   <- {p \in Proc : pc[p] = "locked"},
  abandoned <- /\ fileKey # NoKey
               /\ word[fileKey] = LOCKED
               /\ \A p \in Proc : pc[p] # "locked"

LockSpec == AbsLock!Spec
=============================================================================

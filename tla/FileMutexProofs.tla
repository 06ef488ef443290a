-------------------------- MODULE FileMutexProofs ---------------------------
(***************************************************************************)
(* Proofs about IPC::FileMutex for any number of processes, keys, failures *)
(* and deaths.  The argument: between fdLock.lock() and its release a      *)
(* process owns the file lock, so at most one constructor is there at a    *)
(* time (OneInside); a creator has seen the file empty and the file stays  *)
(* empty until it writes (CreatorSawEmpty); the word is UNLOCKED when the  *)
(* key is written; hence whoever attaches does so to the published,        *)
(* initialised segment, and nobody initialises a word a second time.       *)
(***************************************************************************)
EXTENDS FileMutex, TLAPS

\* A constructor past fdLock.lock() owns the kernel's lock on the file.
OneInside == \A p \in Proc : pc[p] \in InInit => flock = p

\* A creator works on an empty file and on a segment of its own, whose word is
\* UNLOCKED by the time it writes the key.
CreatorSawEmpty ==
  \A p \in Proc :
    /\ pc[p] \in {"create", "init", "write"} => fileKey = NoKey
    /\ pc[p] \in {"init", "write"} => m_sharedMemKey[p] \in Key \ Foreign
    /\ pc[p] = "write" => word[m_sharedMemKey[p]] = UNLOCKED

\* Whoever attaches, or has attached, does so to the published segment.
AttachedToPublished ==
  \A p \in Proc :
    pc[p] \in {"attach", "close", "ready", "locked", "crit"} =>
      fileKey # NoKey /\ m_sharedMemKey[p] = fileKey

\* A process between lock() and unlock() keeps the published word LOCKED.
HolderLocksWord ==
  \A p \in Proc : pc[p] = "locked" => word[fileKey] = LOCKED

\* The published segment is not a foreign one.
PublishedIsOurs == fileKey \notin Foreign

IInv ==
  /\ TypeOK /\ OneInside /\ CreatorSawEmpty /\ AttachedToPublished
  /\ HolderLocksWord /\ PublishedIsOurs /\ PublishedIsInitialised
  /\ MutualExclusion /\ NeverCrit /\ ForeignUntouched /\ LockerHasLock

-----------------------------------------------------------------------------
\* Every step keeps the types and leaves no key without an object.
LEMMA TypeStep == TypeOK /\ [Next]_vars => TypeOK'
<1> SUFFICES ASSUME TypeOK, [Next]_vars PROVE TypeOK'
  OBVIOUS
<1> USE ConstAssumption DEF TypeOK, PCs, Step, LOCKED, UNLOCKED, ABSENT,
        FL!TypeOK, FL!lock, FL!unlock, FL!Died, FL!Dropped
<1>1. ASSUME NEW p \in Proc, Open(p) PROVE TypeOK'
  BY <1>1 DEF Open
<1>2. ASSUME NEW p \in Proc, LockFile(p) PROVE TypeOK'
  BY <1>2 DEF LockFile
<1>3. ASSUME NEW p \in Proc, LockFileFails(p) PROVE TypeOK'
  BY <1>3 DEF LockFileFails
<1>4. ASSUME NEW p \in Proc, ReadKey(p) PROVE TypeOK'
  BY <1>4 DEF ReadKey
<1>5. ASSUME NEW p \in Proc, CreateSegment(p) PROVE TypeOK'
  BY <1>5 DEF CreateSegment
<1>6. ASSUME NEW p \in Proc, InitWord(p) PROVE TypeOK'
  BY <1>6 DEF InitWord
<1>7. ASSUME NEW p \in Proc, WriteKey(p) PROVE TypeOK'
  BY <1>7 DEF WriteKey
<1>8. ASSUME NEW p \in Proc, Attach(p) PROVE TypeOK'
  BY <1>8 DEF Attach
<1>9. ASSUME NEW p \in Proc, CloseFile(p) PROVE TypeOK'
  BY <1>9 DEF CloseFile
<1>10. ASSUME NEW p \in Proc, Unwind(p) PROVE TypeOK'
  BY <1>10 DEF Unwind
<1>11. ASSUME NEW p \in Proc, Lock(p) PROVE TypeOK'
  BY <1>11 DEF Lock
<1>12. ASSUME NEW p \in Proc, Unlock(p) PROVE TypeOK'
  BY <1>12 DEF Unlock
<1>13. ASSUME NEW p \in Proc, Destroy(p) PROVE TypeOK'
  BY <1>13 DEF Destroy
<1>14. ASSUME NEW p \in Proc, Crash(p) PROVE TypeOK'
  BY <1>14 DEF Crash
<1>15. CASE UNCHANGED vars
  BY <1>15 DEF vars
<1> QED
  BY <1>1, <1>2, <1>3, <1>4, <1>5, <1>6, <1>7, <1>8, <1>9, <1>10, <1>11,
     <1>12, <1>13, <1>14, <1>15 DEF Next

\* Every step of the constructor, of lock(), unlock() and the destructor, and
\* every death, keeps the inductive invariant.
LEMMA InductiveStep == IInv /\ [Next]_vars => IInv'
<1> SUFFICES ASSUME IInv, [Next]_vars PROVE IInv'
  OBVIOUS
<1>0. TypeOK'
  BY TypeStep DEF IInv
<1> DEFINE Rest ==
      /\ OneInside /\ CreatorSawEmpty /\ AttachedToPublished
      /\ HolderLocksWord /\ PublishedIsOurs /\ PublishedIsInitialised
      /\ MutualExclusion /\ NeverCrit /\ ForeignUntouched /\ LockerHasLock
<1> USE ConstAssumption
        DEF IInv, TypeOK, OneInside, CreatorSawEmpty, AttachedToPublished,
        HolderLocksWord, PublishedIsOurs, PublishedIsInitialised,
        MutualExclusion, NeverCrit, ForeignUntouched, LockerHasLock,
        PCs, InInit, Step, LOCKED, UNLOCKED, ABSENT,
        FL!TypeOK, FL!lock, FL!unlock, FL!Died, FL!Dropped
<1>1. ASSUME NEW p \in Proc, Open(p) PROVE Rest'
  BY <1>1 DEF Open
<1>2. ASSUME NEW p \in Proc, LockFile(p) PROVE Rest'
  BY <1>2 DEF LockFile
<1>3. ASSUME NEW p \in Proc, LockFileFails(p) PROVE Rest'
  BY <1>3 DEF LockFileFails
<1>4. ASSUME NEW p \in Proc, ReadKey(p) PROVE Rest'
  BY <1>4 DEF ReadKey
<1>5. ASSUME NEW p \in Proc, CreateSegment(p) PROVE Rest'
  BY <1>5 DEF CreateSegment
<1>6. ASSUME NEW p \in Proc, InitWord(p) PROVE Rest'
  BY <1>6 DEF InitWord
<1>7. ASSUME NEW p \in Proc, WriteKey(p) PROVE Rest'
  BY <1>7 DEF WriteKey
<1>8. ASSUME NEW p \in Proc, Attach(p) PROVE Rest'
  BY <1>8 DEF Attach
<1>9. ASSUME NEW p \in Proc, CloseFile(p) PROVE Rest'
  BY <1>9 DEF CloseFile
<1>10. ASSUME NEW p \in Proc, Unwind(p) PROVE Rest'
  BY <1>10 DEF Unwind
<1>11. ASSUME NEW p \in Proc, Lock(p) PROVE Rest'
  BY <1>11 DEF Lock
<1>12. ASSUME NEW p \in Proc, Unlock(p) PROVE Rest'
  BY <1>12 DEF Unlock
<1>13. ASSUME NEW p \in Proc, Destroy(p) PROVE Rest'
  BY <1>13 DEF Destroy
<1>14. ASSUME NEW p \in Proc, Crash(p) PROVE Rest'
  BY <1>14 DEF Crash
<1>15. CASE UNCHANGED vars
  BY <1>15 DEF vars
<1>16. Rest'
  BY <1>1, <1>2, <1>3, <1>4, <1>5, <1>6, <1>7, <1>8, <1>9, <1>10, <1>11,
     <1>12, <1>13, <1>14, <1>15 DEF Next
<1> QED
  BY <1>0, <1>16

\* The inductive invariant holds in every reachable state.
THEOREM Inductive == Spec => []IInv
<1>1. Init => IInv
  BY ConstAssumption
     DEF Init, FL!Init, IInv, TypeOK, FL!TypeOK, OneInside, CreatorSawEmpty,
     AttachedToPublished, HolderLocksWord, PublishedIsOurs,
     PublishedIsInitialised, MutualExclusion, NeverCrit, ForeignUntouched,
     LockerHasLock, PCs, InInit, LOCKED, UNLOCKED, ABSENT
<1> QED
  BY <1>1, InductiveStep, PTL DEF Spec

-----------------------------------------------------------------------------
\* Types, and a process without a FileMutex object remembers no key.
THEOREM TypeCorrect == Spec => []TypeOK
<1>1. IInv => TypeOK
  BY DEF IInv
<1> QED
  BY <1>1, Inductive, PTL

\* Every constructed FileMutex points to the word of the segment the file names.
THEOREM AllShareOneWord == Spec => []SameWord
<1>1. IInv => SameWord
  BY DEF IInv, AttachedToPublished, SameWord
<1> QED
  BY <1>1, Inductive, PTL

\* lock()/unlock() of FileMutex objects on one file exclude each other.
THEOREM FileMutexExcludes == Spec => []MutualExclusion
<1>1. IInv => MutualExclusion
  BY DEF IInv
<1> QED
  BY <1>1, Inductive, PTL

\* unlock() never throws "IPC::Mutex CRIT".
THEOREM UnlockNeverCrit == Spec => []NeverCrit
<1>1. IInv => NeverCrit
  BY DEF IInv
<1> QED
  BY <1>1, Inductive, PTL

\* A key is in the file only once its segment exists and is initialised.
THEOREM KeyPublishedLast == Spec => []PublishedIsInitialised
<1>1. IInv => PublishedIsInitialised
  BY DEF IInv
<1> QED
  BY <1>1, Inductive, PTL

\* No segment of another program is ever written.
THEOREM OthersUntouched == Spec => []ForeignUntouched
<1>1. IInv => ForeignUntouched
  BY DEF IInv
<1> QED
  BY <1>1, Inductive, PTL

\* A FileLock whose m_locker is true has the kernel's lock, so at most one does.
THEOREM LockerIsHonest == Spec => []LockerHasLock
<1>1. IInv => LockerHasLock
  BY DEF IInv
<1> QED
  BY <1>1, Inductive, PTL

-----------------------------------------------------------------------------
\* The FileMutex objects on one file implement one abstract lock, whatever
\* system call fails and whichever process is killed in the constructors.
THEOREM ImplementsLock == Spec => LockSpec
<1>1. Init => AbsLock!Init
  BY DEF Init, AbsLock!Init
<1>2. IInv /\ [Next]_vars => [AbsLock!Next]_(AbsLock!absVars)
  <2> SUFFICES ASSUME IInv, [Next]_vars
               PROVE  [AbsLock!Next]_(AbsLock!absVars)
    OBVIOUS
  <2> DEFINE H == {p \in Proc : pc[p] = "locked"}
             A == /\ fileKey # NoKey
                  /\ word[fileKey] = LOCKED
                  /\ \A p \in Proc : pc[p] # "locked"
  <2> USE ConstAssumption
          DEF IInv, TypeOK, OneInside, CreatorSawEmpty, AttachedToPublished,
          HolderLocksWord, MutualExclusion, NeverCrit, PublishedIsInitialised,
          PCs, InInit, Step, LOCKED, UNLOCKED, ABSENT, FL!TypeOK
  <2>0. H' = H /\ A' = A => [AbsLock!Next]_(AbsLock!absVars)
    BY DEF AbsLock!absVars
  <2>1. ASSUME NEW p \in Proc, Open(p) PROVE H' = H /\ A' = A
    BY <2>1 DEF Open
  <2>2. ASSUME NEW p \in Proc, LockFile(p) PROVE H' = H /\ A' = A
    BY <2>2 DEF LockFile
  <2>3. ASSUME NEW p \in Proc, LockFileFails(p) PROVE H' = H /\ A' = A
    BY <2>3 DEF LockFileFails
  <2>4. ASSUME NEW p \in Proc, ReadKey(p) PROVE H' = H /\ A' = A
    BY <2>4 DEF ReadKey
  <2>5. ASSUME NEW p \in Proc, CreateSegment(p) PROVE H' = H /\ A' = A
    BY <2>5 DEF CreateSegment
  <2>6. ASSUME NEW p \in Proc, InitWord(p) PROVE H' = H /\ A' = A
    BY <2>6 DEF InitWord
  <2>7. ASSUME NEW p \in Proc, WriteKey(p) PROVE H' = H /\ A' = A
    BY <2>7 DEF WriteKey
  <2>8. ASSUME NEW p \in Proc, Attach(p) PROVE H' = H /\ A' = A
    BY <2>8 DEF Attach
  <2>9. ASSUME NEW p \in Proc, CloseFile(p) PROVE H' = H /\ A' = A
    BY <2>9 DEF CloseFile
  <2>10. ASSUME NEW p \in Proc, Unwind(p) PROVE H' = H /\ A' = A
    BY <2>10 DEF Unwind
  <2>11. ASSUME NEW p \in Proc, Lock(p) PROVE AbsLock!Acquire(p)
    BY <2>11 DEF Lock, AbsLock!Acquire
  <2>12. ASSUME NEW p \in Proc, Unlock(p) PROVE AbsLock!Release(p)
    BY <2>12 DEF Unlock, AbsLock!Release
  <2>13. ASSUME NEW p \in Proc, Destroy(p) PROVE H' = H /\ A' = A
    BY <2>13 DEF Destroy
  <2>14. ASSUME NEW p \in Proc, Crash(p), pc[p] = "locked"
         PROVE AbsLock!Die(p)
    BY <2>14 DEF Crash, AbsLock!Die
  <2>15. ASSUME NEW p \in Proc, Crash(p), pc[p] # "locked"
         PROVE H' = H /\ A' = A
    BY <2>15 DEF Crash
  <2>16. CASE UNCHANGED vars
    BY <2>16, <2>0 DEF vars
  <2> QED
    BY <2>0, <2>1, <2>2, <2>3, <2>4, <2>5, <2>6, <2>7, <2>8, <2>9, <2>10,
       <2>11, <2>12, <2>13, <2>14, <2>15, <2>16 DEF Next, AbsLock!Next
<1> QED
  BY <1>1, <1>2, Inductive, PTL DEF Spec, LockSpec, AbsLock!Spec
=============================================================================

------------------------------ MODULE FileLock ------------------------------
(***************************************************************************)
(* System::FileLock (src/FileLock.cpp): an fcntl(F_SETLKW) write lock on a *)
(* whole file.  The kernel grants it per process ("PID locker, not thread  *)
(* one") and drops it when the process dies or closes the file; m_locker   *)
(* is the object's own record of it, read by the destructor.               *)
(*                                                                         *)
(* A component: modules that create a FileLock instantiate this one.       *)
(***************************************************************************)
CONSTANTS Proc, NoProc

VARIABLES
  flock,      \* process to which the kernel granted the lock, or NoProc
  m_locker    \* m_locker[p]: m_locker of p's FileLock object

lockVars == <<flock, m_locker>>

Init ==
  /\ flock = NoProc
  /\ m_locker = [p \in Proc |-> FALSE]

\* Mutation of lock: F_SETLK without a look at its result.
lockUnchecked(p) ==
  /\ flock' = IF flock = NoProc THEN p ELSE flock
  /\ m_locker' = [m_locker EXCEPT ![p] = TRUE]

\* lock(): fcntl(F_SETLKW) blocks until no other process has the lock.
lock(p) ==
  /\ flock \in {NoProc, p}
  /\ flock' = p
  /\ m_locker' = [m_locker EXCEPT ![p] = TRUE]

Dropped(p) == IF flock = p THEN NoProc ELSE flock

\* unlock(): the result of fcntl(F_UNLCK) is ignored.
unlock(p) ==
  /\ flock' = Dropped(p)
  /\ m_locker' = [m_locker EXCEPT ![p] = FALSE]

\* The process dies: the kernel closes its files and drops its locks.
Died(p) ==
  /\ flock' = Dropped(p)
  /\ m_locker' = [m_locker EXCEPT ![p] = FALSE]

TypeOK ==
  /\ flock \in Proc \cup {NoProc}
  /\ m_locker \in [Proc -> BOOLEAN]
=============================================================================

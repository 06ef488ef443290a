------------------------------- MODULE Mutex --------------------------------
(***************************************************************************)
(* IPC::Mutex (src/IPC_Mutex.cpp): a mutex made of one 32-bit word in      *)
(* shared memory and the futex(2) system call.  lock() retries a compare-  *)
(* and-swap and sleeps in FUTEX_WAIT while the word says LOCKED; unlock()  *)
(* swaps the word back and issues FUTEX_WAKE for one sleeper.              *)
(*                                                                         *)
(* Each atomic instruction and each system call is a step of its own.  The *)
(* kernel's queue of sleepers is the set waiters: FUTEX_WAKE picks any     *)
(* member, and a sleeper may also return early (spurious return, EINTR).   *)
(***************************************************************************)
EXTENDS Naturals, FiniteSets

CONSTANTS
  Proc,       \* processes (or threads) sharing the futex word
  Mortal,     \* the ones that may be killed at any moment
  Signalled   \* the ones a signal handler may interrupt in FUTEX_WAIT

ASSUME ProcAssumption == Mortal \subseteq Proc /\ Signalled \subseteq Proc

LOCKED   == 0   \* L_FUTEX_STATE_LOCKED
UNLOCKED == 1   \* L_FUTEX_STATE_UNLOCKED

\* Mutation of INITIAL: a state of its own, neither locked nor unlocked.
INITIALApart == 2

INITIAL  == 1   \* L_FUTEX_STATE_INITIAL

VARIABLES
  futexId,    \* *m_futexId, the shared word
  waiters,    \* processes the kernel holds asleep in FUTEX_WAIT on the word
  pc          \* where each process is:
              \*   "idle"    outside the mutex
              \*   "cas"     in lock(), before the compare-and-swap
              \*   "wait"    in lock(), swap failed, before FUTEX_WAIT
              \*   "sleep"   inside FUTEX_WAIT
              \*   "locked"  lock() returned, unlock() not yet called
              \*   "wake"    in unlock(), word swapped, before FUTEX_WAKE
              \*   "crit"    unlock() found the word UNLOCKED: the exception
              \*             leaves a noexcept function, std::terminate
              \*   "lost"    killed at "cas", "wait" or "wake"
              \*   "dead"    killed elsewhere

vars == <<futexId, waiters, pc>>

PCs == {"idle", "cas", "wait", "sleep", "locked", "wake", "crit", "lost",
        "dead"}

-----------------------------------------------------------------------------
\* Mutation of Init: the creator leaves the zero-filled word as it is.
InitRawWord ==
  /\ futexId = LOCKED
  /\ waiters = {}
  /\ pc = [p \in Proc |-> "idle"]

\* The creating process has run Mutex(ptr, isNew = true).
Init ==
  /\ futexId = INITIAL
  /\ waiters = {}
  /\ pc = [p \in Proc |-> "idle"]

Goto(p, l) == pc' = [pc EXCEPT ![p] = l]

\* A process calls lock().
LockCall(p) ==
  /\ pc[p] = "idle"
  /\ Goto(p, "cas")
  /\ UNCHANGED <<futexId, waiters>>

\* Mutation of LockCas: a plain store in place of the compare-and-swap.
LockStealing(p) ==
  /\ pc[p] = "cas"
  /\ futexId' = LOCKED
  /\ Goto(p, "locked")
  /\ UNCHANGED waiters

\* __sync_bool_compare_and_swap(m_futexId, UNLOCKED, LOCKED): break, or wait.
LockCas(p) ==
  /\ pc[p] = "cas"
  /\ \/ /\ futexId = UNLOCKED
        /\ futexId' = LOCKED
        /\ Goto(p, "locked")
     \/ /\ futexId # UNLOCKED
        /\ Goto(p, "wait")
        /\ UNCHANGED futexId
  /\ UNCHANGED waiters

\* Mutation of FutexWait: the word is not compared before sleeping.
FutexWaitUnchecked(p) ==
  /\ pc[p] = "wait"
  /\ Goto(p, "sleep")
  /\ waiters' = waiters \cup {p}
  /\ UNCHANGED futexId

\* FUTEX_WAIT compares the word with LOCKED and sleeps, atomically; when the
\* word has changed it fails with EAGAIN, which sends lock() round its loop.
FutexWait(p) ==
  /\ pc[p] = "wait"
  /\ \/ /\ futexId = LOCKED
        /\ Goto(p, "sleep")
        /\ waiters' = waiters \cup {p}
     \/ /\ futexId # LOCKED
        /\ Goto(p, "cas")
        /\ UNCHANGED waiters
  /\ UNCHANGED futexId

\* FUTEX_WAIT may return 0 although no FUTEX_WAKE was issued.
SpuriousWake(p) ==
  /\ pc[p] = "sleep"
  /\ waiters' = waiters \ {p}
  /\ Goto(p, "cas")
  /\ UNCHANGED futexId

\* Mutation of Interrupt: the interrupted lock() returns instead of throwing.
InterruptEnters(p) ==
  /\ p \in Signalled
  /\ pc[p] = "sleep"
  /\ waiters' = waiters \ {p}
  /\ Goto(p, "locked")
  /\ UNCHANGED futexId

\* FUTEX_WAIT fails with EINTR: lock() throws and its caller does not get in.
Interrupt(p) ==
  /\ p \in Signalled
  /\ pc[p] = "sleep"
  /\ waiters' = waiters \ {p}
  /\ Goto(p, "idle")
  /\ UNCHANGED futexId

\* Mutation of UnlockCas: FUTEX_WAKE is forgotten.
UnlockCasNoWake(p) ==
  /\ pc[p] = "locked"
  /\ futexId = LOCKED
  /\ futexId' = UNLOCKED
  /\ Goto(p, "idle")
  /\ UNCHANGED waiters

\* __sync_bool_compare_and_swap(m_futexId, LOCKED, UNLOCKED), or the CRIT throw.
UnlockCas(p) ==
  /\ pc[p] = "locked"
  /\ \/ /\ futexId = LOCKED
        /\ futexId' = UNLOCKED
        /\ Goto(p, "wake")
     \/ /\ futexId # LOCKED
        /\ Goto(p, "crit")
        /\ UNCHANGED futexId
  /\ UNCHANGED waiters

\* FUTEX_WAKE with val = 1: one sleeper, if there is any, returns from its
\* FUTEX_WAIT with 0 and retries the swap.
FutexWake(p) ==
  /\ pc[p] = "wake"
  /\ \/ /\ waiters = {}
        /\ Goto(p, "idle")
        /\ UNCHANGED waiters
     \/ \E q \in waiters :
          /\ waiters' = waiters \ {q}
          /\ pc' = [pc EXCEPT ![p] = "idle", ![q] = "cas"]
  /\ UNCHANGED futexId

\* Control points at which a wakeup is in the hands of a process.
Passing == {"cas", "wait", "wake"}

\* The process is killed; nothing runs on its behalf, the word keeps its value.
Crash(p) ==
  /\ p \in Mortal
  /\ pc[p] \notin {"lost", "dead", "crit"}
  /\ waiters' = waiters \ {p}
  /\ Goto(p, IF pc[p] \in Passing THEN "lost" ELSE "dead")
  /\ UNCHANGED futexId

Next ==
  \E p \in Proc :
    \/ LockCall(p)  \/ LockCas(p)   \/ FutexWait(p)
    \/ SpuriousWake(p) \/ Interrupt(p)
    \/ UnlockCas(p) \/ FutexWake(p) \/ Crash(p)

Spec == Init /\ [][Next]_vars

\* A running process eventually executes its next instruction and leaves its
\* critical section.  Nothing obliges a process to call lock(), the kernel to
\* return early from FUTEX_WAIT, or a signal or a kill to arrive.
Fairness ==
  \A p \in Proc :
    /\ WF_vars(LockCas(p))
    /\ WF_vars(FutexWait(p))
    /\ WF_vars(UnlockCas(p))
    /\ WF_vars(FutexWake(p))

FairSpec == Spec /\ Fairness

-----------------------------------------------------------------------------
TypeOK ==
  /\ futexId \in {LOCKED, UNLOCKED}
  /\ waiters = {p \in Proc : pc[p] = "sleep"}
  /\ pc \in [Proc -> PCs]

\* At most one process is between lock() and unlock(), whatever the schedule,
\* the early returns of FUTEX_WAIT and the deaths.
MutualExclusion ==
  \A p, q \in Proc : pc[p] = "locked" /\ pc[q] = "locked" => p = q

\* unlock() never reaches its "IPC::Mutex CRIT" throw, which would end the
\* process: a holder always finds the word LOCKED.
NeverCrit == \A p \in Proc : pc[p] # "crit"

\* A process sleeping on a free mutex has a wakeup under way: some process
\* is before its swap, before FUTEX_WAIT (which will fail with EAGAIN) or
\* before its FUTEX_WAKE.  Only the death of a process at one of these places can
\* take it away, none in the critical section, asleep or outside the mutex.
NoLostWakeup ==
  futexId = UNLOCKED /\ waiters # {} =>
    \E p \in Proc : pc[p] \in Passing \cup {"lost"}

\* The word tells whether somebody is inside: LOCKED while a process is between
\* lock() and unlock(), and LOCKED only on behalf of one, alive or dead.
WordMatchesHolder ==
  /\ (\E p \in Proc : pc[p] = "locked") => futexId = LOCKED
  /\ futexId = LOCKED => \E p \in Proc : pc[p] \in {"locked", "dead"}

\* As long as nobody dies, a contended mutex is acquired again and again: when
\* some process is inside lock(), some process gets in (or every process in
\* lock() leaves it because of a signal).
Contending == \E p \in Proc : pc[p] \in {"cas", "wait", "sleep"}
Progress ==
  Contending ~> \/ ~Contending
                \/ \E p \in Proc : pc[p] \in {"locked", "lost", "dead"}

-----------------------------------------------------------------------------
\* The mutex implements the abstract lock, deaths included.
Lock == INSTANCE AbstractLock WITH
  holders   <- {p \in Proc : pc[p] = "locked"},
  abandoned <- futexId = LOCKED /\ \A p \in Proc : pc[p] # "locked"

LockSpec == Lock!Spec
=============================================================================

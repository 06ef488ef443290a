---------------------------- MODULE MutexProofs -----------------------------
(***************************************************************************)
(* Proofs about IPC::Mutex for any number of processes, any of which may   *)
(* be interrupted or killed.                                               *)
(*                                                                         *)
(* Mutual exclusion is not inductive by itself: that a second swap fails   *)
(* while a process is inside needs WordMatchesHolder, and with it goes the *)
(* proof that unlock() finds the word LOCKED.                              *)
(***************************************************************************)
EXTENDS Mutex, TLAPS

IInv ==
  TypeOK /\ WordMatchesHolder /\ MutualExclusion /\ NeverCrit /\ NoLostWakeup

-----------------------------------------------------------------------------
\* Every step keeps the types and the queue equal to the sleeping processes.
LEMMA TypeStep == TypeOK /\ [Next]_vars => TypeOK'
<1> SUFFICES ASSUME TypeOK, [Next]_vars PROVE TypeOK'
  OBVIOUS
<1> USE DEF TypeOK, PCs, Goto, LOCKED, UNLOCKED
<1>1. ASSUME NEW p \in Proc, LockCall(p) PROVE TypeOK'
  BY <1>1 DEF LockCall
<1>2. ASSUME NEW p \in Proc, LockCas(p) PROVE TypeOK'
  BY <1>2 DEF LockCas
<1>3. ASSUME NEW p \in Proc, FutexWait(p) PROVE TypeOK'
  BY <1>3 DEF FutexWait
<1>4. ASSUME NEW p \in Proc, SpuriousWake(p) PROVE TypeOK'
  BY <1>4 DEF SpuriousWake
<1>5. ASSUME NEW p \in Proc, Interrupt(p) PROVE TypeOK'
  BY <1>5 DEF Interrupt
<1>6. ASSUME NEW p \in Proc, UnlockCas(p) PROVE TypeOK'
  BY <1>6 DEF UnlockCas
<1>7. ASSUME NEW p \in Proc, FutexWake(p) PROVE TypeOK'
  BY <1>7 DEF FutexWake
<1>8. ASSUME NEW p \in Proc, Crash(p) PROVE TypeOK'
  BY <1>8 DEF Crash
<1>9. CASE UNCHANGED vars
  BY <1>9 DEF vars
<1> QED
  BY <1>1, <1>2, <1>3, <1>4, <1>5, <1>6, <1>7, <1>8, <1>9 DEF Next

\* The word stays LOCKED or UNLOCKED, control points are the ones of lock() and
\* unlock(), and the kernel's queue is exactly the set of processes inside
\* FUTEX_WAIT, through wakeups, early returns and deaths.
THEOREM TypeCorrect == Spec => []TypeOK
<1>1. Init => TypeOK
  BY DEF Init, TypeOK, PCs, INITIAL, LOCKED, UNLOCKED
<1> QED
  BY <1>1, TypeStep, PTL DEF Spec

\* Every step of lock() and unlock() keeps the word in agreement with the
\* holder, and leaves no sleeper without a wakeup under way.
LEMMA InductiveStep == IInv /\ [Next]_vars => IInv'
<1> SUFFICES ASSUME IInv, [Next]_vars PROVE IInv'
  OBVIOUS
<1>0. TypeOK'
  BY TypeStep DEF IInv
<1> DEFINE Rest ==
      WordMatchesHolder /\ MutualExclusion /\ NeverCrit /\ NoLostWakeup
<1> USE DEF IInv, TypeOK, WordMatchesHolder, MutualExclusion, NeverCrit,
            NoLostWakeup, Passing, PCs, Goto, LOCKED, UNLOCKED
<1>1. ASSUME NEW p \in Proc, LockCall(p) PROVE Rest'
  BY <1>1 DEF LockCall
<1>2. ASSUME NEW p \in Proc, LockCas(p) PROVE Rest'
  BY <1>2 DEF LockCas
<1>3. ASSUME NEW p \in Proc, FutexWait(p) PROVE Rest'
  BY <1>3 DEF FutexWait
<1>4. ASSUME NEW p \in Proc, SpuriousWake(p) PROVE Rest'
  BY <1>4 DEF SpuriousWake
<1>5. ASSUME NEW p \in Proc, Interrupt(p) PROVE Rest'
  BY <1>5 DEF Interrupt
<1>6. ASSUME NEW p \in Proc, UnlockCas(p) PROVE Rest'
  BY <1>6 DEF UnlockCas
<1>7. ASSUME NEW p \in Proc, FutexWake(p) PROVE Rest'
  BY <1>7 DEF FutexWake
<1>8. ASSUME NEW p \in Proc, Crash(p) PROVE Rest'
  BY <1>8 DEF Crash
<1>9. CASE UNCHANGED vars
  BY <1>9 DEF vars
<1>10. Rest'
  BY <1>1, <1>2, <1>3, <1>4, <1>5, <1>6, <1>7, <1>8, <1>9 DEF Next
<1> QED
  BY <1>0, <1>10

\* The invariant holds in every behaviour.
LEMMA Inductive == Spec => []IInv
<1>1. Init => IInv
  BY DEF Init, IInv, TypeOK, WordMatchesHolder, MutualExclusion, NeverCrit,
         NoLostWakeup, PCs, INITIAL, LOCKED, UNLOCKED
<1> QED
  BY <1>1, InductiveStep, PTL DEF Spec

\* At most one process is between lock() and unlock().
THEOREM MutexExcludes == Spec => []MutualExclusion
<1>1. IInv => MutualExclusion
  BY DEF IInv
<1> QED
  BY <1>1, Inductive, PTL

\* unlock() of a holder never throws out of its noexcept body.
THEOREM UnlockNeverCrit == Spec => []NeverCrit
<1>1. IInv => NeverCrit
  BY DEF IInv
<1> QED
  BY <1>1, Inductive, PTL

\* The word is LOCKED exactly on behalf of a holder, alive or dead.
THEOREM WordIsHonest == Spec => []WordMatchesHolder
<1>1. IInv => WordMatchesHolder
  BY DEF IInv
<1> QED
  BY <1>1, Inductive, PTL

\* Although FUTEX_WAKE wakes a single process, no sleeper is left on a free
\* mutex without a wakeup under way; only a death before the swap, before FUTEX_WAIT or
\* before FUTEX_WAKE can lose one.
THEOREM WakeupNotLost == Spec => []NoLostWakeup
<1>1. IInv => NoLostWakeup
  BY DEF IInv
<1> QED
  BY <1>1, Inductive, PTL

-----------------------------------------------------------------------------
\* The futex mutex implements the abstract lock: the successful swaps of lock()
\* and unlock() are its Acquire and Release, the death of a holder its Die, and
\* every other step leaves the abstract lock alone.
THEOREM ImplementsLock == Spec => LockSpec
<1>1. Init => Lock!Init
  BY DEF Init, Lock!Init, INITIAL, LOCKED
<1>2. IInv /\ [Next]_vars => [Lock!Next]_(Lock!absVars)
  <2> SUFFICES ASSUME IInv, [Next]_vars PROVE [Lock!Next]_(Lock!absVars)
    OBVIOUS
  <2> DEFINE H == {p \in Proc : pc[p] = "locked"}
             A == futexId = LOCKED /\ \A p \in Proc : pc[p] # "locked"
  <2> USE DEF IInv, TypeOK, WordMatchesHolder, MutualExclusion, NeverCrit,
              PCs, Goto, LOCKED, UNLOCKED
  <2>0. H' = H /\ A' = A => [Lock!Next]_(Lock!absVars)
    BY DEF Lock!absVars
  <2>1. ASSUME NEW p \in Proc, LockCall(p) PROVE H' = H /\ A' = A
    BY <2>1 DEF LockCall
  <2>2. ASSUME NEW p \in Proc, LockCas(p), futexId = UNLOCKED
        PROVE Lock!Acquire(p)
    BY <2>2 DEF LockCas, Lock!Acquire
  <2>3. ASSUME NEW p \in Proc, LockCas(p), futexId # UNLOCKED
        PROVE H' = H /\ A' = A
    BY <2>3 DEF LockCas
  <2>4. ASSUME NEW p \in Proc, FutexWait(p) PROVE H' = H /\ A' = A
    BY <2>4 DEF FutexWait
  <2>5. ASSUME NEW p \in Proc, SpuriousWake(p) PROVE H' = H /\ A' = A
    BY <2>5 DEF SpuriousWake
  <2>6. ASSUME NEW p \in Proc, Interrupt(p) PROVE H' = H /\ A' = A
    BY <2>6 DEF Interrupt
  <2>7. ASSUME NEW p \in Proc, UnlockCas(p) PROVE Lock!Release(p)
    BY <2>7 DEF UnlockCas, Lock!Release
  <2>8. ASSUME NEW p \in Proc, FutexWake(p) PROVE H' = H /\ A' = A
    BY <2>8 DEF FutexWake
  <2>9. ASSUME NEW p \in Proc, Crash(p), pc[p] = "locked" PROVE Lock!Die(p)
    BY <2>9 DEF Crash, Lock!Die
  <2>10. ASSUME NEW p \in Proc, Crash(p), pc[p] # "locked"
         PROVE H' = H /\ A' = A
    BY <2>10 DEF Crash
  <2>11. CASE UNCHANGED vars
    BY <2>11, <2>0 DEF vars
  <2> QED
    BY <2>0, <2>1, <2>2, <2>3, <2>4, <2>5, <2>6, <2>7, <2>8, <2>9, <2>10, <2>11
       DEF Next, Lock!Next
<1> QED
  BY <1>1, <1>2, Inductive, PTL DEF Spec, LockSpec, Lock!Spec
=============================================================================

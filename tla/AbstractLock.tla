---------------------------- MODULE AbstractLock ----------------------------
(***************************************************************************)
(* What an inter-process lock of this library promises its callers: at     *)
(* most one process holds it, only the holder gives it back, and a holder  *)
(* that dies takes the lock with it (neither the futex word nor the kernel *)
(* remembers who owned it, so nobody can ever acquire it again).           *)
(***************************************************************************)

CONSTANT Proc          \* processes that use the lock

VARIABLES
  holders,             \* the processes between lock() and unlock()
  abandoned            \* TRUE once a holder has died

absVars == <<holders, abandoned>>

Init ==
  /\ holders = {}
  /\ abandoned = FALSE

Acquire(p) ==
  /\ holders = {}
  /\ ~abandoned
  /\ holders' = {p}
  /\ UNCHANGED abandoned

Release(p) ==
  /\ holders = {p}
  /\ holders' = {}
  /\ UNCHANGED abandoned

Die(p) ==
  /\ holders = {p}
  /\ holders' = {}
  /\ abandoned' = TRUE

Next == \E p \in Proc : Acquire(p) \/ Release(p) \/ Die(p)

Spec == Init /\ [][Next]_absVars
=============================================================================

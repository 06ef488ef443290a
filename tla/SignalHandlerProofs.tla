------------------------ MODULE SignalHandlerProofs -------------------------
(***************************************************************************)
(* Proofs about Signals::SignalHandler for any threads and signals.        *)
(*                                                                         *)
(* What a thread leaves unblocked is contained in its subscriptions        *)
(* (MaskFollows), these in its handlers and in the installed actions       *)
(* (SubscriptionsHandled), and the handlers of different threads are       *)
(* different entries of g_signals (OwnedOnce), from the moment addSignal   *)
(* inserts an entry to the moment rmSignal takes it out of the table.  The *)
(* middle one has an exception, the signal that rmSignal is about to       *)
(* unsubscribe from, and that one is blocked (RemovedIsBlocked).           *)
(***************************************************************************)
EXTENDS SignalHandler, TLAPS

\* Control points inside the lock guard of addSignal.
Adding == {"check", "insert", "install", "unblock", "release"}

\* The three steps of rmSignal after it has blocked the signal.
Removing == {"rmTable", "erase", "rmUnblock"}

\* A thread inside a call works on a signal.
Types ==
  /\ tl_handlers \in [Thread -> SUBSET Sig]
  /\ m_ss \in [Thread -> SUBSET Sig]
  /\ blocked \in [Thread -> SUBSET Sig]
  /\ pc \in [Thread -> Calls \cup {"unborn", "raw"}]
  /\ arg \in [Thread -> Sig \cup {NoSig}]
  /\ \A t \in Thread : pc[t] \in Adding \cup Removing => arg[t] \in Sig

\* The mutex has the thread that is in addSignal.
GuardHeld == \A t \in Thread : pc[t] \in Adding => g_signalsMtx = t

MaskFollows ==
  \A t \in Thread : HasHandler(t) => Sig \ blocked[t] \subseteq m_ss[t]

SubscriptionsHandled ==
  \A t \in Thread : HasHandler(t) =>
    /\ m_ss[t] \subseteq installed
    /\ \A s \in m_ss[t] :
         s \in tl_handlers[t] \/ (pc[t] = "rmUnblock" /\ arg[t] = s)

RemovedIsBlocked ==
  \A t \in Thread : pc[t] \in Removing => arg[t] \in blocked[t]

\* addSignal stores the handler, then the action, and only then unblocks.
AddedIsHandled ==
  \A t \in Thread :
    /\ pc[t] = "insert" => arg[t] \notin g_signals
    /\ pc[t] \in {"install", "unblock"} => arg[t] \in tl_handlers[t]
    /\ pc[t] = "unblock" => arg[t] \in installed

\* The handlers of t that are still in the table.
Own(t) == {s \in tl_handlers[t] : ~(pc[t] = "erase" /\ arg[t] = s)}

OwnedOnce ==
  /\ \A t \in Thread : Own(t) \subseteq g_signals
  /\ \A t, u \in Thread : t # u => Own(t) \cap Own(u) = {}

\* The destructor clears a map that its loop has emptied; a thread without a
\* SignalHandler has none.
ClearedIsEmpty ==
  \A t \in Thread : pc[t] \in {"unborn", "raw", "clear"} => tl_handlers[t] = {}

Tables ==
  /\ GuardHeld
  /\ MaskFollows /\ SubscriptionsHandled /\ RemovedIsBlocked /\ AddedIsHandled
  /\ OwnedOnce /\ ClearedIsEmpty

IInv == Types /\ (~astray => Tables)

-----------------------------------------------------------------------------
\* Every step keeps the types, the ones that go astray included.
LEMMA TypeStep == Types /\ [Next]_vars => Types'
<1> SUFFICES ASSUME Types, [Next]_vars PROVE Types'
  OBVIOUS
<1> USE DEF Types, Calls, Adding, Removing, Step, Running, global, local
<1>1. ASSUME NEW t \in Thread, NEW u \in Thread, Spawn(t, u) PROVE Types'
  BY <1>1 DEF Spawn
<1>2. ASSUME NEW s \in Sig, Raise(s) PROVE Types'
  BY <1>2 DEF Raise
<1>3. ASSUME NEW t \in Thread, NEW s \in Sig, Deliver(t, s) PROVE Types'
  BY <1>3 DEF Deliver
<1>4. ASSUME NEW t \in Thread, NEW s \in Sig, addSignal(t, s) PROVE Types'
  BY <1>4 DEF addSignal
<1>5. ASSUME NEW t \in Thread, NEW s \in Sig, rmSignal(t, s) PROVE Types'
  BY <1>5 DEF rmSignal, Block
<1>6. ASSUME NEW t \in Thread, Construct(t) PROVE Types'
  BY <1>6 DEF Construct
<1>7. ASSUME NEW t \in Thread, Destroy(t) PROVE Types'
  BY <1>7 DEF Destroy
<1>8. ASSUME NEW t \in Thread, Check(t) PROVE Types'
  BY <1>8 DEF Check, Returns
<1>9. ASSUME NEW t \in Thread, Insert(t) PROVE Types'
  BY <1>9 DEF Insert
<1>10. ASSUME NEW t \in Thread, Install(t) PROVE Types'
  BY <1>10 DEF Install, Returns
<1>11. ASSUME NEW t \in Thread, Unblock(t) PROVE Types'
  BY <1>11 DEF Unblock
<1>12. ASSUME NEW t \in Thread, Release(t) PROVE Types'
  BY <1>12 DEF Release, Returns
<1>13. ASSUME NEW t \in Thread, RmTable(t) PROVE Types'
  BY <1>13 DEF RmTable
<1>14. ASSUME NEW t \in Thread, Erase(t) PROVE Types'
  BY <1>14 DEF Erase
<1>15. ASSUME NEW t \in Thread, RmUnblock(t) PROVE Types'
  BY <1>15 DEF RmUnblock
<1>16. ASSUME NEW t \in Thread, DestroyNext(t) PROVE Types'
  BY <1>16 DEF DestroyNext, Block
<1>17. ASSUME NEW t \in Thread, Clear(t) PROVE Types'
  BY <1>17 DEF Clear
<1>18. CASE UNCHANGED vars
  BY <1>18 DEF vars, global, local
<1> QED
  BY <1>1, <1>2, <1>3, <1>4, <1>5, <1>6, <1>7, <1>8, <1>9, <1>10, <1>11,
     <1>12, <1>13, <1>14, <1>15, <1>16, <1>17, <1>18
     DEF Next, Proceeds

\* Every step that does not go astray keeps masks, subscriptions, handlers and
\* the global table in agreement.
LEMMA InductiveStep == IInv /\ [Next]_vars => IInv'
<1> SUFFICES ASSUME IInv, [Next]_vars, ~astray' PROVE Tables'
  BY TypeStep DEF IInv
<1> USE ConstAssumption
    DEF IInv, Types, Tables, GuardHeld, MaskFollows, SubscriptionsHandled, RemovedIsBlocked,
        AddedIsHandled, OwnedOnce, ClearedIsEmpty, Own, HasHandler, Calls,
        Adding, Removing, Running, Step, global, local
<1>1. ASSUME NEW t \in Thread, NEW u \in Thread, Spawn(t, u) PROVE Tables'
  BY <1>1 DEF Spawn
<1>2. ASSUME NEW s \in Sig, Raise(s) PROVE Tables'
  BY <1>2 DEF Raise
<1>3. ASSUME NEW t \in Thread, NEW s \in Sig, Deliver(t, s) PROVE Tables'
  BY <1>3 DEF Deliver
<1>4. ASSUME NEW t \in Thread, NEW s \in Sig, addSignal(t, s) PROVE Tables'
  BY <1>4 DEF addSignal
<1>5. ASSUME NEW t \in Thread, NEW s \in Sig, rmSignal(t, s) PROVE Tables'
  BY <1>5 DEF rmSignal, Block
<1>6. ASSUME NEW t \in Thread, Construct(t) PROVE Tables'
  BY <1>6 DEF Construct
<1>7. ASSUME NEW t \in Thread, Destroy(t) PROVE Tables'
  BY <1>7 DEF Destroy
<1>8. ASSUME NEW t \in Thread, Check(t) PROVE Tables'
  BY <1>8 DEF Check, Returns
<1>9. ASSUME NEW t \in Thread, Insert(t) PROVE Tables'
  BY <1>9 DEF Insert
<1>10. ASSUME NEW t \in Thread, Install(t) PROVE Tables'
  BY <1>10 DEF Install, Returns
<1>11. ASSUME NEW t \in Thread, Unblock(t) PROVE Tables'
  BY <1>11 DEF Unblock
<1>12. ASSUME NEW t \in Thread, Release(t) PROVE Tables'
  BY <1>12 DEF Release, Returns
<1>13. ASSUME NEW t \in Thread, RmTable(t) PROVE Tables'
  <2>1. /\ pc[t] = "rmTable" /\ pc' = [pc EXCEPT ![t] = "erase"]
        /\ arg[t] \in tl_handlers[t] /\ g_signals' = g_signals \ {arg[t]}
        /\ g_signalsMtx = NoThread
        /\ UNCHANGED <<g_signalsMtx, installed, local, arg>>
    BY <1>13 DEF RmTable
  <2>2. ~astray
    BY <1>13 DEF RmTable
  <2> QED
    BY <2>1, <2>2
<1>14. ASSUME NEW t \in Thread, Erase(t) PROVE Tables'
  BY <1>14 DEF Erase
<1>15. ASSUME NEW t \in Thread, RmUnblock(t) PROVE Tables'
  <2>1. /\ pc[t] = "rmUnblock"
        /\ \/ pc' = [pc EXCEPT ![t] = "idle"]
           \/ pc' = [pc EXCEPT ![t] = "destroy"]
           \/ pc' = [pc EXCEPT ![t] = "clear"] /\ tl_handlers[t] = {}
    BY <1>15 DEF RmUnblock
  <2>2. ~astray
    BY <1>15 DEF RmUnblock
  <2>3. /\ m_ss' = [m_ss EXCEPT ![t] = @ \ {arg[t]}]
        /\ blocked' = [blocked EXCEPT ![t] = @ \ m_ss'[t]]
        /\ arg' = [arg EXCEPT ![t] = NoSig]
        /\ UNCHANGED <<global, tl_handlers>>
    BY <1>15 DEF RmUnblock
  <2> QED
    BY <2>1, <2>2, <2>3
<1>16. ASSUME NEW t \in Thread, DestroyNext(t) PROVE Tables'
  BY <1>16 DEF DestroyNext, Block
<1>17. ASSUME NEW t \in Thread, Clear(t) PROVE Tables'
  BY <1>17 DEF Clear
<1>18. CASE UNCHANGED vars
  BY <1>18 DEF vars, global, local
<1> QED
  BY <1>1, <1>2, <1>3, <1>4, <1>5, <1>6, <1>7, <1>8, <1>9, <1>10, <1>11,
     <1>12, <1>13, <1>14, <1>15, <1>16, <1>17, <1>18
     DEF Next, Proceeds

\* The tables agree in every behaviour up to a step that goes astray.
LEMMA Inductive == Spec => []IInv
<1>1. Init => IInv
  BY ConstAssumption
     DEF Init, IInv, Types, Tables, GuardHeld, MaskFollows, SubscriptionsHandled,
         RemovedIsBlocked, AddedIsHandled, OwnedOnce, ClearedIsEmpty, Own,
         HasHandler, Calls, Adding, Removing
<1> QED
  BY <1>1, InductiveStep, PTL DEF Spec

\* What a thread leaves unblocked is installed and has a handler in its own map
\* at every step of addSignal, rmSignal and the destructor.
THEOREM HandlerIsKnown == Spec => []HandlerKnown
<1>1. IInv => HandlerKnown
  BY DEF IInv, Types, Tables, MaskFollows, SubscriptionsHandled, RemovedIsBlocked,
         HandlerKnown, Removing
<1> QED
  BY <1>1, Inductive, PTL

\* No two threads with a SignalHandler leave the same signal unblocked, however
\* their addSignal and rmSignal interleave.
THEOREM SubscriberIsUnique == Spec => []OneSubscriber
<1>1. IInv => OneSubscriber
  <2> SUFFICES ASSUME IInv, ~astray,
                      NEW t \in Thread, NEW u \in Thread, t # u,
                      HasHandler(t), HasHandler(u),
                      NEW s \in Sig, s \notin blocked[t], s \notin blocked[u]
               PROVE  FALSE
    BY DEF OneSubscriber
  <2>1. s \in Own(t) /\ s \in Own(u)
    BY DEF IInv, Tables, MaskFollows, SubscriptionsHandled, RemovedIsBlocked,
           Removing, Own
  <2> QED
    BY <2>1 DEF IInv, Tables, OwnedOnce
<1> QED
  BY <1>1, Inductive, PTL

\* c_sigHandler, run in a thread that has a SignalHandler, finds a handler: a
\* delivered signal ends the process only when it interrupts the two steps that
\* change the map itself, the assignment in addSignal and erase() in rmSignal.
HandlerReturns ==
  \A t \in Thread, s \in Sig :
    Deliver(t, s) /\ HasHandler(t) /\ pc[t] \notin {"insert", "erase"} => alive'

\* c_sigHandler never calls an empty function in a thread with a SignalHandler.
THEOREM HandlerAlwaysReturns == Spec => [][HandlerReturns]_vars
<1>1. IInv /\ [Next]_vars => [HandlerReturns]_vars
  <2> SUFFICES ASSUME IInv, NEW t \in Thread, NEW s \in Sig, Deliver(t, s),
                      HasHandler(t), pc[t] \notin {"insert", "erase"}
               PROVE  alive'
    BY DEF HandlerReturns
  <2>1. HandlerKnown /\ ~astray
    BY DEF IInv, Types, Tables, MaskFollows, SubscriptionsHandled,
           RemovedIsBlocked, HandlerKnown, Removing, Deliver, Running
  <2>2. s \in installed \cap tl_handlers[t]
    BY <2>1 DEF HandlerKnown, Deliver
  <2> QED
    BY <2>2 DEF Deliver
<1> QED
  BY <1>1, Inductive, PTL DEF Spec
=============================================================================

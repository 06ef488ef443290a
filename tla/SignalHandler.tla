--------------------------- MODULE SignalHandler ----------------------------
(***************************************************************************)
(* Signals::SignalHandler (src/SignalHandler.cpp): a process-wide table of *)
(* signals under a mutex, and per thread a map of handlers, a set of       *)
(* subscriptions and the signal mask, none of them under a lock.  A signal *)
(* is delivered to any thread that does not block it, between any two      *)
(* steps of that thread, and c_sigHandler looks it up in the map of the    *)
(* thread it happens to run in.                                            *)
(*                                                                         *)
(* A handler runs with every other signal blocked (sa_mask), so delivery   *)
(* and handler are one step.  alive becomes FALSE when the process ends:   *)
(* by a default action, by the empty std::function in the noexcept         *)
(* c_sigHandler, or by undefined behaviour.                                *)
(***************************************************************************)
EXTENDS Naturals

CONSTANTS
  Thread,
  Main,         \* the thread that exists at the start
  NoThread,
  Sig,
  NoSig,
  Uncatchable,  \* signals for which sigaction() fails
  Ignored       \* signals whose default action does nothing, as SIGURG's

ASSUME ConstAssumption ==
  /\ Main \in Thread
  /\ NoThread \notin Thread
  /\ NoSig \notin Sig
  /\ Uncatchable \subseteq Sig
  /\ Ignored \subseteq Sig

VARIABLES
  g_signals,    \* signals in the global table
  g_signalsMtx, \* holder of the mutex
  installed,    \* signals whose action is c_sigHandler
  pending,      \* signals sent to the process and not yet delivered
  tl_handlers,  \* tl_handlers[t]: signals with a handler in t's map
  m_ss,         \* m_ss[t]: tl_ss, the subscriptions of t
  blocked,      \* blocked[t]: t's signal mask
  pc,
  arg,          \* arg[t]: argument of the call t is in
  leaving,      \* threads whose SignalHandler is being destroyed
  alive,
  astray        \* history: undefined behaviour, or removal of a signal that
                \* another thread had registered

global == <<g_signals, g_signalsMtx, installed>>
local  == <<tl_handlers, m_ss, blocked>>
vars   == <<global, local, pending, pc, arg, leaving, alive, astray>>

\* Threads in and out of the calls of a SignalHandler that they have.
Calls == {"idle", "check", "insert", "install", "unblock", "release",
          "rmTable", "erase", "rmUnblock", "destroy", "clear"}

Init ==
  /\ g_signals = {} /\ g_signalsMtx = NoThread /\ installed = {}
  /\ pending = {}
  /\ tl_handlers = [t \in Thread |-> {}]
  /\ m_ss = [t \in Thread |-> {}]
  /\ blocked = [t \in Thread |-> {}]
  /\ pc = [t \in Thread |-> IF t = Main THEN "raw" ELSE "unborn"]
  /\ arg = [t \in Thread |-> NoSig]
  /\ leaving = {}
  /\ alive = TRUE
  /\ astray = FALSE

\* Behaviours are followed up to the end of the process or to a step that goes
\* astray, after which the tables say nothing any more.
Running == alive /\ ~astray

Step(t, from, to) == Running /\ pc[t] = from /\ pc' = [pc EXCEPT ![t] = to]

-----------------------------------------------------------------------------
(* Threads and signals, as the kernel provides them *)

\* A thread starts with the signal mask of its creator.
Spawn(t, u) ==
  /\ pc[t] \in {"raw", "idle"}
  /\ Step(u, "unborn", "raw")
  /\ blocked' = [blocked EXCEPT ![u] = blocked[t]]
  /\ UNCHANGED <<global, tl_handlers, m_ss, pending, arg, leaving, alive, astray>>

\* A signal that can be blocked is sent to the process.
Raise(s) ==
  /\ s \notin Uncatchable
  /\ Running
  /\ pending' = pending \cup {s}
  /\ UNCHANGED <<global, local, pc, arg, leaving, alive, astray>>

\* c_sigHandler in thread t.  A map that the interrupted code was about to
\* change may be read in any condition; a signal without an entry makes
\* tl_handlers[sigNum] an empty function, whose call throws.  Before sigaction()
\* the signal has its default action.
Deliver(t, s) ==
  /\ Running
  /\ pc[t] # "unborn"
  /\ s \in pending \ blocked[t]
  /\ pending' = pending \ {s}
  /\ \/ s \in installed \cap tl_handlers[t] /\ alive' = TRUE
     \/ s \in installed \ tl_handlers[t] /\ alive' = FALSE
     \/ s \in installed /\ pc[t] \in {"insert", "erase"} /\ alive' = FALSE
     \/ s \notin installed /\ alive' = (s \in Ignored)
  /\ UNCHANGED <<global, local, pc, arg, leaving, astray>>

-----------------------------------------------------------------------------
(* The constructor and addSignal *)

\* _init(): everything is blocked, the subscriptions are forgotten.
Construct(t) ==
  /\ Step(t, "raw", "idle")
  /\ blocked' = [blocked EXCEPT ![t] = Sig]
  /\ m_ss' = [m_ss EXCEPT ![t] = {}]
  /\ UNCHANGED <<global, tl_handlers, pending, arg, leaving, alive, astray>>

addSignal(t, s) ==
  /\ Step(t, "idle", "check")
  /\ g_signalsMtx = NoThread
  /\ g_signalsMtx' = t
  /\ arg' = [arg EXCEPT ![t] = s]
  /\ UNCHANGED <<g_signals, installed, local, pending, leaving, alive, astray>>

\* addSignal returns or throws, and the guard unlocks.
Returns(t, from) ==
  /\ Step(t, from, "idle")
  /\ g_signalsMtx' = NoThread
  /\ arg' = [arg EXCEPT ![t] = NoSig]

\* Mutation of Check: a signal may be registered twice.
CheckSkipped(t) ==
  /\ Step(t, "check", "insert")
  /\ UNCHANGED <<global, local, pending, arg, leaving, alive, astray>>

\* find_if: a signal that is in the table, for whatever thread, is refused.
Check(t) ==
  /\ \/ /\ arg[t] \notin g_signals
        /\ Step(t, "check", "insert")
        /\ UNCHANGED <<g_signalsMtx, arg>>
     \/ /\ arg[t] \in g_signals
        /\ Returns(t, "check")
  /\ UNCHANGED <<g_signals, installed, local, pending, leaving, alive, astray>>

\* tl_handlers[d.sigNum] = d.handler and g_signals.push_back(d).
Insert(t) ==
  /\ Step(t, "insert", "install")
  /\ tl_handlers' = [tl_handlers EXCEPT ![t] = @ \cup {arg[t]}]
  /\ g_signals' = g_signals \cup {arg[t]}
  /\ UNCHANGED <<g_signalsMtx, installed, m_ss, blocked, pending, arg, leaving,
                 alive, astray>>

\* sigaction().  When it fails addSignal throws; the entries stay.
Install(t) ==
  /\ \/ /\ arg[t] \notin Uncatchable
        /\ Step(t, "install", "unblock")
        /\ installed' = installed \cup {arg[t]}
        /\ UNCHANGED <<g_signalsMtx, arg>>
     \/ /\ arg[t] \in Uncatchable
        /\ Returns(t, "install")
        /\ UNCHANGED installed
  /\ UNCHANGED <<g_signals, local, pending, leaving, alive, astray>>

\* Mutation of Unblock: sigaddset without pthread_sigmask.
UnblockForgotten(t) ==
  /\ Step(t, "unblock", "release")
  /\ m_ss' = [m_ss EXCEPT ![t] = @ \cup {arg[t]}]
  /\ UNCHANGED <<global, tl_handlers, blocked, pending, arg, leaving, alive, astray>>

\* sigaddset and pthread_sigmask(SIG_UNBLOCK, &m_ss); a pending signal comes in
\* while the mutex is still locked.
Unblock(t) ==
  /\ Step(t, "unblock", "release")
  /\ m_ss' = [m_ss EXCEPT ![t] = @ \cup {arg[t]}]
  /\ blocked' = [blocked EXCEPT ![t] = @ \ m_ss'[t]]
  /\ UNCHANGED <<global, tl_handlers, pending, arg, leaving, alive, astray>>

Release(t) ==
  /\ Returns(t, "release")
  /\ UNCHANGED <<g_signals, installed, local, pending, leaving, alive, astray>>

-----------------------------------------------------------------------------
(* rmSignal and the destructor *)

\* Mutation of Block: the signal stays unblocked while its handler goes.
BlockForgotten(t, s) ==
  /\ arg' = [arg EXCEPT ![t] = s]
  /\ UNCHANGED <<global, local, pending, leaving, alive, astray>>

\* pthread_sigmask(SIG_BLOCK) of the signal alone.
Block(t, s) ==
  /\ blocked' = [blocked EXCEPT ![t] = @ \cup {s}]
  /\ arg' = [arg EXCEPT ![t] = s]
  /\ UNCHANGED <<global, tl_handlers, m_ss, pending, leaving, alive, astray>>

rmSignal(t, s) == Step(t, "idle", "rmTable") /\ Block(t, s)

\* The entry of the global table is erased under the mutex.  For a signal that
\* is not in it erase(end()) is undefined: another entry goes, or the process.
RmTable(t) ==
  /\ g_signalsMtx = NoThread
  /\ Step(t, "rmTable", "erase")
  /\ \/ /\ arg[t] \in g_signals
        /\ g_signals' = g_signals \ {arg[t]}
        /\ astray' = (astray \/ arg[t] \notin tl_handlers[t])
        /\ alive' = TRUE
     \/ /\ arg[t] \notin g_signals
        /\ \E s \in g_signals : g_signals' = g_signals \ {s}
        /\ astray' = TRUE
        /\ alive' = TRUE
     \/ /\ arg[t] \notin g_signals
        /\ g_signals' = g_signals
        /\ astray' = TRUE
        /\ alive' = FALSE
  /\ UNCHANGED <<g_signalsMtx, installed, local, pending, arg, leaving>>

\* tl_handlers.erase(sigNum).
Erase(t) ==
  /\ Step(t, "erase", "rmUnblock")
  /\ tl_handlers' = [tl_handlers EXCEPT ![t] = @ \ {arg[t]}]
  /\ UNCHANGED <<global, m_ss, blocked, pending, arg, leaving, alive, astray>>

\* sigdelset and SIG_UNBLOCK of the remaining subscriptions.  Within the
\* destructor the loop goes on from the erased element: undefined, it may end
\* early or take the process with it.
RmUnblock(t) ==
  /\ \/ /\ t \notin leaving
        /\ Step(t, "rmUnblock", "idle")
        /\ UNCHANGED <<alive, astray>>
     \/ /\ t \in leaving
        /\ Step(t, "rmUnblock", "destroy")
        /\ UNCHANGED <<alive, astray>>
     \/ /\ t \in leaving
        /\ Step(t, "rmUnblock", "clear")
        /\ astray' = (astray \/ tl_handlers[t] # {})
        /\ UNCHANGED alive
     \/ /\ t \in leaving
        /\ Step(t, "rmUnblock", "clear")
        /\ astray' = TRUE
        /\ alive' = FALSE
  /\ m_ss' = [m_ss EXCEPT ![t] = @ \ {arg[t]}]
  /\ blocked' = [blocked EXCEPT ![t] = @ \ m_ss'[t]]
  /\ arg' = [arg EXCEPT ![t] = NoSig]
  /\ UNCHANGED <<global, tl_handlers, pending, leaving>>

\* ~SignalHandler: the loop over tl_handlers.
Destroy(t) ==
  /\ Step(t, "idle", "destroy")
  /\ leaving' = leaving \cup {t}
  /\ UNCHANGED <<global, local, pending, arg, alive, astray>>

DestroyNext(t) ==
  \/ \E s \in tl_handlers[t] : Step(t, "destroy", "rmTable") /\ Block(t, s)
  \/ /\ tl_handlers[t] = {}
     /\ Step(t, "destroy", "clear")
     /\ UNCHANGED <<global, local, pending, arg, leaving, alive, astray>>

\* tl_handlers.clear() and _init(); the thread is left with everything blocked.
Clear(t) ==
  /\ Step(t, "clear", "raw")
  /\ tl_handlers' = [tl_handlers EXCEPT ![t] = {}]
  /\ m_ss' = [m_ss EXCEPT ![t] = {}]
  /\ blocked' = [blocked EXCEPT ![t] = Sig]
  /\ leaving' = leaving \ {t}
  /\ UNCHANGED <<global, pending, arg, alive, astray>>

-----------------------------------------------------------------------------
\* What a thread does once it has begun a call.
Proceeds(t) ==
  \/ Check(t) \/ Insert(t) \/ Install(t) \/ Unblock(t) \/ Release(t)
  \/ RmTable(t) \/ Erase(t) \/ RmUnblock(t)
  \/ DestroyNext(t) \/ Clear(t)

Next ==
  \/ \E t, u \in Thread : Spawn(t, u)
  \/ \E s \in Sig : Raise(s)
  \/ \E t \in Thread, s \in Sig : Deliver(t, s) \/ addSignal(t, s) \/ rmSignal(t, s)
  \/ \E t \in Thread : Construct(t) \/ Destroy(t) \/ Proceeds(t)

Spec == Init /\ [][Next]_vars

\* The kernel delivers a signal that some thread does not block.
FairSpec ==
  /\ Spec
  /\ \A s \in Sig : WF_vars(\E t \in Thread : Deliver(t, s))

-----------------------------------------------------------------------------
(* Properties *)

HasHandler(t) == pc[t] \in Calls

\* A thread with a SignalHandler is only ever interrupted by a signal for which
\* its own map has a handler, at every step of addSignal, rmSignal and the
\* destructor: the handler is stored before the signal is unblocked and erased
\* after it is blocked.  So c_sigHandler calls no empty function there.
HandlerKnown ==
  ~astray => \A t \in Thread : HasHandler(t) =>
    Sig \ blocked[t] \subseteq installed \cap tl_handlers[t]

\* A signal is handled by the thread that registered it: no two threads with a
\* SignalHandler leave it unblocked, whatever the interleaving of their calls,
\* since rmSignal blocks it before the table lets another thread have it.
OneSubscriber ==
  ~astray => \A t, u \in Thread : t # u /\ HasHandler(t) /\ HasHandler(u) =>
    (Sig \ blocked[t]) \cap (Sig \ blocked[u]) = {}

Subscribed(t, s) ==
  s \in m_ss[t] /\ ~(pc[t] \in {"rmTable", "erase", "rmUnblock"} /\ arg[t] = s)

\* A signal sent while a thread is subscribed to it is delivered, unless the
\* subscription or the process ends first.
NotLost ==
  \A t \in Thread, s \in Sig :
    s \in pending /\ Subscribed(t, s)
      ~> s \notin pending \/ ~Subscribed(t, s) \/ ~Running
=============================================================================

-------------------------- MODULE NetLinkListener ---------------------------
(***************************************************************************)
(* System::NetLinkListener (src/NetLinkListener.cpp): a thread reads       *)
(* messages about network interfaces from a netlink socket and calls the   *)
(* callbacks that other threads registered for the event and the           *)
(* interface.  m_ifaceEvsMtx guards the list of registrations, also while  *)
(* callbacks run; the socket and the end of the thread are guarded by      *)
(* nothing.                                                                *)
(*                                                                         *)
(* An exception that leaves the thread's function ends the process.        *)
(* add- and removeInterfaceEvent are critical sections of m_ifaceEvsMtx    *)
(* and single steps.  A callback is the user's code, and runs while the    *)
(* processor holds the mutex: it returns, throws, or never comes back, as  *)
(* when it calls add- or removeInterfaceEvent itself.                      *)
(***************************************************************************)
EXTENDS Naturals, Sequences

CONSTANTS
  Event,      \* NetLinkInterfaceEvents
  Iface,      \* names of interfaces
  NoName,     \* a message without IFLA_IFNAME
  Route,      \* type of the messages about routes
  Other,      \* any other type of message
  MaxQueue    \* bound: messages the socket holds before it overruns

ASSUME ConstAssumption ==
  /\ NoName \notin Iface
  /\ Route \notin Event /\ Other \notin Event
  /\ MaxQueue \in Nat \ {0}

\* An InterfaceEventCB_t, without its callback and argument.
Sub == [event : Event, ifaceName : Iface]

Msg == [type : Event \cup {Route, Other}, name : Iface \cup {NoName}]

VARIABLES
  holder,     \* life of the instance: none, up, joining, gone
  pc,         \* control point of the processor thread
  sock,       \* m_netlinkSocket: -1, open, bound, closed
  queue,      \* messages in the socket
  overrun,    \* the socket has dropped messages
  msg,        \* the message that the thread works on
  mtx,        \* m_ifaceEvsMtx is held by the processor
  m_ifaceEvs, \* registrations
  todo,       \* registrations that processEvent has still to look at
  owed,       \* history: registrations with a matching message to come
  alive       \* the process runs

vars == <<holder, pc, sock, queue, overrun, msg, mtx, m_ifaceEvs, todo, owed, alive>>
list == <<mtx, m_ifaceEvs, todo, owed>>
wire == <<queue, overrun>>

NoMsg == [type |-> Route, name |-> NoName]

Matches(c, m) == c.event = m.type /\ c.ifaceName = m.name

Init ==
  /\ holder = "none" /\ pc = "off" /\ sock = "none"
  /\ queue = <<>> /\ overrun = FALSE
  /\ msg = NoMsg
  /\ mtx = FALSE /\ m_ifaceEvs = {} /\ todo = {} /\ owed = {}
  /\ alive = TRUE

Step(from, to) == alive /\ pc = from /\ pc' = to

\* An exception in the processor thread: std::terminate.
Terminates(from) ==
  /\ alive
  /\ pc = from
  /\ alive' = FALSE
  /\ UNCHANGED <<holder, pc, sock, wire, msg, list>>

-----------------------------------------------------------------------------
(* The threads that use the listener *)

\* getInstance(): the holder is set before startProcessor(), so that when no
\* thread can be started the next call returns an instance without one.
getInstance ==
  /\ alive
  /\ holder = "none"
  /\ holder' = "up"
  /\ pc' \in {"socket", "off"}
  /\ UNCHANGED <<sock, wire, msg, list, alive>>

addInterfaceEvent(c) ==
  /\ alive /\ holder = "up" /\ ~mtx
  /\ m_ifaceEvs' = m_ifaceEvs \cup {c}
  /\ UNCHANGED <<holder, pc, sock, wire, msg, mtx, todo, owed, alive>>

\* list::remove(in) with an operator== that compares ifaceName with itself: all
\* registrations of the event go.
Removes(c) ==
  /\ m_ifaceEvs' = {d \in m_ifaceEvs : d.event # c.event}
  /\ owed' = {d \in owed : d.event # c.event}

\* Mutation of removeInterfaceEvent: without m_ifaceEvsMtx.
removeUnlocked(c) ==
  /\ alive /\ holder = "up"
  /\ Removes(c)
  /\ UNCHANGED <<holder, pc, sock, wire, msg, mtx, todo, alive>>

removeInterfaceEvent(c) ==
  /\ alive /\ holder = "up" /\ ~mtx
  /\ Removes(c)
  /\ UNCHANGED <<holder, pc, sock, wire, msg, mtx, todo, alive>>

\* ~NetLinkListener: close(m_netlinkSocket), which may still be -1.
Destroy ==
  /\ alive
  /\ holder = "up"
  /\ holder' = "joining"
  /\ sock' = IF sock = "none" THEN "none" ELSE "closed"
  /\ UNCHANGED <<pc, wire, msg, list, alive>>

\* join() of a thread that was started waits for its end; the loop of the
\* thread has none but an exception, as recvmsg on a netlink socket never
\* returns 0.
Join ==
  /\ alive
  /\ holder = "joining"
  /\ pc = "off"
  /\ holder' = "gone"
  /\ UNCHANGED <<pc, sock, wire, msg, list, alive>>

-----------------------------------------------------------------------------
(* The kernel *)

\* A message arrives, also on a socket that was closed while recvmsg waits on
\* it; one too many overruns the socket.
Arrive(m) ==
  /\ alive
  /\ sock = "bound" \/ pc = "waiting"
  /\ \/ /\ Len(queue) < MaxQueue
        /\ queue' = Append(queue, m)
        /\ owed' = owed \cup {c \in m_ifaceEvs : Matches(c, m)}
        /\ UNCHANGED overrun
     \/ /\ Len(queue) = MaxQueue
        /\ overrun' = TRUE
        /\ UNCHANGED <<queue, owed>>
  /\ UNCHANGED <<holder, pc, sock, msg, mtx, m_ifaceEvs, todo, alive>>

-----------------------------------------------------------------------------
(* m_ifaceEventProcessor_f *)

Socket ==
  \/ /\ Step("socket", "bind")
     /\ sock' = "open"
     /\ UNCHANGED <<holder, wire, msg, list, alive>>
  \/ Terminates("socket")

Bind ==
  \/ /\ Step("bind", "recvmsg")
     /\ sock = "open"
     /\ sock' = "bound"
     /\ UNCHANGED <<holder, wire, msg, list, alive>>
  \/ Terminates("bind")

\* recvmsg takes the descriptor; a closed one is EBADF.
Recvmsg ==
  \/ /\ Step("recvmsg", "waiting")
     /\ sock = "bound"
     /\ UNCHANGED <<holder, sock, wire, msg, list, alive>>
  \/ sock = "closed" /\ Terminates("recvmsg")

\* recvmsg returns a message, which close() does not make it do.
Receive ==
  /\ Step("waiting", "parse")
  /\ ~overrun /\ queue # <<>>
  /\ msg' = Head(queue)
  /\ queue' = Tail(queue)
  /\ UNCHANGED <<holder, sock, overrun, list, alive>>

\* recvmsg fails with ENOBUFS after an overrun.
ReceiveOverrun == overrun /\ Terminates("waiting")

\* A signal handler ran in the thread (no SA_RESTART): EINTR.
Interrupted == Terminates("waiting")

\* The type and the attributes.  Without IFLA_IFNAME the pointer ifName is not
\* initialised: some name is read, of an interface or not, or the process ends.
\* Nothing is done for a change of routes, nor in the default branch.
Parse ==
  \/ /\ Step("parse", "recvmsg")
     /\ msg.type \in {Route, Other}
     /\ msg' = NoMsg
     /\ UNCHANGED <<holder, sock, wire, list, alive>>
  \/ /\ Step("parse", "processEvent")
     /\ msg.type \in Event /\ msg.name # NoName
     /\ UNCHANGED <<holder, sock, wire, msg, list, alive>>
  \/ /\ Step("parse", "processEvent")
     /\ msg.type \in Event /\ msg.name = NoName
     /\ \E n \in Iface \cup {NoName} : msg' = [msg EXCEPT !.name = n]
     /\ UNCHANGED <<holder, sock, wire, list, alive>>
  \/ msg.type # Route /\ msg.name = NoName /\ Terminates("parse")

\* Control points under the guard of processEvent.
Walking == {"walk", "callback", "stuck"}

\* processEvent: the guard, then the walk over the list.
processEvent ==
  /\ Step("processEvent", "walk")
  /\ ~mtx
  /\ mtx' = TRUE
  /\ todo' = m_ifaceEvs
  /\ UNCHANGED <<holder, sock, wire, msg, m_ifaceEvs, owed, alive>>

\* Mutation of Visit: the loop ends at the first registration that does not
\* match.
VisitStops ==
  /\ \E c \in todo :
       \/ /\ Matches(c, msg)
          /\ Step("walk", "callback")
          /\ todo' = todo \ {c}
          /\ owed' = owed \ {c}
       \/ /\ ~Matches(c, msg)
          /\ Step("walk", "walk")
          /\ todo' = {}
          /\ UNCHANGED owed
  /\ UNCHANGED <<holder, sock, wire, msg, mtx, m_ifaceEvs, alive>>

\* One turn of the loop; a match gets its callback.
Visit ==
  /\ \E c \in todo :
       \/ /\ Matches(c, msg)
          /\ Step("walk", "callback")
          /\ todo' = todo \ {c}
          /\ owed' = owed \ {c}
       \/ /\ ~Matches(c, msg)
          /\ Step("walk", "walk")
          /\ todo' = todo \ {c}
          /\ UNCHANGED owed
  /\ UNCHANGED <<holder, sock, wire, msg, mtx, m_ifaceEvs, alive>>

\* it.callback(it.cbArg) returns, throws through the thread's function, or calls
\* add- or removeInterfaceEvent, which waits for the mutex of its own thread.
Callback ==
  \/ /\ Step("callback", "walk") \/ Step("callback", "stuck")
     /\ UNCHANGED <<holder, sock, wire, msg, list, alive>>
  \/ Terminates("callback")

EndOfWalk ==
  /\ Step("walk", "recvmsg")
  /\ todo = {}
  /\ mtx' = FALSE
  /\ msg' = NoMsg
  /\ UNCHANGED <<holder, sock, wire, m_ifaceEvs, todo, owed, alive>>

Processor ==
  \/ Socket \/ Bind \/ Recvmsg \/ Receive \/ ReceiveOverrun \/ Parse
  \/ processEvent \/ Visit \/ Callback \/ EndOfWalk

Next ==
  \/ getInstance \/ Destroy \/ Join
  \/ \E c \in Sub : addInterfaceEvent(c) \/ removeInterfaceEvent(c)
  \/ \E m \in Msg : Arrive(m)
  \/ Processor \/ Interrupted

Spec == Init /\ [][Next]_vars

\* The scheduler runs the processor thread and the thread that joins it.  That a
\* callback returns is not assumed: one that does not is stuck.
FairSpec == Spec /\ WF_vars(Processor) /\ WF_vars(Join)

-----------------------------------------------------------------------------
(* Properties *)

\* The list is not changed under processEvent: every registration that the walk
\* has still to look at is in the list, so that no callback is called after
\* removeInterfaceEvent has returned.
WalkSafe == pc \in Walking => todo \subseteq m_ifaceEvs

\* A registration for which a message has arrived gets its callback, unless it
\* is removed, the listener is destroyed, the process ends, or an earlier
\* callback never returns from under m_ifaceEvsMtx.
CallbackRuns ==
  \A c \in Sub :
    c \in owed ~> c \notin owed \/ holder # "up" \/ ~alive \/ pc = "stuck"

\* close(m_netlinkSocket) in the destructor "makes m_ifaceEventProcessor_f
\* stop": after it the thread does not go on for ever, and join() returns unless
\* the process ends or a callback never returns.
CloseStopsProcessor ==
  holder = "joining" /\ sock = "closed" ~> pc \in {"off", "stuck"} \/ ~alive
=============================================================================

--------------------------- MODULE DescriptorList ---------------------------
(***************************************************************************)
(* The table of BufferDescriptors in the shared segment of the             *)
(* BufferManager (src/IPC_BufferManager.cpp): two doubly linked lists, the *)
(* free and the full descriptors, threaded through one array by index.     *)
(* The operators are the private member functions that relink it, always   *)
(* called under m_mtx.                                                     *)
(*                                                                         *)
(* A component: BufferManager instantiates it.                             *)
(***************************************************************************)
EXTENDS Integers

CONSTANTS
  Capacity,   \* IPC_BUFFER_MANAGER_CAPACITY
  NoId        \* id[0] = 0

VARIABLES
  nextFreeIdx, nextFullIdx,   \* heads of the lists, in BufferManager_Control
  nextIdx, prevIdx,           \* links of each descriptor
  id                          \* id of each descriptor

listVars == <<nextFreeIdx, nextFullIdx, nextIdx, prevIdx, id>>

Idx  == 0 .. Capacity - 1
NIL  == -1
Link == Idx \cup {NIL}

\* Mutation of Init: the last descriptor is not terminated.
InitUnterminated ==
  /\ nextFreeIdx = 0
  /\ nextFullIdx = NIL
  /\ nextIdx = [i \in Idx |-> i + 1]
  /\ prevIdx = [i \in Idx |-> i - 1]
  /\ id = [i \in Idx |-> NoId]

\* initPointers(0) and initDescriptors(): every descriptor is free.
Init ==
  /\ nextFreeIdx = 0
  /\ nextFullIdx = NIL
  /\ nextIdx = [i \in Idx |-> IF i = Capacity - 1 THEN NIL ELSE i + 1]
  /\ prevIdx = [i \in Idx |-> i - 1]
  /\ id = [i \in Idx |-> NoId]

\* "Removing from prev list", in both functions below: i's neighbours are
\* linked to each other.  The heads of the lists are not looked at.
UnlinkedNext(i) ==
  [j \in Idx |-> IF j = prevIdx[i] THEN nextIdx[i] ELSE nextIdx[j]]

UnlinkedPrev(i) ==
  [j \in Idx |-> IF j = nextIdx[i] THEN prevIdx[i] ELSE prevIdx[j]]

-----------------------------------------------------------------------------
\* Visit[n] is fullPtr of getDescriptor() after n turns of its loop.
Visit[n \in 0 .. Capacity] ==
  IF n = 0 THEN nextFullIdx
  ELSE IF Visit[n - 1] = NIL THEN NIL
  ELSE nextIdx[Visit[n - 1]]

\* Turns at which the loop meets a descriptor with this id.  Capacity turns see
\* every descriptor the list can reach.
Hits(x) == {n \in 0 .. Capacity - 1 : Visit[n] \in Idx /\ id[Visit[n]] = x}

\* getDescriptor(x) returns descriptor i, the first one on the list.
Found(x, i) ==
  \E n \in Hits(x) : Visit[n] = i /\ \A m \in Hits(x) : n <= m

\* getDescriptor(x) returns nullptr.
NotFound(x) == Hits(x) = {} /\ Visit[Capacity] = NIL

\* getDescriptor(x) never returns: the links form a cycle without the id.
Spins(x) == Hits(x) = {} /\ Visit[Capacity] # NIL

\* Mutation of getFreeDescriptor: the free list is not advanced.
getFreeStaysAtHead(x) ==
  LET r == nextFreeIdx IN
  /\ r # NIL
  /\ nextFullIdx' = r
  /\ UNCHANGED nextFreeIdx
  /\ nextIdx' = [UnlinkedNext(r) EXCEPT ![r] = nextFullIdx]
  /\ prevIdx' = [UnlinkedPrev(r) EXCEPT ![r] = NIL]
  /\ id' = [id EXCEPT ![r] = x]

\* getFreeDescriptor() on a non-empty free list and the strncpy of the id into
\* its result: the head of the free list becomes the head of the full list.
\* The result keeps its prevIdx when the full list was empty.
getFreeDescriptor(x) ==
  LET r == nextFreeIdx IN
  /\ r # NIL
  /\ nextFullIdx' = r
  /\ nextFreeIdx' = nextIdx[r]
  /\ nextIdx' = [UnlinkedNext(r) EXCEPT ![r] = nextFullIdx]
  /\ prevIdx' = [j \in Idx |->
                   IF j = r /\ nextFullIdx # NIL THEN NIL
                   ELSE IF j = nextFullIdx THEN r
                   ELSE UnlinkedPrev(r)[j]]
  /\ id' = [id EXCEPT ![r] = x]

\* putFreeDescriptor(i): i is unlinked, cleared and put in front of the free
\* list.  The head of a non-empty free list stays where it is, and nextFullIdx
\* is never changed.
putFreeDescriptor(i) ==
  /\ nextFreeIdx' = IF nextFreeIdx = NIL THEN i ELSE nextFreeIdx
  /\ UNCHANGED nextFullIdx
  /\ nextIdx' = [UnlinkedNext(i) EXCEPT ![i] = nextFreeIdx]
  /\ prevIdx' = [j \in Idx |->
                   IF j = i THEN NIL
                   ELSE IF j = nextFreeIdx THEN i
                   ELSE UnlinkedPrev(i)[j]]
  /\ id' = [id EXCEPT ![i] = NoId]

TypeOK(Id) ==
  /\ nextFreeIdx \in Link
  /\ nextFullIdx \in Link
  /\ nextIdx \in [Idx -> Link]
  /\ prevIdx \in [Idx -> Link]
  /\ id \in [Idx -> Id \cup {NoId}]
=============================================================================

------------------------ MODULE MutexManagerProofs --------------------------
(***************************************************************************)
(* Proofs about IPC::MutexManager for any processes, names and capacity.   *)
(*                                                                         *)
(* Nothing but the history of conflicts keeps two calls from claiming one  *)
(* name, so the invariant has an unconditional part (Searches: what the    *)
(* search for a free slot has seen stays true, as names are never removed) *)
(* and a part that holds while no two calls have conflicted (Names and     *)
(* Words): a name is in one slot that is not half-written, a call that     *)
(* still searches is alone with its name, and a word is UNLOCKED only      *)
(* after its slot's one constructor has run.  A slot that a killed process *)
(* left half-written may be found under the shorter name, and there may be *)
(* a whole slot with that name too: its word stays LOCKED for ever, so     *)
(* that nobody enters through it.                                          *)
(***************************************************************************)
EXTENDS MutexManager, TLAPS

Types ==
  /\ m_id \in [Slot -> Text \cup {NoId}]
  /\ m_ftx \in [Slot -> {LOCKED, UNLOCKED}]
  /\ pc \in [Proc -> PCs]
  /\ id \in [Proc -> Id \cup {NoId}]
  /\ ptr \in [Proc -> Slot]
  /\ half \subseteq Slot
  /\ \A p \in Proc : pc[p] \notin {"idle", "dead"} => id[p] \in Id
  /\ \A p \in Proc : pc[p] = "idle" => ptr[p] = 1

\* Every slot that findFreeDescriptor has passed has a name.
PassedIsNamed ==
  \A p \in Proc : pc[p] = "findFree" =>
    \A i \in Slot : i < ptr[p] => m_id[i] # NoId

Searches == PassedIsNamed /\ ThrowsOnlyWhenFull

\* Control points at which a call has its slot.
Settled == {"construct", "have", "lock", "asleep", "crit"}

NamesUnique ==
  \A i, j \in Slot \ half : m_id[i] = m_id[j] /\ m_id[i] # NoId => i = j

\* A name that a call has not found is in no slot as a whole.
NotFound ==
  \A p \in Proc :
    /\ pc[p] = "find" => \A i \in Slot \ half : i < ptr[p] => m_id[i] # id[p]
    /\ pc[p] \in {"findFree", "name"} => \A i \in Slot \ half : m_id[i] # id[p]

\* The slot that a call has chosen is free until it writes the first characters
\* of its name, is then this call's alone, and has that name in the end.
SlotIsNamed ==
  \A p \in Proc :
    /\ pc[p] = "name" =>
         \/ m_id[ptr[p]] = NoId
         \/ /\ ptr[p] \in half
            /\ m_id[ptr[p]] \in Shorter[id[p]]
            /\ \A q \in Proc : pc[q] = "name" /\ ptr[q] = ptr[p] => q = p
    /\ pc[p] \in Settled =>
         /\ m_id[ptr[p]] = id[p]
         /\ \A q \in Proc : pc[q] = "name" => ptr[q] # ptr[p]
    /\ pc[p] \in {"construct", "crit"} => ptr[p] \notin half

\* A word is still LOCKED, as the kernel filled it, until Mutex(ptr, true), which
\* runs once for a slot, and everybody who sleeps on it meanwhile is early.
RawIsLocked ==
  /\ \A i \in Slot : m_id[i] = NoId \/ i \in half => m_ftx[i] = LOCKED
  /\ \A p, q \in Proc :
       pc[p] = "construct" /\ ptr[q] = ptr[p] =>
         /\ m_ftx[ptr[p]] = LOCKED
         /\ pc[q] = "construct" => q = p
         /\ pc[q] # "crit"
         /\ pc[q] = "asleep" => q \in early

\* A slot's word excludes.
SlotExcludes ==
  \A p, q \in Proc : pc[p] = "crit" =>
    /\ m_ftx[ptr[p]] = LOCKED
    /\ pc[q] = "crit" /\ ptr[q] = ptr[p] => q = p

Names == mixed = {} /\ NamesUnique /\ NotFound /\ SlotIsNamed
Words == RawIsLocked /\ SlotExcludes /\ StrandedOnlyEarly

IInv == Types /\ Searches /\ (~conflict => Names /\ Words)

-----------------------------------------------------------------------------
\* A search visits the slots in order.
LEMMA SlotOrder ==
  /\ 1 \in Slot
  /\ \A i \in Slot : i < m_capacity => i + 1 \in Slot
  /\ \A i, j \in Slot :
       /\ ~(j < 1)
       /\ j < i + 1 => j < i \/ j = i
       /\ i = m_capacity => j < i \/ j = i
BY ConstAssumption DEF Slot

\* A step of strncpy stores some text into the caller's slot.
LEMMA StoreStep ==
  ASSUME Types, NEW p \in Proc, initDescriptor(p)
  PROVE  /\ pc[p] = "name"
         /\ \E s \in Text : m_id' = [m_id EXCEPT ![ptr[p]] = s]
         /\ UNCHANGED <<m_ftx, id, ptr, early>>
         /\ \/ pc' = pc /\ half' = half \cup {ptr[p]}
            \/ /\ pc' = [pc EXCEPT ![p] = "construct"]
               /\ half' = half \ {ptr[p]}
<1>1. Partly(p) \subseteq Text /\ Wholly(p) \subseteq Text
  BY ConstAssumption DEF Types, initDescriptor, Step, Partly, Wholly
<1>2. pc[p] = "name" /\ UNCHANGED <<m_ftx, id, ptr, early>>
  BY DEF initDescriptor, Step, Stores
<1>3. CASE /\ Step(p, "name", "name")
           /\ \E s \in Partly(p) : m_id' = [m_id EXCEPT ![ptr[p]] = s]
           /\ half' = half \cup {ptr[p]}
  <2>1. pc' = pc
    BY <1>3 DEF Types, Step
  <2> QED
    BY <1>1, <1>2, <1>3, <2>1
<1>4. CASE /\ Step(p, "name", "construct")
           /\ \E s \in Wholly(p) : m_id' = [m_id EXCEPT ![ptr[p]] = s]
           /\ half' = half \ {ptr[p]}
  BY <1>1, <1>2, <1>4 DEF Step
<1> QED
  BY <1>3, <1>4 DEF initDescriptor

\* Without a conflict, the store is a longer part of the caller's name, or the
\* whole of it, and nobody else writes into the slot or looks for the name.
LEMMA QuietStoreStep ==
  ASSUME Types, ~conflict => mixed = {}, NEW p \in Proc, initDescriptor(p),
         ~conflict'
  PROVE  /\ ~conflict
         /\ mixed' = {}
         /\ \A q \in Proc \ {p} :
              /\ pc[q] \in Searching => id[q] # id[p]
              /\ pc[q] = "name" => ptr[q] # ptr[p]
         /\ \/ /\ pc' = pc
               /\ half' = half \cup {ptr[p]}
               /\ \E s \in Shorter[id[p]] : m_id' = [m_id EXCEPT ![ptr[p]] = s]
            \/ /\ pc' = [pc EXCEPT ![p] = "construct"]
               /\ half' = half \ {ptr[p]}
               /\ m_id' = [m_id EXCEPT ![ptr[p]] = id[p]]
<1>1. ~conflict /\ ~Writing(p) /\ mixed' = {}
  BY DEF initDescriptor, Stores
<1>2. \A q \in Proc \ {p} :
        /\ pc[q] \in Searching => id[q] # id[p]
        /\ pc[q] = "name" => ptr[q] # ptr[p]
  BY <1>1 DEF initDescriptor, Stores, Writing
<1>3. Wholly(p) = {id[p]} /\ Partly(p) \subseteq Shorter[id[p]]
  BY <1>1 DEF Wholly, Partly
<1>4. CASE /\ Step(p, "name", "name")
           /\ \E s \in Partly(p) : m_id' = [m_id EXCEPT ![ptr[p]] = s]
           /\ half' = half \cup {ptr[p]}
  <2>1. pc' = pc
    BY <1>4 DEF Types, Step
  <2> QED
    BY <1>1, <1>2, <1>3, <1>4, <2>1
<1>5. CASE /\ Step(p, "name", "construct")
           /\ \E s \in Wholly(p) : m_id' = [m_id EXCEPT ![ptr[p]] = s]
           /\ half' = half \ {ptr[p]}
  BY <1>1, <1>2, <1>3, <1>5 DEF Step
<1> QED
  BY <1>4, <1>5 DEF initDescriptor

\* Without a conflict, a search moves on, or finds its name in a slot that nobody
\* is writing.
LEMMA QuietFindStep ==
  ASSUME NEW p \in Proc, findDescriptor(p), ~conflict'
  PROVE  /\ ~conflict
         /\ pc[p] = "find"
         /\ UNCHANGED <<m_id, mixed, half, m_ftx, id, early>>
         /\ \/ /\ m_id[ptr[p]] = id[p]
               /\ pc' = [pc EXCEPT ![p] = "have"]
               /\ ptr' = ptr
               /\ \A q \in Proc \ {p} : pc[q] = "name" => ptr[q] # ptr[p]
            \/ /\ m_id[ptr[p]] # id[p]
               /\ ptr[p] < m_capacity
               /\ pc' = [pc EXCEPT ![p] = "find"]
               /\ ptr' = [ptr EXCEPT ![p] = @ + 1]
            \/ /\ m_id[ptr[p]] # id[p]
               /\ ptr[p] = m_capacity
               /\ pc' = [pc EXCEPT ![p] = "findFree"]
               /\ ptr' = [ptr EXCEPT ![p] = 1]
<1>1. UNCHANGED <<m_id, mixed, half, m_ftx, id, early>> /\ pc[p] = "find"
  BY DEF findDescriptor, contents, Step
<1>2. ~conflict
  BY Zenon DEF findDescriptor
<1>3. CASE /\ m_id[ptr[p]] = id[p]
           /\ Step(p, "find", "have")
           /\ conflict' = (conflict \/ Writing(p))
           /\ UNCHANGED ptr
  <2>1. ~Writing(p)
    BY <1>3, Zenon
  <2> QED
    BY <1>1, <1>2, <1>3, <2>1 DEF Step, Writing
<1>4. CASE /\ m_id[ptr[p]] # id[p]
           /\ ptr[p] < m_capacity
           /\ Step(p, "find", "find")
           /\ ptr' = [ptr EXCEPT ![p] = @ + 1]
  BY <1>1, <1>2, <1>4 DEF Step
<1>5. CASE /\ m_id[ptr[p]] # id[p]
           /\ ptr[p] = m_capacity
           /\ Step(p, "find", "findFree")
           /\ ptr' = [ptr EXCEPT ![p] = 1]
  BY <1>1, <1>2, <1>5 DEF Step
<1> QED
  BY <1>3, <1>4, <1>5 DEF findDescriptor

\* Every step keeps the types and what the searches have seen, conflicts or not:
\* no step removes a name.
LEMMA SearchStep == Types /\ Searches /\ [Next]_vars => Types' /\ Searches'
<1> SUFFICES ASSUME Types, Searches, [Next]_vars PROVE (Types /\ Searches)'
  OBVIOUS
<1> USE ConstAssumption, SlotOrder
    DEF Types, Searches, PassedIsNamed, ThrowsOnlyWhenFull, PCs, Step,
        contents
<1>1. ASSUME NEW p \in Proc, getMutex(p) PROVE (Types /\ Searches)'
  BY <1>1 DEF getMutex
<1>2. ASSUME NEW p \in Proc, findDescriptor(p) PROVE (Types /\ Searches)'
  BY <1>2 DEF findDescriptor
<1>3. ASSUME NEW p \in Proc, findFreeDescriptor(p) PROVE (Types /\ Searches)'
  BY <1>3 DEF findFreeDescriptor
<1>4. ASSUME NEW p \in Proc, initDescriptor(p) PROVE (Types /\ Searches)'
  BY <1>4, StoreStep
<1>5. ASSUME NEW p \in Proc, Construct(p) PROVE (Types /\ Searches)'
  BY <1>5 DEF Construct
<1>6. ASSUME NEW p \in Proc, Caught(p) PROVE (Types /\ Searches)'
  BY <1>6 DEF Caught, Forget
<1>7. ASSUME NEW p \in Proc, Lock(p) PROVE (Types /\ Searches)'
  BY <1>7 DEF Lock, Raw
<1>8. ASSUME NEW p \in Proc, WakesEarly(p) PROVE (Types /\ Searches)'
  BY <1>8 DEF WakesEarly
<1>9. ASSUME NEW p \in Proc, Unlock(p) PROVE (Types /\ Searches)'
  BY <1>9 DEF Unlock, Sleepers
<1>10. ASSUME NEW p \in Proc, Drop(p) PROVE (Types /\ Searches)'
  BY <1>10 DEF Drop, Forget
<1>11. ASSUME NEW p \in Proc, Crash(p) PROVE (Types /\ Searches)'
  BY <1>11 DEF Crash
<1>12. CASE UNCHANGED vars
  BY <1>12 DEF vars
<1> QED
  BY <1>1, <1>2, <1>3, <1>4, <1>5, <1>6, <1>7, <1>8, <1>9, <1>10, <1>11,
     <1>12 DEF Next

\* Every step that does not conflict with another call keeps names in their
\* slots.
LEMMA NamesStep == IInv /\ [Next]_vars /\ ~conflict' => Names'
<1> SUFFICES ASSUME IInv, [Next]_vars, ~conflict' PROVE Names'
  OBVIOUS
<1> USE ConstAssumption, SlotOrder
    DEF IInv, Types, Names, NamesUnique, NotFound, SlotIsNamed, Settled,
        Searching, Step, contents
<1>1. ASSUME NEW p \in Proc, getMutex(p) PROVE Names'
  BY <1>1 DEF getMutex
<1>2. ASSUME NEW p \in Proc, findDescriptor(p) PROVE Names'
  BY <1>2, QuietFindStep
<1>3. ASSUME NEW p \in Proc, findFreeDescriptor(p) PROVE Names'
  BY <1>3 DEF findFreeDescriptor
<1>4. ASSUME NEW p \in Proc, initDescriptor(p) PROVE Names'
  <2>1. /\ ~conflict
        /\ mixed' = {}
        /\ pc[p] = "name"
        /\ \A q \in Proc \ {p} : /\ pc[q] \in Searching => id[q] # id[p]
                                 /\ pc[q] = "name" => ptr[q] # ptr[p]
        /\ UNCHANGED <<id, ptr>>
    BY <1>4, StoreStep, QuietStoreStep
  <2>2. CASE /\ pc' = pc
             /\ half' = half \cup {ptr[p]}
             /\ \E s \in Shorter[id[p]] : m_id' = [m_id EXCEPT ![ptr[p]] = s]
    BY <2>1, <2>2
  <2>3. CASE /\ pc' = [pc EXCEPT ![p] = "construct"]
             /\ half' = half \ {ptr[p]}
             /\ m_id' = [m_id EXCEPT ![ptr[p]] = id[p]]
    BY <2>1, <2>3
  <2> QED
    BY <1>4, <2>2, <2>3, QuietStoreStep
<1>5. ASSUME NEW p \in Proc, Construct(p) PROVE Names'
  BY <1>5 DEF Construct
<1>6. ASSUME NEW p \in Proc, Caught(p) PROVE Names'
  BY <1>6 DEF Caught, Forget
<1>7. ASSUME NEW p \in Proc, Lock(p) PROVE Names'
  BY <1>7 DEF Lock, Raw, Words, RawIsLocked, LOCKED, UNLOCKED
<1>8. ASSUME NEW p \in Proc, WakesEarly(p) PROVE Names'
  BY <1>8 DEF WakesEarly
<1>9. ASSUME NEW p \in Proc, Unlock(p) PROVE Names'
  BY <1>9 DEF Unlock, Sleepers
<1>10. ASSUME NEW p \in Proc, Drop(p) PROVE Names'
  BY <1>10 DEF Drop, Forget
<1>11. ASSUME NEW p \in Proc, Crash(p) PROVE Names'
  BY <1>11 DEF Crash
<1>12. CASE UNCHANGED vars
  BY <1>12 DEF vars
<1> QED
  BY <1>1, <1>2, <1>3, <1>4, <1>5, <1>6, <1>7, <1>8, <1>9, <1>10, <1>11,
     <1>12 DEF Next

\* Every step that does not conflict with another call keeps the words: they
\* exclude, and strand nobody but those who came early.
LEMMA WordsStep == IInv /\ [Next]_vars /\ ~conflict' => Words'
<1> SUFFICES ASSUME IInv, [Next]_vars, ~conflict' PROVE Words'
  OBVIOUS
<1> USE ConstAssumption
    DEF IInv, Types, Names, SlotIsNamed, Words, RawIsLocked, SlotExcludes,
        StrandedOnlyEarly, Settled, Step, contents, LOCKED,
        UNLOCKED
<1>1. ASSUME NEW p \in Proc, getMutex(p) PROVE Words'
  BY <1>1 DEF getMutex
<1>2. ASSUME NEW p \in Proc, findDescriptor(p) PROVE Words'
  BY <1>2, QuietFindStep
<1>3. ASSUME NEW p \in Proc, findFreeDescriptor(p) PROVE Words'
  BY <1>3 DEF findFreeDescriptor
<1>4. ASSUME NEW p \in Proc, initDescriptor(p) PROVE Words'
  <2>1. /\ ~conflict
        /\ pc[p] = "name"
        /\ UNCHANGED <<m_ftx, id, ptr, early>>
        /\ m_ftx[ptr[p]] = LOCKED
        /\ \E s \in Text : m_id' = [m_id EXCEPT ![ptr[p]] = s]
    BY <1>4, StoreStep, QuietStoreStep
  <2>2. \A q \in Proc : pc[q] \in Settled => ptr[q] # ptr[p]
    BY <2>1
  <2>3. CASE pc' = pc /\ half' = half \cup {ptr[p]}
    BY <2>1, <2>2, <2>3
  <2>4. CASE /\ pc' = [pc EXCEPT ![p] = "construct"]
             /\ half' = half \ {ptr[p]}
    BY <2>1, <2>2, <2>4
  <2> QED
    BY <1>4, <2>3, <2>4, StoreStep
<1>5. ASSUME NEW p \in Proc, Construct(p) PROVE Words'
  BY <1>5 DEF Construct
<1>6. ASSUME NEW p \in Proc, Caught(p) PROVE Words'
  BY <1>6 DEF Caught, Forget
<1>7. ASSUME NEW p \in Proc, Lock(p) PROVE Words'
  BY <1>7 DEF Lock, Raw
<1>8. ASSUME NEW p \in Proc, WakesEarly(p) PROVE Words'
  BY <1>8 DEF WakesEarly
<1>9. ASSUME NEW p \in Proc, Unlock(p) PROVE Words'
  BY <1>9 DEF Unlock, Sleepers
<1>10. ASSUME NEW p \in Proc, Drop(p) PROVE Words'
  BY <1>10 DEF Drop, Forget
<1>11. ASSUME NEW p \in Proc, Crash(p) PROVE Words'
  BY <1>11 DEF Crash
<1>12. CASE UNCHANGED vars
  BY <1>12 DEF vars
<1> QED
  BY <1>1, <1>2, <1>3, <1>4, <1>5, <1>6, <1>7, <1>8, <1>9, <1>10, <1>11,
     <1>12 DEF Next

\* The invariant holds in every behaviour.
LEMMA Inductive == Spec => []IInv
<1>1. Init => IInv
  BY ConstAssumption, SlotOrder
     DEF Init, IInv, Types, Searches, PassedIsNamed, ThrowsOnlyWhenFull, Names,
         NamesUnique, NotFound, SlotIsNamed, Words, RawIsLocked, SlotExcludes,
         StrandedOnlyEarly, Settled, PCs
<1>2. IInv /\ [Next]_vars => IInv'
  BY SearchStep, NamesStep, WordsStep DEF IInv
<1> QED
  BY <1>1, <1>2, PTL DEF Spec

\* getMutex throws "Cant alloc more Mutexes" only when every slot has a name,
\* whatever other processes do to the table during the search.
THEOREM ThrowMeansFull == Spec => []ThrowsOnlyWhenFull
<1>1. IInv => ThrowsOnlyWhenFull
  BY DEF IInv, Searches
<1> QED
  BY <1>1, Inductive, PTL

\* As long as no two calls of getMutex have claimed one name or one slot at once,
\* a name stands for one lock, whoever is killed and whenever.
THEOREM NameExcludes == Spec => []SameNameExcludes
<1>1. IInv => SameNameExcludes
  <2> SUFFICES ASSUME IInv, ~conflict, NEW p \in Proc, NEW q \in Proc,
                      pc[p] = "crit", pc[q] = "crit", id[p] = id[q]
               PROVE  p = q
    BY DEF SameNameExcludes
  <2>1. m_id[ptr[p]] = id[p] /\ m_id[ptr[q]] = id[q] /\ id[p] # NoId
    BY ConstAssumption DEF IInv, Types, Names, SlotIsNamed, Settled
  <2>2. ptr[p] = ptr[q]
    BY <2>1 DEF IInv, Types, Names, NamesUnique, SlotIsNamed
  <2> QED
    BY <2>2 DEF IInv, Words, SlotExcludes
<1> QED
  BY <1>1, Inductive, PTL

\* Only a process that slept before Mutex(ptr, true) can be stranded on a free
\* mutex without a death.
THEOREM OnlyEarlyStranded == Spec => []StrandedOnlyEarly
<1>1. IInv => StrandedOnlyEarly
  BY DEF IInv, Words, StrandedOnlyEarly
<1> QED
  BY <1>1, Inductive, PTL
=============================================================================

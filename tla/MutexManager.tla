---------------------------- MODULE MutexManager ----------------------------
(***************************************************************************)
(* IPC::MutexManager (src/IPC_MutexManager.cpp): a table of named futexes  *)
(* in one shared Buffer.  getMutex(id) looks the name up and, when it is   *)
(* not there, writes it into the first free slot and initialises the       *)
(* slot's futex.  Neither the searches nor the writes are under a lock, so *)
(* every access to the table is a step of its own, and strncpy takes       *)
(* several: a search may meet a name of which only the first characters    *)
(* are there, which is the whole of a shorter name.                        *)
(*                                                                         *)
(* lock() and unlock() of the Mutex are those of the lock that Mutex.tla   *)
(* implements, with its sleepers: unlock() wakes one of them, the          *)
(* constructor Mutex(ptr, true) stores the word and wakes nobody.          *)
(***************************************************************************)
EXTENDS Naturals

CONSTANTS
  Proc,       \* processes, each with its MutexManager on the same Buffer
  Text,       \* non-empty strings, as a slot may hold them
  Id,         \* names, at most IPC_MUTEXMANAGER_DESCRIPTOR_MAX_LEN long
  NoId,       \* m_id[0] = 0
  Shorter,    \* Shorter[n]: the proper prefixes of n, without the empty one
  m_capacity,
  Mortal      \* processes that may be killed

ASSUME ConstAssumption ==
  /\ Id \subseteq Text
  /\ NoId \notin Text
  /\ Shorter \in [Text -> SUBSET Text]
  /\ \A n \in Text : n \notin Shorter[n]
  /\ \A n \in Text : \A s \in Shorter[n] : Shorter[s] \subseteq Shorter[n]
  /\ m_capacity \in Nat \ {0}
  /\ Mortal \subseteq Proc

Slot == 1 .. m_capacity

LOCKED   == 0   \* what the kernel fills the Buffer's segment with
UNLOCKED == 1

VARIABLES
  m_id,       \* m_id[i]: the name in slot i
  m_ftx,      \* m_ftx[i]: the futex word of slot i
  pc,
  id,         \* id[p]: argument of p's getMutex
  ptr,        \* ptr[p]: slot that p is looking at, or that its Mutex uses
  mixed,      \* slots into which two calls of strncpy have written
  half,       \* history: slots in which a strncpy has begun and not ended
  conflict,   \* history: two getMutex calls met in one name or one slot
  early       \* history: processes that slept on a word not yet initialised

vars == <<m_id, m_ftx, pc, id, ptr, mixed, half, conflict, early>>

\* What is known of the characters in the slots.
contents == <<m_id, mixed, half>>

PCs == {"idle", "find", "findFree", "name", "construct", "threw", "have",
        "lock", "asleep", "crit", "dead"}

\* Control points at which p's call has not yet settled on a slot.
Searching == {"find", "findFree", "name"}

\* MutexManager::init(): a new Buffer is zero.
Init ==
  /\ m_id = [i \in Slot |-> NoId]
  /\ m_ftx = [i \in Slot |-> LOCKED]
  /\ pc = [p \in Proc |-> "idle"]
  /\ id = [p \in Proc |-> NoId]
  /\ ptr = [p \in Proc |-> 1]
  /\ mixed = {}
  /\ half = {}
  /\ conflict = FALSE
  /\ early = {}

Step(p, from, to) == pc[p] = from /\ pc' = [pc EXCEPT ![p] = to]

-----------------------------------------------------------------------------
getMutex(p) ==
  /\ Step(p, "idle", "find")
  /\ \E n \in Id : id' = [id EXCEPT ![p] = n]
  /\ UNCHANGED <<contents, m_ftx, ptr, conflict, early>>

\* Another call is to write, or is writing, its name into p's slot.
Writing(p) == \E q \in Proc \ {p} : pc[q] = "name" /\ ptr[q] = ptr[p]

\* findDescriptor, one slot per step; after the last one findFreeDescriptor
\* starts from the beginning.  To find the name where another call is still
\* writing a longer one is a conflict.
findDescriptor(p) ==
  /\ \/ /\ m_id[ptr[p]] = id[p]
        /\ Step(p, "find", "have")
        /\ conflict' = (conflict \/ Writing(p))
        /\ UNCHANGED ptr
     \/ /\ m_id[ptr[p]] # id[p]
        /\ ptr[p] < m_capacity
        /\ Step(p, "find", "find")
        /\ ptr' = [ptr EXCEPT ![p] = @ + 1]
        /\ UNCHANGED conflict
     \/ /\ m_id[ptr[p]] # id[p]
        /\ ptr[p] = m_capacity
        /\ Step(p, "find", "findFree")
        /\ ptr' = [ptr EXCEPT ![p] = 1]
        /\ UNCHANGED conflict
  /\ UNCHANGED <<contents, m_ftx, id, early>>

\* Mutation of findFreeDescriptor: the last slot is not tried.
findFreeMissesLast(p) ==
  /\ \/ /\ m_id[ptr[p]] = NoId
        /\ ptr[p] < m_capacity
        /\ Step(p, "findFree", "name")
        /\ UNCHANGED ptr
     \/ /\ m_id[ptr[p]] # NoId
        /\ ptr[p] < m_capacity
        /\ Step(p, "findFree", "findFree")
        /\ ptr' = [ptr EXCEPT ![p] = @ + 1]
     \/ /\ ptr[p] = m_capacity
        /\ Step(p, "findFree", "threw")
        /\ UNCHANGED ptr
  /\ UNCHANGED <<contents, m_ftx, id, conflict, early>>

\* findFreeDescriptor, one slot per step; getMutex throws "Cant alloc more
\* Mutexes" when there is none.
findFreeDescriptor(p) ==
  /\ \/ /\ m_id[ptr[p]] = NoId
        /\ Step(p, "findFree", "name")
        /\ UNCHANGED ptr
     \/ /\ m_id[ptr[p]] # NoId
        /\ ptr[p] < m_capacity
        /\ Step(p, "findFree", "findFree")
        /\ ptr' = [ptr EXCEPT ![p] = @ + 1]
     \/ /\ m_id[ptr[p]] # NoId
        /\ ptr[p] = m_capacity
        /\ Step(p, "findFree", "threw")
        /\ UNCHANGED ptr
  /\ UNCHANGED <<contents, m_ftx, id, conflict, early>>

\* What the slot may hold after more characters of p's name: a longer prefix,
\* or anything once two calls write into it.
Partly(p) ==
  IF ptr[p] \in mixed' THEN Text
  ELSE {s \in Shorter[id[p]] : m_id[ptr[p]] \in Shorter[s] \cup {NoId}}

\* What the slot may hold after the last character.
Wholly(p) == IF ptr[p] \in mixed' THEN Text ELSE {id[p]}

\* A store into the slot conflicts with a call for the same name that is still
\* searching, and with a call that has chosen the same slot.
Stores(p) ==
  /\ mixed' = IF Writing(p) THEN mixed \cup {ptr[p]} ELSE mixed
  /\ conflict' = (conflict \/ Writing(p) \/
       \E q \in Proc \ {p} : pc[q] \in Searching /\ id[q] = id[p])
  /\ UNCHANGED <<m_ftx, id, ptr, early>>

\* Mutation of initDescriptor: the name is not stored.
initDescriptorForgotten(p) ==
  /\ Stores(p)
  /\ Step(p, "name", "construct")
  /\ UNCHANGED <<m_id, half>>

\* initDescriptor: strncpy of the name, in steps, into the slot that was free a
\* while ago.
initDescriptor(p) ==
  /\ Stores(p)
  /\ \/ /\ Step(p, "name", "name")
        /\ \E s \in Partly(p) : m_id' = [m_id EXCEPT ![ptr[p]] = s]
        /\ half' = half \cup {ptr[p]}
     \/ /\ Step(p, "name", "construct")
        /\ \E s \in Wholly(p) : m_id' = [m_id EXCEPT ![ptr[p]] = s]
        /\ half' = half \ {ptr[p]}

\* return Mutex(&ptr->m_ftx, true): the word is stored, nobody is woken.
Construct(p) ==
  /\ Step(p, "construct", "have")
  /\ m_ftx' = [m_ftx EXCEPT ![ptr[p]] = UNLOCKED]
  /\ UNCHANGED <<contents, id, ptr, conflict, early>>

\* The call is over and its local variables are gone.
Forget(p) ==
  /\ id' = [id EXCEPT ![p] = NoId]
  /\ ptr' = [ptr EXCEPT ![p] = 1]
  /\ early' = early \ {p}

\* The caller handles the exception and may try again.
Caught(p) ==
  /\ Step(p, "threw", "idle")
  /\ Forget(p)
  /\ UNCHANGED <<contents, m_ftx, conflict>>

-----------------------------------------------------------------------------
\* The slot's word still is what the kernel filled the segment with: some
\* process names the slot and has not constructed the Mutex.
Raw(i) == \E q \in Proc : ptr[q] = i /\ pc[q] \in {"name", "construct"}

\* Mutex::lock(), or a try that ends in FUTEX_WAIT.
Lock(p) ==
  /\ pc[p] \in {"have", "lock"}
  /\ \/ /\ m_ftx[ptr[p]] = UNLOCKED
        /\ m_ftx' = [m_ftx EXCEPT ![ptr[p]] = LOCKED]
        /\ pc' = [pc EXCEPT ![p] = "crit"]
        /\ early' = early \ {p}
     \/ /\ m_ftx[ptr[p]] = LOCKED
        /\ pc' = [pc EXCEPT ![p] = "asleep"]
        /\ early' = IF Raw(ptr[p]) THEN early \cup {p} ELSE early \ {p}
        /\ UNCHANGED m_ftx
  /\ UNCHANGED <<contents, id, ptr, conflict>>

\* FUTEX_WAIT returns early and lock() tries again, or a signal makes it throw.
WakesEarly(p) ==
  /\ Step(p, "asleep", "lock") \/ Step(p, "asleep", "have")
  /\ early' = early \ {p}
  /\ UNCHANGED <<contents, m_ftx, id, ptr, conflict>>

Sleepers(i) == {q \in Proc : pc[q] = "asleep" /\ ptr[q] = i}

\* Mutation of Unlock: the word is released without FUTEX_WAKE.
UnlockNoWake(p) ==
  /\ Step(p, "crit", "have")
  /\ m_ftx' = [m_ftx EXCEPT ![ptr[p]] = UNLOCKED]
  /\ UNCHANGED <<contents, id, ptr, conflict, early>>

\* Mutex::unlock(): one of the sleepers tries again.
Unlock(p) ==
  /\ pc[p] = "crit"
  /\ m_ftx' = [m_ftx EXCEPT ![ptr[p]] = UNLOCKED]
  /\ \/ /\ Sleepers(ptr[p]) = {}
        /\ pc' = [pc EXCEPT ![p] = "have"]
     \/ \E q \in Sleepers(ptr[p]) :
          pc' = [pc EXCEPT ![p] = "have", ![q] = "lock"]
  /\ UNCHANGED <<contents, id, ptr, conflict, early>>

\* The Mutex object goes out of scope; it has no destructor and the name stays.
Drop(p) ==
  /\ Step(p, "have", "idle")
  /\ Forget(p)
  /\ UNCHANGED <<contents, m_ftx, conflict>>

\* The process is killed; the table stays as it is.
Crash(p) ==
  /\ p \in Mortal
  /\ pc' = [pc EXCEPT ![p] = "dead"]
  /\ pc[p] # "dead"
  /\ UNCHANGED <<contents, m_ftx, id, ptr, conflict, early>>

Next ==
  \E p \in Proc :
    \/ getMutex(p) \/ findDescriptor(p) \/ findFreeDescriptor(p)
    \/ initDescriptor(p) \/ Construct(p) \/ Caught(p)
    \/ Lock(p) \/ WakesEarly(p) \/ Unlock(p) \/ Drop(p) \/ Crash(p)

Spec == Init /\ [][Next]_vars

-----------------------------------------------------------------------------
(* Properties *)

\* getMutex throws "Cant alloc more Mutexes" only when every slot of the table
\* has a name, even though the table changes under the search: names are never
\* removed.
ThrowsOnlyWhenFull ==
  \A p \in Proc : pc[p] = "threw" => \A i \in Slot : m_id[i] # NoId

\* A name stands for one lock: as long as no two getMutex calls have claimed the
\* same name or the same slot at once, and none has found its name in the first
\* characters of one that another call was writing, no two processes are in the
\* critical section of one name, also when creators die half-way.
SameNameExcludes ==
  ~conflict =>
    \A p, q \in Proc :
      pc[p] = "crit" /\ pc[q] = "crit" /\ id[p] = id[q] => p = q

\* A process asleep on a free mutex waits for another one that was woken or is
\* dead, or it went to sleep before the creator's Mutex(ptr, true), which wakes
\* nobody: the only way to be stranded without a death.
StrandedOnlyEarly ==
  ~conflict =>
    \A p \in Proc \ early :
      pc[p] = "asleep" /\ m_ftx[ptr[p]] = UNLOCKED =>
        \E q \in Proc : q # p /\ ptr[q] = ptr[p] /\ pc[q] \in {"lock", "dead"}
=============================================================================

----------------------------- MODULE Allocator ------------------------------
(***************************************************************************)
(* IPC::Allocator (include/cppgenerics/IPC_Allocator.h): elements of a     *)
(* shared Buffer handed out by first fit over a BitBuffer that lies in a   *)
(* second shared Buffer, the model.  allocate() and deallocate() hold the  *)
(* lock of the model Buffer; the constructor, which initialises the map,   *)
(* holds none.                                                             *)
(*                                                                         *)
(* Until the first constructor the map is used as a plain BitBuffer, so    *)
(* every constructor meets any earlier content.                            *)
(***************************************************************************)
EXTENDS BitBuffer, SequencesExt

CONSTANTS
  Proc,       \* processes, with an Allocator each on the same two keys
  NoProc,
  MaxLive     \* bound: regions in the hands of callers at a time

ASSUME AllocatorAssumption ==
  /\ NoProc \notin Proc
  /\ MaxLive \in Nat

VARIABLES
  m_model,    \* processes whose Allocator is constructed
  modelLock,  \* holder of m_modelBuffer's lock
  found,      \* found[p]: region found by p's allocate(), not yet marked
  live,       \* history: regions in the hands of callers, oldest first
  damaged     \* history: the map no longer covers the live regions

allocVars == <<m_model, modelLock, found, live, damaged>>

NoRegion == [idx |-> -1, num |-> 0]

Covers(r) == r.idx .. r.idx + r.num - 1

AllocInit ==
  /\ Init
  /\ m_model = {}
  /\ modelLock = NoProc
  /\ found = [p \in Proc |-> NoRegion]
  /\ live = <<>>
  /\ damaged = FALSE

\* set(i, val) for each of some elements in turn.
setAll(elems, val) ==
  LET bits == UNION {BitsOf(i, wide) : i \in elems} IN
  /\ m_storage' = IF val THEN m_storage \cup bits ELSE m_storage \ bits
  /\ freed' = IF val THEN freed \cup elems ELSE freed \ elems
  /\ UNCHANGED <<m_numElements, wide>>

-----------------------------------------------------------------------------
\* A BitBuffer on the same memory in an earlier life.
Earlier ==
  /\ m_model = {}
  /\ Next
  /\ UNCHANGED allocVars

\* Mutation of Construct: the map that is found in the Buffer is taken over.
ConstructNoInit(p) ==
  /\ p \notin m_model
  /\ m_model' = m_model \cup {p}
  /\ UNCHANGED <<vars, modelLock, found, live, damaged>>

\* Allocator(storageKey, modelKey, maxBytes): m_model.init() sets the whole map
\* to free, also when another process' Allocator is at work on it.
Construct(p) ==
  /\ p \notin m_model
  /\ m_model' = m_model \cup {p}
  /\ m_storage' = InitialBits(m_numElements, wide)
  /\ freed' = Elems(m_numElements)
  /\ damaged' = (damaged \/ live # <<>> \/ \E q \in Proc : found[q] # NoRegion)
  /\ UNCHANGED <<m_numElements, wide, modelLock, found, live>>

\* Allocator(const Allocator<U>&): Buffers and BitBuffer are shared, createOther
\* copies the pointer to a storage that is not the BitBuffer's own.
Copy(p) ==
  /\ m_model # {}
  /\ p \notin m_model
  /\ m_model' = m_model \cup {p}
  /\ UNCHANGED <<vars, modelLock, found, live, damaged>>

\* allocate(num) up to the result of find(); nullptr when there is no region.
allocateFind(p, num) ==
  /\ p \in m_model
  /\ modelLock = NoProc
  /\ \/ /\ find(num) >= 0
        /\ Len(live) < MaxLive
        /\ modelLock' = p
        /\ found' = [found EXCEPT ![p] = [idx |-> find(num), num |-> num]]
     \/ /\ find(num) < 0
        /\ UNCHANGED <<modelLock, found>>
  /\ UNCHANGED <<vars, m_model, live, damaged>>

\* Mutation of allocateMark: the last element is not marked.
allocateMarkShort(p) ==
  /\ modelLock = p
  /\ setAll(Covers(found[p]) \ {found[p].idx + found[p].num - 1}, FALSE)
  /\ modelLock' = NoProc
  /\ live' = Append(live, found[p])
  /\ found' = [found EXCEPT ![p] = NoRegion]
  /\ UNCHANGED <<m_model, damaged>>

\* The rest of allocate(): the region is marked, the lock released and the
\* pointer returned.
allocateMark(p) ==
  /\ modelLock = p
  /\ setAll(Covers(found[p]), FALSE)
  /\ modelLock' = NoProc
  /\ live' = Append(live, found[p])
  /\ found' = [found EXCEPT ![p] = NoRegion]
  /\ UNCHANGED <<m_model, damaged>>

\* deallocate(ptr, num) under both locks.  The loop runs from idx to
\* idx + num - 1 and frees idx + i, so only a region at the start of the storage
\* is freed itself; set() throws at the first element beyond the end.
deallocate(p, k) ==
  LET r == live[k]
      target == {i \in Elems(m_numElements) : i - r.idx \in Covers(r)} IN
  /\ p \in m_model
  /\ modelLock = NoProc
  /\ setAll(target, TRUE)
  /\ live' = RemoveAt(live, k)
  /\ damaged' = (damaged \/ (r.num > 0 /\ (r.idx # 0 \/ m_numElements > IntBits)))
  /\ UNCHANGED <<m_model, modelLock, found>>

AllocNext ==
  \/ Earlier
  \/ \E p \in Proc :
       \/ Construct(p) \/ Copy(p)
       \/ \E num \in 0 .. m_numElements : allocateFind(p, num)
       \/ allocateMark(p)
       \/ \E k \in DOMAIN live : deallocate(p, k)

AllocSpec == AllocInit /\ [][AllocNext]_<<vars, allocVars>>

-----------------------------------------------------------------------------
(* Properties *)

\* No element is in two regions that callers hold, although elements share bits
\* of the map, as long as no constructor has initialised the map over them and
\* deallocate() has only been called where it frees the right elements.
RegionsDisjoint ==
  ~damaged =>
    \A j, k \in DOMAIN live : j # k => Covers(live[j]) \cap Covers(live[k]) = {}

\* The map is exactly the complement of the regions that callers hold, so that
\* allocate() returns nullptr only when no run is long enough and nothing
\* leaks, under the same conditions and with no more elements than an int has
\* bits.
MapIsExact ==
  m_model # {} /\ ~damaged /\ m_numElements <= IntBits =>
    \A i \in Elems(m_numElements) :
      get(i) <=> \A k \in DOMAIN live : i \notin Covers(live[k])
=============================================================================

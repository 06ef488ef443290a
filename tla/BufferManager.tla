--------------------------- MODULE BufferManager ----------------------------
(***************************************************************************)
(* IPC::BufferManager and IPC::Buffer (src/IPC_BufferManager.cpp): named,  *)
(* reference-counted shared-memory buffers of several processes.  The      *)
(* descriptors live in one control segment; each process keeps a map of    *)
(* the segments it has attached, and Buffer objects that point to a        *)
(* descriptor and to the attached memory.                                  *)
(*                                                                         *)
(* A step is one critical section of m_mtx (Mutex shows that they exclude  *)
(* each other); operator= has two.  A process may die at any moment, inside*)
(* a critical section too, which leaves m_mtx locked for ever.             *)
(*                                                                         *)
(* The processes have constructed their managers before the first step;    *)
(* a Buffer is not assigned to itself, and no other thread touches the     *)
(* right-hand side of an assignment under way.  Ids are not empty; they    *)
(* stand for their first IPC_BUFFER_DESCRIPTOR_MAX_LEN characters, all     *)
(* that strncpy stores and strncmp compares.                               *)
(***************************************************************************)
EXTENDS Integers, FiniteSets

CONSTANTS
  Proc,
  Handle,     \* Buffer objects
  Owner,      \* Owner[h]: the process of object h
  NoHandle,
  Id, NoId,
  Seg,        \* segments of buffers, also standing for their keys
  NoSeg,
  Capacity

ASSUME ConstAssumption ==
  /\ IsFiniteSet(Proc)
  /\ IsFiniteSet(Handle) /\ NoHandle \notin Handle
  /\ Owner \in [Handle -> Proc]
  /\ NoId \notin Id
  /\ NoSeg \notin Seg
  /\ Capacity \in Nat \ {0}

VARIABLES
  nextFreeIdx, nextFullIdx, nextIdx, prevIdx, id,   \* the descriptor lists
  ref_count, shm_key,     \* of each descriptor
  live,                   \* segments that shmget finds
  ctlRefCount,            \* m_control->ref_count
  attached,               \* processes with the control segment attached
  exploded,               \* the control segment has been removed
  stuck,                  \* m_mtx is locked and will never be unlocked
  m_localAtchs,           \* m_localAtchs[p][i]: segment, or NoSeg: no entry
  m_descriptor, m_ptr,    \* of each Buffer object; -1 and NoSeg: nullptr
  assigning,              \* right-hand side of an operator= under way
  asked                   \* history: the id the Buffer was got with

listVars == <<nextFreeIdx, nextFullIdx, nextIdx, prevIdx, id>>
ctlVars  == <<ctlRefCount, attached, exploded>>
bufVars  == <<m_descriptor, m_ptr, asked>>
vars     == <<listVars, ref_count, shm_key, live, ctlVars, stuck,
              m_localAtchs, bufVars, assigning>>

DL == INSTANCE DescriptorList

Idx == DL!Idx
NIL == DL!NIL

Init ==
  /\ DL!Init
  /\ ref_count = [i \in Idx |-> 0]
  /\ shm_key = [i \in Idx |-> NoSeg]
  /\ live = {}
  /\ ctlRefCount = Cardinality(Proc)
  /\ attached = Proc
  /\ exploded = FALSE
  /\ stuck = FALSE
  /\ m_localAtchs = [p \in Proc |-> [i \in Idx |-> NoSeg]]
  /\ m_descriptor = [h \in Handle |-> NIL]
  /\ m_ptr = [h \in Handle |-> NoSeg]
  /\ assigning = [h \in Handle |-> NoHandle]
  /\ asked = [h \in Handle |-> NoId]

\* The process of h runs and can enter a critical section of m_mtx.
Enters(p) == p \in attached /\ ~stuck

\* A Buffer object without a buffer, not part of an assignment.
Idle(h) == m_descriptor[h] = NIL /\ assigning[h] = NoHandle

\* allocShmKey(): a key nobody uses.
Fresh == Seg \ (live \cup {shm_key[i] : i \in Idx} \cup {m_ptr[h] : h \in Handle}
                \cup {m_localAtchs[p][i] : p \in Proc, i \in Idx})

\* Buffer(localPtr, isNew, descriptor i) in object h.
MadeBuffer(h, i, s, x) ==
  /\ m_descriptor' = [m_descriptor EXCEPT ![h] = i]
  /\ m_ptr' = [m_ptr EXCEPT ![h] = s]
  /\ asked' = [asked EXCEPT ![h] = x]

-----------------------------------------------------------------------------
\* getBuffer(x, bytes > 0), no descriptor has the id: the descriptor is filled
\* in and the segment created and attached.  (bytes = 0 throws, no step.)
getBufferNew(h, x) ==
  LET p == Owner[h] i == nextFreeIdx IN
  /\ Enters(p) /\ Idle(h)
  /\ DL!NotFound(x)
  /\ DL!getFreeDescriptor(x)
  /\ \E s \in Fresh :
       /\ shm_key' = [shm_key EXCEPT ![i] = s]
       /\ live' = live \cup {s}
       /\ m_localAtchs' = [m_localAtchs EXCEPT ![p][i] = s]
       /\ MadeBuffer(h, i, s, x)
  /\ ref_count' = [ref_count EXCEPT ![i] = 1]
  /\ UNCHANGED <<ctlVars, stuck, assigning>>

\* The same when attachDescriptor throws, from shmget or from shmat (then the
\* segment exists): the descriptor keeps the id and its place in the full list.
getBufferNewFails(h, x) ==
  LET i == nextFreeIdx IN
  /\ Enters(Owner[h]) /\ Idle(h)
  /\ DL!NotFound(x)
  /\ DL!getFreeDescriptor(x)
  /\ \E s \in Fresh :
       /\ shm_key' = [shm_key EXCEPT ![i] = s]
       /\ live' \in {live, live \cup {s}}
  /\ ref_count' = [ref_count EXCEPT ![i] = 0]
  /\ UNCHANGED <<ctlVars, stuck, m_localAtchs, bufVars, assigning>>

\* getBuffer(x, _) of an id that is found: the local map, else attachDescriptor,
\* which fails (throws, no step) when the segment is gone.
getBufferMap(h, x) ==
  LET p == Owner[h] IN
  /\ Enters(p) /\ Idle(h)
  /\ \E i \in Idx :
       /\ DL!Found(x, i)
       /\ \/ /\ m_localAtchs[p][i] # NoSeg
             /\ MadeBuffer(h, i, m_localAtchs[p][i], x)
             /\ UNCHANGED m_localAtchs
          \/ /\ m_localAtchs[p][i] = NoSeg
             /\ shm_key[i] \in live
             /\ m_localAtchs' = [m_localAtchs EXCEPT ![p][i] = shm_key[i]]
             /\ MadeBuffer(h, i, shm_key[i], x)
       /\ ref_count' = [ref_count EXCEPT ![i] = @ + 1]
  /\ UNCHANGED <<listVars, shm_key, live, ctlVars, stuck, assigning>>

\* getDescriptor() loops for ever, with m_mtx locked.
getBufferSpins(h, x) ==
  /\ Enters(Owner[h]) /\ Idle(h)
  /\ DL!Spins(x)
  /\ stuck' = TRUE
  /\ UNCHANGED <<listVars, ref_count, shm_key, live, ctlVars, m_localAtchs,
                 bufVars, assigning>>

-----------------------------------------------------------------------------
\* detachDescriptor(i, _) in process p.
detachDescriptor(p, i) ==
  /\ live' = live \ {shm_key[i]}
  /\ DL!putFreeDescriptor(i)
  /\ shm_key' = [shm_key EXCEPT ![i] = NoSeg]
  /\ m_localAtchs' = [m_localAtchs EXCEPT ![p][i] = NoSeg]

\* Mutation of bufferFree: the segment goes with the last but one reference.
bufferFreeEarly(h) ==
  LET i == m_descriptor[h] IN
  /\ Enters(Owner[h]) /\ i # NIL
  /\ ref_count' = [ref_count EXCEPT ![i] = @ - 1]
  /\ IF ref_count[i] <= 2
     THEN detachDescriptor(Owner[h], i)
     ELSE UNCHANGED <<listVars, shm_key, live, m_localAtchs>>
  /\ MadeBuffer(h, NIL, NoSeg, NoId)
  /\ UNCHANGED <<ctlVars, stuck>>

\* bufferFree(h): the last reference removes the segment and the descriptor.
bufferFree(h) ==
  LET i == m_descriptor[h] IN
  /\ Enters(Owner[h]) /\ i # NIL
  /\ ref_count' = [ref_count EXCEPT ![i] = @ - 1]
  /\ IF ref_count[i] = 1
     THEN detachDescriptor(Owner[h], i)
     ELSE UNCHANGED <<listVars, shm_key, live, m_localAtchs>>
  /\ MadeBuffer(h, NIL, NoSeg, NoId)
  /\ UNCHANGED <<ctlVars, stuck>>

\* ~Buffer.
Destroy(h) ==
  /\ \A g \in Handle : assigning[g] # h
  /\ bufferFree(h)
  /\ UNCHANGED assigning

\* operator=, first half: h = g frees the buffer h had.
AssignFree(h, g) ==
  /\ h # g /\ Owner[h] = Owner[g] /\ m_descriptor[g] # NIL
  /\ \A k \in Handle : assigning[k] # h
  /\ bufferFree(h)
  /\ assigning' = [assigning EXCEPT ![h] = g]

\* Mutation of CopyFrom: the copy is not counted.
CopyUncounted(h, g) ==
  /\ Enters(Owner[h]) /\ Owner[h] = Owner[g]
  /\ m_descriptor[h] = NIL /\ assigning[h] \in {NoHandle, g}
  /\ m_descriptor[g] # NIL
  /\ MadeBuffer(h, m_descriptor[g], m_ptr[g], asked[g])
  /\ assigning' = [assigning EXCEPT ![h] = NoHandle]
  /\ UNCHANGED <<listVars, ref_count, shm_key, live, ctlVars, stuck,
                 m_localAtchs>>

\* BufferInit(g) and RefCountInc_ts in h: the copy and move constructors (the
\* source keeps its reference), operator= on an object without a buffer and the
\* second half of operator= on any other.
CopyFrom(h, g) ==
  /\ Enters(Owner[h]) /\ Owner[h] = Owner[g]
  /\ m_descriptor[h] = NIL /\ assigning[h] \in {NoHandle, g}
  /\ m_descriptor[g] # NIL
  /\ MadeBuffer(h, m_descriptor[g], m_ptr[g], asked[g])
  /\ ref_count' = [ref_count EXCEPT ![m_descriptor[g]] = @ + 1]
  /\ assigning' = [assigning EXCEPT ![h] = NoHandle]
  /\ UNCHANGED <<listVars, shm_key, live, ctlVars, stuck, m_localAtchs>>

-----------------------------------------------------------------------------
\* Process p is no longer there; the kernel detaches its segments.
Gone(p) ==
  /\ attached' = attached \ {p}
  /\ m_localAtchs' = [m_localAtchs EXCEPT ![p] = [i \in Idx |-> NoSeg]]

\* Mutation of Exit: the loop over the descriptors misses the last one.
ExitMissesLast(p) ==
  /\ Enters(p)
  /\ Gone(p)
  /\ ctlRefCount' = ctlRefCount - 1
  /\ exploded' = (ctlRefCount = 1 \/ attached = {p})
  /\ live' = IF exploded'
             THEN live \ {shm_key[i] : i \in {j \in Idx :
                            id[j] # NoId /\ j < Capacity - 1}}
             ELSE live
  /\ UNCHANGED <<listVars, ref_count, shm_key, stuck, bufVars, assigning>>

\* ~BufferManager, at exit: the last instance, by its own count or by that of
\* the kernel (get_SysNumAttached), removes the segments of the descriptors that
\* still have an id, and the control segment.  Buffers may still be there.
Exit(p) ==
  /\ Enters(p)
  /\ Gone(p)
  /\ ctlRefCount' = ctlRefCount - 1
  /\ exploded' = (ctlRefCount = 1 \/ attached = {p})
  /\ live' = IF exploded'
             THEN live \ {shm_key[i] : i \in {j \in Idx : id[j] # NoId}}
             ELSE live
  /\ UNCHANGED <<listVars, ref_count, shm_key, stuck, bufVars, assigning>>

\* The process is killed, outside or inside a critical section; it kills itself
\* inside one when it copies or destroys a default-constructed Buffer, whose
\* m_descriptor is a null pointer.
Crash(p) ==
  /\ p \in attached
  /\ Gone(p)
  /\ stuck' \in {stuck, TRUE}
  /\ UNCHANGED <<listVars, ref_count, shm_key, live, ctlRefCount, exploded,
                 bufVars, assigning>>

Next ==
  \/ \E h \in Handle, x \in Id :
       \/ getBufferNew(h, x) \/ getBufferNewFails(h, x)
       \/ getBufferMap(h, x) \/ getBufferSpins(h, x)
  \/ \E h \in Handle : Destroy(h)
  \/ \E h, g \in Handle : AssignFree(h, g) \/ CopyFrom(h, g)
  \/ \E p \in Proc : Exit(p) \/ Crash(p)

Spec == Init /\ [][Next]_vars

-----------------------------------------------------------------------------
TypeOK ==
  /\ DL!TypeOK(Id)
  /\ ref_count \in [Idx -> Nat]
  /\ shm_key \in [Idx -> Seg \cup {NoSeg}]
  /\ live \subseteq Seg
  /\ ctlRefCount \in Nat
  /\ attached \subseteq Proc
  /\ exploded \in BOOLEAN /\ stuck \in BOOLEAN
  /\ m_localAtchs \in [Proc -> [Idx -> Seg \cup {NoSeg}]]
  /\ m_descriptor \in [Handle -> Idx \cup {NIL}]
  /\ m_ptr \in [Handle -> Seg \cup {NoSeg}]
  /\ assigning \in [Handle -> Handle \cup {NoHandle}]
  /\ asked \in [Handle -> Id \cup {NoId}]

Refs(i) == {h \in Handle : m_descriptor[h] = i}

\* The reference count of a descriptor is the number of Buffer objects that
\* point to it, in all processes, dead ones included: no wrap below zero, no
\* early and no missed release.
RefCountExact == \A i \in Idx : ref_count[i] = Cardinality(Refs(i))

\* The next descriptor getFreeDescriptor hands out is not in use, although the
\* two lists may be entangled.
IssuesUnused ==
  nextFreeIdx # NIL => id[nextFreeIdx] = NoId /\ Refs(nextFreeIdx) = {}

\* While a Buffer exists its descriptor is not recycled: it still has the id the
\* Buffer was got with.
BufferKeepsDescriptor ==
  \A h \in Handle : m_descriptor[h] # NIL => id[m_descriptor[h]] = asked[h]

\* No step of one process takes the segment from under a Buffer of another: it
\* goes with the last Buffer, or with the last instance of the manager.
RemovedOnlyByLast ==
  [][\A h \in Handle :
       LET i == m_descriptor[h] IN
       i # NIL /\ m_descriptor'[h] = i /\ ~exploded' =>
         /\ shm_key'[i] = shm_key[i]
         /\ shm_key[i] \in live => shm_key[i] \in live']_vars

\* When the last instance has gone no segment is left behind, whatever Buffers
\* were not destroyed and whichever processes had died before.
ExplodeFreesAll == exploded => live = {} /\ attached = {}

\* A Buffer points into the segment its descriptor names.
PointsToSegment ==
  \A h \in Handle : m_descriptor[h] # NIL /\ ~exploded =>
    m_ptr[h] = shm_key[m_descriptor[h]]

\* getBuffer "returns newly allocated or maps already existing buffer": an id
\* that exists is mapped, so no id has two descriptors.
ExistingIsMapped ==
  \A i, j \in Idx : id[i] # NoId /\ id[i] = id[j] => i = j
=============================================================================

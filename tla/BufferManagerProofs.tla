------------------------ MODULE BufferManagerProofs -------------------------
(***************************************************************************)
(* Proofs about IPC::BufferManager for any capacity and any number of      *)
(* processes, Buffers, ids and segments.                                   *)
(*                                                                         *)
(* The descriptor lists do not stay apart: a freed head stays in the full  *)
(* list, and links into and out of free descriptors come to be.  What      *)
(* survives is enough to hand out unused descriptors only: the chain that  *)
(* hangs from nextFreeIdx is closed, entered from nowhere, and no prevIdx  *)
(* of a used descriptor leads into it (FreeChain), while used descriptors  *)
(* that are linked backwards are linked forwards too (MutualLinks).  With  *)
(* that, every descriptor's reference count is the number of its Buffers.  *)
(***************************************************************************)
EXTENDS BufferManager, FiniteSetTheorems, TLAPS

Used(i) == id[i] # NoId

\* S holds the descriptors that getFreeDescriptor will hand out one after the
\* other if nothing is freed in between.
FreeChain(S) ==
  /\ IF nextFreeIdx = NIL THEN S = {} ELSE nextFreeIdx \in S
  /\ \A i \in S : ~Used(i) /\ nextIdx[i] \in S \cup {NIL}
                  /\ nextIdx[i] # nextFreeIdx
  /\ \A i, j \in S : nextIdx[i] = nextIdx[j] /\ nextIdx[i] # NIL => i = j
  /\ nextFreeIdx # NIL => prevIdx[nextFreeIdx] \notin S
  /\ nextFullIdx \in S => nextFullIdx = nextFreeIdx
  /\ \A i \in Idx : Used(i) => prevIdx[i] \notin S

\* A used descriptor's used predecessor has it as its successor, and no used
\* descriptor precedes the free chain.
MutualLinks ==
  /\ \A i \in Idx : Used(i) /\ prevIdx[i] # NIL /\ Used(prevIdx[i]) =>
       nextIdx[prevIdx[i]] = i
  /\ nextFreeIdx # NIL /\ prevIdx[nextFreeIdx] # NIL =>
       ~Used(prevIdx[nextFreeIdx])
  /\ nextFullIdx = NIL => \A i \in Idx : ~Used(i)

ListInv == MutualLinks /\ \E S \in SUBSET Idx : FreeChain(S)

\* A Buffer's descriptor has the id, not the empty one, it was got with.
BufferInv ==
  \A h \in Handle : m_descriptor[h] # NIL =>
    asked[h] \in Id /\ id[m_descriptor[h]] = asked[h]

\* The control block counts at least the processes that are attached.
CountInv == ctlRefCount >= Cardinality(attached)

\* Every segment is the one of a used descriptor, and of one only.
SegmentInv ==
  /\ \A s \in live : \E i \in Idx : Used(i) /\ shm_key[i] = s
  /\ \A i, j \in Idx : Used(i) /\ Used(j) /\ shm_key[i] = shm_key[j] => i = j

IInv ==
  /\ TypeOK /\ ListInv /\ BufferInv /\ RefCountExact /\ CountInv
  /\ SegmentInv /\ ExplodeFreesAll

-----------------------------------------------------------------------------
\* getFreeDescriptor keeps the types of the links.
LEMMA GetType ==
  ASSUME TypeOK, NEW x \in Id, DL!getFreeDescriptor(x)
  PROVE  DL!TypeOK(Id)'
BY ConstAssumption DEF TypeOK, DL!TypeOK, DL!getFreeDescriptor,
   DL!UnlinkedNext, DL!UnlinkedPrev, DL!Idx, DL!NIL, DL!Link

\* putFreeDescriptor keeps the types of the links.
LEMMA PutType ==
  ASSUME TypeOK, NEW y \in Idx, DL!putFreeDescriptor(y)
  PROVE  DL!TypeOK(Id)'
BY ConstAssumption DEF TypeOK, DL!TypeOK, DL!putFreeDescriptor, Idx,
   DL!UnlinkedNext, DL!UnlinkedPrev, DL!Idx, DL!NIL, DL!Link

\* getFreeDescriptor keeps ListInv: its result leaves the chain.
LEMMA GetKeepsLists ==
  ASSUME TypeOK, ListInv, NEW x \in Id, DL!getFreeDescriptor(x)
  PROVE  ListInv'
<1> USE ConstAssumption DEF Idx, NIL, DL!Idx, DL!NIL, DL!Link, Used
<1>1. PICK S \in SUBSET Idx : FreeChain(S)
  BY DEF ListInv
<1>2. /\ nextFreeIdx \in S
      /\ nextFullIdx \in Idx \cup {NIL}
      /\ nextIdx \in [Idx -> Idx \cup {NIL}]
      /\ prevIdx \in [Idx -> Idx \cup {NIL}]
      /\ id \in [Idx -> Id \cup {NoId}]
  BY <1>1 DEF FreeChain, TypeOK, DL!TypeOK, DL!getFreeDescriptor
<1>r. PICK r \in S : r = nextFreeIdx
  BY <1>2
<1>3. /\ nextFullIdx' = r
      /\ nextFreeIdx' = nextIdx[r]
      /\ \A j \in Idx : nextIdx'[j] = IF j = r THEN nextFullIdx
                                      ELSE IF j = prevIdx[r] THEN nextIdx[r]
                                      ELSE nextIdx[j]
      /\ \A j \in Idx : prevIdx'[j] =
                          IF j = r /\ nextFullIdx # NIL THEN NIL
                          ELSE IF j = nextFullIdx THEN r
                          ELSE IF j = nextIdx[r] THEN prevIdx[r]
                          ELSE prevIdx[j]
      /\ \A j \in Idx : id'[j] = IF j = r THEN x ELSE id[j]
  BY <1>2, <1>r DEF DL!getFreeDescriptor, DL!UnlinkedNext, DL!UnlinkedPrev
<1>4. /\ nextIdx[r] # r
      /\ nextIdx[r] \in S \cup {NIL}
      /\ \A j \in S : nextIdx[j] # r
      /\ \A j \in S \ {r} : nextIdx[r] # NIL => nextIdx[j] # nextIdx[r]
      /\ prevIdx[r] \notin S
      /\ \A j \in S : id[j] = NoId /\ nextIdx[j] \in S \cup {NIL}
      /\ nextFullIdx \in S => nextFullIdx = r
      /\ prevIdx[r] # NIL => id[prevIdx[r]] = NoId
      /\ \A i \in Idx : Used(i) => prevIdx[i] \notin S
  BY <1>1, <1>2, <1>r DEF ListInv, MutualLinks, FreeChain
<1>5. MutualLinks'
  <2>1. ASSUME NEW i \in Idx, id'[i] # NoId, prevIdx'[i] # NIL, id'[prevIdx'[i]] # NoId
        PROVE  nextIdx'[prevIdx'[i]] = i
    <3>1. CASE i = r
      BY <2>1, <3>1, <1>2, <1>3, <1>4 DEF ListInv, MutualLinks
    <3>2. CASE i # r /\ i = nextFullIdx
      BY <2>1, <3>2, <1>2, <1>3, <1>4
    <3>3. CASE i # r /\ i # nextFullIdx
      <4>1. Used(i) /\ i # nextIdx[r] /\ prevIdx'[i] = prevIdx[i]
        BY <2>1, <3>3, <1>2, <1>3, <1>4
      <4>2. prevIdx[i] # r /\ Used(prevIdx[i]) /\ prevIdx[i] # prevIdx[r]
        BY <2>1, <4>1, <1>2, <1>3, <1>4
      <4> QED
        BY <2>1, <4>1, <4>2, <1>2, <1>3, <1>4 DEF ListInv, MutualLinks
    <3> QED
      BY <3>1, <3>2, <3>3
  <2>2. ASSUME nextFreeIdx' # NIL, prevIdx'[nextFreeIdx'] # NIL
        PROVE  id'[prevIdx'[nextFreeIdx']] = NoId
    BY <2>2, <1>2, <1>3, <1>4
  <2>3. nextFullIdx' # NIL
    BY <1>2, <1>3
  <2> QED
    BY <2>1, <2>2, <2>3 DEF MutualLinks
<1>6. PICK T \in SUBSET Idx : T = IF nextIdx[r] = NIL THEN {} ELSE S \ {r}
  OBVIOUS
<1>7. FreeChain(T)'
  <2>1. CASE nextIdx[r] = NIL
    BY <2>1, <1>2, <1>3, <1>6 DEF FreeChain
  <2>2. CASE nextIdx[r] # NIL
    <3>1. \A i \in T : nextIdx'[i] = nextIdx[i] /\ id'[i] = NoId
      BY <2>2, <1>2, <1>3, <1>4, <1>6
    <3>2. prevIdx'[nextFreeIdx'] = prevIdx[r]
      BY <2>2, <1>2, <1>3, <1>4
    <3>3. \A i \in Idx : Used(i)' => prevIdx'[i] \notin T
      BY <2>2, <1>2, <1>3, <1>4, <1>6
    <3>4. \A i, j \in T : nextIdx[i] = nextIdx[j] /\ nextIdx[i] # NIL => i = j
      BY <1>1, <1>6, <2>2 DEF FreeChain
    <3>5. \A i \in T : nextIdx[i] \in T \cup {NIL} /\ nextIdx[i] # nextIdx[r]
      BY <2>2, <1>2, <1>4, <1>6
    <3>6. nextFreeIdx' \in T /\ nextFullIdx' \notin T /\ prevIdx[r] \notin T
      BY <2>2, <1>3, <1>4, <1>6
    <3> QED
      BY <2>2, <1>3, <3>1, <3>2, <3>3, <3>4, <3>5, <3>6 DEF FreeChain
  <2> QED
    BY <2>1, <2>2
<1> QED
  BY <1>5, <1>7 DEF ListInv

\* putFreeDescriptor keeps ListInv: the freed descriptor becomes the chain, or
\* stays outside of it.
LEMMA PutKeepsLists ==
  ASSUME TypeOK, ListInv, NEW y \in Idx, Used(y), DL!putFreeDescriptor(y)
  PROVE  ListInv'
<1> USE ConstAssumption DEF Idx, NIL, DL!Idx, DL!NIL, DL!Link, Used
<1>1. PICK S \in SUBSET Idx : FreeChain(S)
  BY DEF ListInv
<1>2. /\ nextFreeIdx \in Idx \cup {NIL}
      /\ nextFullIdx \in Idx \cup {NIL}
      /\ nextIdx \in [Idx -> Idx \cup {NIL}]
      /\ prevIdx \in [Idx -> Idx \cup {NIL}]
      /\ id \in [Idx -> Id \cup {NoId}]
  BY DEF TypeOK, DL!TypeOK
<1>3. /\ nextFullIdx' = nextFullIdx
      /\ nextFreeIdx' = IF nextFreeIdx = NIL THEN y ELSE nextFreeIdx
      /\ \A j \in Idx : nextIdx'[j] = IF j = y THEN nextFreeIdx
                                      ELSE IF j = prevIdx[y] THEN nextIdx[y]
                                      ELSE nextIdx[j]
      /\ \A j \in Idx : prevIdx'[j] = IF j = y THEN NIL
                                      ELSE IF j = nextFreeIdx THEN y
                                      ELSE IF j = nextIdx[y] THEN prevIdx[y]
                                      ELSE prevIdx[j]
      /\ \A j \in Idx : id'[j] = IF j = y THEN NoId ELSE id[j]
  BY <1>2 DEF DL!putFreeDescriptor, DL!UnlinkedNext, DL!UnlinkedPrev
<1>4. MutualLinks'
  <2>1. ASSUME NEW i \in Idx, Used(i)', prevIdx'[i] # NIL, Used(prevIdx[i])'
        PROVE  nextIdx'[prevIdx'[i]] = i
    <3>1. Used(i) /\ i # y /\ i # nextFreeIdx
      BY <1>1, <1>2, <1>3, <2>1 DEF FreeChain
    <3>2. CASE i = nextIdx[y]
      BY <1>2, <1>3, <2>1, <3>1, <3>2 DEF ListInv, MutualLinks
    <3>3. CASE i # nextIdx[y]
      <4>1. /\ prevIdx'[i] = prevIdx[i] /\ prevIdx[i] \in Idx
            /\ prevIdx[i] # y /\ Used(prevIdx[i])
        BY <1>2, <1>3, <2>1, <3>1, <3>3
      <4>2. nextIdx[prevIdx[i]] = i
        BY <2>1, <3>1, <4>1 DEF ListInv, MutualLinks
      <4>3. prevIdx[i] # prevIdx[y]
        BY <2>1, <3>1, <4>1, <4>2 DEF ListInv, MutualLinks
      <4> QED
        BY <1>3, <4>1, <4>2, <4>3
    <3> QED
      BY <3>2, <3>3
  <2>2. ASSUME nextFreeIdx' # NIL, prevIdx'[nextFreeIdx'] # NIL
        PROVE  prevIdx'[nextFreeIdx'] = y
    BY <1>2, <1>3, <2>2
  <2>3. ASSUME nextFullIdx' = NIL PROVE \A i \in Idx : ~Used(i)'
    BY <1>3, <2>3 DEF ListInv, MutualLinks
  <2> QED
    BY <1>3, <2>1, <2>2, <2>3 DEF MutualLinks
<1>5. CASE nextFreeIdx = NIL
  <2>1. FreeChain({y})'
    BY <1>5, <1>1, <1>2, <1>3 DEF ListInv, MutualLinks, FreeChain
  <2> QED
    BY <1>4, <2>1 DEF ListInv
<1>6. CASE nextFreeIdx # NIL
  <2>1. y \notin S /\ prevIdx[y] \notin S
    BY <1>1 DEF FreeChain
  <2>2. /\ nextFreeIdx' = nextFreeIdx /\ nextFreeIdx \in S
        /\ prevIdx'[nextFreeIdx'] = y
        /\ \A i \in S : nextIdx'[i] = nextIdx[i] /\ id'[i] = id[i]
    BY <1>6, <1>1, <1>2, <1>3, <2>1 DEF FreeChain
  <2>3. \A i \in Idx : id'[i] # NoId => prevIdx'[i] \notin S
    BY <1>6, <1>1, <1>2, <1>3, <2>1 DEF FreeChain
  <2>4. FreeChain(S)'
    BY <1>6, <1>1, <1>3, <2>1, <2>2, <2>3 DEF FreeChain
  <2> QED
    BY <1>4, <2>4 DEF ListInv
<1> QED
  BY <1>5, <1>6

-----------------------------------------------------------------------------
\* The Buffers of a descriptor are finitely many.
LEMMA RefsFinite ==
  ASSUME NEW i
  PROVE  IsFiniteSet(Refs(i)) /\ Cardinality(Refs(i)) \in Nat
BY ConstAssumption, FS_Subset, FS_CardinalityType DEF Refs

\* A Buffer object that gets a descriptor is one more of its Buffers.
LEMMA RefAdded ==
  ASSUME TypeOK, NEW h \in Handle, NEW i \in Idx, m_descriptor[h] = NIL,
         m_descriptor' = [m_descriptor EXCEPT ![h] = i]
  PROVE  /\ Cardinality(Refs(i))' = Cardinality(Refs(i)) + 1
         /\ \A j \in Idx : j # i => Refs(j)' = Refs(j)
<1>1. NIL \notin Idx
  BY ConstAssumption DEF Idx, NIL, DL!Idx, DL!NIL
<1>2. Refs(i)' = Refs(i) \cup {h} /\ h \notin Refs(i)
  BY <1>1 DEF Refs, TypeOK
<1>3. \A j \in Idx : j # i => Refs(j)' = Refs(j)
  BY <1>1 DEF Refs, TypeOK
<1>4. Cardinality(Refs(i) \cup {h}) = Cardinality(Refs(i)) + 1
  BY <1>2, RefsFinite, FS_AddElement
<1> QED
  BY <1>2, <1>3, <1>4

\* A Buffer object that leaves its descriptor is one less.
LEMMA RefDropped ==
  ASSUME TypeOK, NEW h \in Handle, NEW i \in Idx, m_descriptor[h] = i,
         m_descriptor' = [m_descriptor EXCEPT ![h] = NIL]
  PROVE  /\ Cardinality(Refs(i)) # 0
         /\ Cardinality(Refs(i))' = Cardinality(Refs(i)) - 1
         /\ \A j \in Idx : j # i => Refs(j)' = Refs(j)
<1>1. NIL \notin Idx
  BY ConstAssumption DEF Idx, NIL, DL!Idx, DL!NIL
<1>2. Refs(i)' = Refs(i) \ {h} /\ h \in Refs(i)
  BY <1>1 DEF Refs, TypeOK
<1>3. \A j \in Idx : j # i => Refs(j)' = Refs(j)
  BY <1>1 DEF Refs, TypeOK
<1>4. Cardinality(Refs(i) \ {h}) = Cardinality(Refs(i)) - 1
  BY <1>2, RefsFinite, FS_RemoveElement
<1>5. Cardinality(Refs(i)) # 0
  BY <1>2, RefsFinite, FS_EmptySet
<1> QED
  BY <1>2, <1>3, <1>4, <1>5

\* The descriptor getFreeDescriptor returns has no Buffers.
LEMMA IssuedIsUnused ==
  ASSUME IInv, nextFreeIdx # NIL
  PROVE  /\ nextFreeIdx \in Idx /\ ~Used(nextFreeIdx)
         /\ Refs(nextFreeIdx) = {} /\ Cardinality(Refs(nextFreeIdx)) = 0
<1>1. nextFreeIdx \in Idx /\ ~Used(nextFreeIdx)
  BY DEF IInv, ListInv, FreeChain
<1>2. nextFreeIdx # NIL
  OBVIOUS
<1>3. Refs(nextFreeIdx) = {}
  BY <1>1, <1>2, ConstAssumption DEF IInv, BufferInv, Refs, Used
<1> QED
  BY <1>1, <1>3, FS_EmptySet

-----------------------------------------------------------------------------
\* getBuffer of a new id, successful.
LEMMA NewStep ==
  ASSUME IInv, NEW h \in Handle, NEW x \in Id, getBufferNew(h, x)
  PROVE  IInv'
<1> USE ConstAssumption DEF getBufferNew, MadeBuffer, ctlVars, Idle, Enters
<1>1. PICK i \in Idx : /\ i = nextFreeIdx /\ ~Used(i) /\ Refs(i) = {}
                       /\ Cardinality(Refs(i)) = 0
  BY IssuedIsUnused DEF DL!getFreeDescriptor, NIL
<1>2. PICK s \in Fresh : /\ shm_key' = [shm_key EXCEPT ![i] = s]
                         /\ live' = live \cup {s}
                         /\ m_localAtchs' = [m_localAtchs EXCEPT ![Owner[h]][i] = s]
                         /\ MadeBuffer(h, i, s, x)
  BY <1>1
<1>3. s \in Seg /\ s \notin live /\ \A j \in Idx : shm_key[j] # s
  BY DEF Fresh
<1>4. id' = [id EXCEPT ![i] = x] /\ id \in [Idx -> Id \cup {NoId}]
  BY <1>1 DEF DL!getFreeDescriptor, IInv, TypeOK, DL!TypeOK, Idx
<1>5. TypeOK'
  <2>1. DL!TypeOK(Id)'
    BY GetType DEF IInv
  <2> QED
    BY <2>1, <1>1, <1>2, <1>3 DEF IInv, TypeOK
<1>6. ListInv'
  BY GetKeepsLists DEF IInv
<1>7. BufferInv'
  BY <1>1, <1>2, <1>4 DEF IInv, BufferInv, TypeOK, Refs
<1>8. RefCountExact'
  <2>1. /\ TypeOK /\ m_descriptor[h] = NIL
        /\ m_descriptor' = [m_descriptor EXCEPT ![h] = i]
    BY <1>2 DEF IInv
  <2>2. /\ Cardinality(Refs(i))' = Cardinality(Refs(i)) + 1
        /\ \A j \in Idx : j # i => Refs(j)' = Refs(j)
    BY ONLY <2>1, RefAdded
  <2> QED
    BY <2>2, <1>1 DEF IInv, RefCountExact, TypeOK
<1>9. SegmentInv'
  BY <1>1, <1>2, <1>3, <1>4 DEF IInv, SegmentInv, TypeOK, Used
<1>10. ExplodeFreesAll' /\ CountInv'
  BY DEF IInv, ExplodeFreesAll, CountInv
<1> QED
  BY <1>5, <1>6, <1>7, <1>8, <1>9, <1>10 DEF IInv

\* getBuffer of a new id when the segment cannot be created or attached.
LEMMA NewFailsStep ==
  ASSUME IInv, NEW h \in Handle, NEW x \in Id, getBufferNewFails(h, x)
  PROVE  IInv'
<1> USE ConstAssumption DEF getBufferNewFails, ctlVars, bufVars, Idle, Enters
<1>1. PICK i \in Idx : /\ i = nextFreeIdx /\ ~Used(i) /\ Refs(i) = {}
                       /\ Cardinality(Refs(i)) = 0
  BY IssuedIsUnused DEF DL!getFreeDescriptor, NIL
<1>2. PICK s \in Fresh : /\ shm_key' = [shm_key EXCEPT ![i] = s]
                         /\ live' \in {live, live \cup {s}}
  BY <1>1
<1>3. s \in Seg /\ s \notin live /\ \A j \in Idx : shm_key[j] # s
  BY DEF Fresh
<1>4. id' = [id EXCEPT ![i] = x] /\ id \in [Idx -> Id \cup {NoId}]
  BY <1>1 DEF DL!getFreeDescriptor, IInv, TypeOK, DL!TypeOK, Idx
<1>5. TypeOK'
  <2>1. DL!TypeOK(Id)'
    BY GetType DEF IInv
  <2> QED
    BY <2>1, <1>1, <1>2, <1>3 DEF IInv, TypeOK
<1>6. ListInv'
  BY GetKeepsLists DEF IInv
<1>7. BufferInv'
  BY <1>1, <1>2, <1>4 DEF IInv, BufferInv, TypeOK, Refs
<1>8. RefCountExact'
  BY <1>1 DEF IInv, RefCountExact, TypeOK, Refs
<1>9. SegmentInv'
  BY <1>1, <1>2, <1>3, <1>4 DEF IInv, SegmentInv, TypeOK, Used
<1>10. ExplodeFreesAll' /\ CountInv'
  BY DEF IInv, ExplodeFreesAll, CountInv
<1> QED
  BY <1>5, <1>6, <1>7, <1>8, <1>9, <1>10 DEF IInv

\* getBuffer of an id that is found, and every copy: one more Buffer of a used
\* descriptor, the lists and the segments as they were.
LEMMA ShareStep ==
  ASSUME IInv, NEW h \in Handle, NEW i \in Idx, NEW s, NEW x \in Id,
         m_descriptor[h] = NIL, id[i] = x, MadeBuffer(h, i, s, x),
         ref_count' = [ref_count EXCEPT ![i] = @ + 1], TypeOK',
         UNCHANGED <<listVars, shm_key, live, ctlVars>>
  PROVE  IInv'
<1> USE ConstAssumption DEF MadeBuffer, listVars, ctlVars
<1>1. ListInv'
  BY DEF IInv, ListInv, MutualLinks, FreeChain, Used
<1>2. BufferInv'
  BY DEF IInv, BufferInv, TypeOK
<1>3. RefCountExact'
  <2>1. /\ Cardinality(Refs(i))' = Cardinality(Refs(i)) + 1
        /\ \A j \in Idx : j # i => Refs(j)' = Refs(j)
    BY RefAdded DEF IInv
  <2> QED
    BY <2>1 DEF IInv, RefCountExact, TypeOK
<1>4. SegmentInv' /\ ExplodeFreesAll' /\ CountInv'
  BY DEF IInv, SegmentInv, ExplodeFreesAll, CountInv, Used
<1> QED
  BY <1>1, <1>2, <1>3, <1>4 DEF IInv

\* getBuffer of an id that is found.
LEMMA MapStep ==
  ASSUME IInv, NEW h \in Handle, NEW x \in Id, getBufferMap(h, x)
  PROVE  IInv'
<1>1. PICK i \in Idx :
        /\ DL!Found(x, i)
        /\ \/ /\ m_localAtchs[Owner[h]][i] # NoSeg
              /\ MadeBuffer(h, i, m_localAtchs[Owner[h]][i], x)
              /\ UNCHANGED m_localAtchs
           \/ /\ shm_key[i] \in live
              /\ m_localAtchs' = [m_localAtchs EXCEPT ![Owner[h]][i] = shm_key[i]]
              /\ MadeBuffer(h, i, shm_key[i], x)
        /\ ref_count' = [ref_count EXCEPT ![i] = @ + 1]
  BY DEF getBufferMap
<1>2. id[i] = x
  BY <1>1 DEF DL!Found, DL!Hits
<1>3. PICK s \in Seg :
        /\ MadeBuffer(h, i, s, x)
        /\ m_localAtchs' \in [Proc -> [Idx -> Seg \cup {NoSeg}]]
  <2>1. /\ Owner[h] \in Proc /\ live \subseteq Seg
        /\ m_localAtchs \in [Proc -> [Idx -> Seg \cup {NoSeg}]]
    BY ConstAssumption DEF IInv, TypeOK
  <2>2. CASE /\ m_localAtchs[Owner[h]][i] # NoSeg
             /\ MadeBuffer(h, i, m_localAtchs[Owner[h]][i], x)
             /\ UNCHANGED m_localAtchs
    <3>1. m_localAtchs[Owner[h]][i] \in Seg
      BY <2>1, <2>2
    <3> QED
      BY <3>1, <2>1, <2>2
  <2>3. CASE /\ shm_key[i] \in live
             /\ m_localAtchs' = [m_localAtchs EXCEPT ![Owner[h]][i] = shm_key[i]]
             /\ MadeBuffer(h, i, shm_key[i], x)
    <3>1. m_localAtchs' \in [Proc -> [Idx -> Seg \cup {NoSeg}]]
      BY <2>1, <2>3
    <3> QED
      BY <3>1, <2>1, <2>3
  <2> QED
    BY <2>2, <2>3, <1>1
<1>4. TypeOK'
  BY <1>1, <1>3, ConstAssumption
     DEF IInv, TypeOK, DL!TypeOK, getBufferMap, MadeBuffer, listVars, ctlVars
<1>5. m_descriptor[h] = NIL /\ UNCHANGED <<listVars, shm_key, live, ctlVars>>
  BY DEF getBufferMap, Idle
<1> QED
  BY <1>1, <1>2, <1>3, <1>4, <1>5, ShareStep

\* A constructor that copies, and the second half of operator=.
LEMMA CopyStep ==
  ASSUME IInv, NEW h \in Handle, NEW g \in Handle, CopyFrom(h, g)
  PROVE  IInv'
<1>1. PICK i \in Idx : i = m_descriptor[g]
  BY DEF IInv, TypeOK, CopyFrom
<1>2. PICK x \in Id : x = asked[g] /\ id[i] = x
  BY <1>1 DEF IInv, BufferInv, CopyFrom
<1>3. /\ MadeBuffer(h, i, m_ptr[g], x)
      /\ ref_count' = [ref_count EXCEPT ![i] = @ + 1]
      /\ m_descriptor[h] = NIL /\ UNCHANGED <<listVars, shm_key, live, ctlVars>>
  BY <1>1, <1>2 DEF CopyFrom
<1>4. TypeOK'
  BY <1>1, <1>2, <1>3, ConstAssumption
     DEF IInv, TypeOK, DL!TypeOK, CopyFrom, MadeBuffer, listVars, ctlVars
<1> QED
  BY <1>1, <1>2, <1>3, <1>4, ShareStep

\* bufferFree, in ~Buffer and in the first half of operator=.
LEMMA FreeStep ==
  ASSUME IInv, NEW h \in Handle, bufferFree(h),
         assigning' \in [Handle -> Handle \cup {NoHandle}]
  PROVE  IInv'
<1> USE ConstAssumption DEF MadeBuffer, ctlVars, listVars
<1>1. PICK i \in Idx : i = m_descriptor[h]
  BY DEF IInv, TypeOK, bufferFree
<1>2. /\ TypeOK /\ m_descriptor[h] = i
      /\ m_descriptor' = [m_descriptor EXCEPT ![h] = NIL]
      /\ m_ptr' = [m_ptr EXCEPT ![h] = NoSeg]
      /\ asked' = [asked EXCEPT ![h] = NoId]
      /\ ref_count' = [ref_count EXCEPT ![i] = @ - 1]
      /\ UNCHANGED <<ctlVars, stuck>>
  BY <1>1 DEF IInv, bufferFree
<1>3. /\ Cardinality(Refs(i)) # 0
      /\ Cardinality(Refs(i))' = Cardinality(Refs(i)) - 1
      /\ \A j \in Idx : j # i => Refs(j)' = Refs(j)
  BY ONLY <1>2, RefDropped
<1>4. ref_count[i] = Cardinality(Refs(i)) /\ ref_count[i] \in Nat \ {0}
  BY <1>3, RefsFinite DEF IInv, RefCountExact
<1>5. RefCountExact'
  BY <1>2, <1>3, <1>4 DEF IInv, RefCountExact, TypeOK
<1>6. Used(i) /\ NIL \notin Idx
  BY <1>1 DEF IInv, BufferInv, Used, bufferFree, Idx, NIL, DL!Idx, DL!NIL
<1>7. CountInv' /\ ref_count' \in [Idx -> Nat]
  <2>1. CountInv'
    BY <1>2 DEF IInv, CountInv
  <2>2. ref_count[i] - 1 \in Nat
    BY <1>4
  <2>3. ref_count' \in [Idx -> Nat]
    BY <1>2, <2>2 DEF TypeOK
  <2> QED
    BY <2>1, <2>3
<1>8. CASE ref_count[i] = 1
  <2>1. detachDescriptor(Owner[h], i)
    BY <1>1, <1>8 DEF bufferFree
  <2>2. DL!TypeOK(Id)' /\ ListInv'
    BY <2>1, <1>2, <1>6, PutType, PutKeepsLists DEF detachDescriptor, IInv
  <2>3. TypeOK'
    BY <2>1, <2>2, <1>2, <1>7 DEF detachDescriptor, TypeOK
  <2>4. \A g \in Handle : g # h => m_descriptor[g] # i
    <3>1. Refs(i)' = {}
      <4>1. IsFiniteSet(Refs(i)')
        BY FS_Subset DEF Refs
      <4>2. Cardinality(Refs(i)') = 0
        BY <1>3, <1>4, <1>8
      <4> QED
        BY <4>1, <4>2, FS_EmptySet
    <3> QED
      BY <3>1, <1>2 DEF Refs, TypeOK
  <2>5. id' = [id EXCEPT ![i] = NoId] /\ id \in [Idx -> Id \cup {NoId}]
    BY <2>1, <1>2 DEF detachDescriptor, DL!putFreeDescriptor, TypeOK, DL!TypeOK,
       Idx
  <2>6. BufferInv'
    BY <2>4, <2>5, <1>2, <1>6 DEF IInv, BufferInv, TypeOK
  <2>7. SegmentInv' /\ ExplodeFreesAll'
    BY <2>1, <2>5, <1>2
       DEF IInv, SegmentInv, ExplodeFreesAll, detachDescriptor, Used, TypeOK
  <2> QED
    BY <2>2, <2>3, <2>6, <2>7, <1>5, <1>7 DEF IInv
<1>9. CASE ref_count[i] # 1
  <2>1. UNCHANGED <<listVars, shm_key, live, m_localAtchs>>
    BY <1>1, <1>9 DEF bufferFree
  <2>2. TypeOK'
    BY <2>1, <1>2, <1>7 DEF TypeOK, DL!TypeOK
  <2>3. ListInv'
    BY <2>1 DEF IInv, ListInv, MutualLinks, FreeChain, Used
  <2>4. BufferInv'
    BY <2>1, <1>2 DEF IInv, BufferInv, TypeOK
  <2>5. SegmentInv' /\ ExplodeFreesAll'
    BY <2>1, <1>2 DEF IInv, SegmentInv, ExplodeFreesAll, Used
  <2> QED
    BY <2>2, <2>3, <2>4, <2>5, <1>5, <1>7 DEF IInv
<1> QED
  BY <1>8, <1>9

\* ~BufferManager: the last instance is the last process attached, and its loop
\* meets every segment that is left.
LEMMA ExitStep ==
  ASSUME IInv, NEW p \in Proc, Exit(p)
  PROVE  IInv'
<1> USE ConstAssumption DEF Exit, Gone, Enters, listVars, bufVars
<1>1. /\ IsFiniteSet(attached) /\ Cardinality(attached) \in Nat
      /\ Cardinality(attached \ {p}) = Cardinality(attached) - 1
      /\ Cardinality(attached) # 0
      /\ IsFiniteSet(attached \ {p}) /\ Cardinality(attached \ {p}) \in Nat
  BY FS_Subset, FS_RemoveElement, FS_CardinalityType, FS_EmptySet
     DEF IInv, TypeOK
<1>2. CountInv' /\ ctlRefCount' \in Nat
  BY <1>1 DEF IInv, CountInv, TypeOK
<1>3. TypeOK'
  BY <1>2 DEF IInv, TypeOK, DL!TypeOK
<1>4. ListInv'
  BY DEF IInv, ListInv, MutualLinks, FreeChain, Used
<1>5. BufferInv' /\ RefCountExact'
  BY DEF IInv, BufferInv, RefCountExact, Refs
<1>6. SegmentInv'
  BY DEF IInv, SegmentInv, Used
<1>7. ExplodeFreesAll'
  <2> SUFFICES ASSUME exploded' PROVE live' = {} /\ attached' = {}
    BY DEF ExplodeFreesAll
  <2>1. live' = {}
    BY DEF IInv, SegmentInv, Used
  <2>2. CASE attached = {p}
    BY <2>1, <2>2
  <2>3. CASE ctlRefCount = 1
    <3>1. Cardinality(attached \ {p}) = 0
      BY <2>3, <1>1 DEF IInv, CountInv
    <3>2. attached \ {p} = {}
      BY <3>1, <1>1, FS_EmptySet
    <3> QED
      BY <2>1, <3>2
  <2> QED
    BY <2>2, <2>3
<1> QED
  BY <1>2, <1>3, <1>4, <1>5, <1>6, <1>7 DEF IInv

\* A process is killed.
LEMMA CrashStep ==
  ASSUME IInv, NEW p \in Proc, Crash(p)
  PROVE  IInv'
<1> USE ConstAssumption DEF Crash, Gone, listVars, bufVars
<1>1. /\ Cardinality(attached \ {p}) <= Cardinality(attached)
      /\ Cardinality(attached \ {p}) \in Nat /\ Cardinality(attached) \in Nat
  BY FS_Subset, FS_CardinalityType DEF IInv, TypeOK
<1>2. CountInv'
  BY <1>1 DEF IInv, CountInv, TypeOK
<1>3. TypeOK'
  BY DEF IInv, TypeOK, DL!TypeOK
<1>4. ListInv'
  BY DEF IInv, ListInv, MutualLinks, FreeChain, Used
<1>5. BufferInv' /\ RefCountExact' /\ SegmentInv' /\ ExplodeFreesAll'
  BY DEF IInv, BufferInv, RefCountExact, Refs, SegmentInv, Used, ExplodeFreesAll
<1> QED
  BY <1>2, <1>3, <1>4, <1>5 DEF IInv

\* A step that changes at most stuck: a process loops in getDescriptor.
LEMMA StutterStep ==
  ASSUME IInv, stuck' \in BOOLEAN,
         UNCHANGED <<listVars, ref_count, shm_key, live, ctlVars, m_localAtchs,
                     bufVars, assigning>>
  PROVE  IInv'
<1> USE DEF listVars, ctlVars, bufVars
<1>1. TypeOK'
  BY DEF IInv, TypeOK, DL!TypeOK
<1>2. ListInv'
  BY DEF IInv, ListInv, MutualLinks, FreeChain, Used
<1>3. BufferInv' /\ RefCountExact'
  BY DEF IInv, BufferInv, RefCountExact, Refs
<1>4. SegmentInv'
  BY DEF IInv, SegmentInv, Used
<1>5. ExplodeFreesAll' /\ CountInv'
  BY DEF IInv, ExplodeFreesAll, CountInv
<1> QED
  BY <1>1, <1>2, <1>3, <1>4, <1>5 DEF IInv

\* Every critical section, exit and death keeps the inductive invariant.
LEMMA InductiveStep == IInv /\ [Next]_vars => IInv'
<1> SUFFICES ASSUME IInv, [Next]_vars PROVE IInv'
  OBVIOUS
<1>1. ASSUME NEW h \in Handle, NEW x \in Id, getBufferSpins(h, x) PROVE IInv'
  BY <1>1, StutterStep DEF getBufferSpins
<1>2. ASSUME NEW h \in Handle, Destroy(h) PROVE IInv'
  BY <1>2, FreeStep DEF Destroy, IInv, TypeOK
<1>3. ASSUME NEW h \in Handle, NEW g \in Handle, AssignFree(h, g) PROVE IInv'
  <2>1. assigning' \in [Handle -> Handle \cup {NoHandle}]
    BY <1>3 DEF AssignFree, IInv, TypeOK
  <2> QED
    BY <1>3, <2>1, FreeStep DEF AssignFree
<1>4. CASE UNCHANGED vars
  BY <1>4, StutterStep DEF vars, IInv, TypeOK
<1> QED
  BY <1>1, <1>2, <1>3, <1>4, NewStep, NewFailsStep, MapStep, CopyStep, ExitStep,
     CrashStep DEF Next

\* A manager that has just been initialised satisfies the inductive invariant.
LEMMA InductiveInit == Init => IInv
<1> SUFFICES ASSUME Init PROVE IInv
  OBVIOUS
<1> USE ConstAssumption DEF Init, DL!Init, Idx, NIL, DL!Idx, DL!NIL, DL!Link
<1>1. CountInv /\ ctlRefCount \in Nat
  BY FS_CardinalityType DEF CountInv
<1>2. TypeOK
  <2>1. DL!TypeOK(Id)
    BY DEF DL!TypeOK
  <2>2. /\ ref_count \in [Idx -> Nat]
        /\ m_descriptor \in [Handle -> Idx \cup {NIL}]
    OBVIOUS
  <2>3. /\ shm_key \in [Idx -> Seg \cup {NoSeg}]
        /\ m_localAtchs \in [Proc -> [Idx -> Seg \cup {NoSeg}]]
        /\ m_ptr \in [Handle -> Seg \cup {NoSeg}]
        /\ assigning \in [Handle -> Handle \cup {NoHandle}]
        /\ asked \in [Handle -> Id \cup {NoId}]
        /\ live \subseteq Seg /\ attached \subseteq Proc
        /\ exploded \in BOOLEAN /\ stuck \in BOOLEAN
    OBVIOUS
  <2> QED
    BY <1>1, <2>1, <2>2, <2>3 DEF TypeOK
<1>3. MutualLinks /\ FreeChain(Idx)
  BY DEF MutualLinks, FreeChain, Used
<1>4. ListInv
  BY <1>3 DEF ListInv
<1>5. RefCountExact
  <2>1. \A i \in Idx : Refs(i) = {}
    BY DEF Refs
  <2> QED
    BY <2>1, FS_EmptySet DEF RefCountExact
<1>6. BufferInv /\ SegmentInv /\ ExplodeFreesAll
  BY DEF BufferInv, SegmentInv, ExplodeFreesAll, Used
<1> QED
  BY <1>1, <1>2, <1>4, <1>5, <1>6 DEF IInv

\* The inductive invariant holds in every reachable state.
THEOREM Inductive == Spec => []IInv
BY InductiveInit, InductiveStep, PTL DEF Spec

-----------------------------------------------------------------------------
\* All indices stay within the table, and no count goes below zero.
THEOREM TypeCorrect == Spec => []TypeOK
<1>1. IInv => TypeOK
  BY DEF IInv
<1> QED
  BY <1>1, Inductive, PTL

\* Reference counts are exact whatever the processes do and die of.
THEOREM RefCountsAreExact == Spec => []RefCountExact
<1>1. IInv => RefCountExact
  BY DEF IInv
<1> QED
  BY <1>1, Inductive, PTL

\* getFreeDescriptor never hands out a descriptor in use, however entangled the
\* two lists are.
THEOREM NoDoubleIssue == Spec => []IssuesUnused
<1>1. IInv => IssuesUnused
  BY IssuedIsUnused DEF IssuesUnused, Used
<1> QED
  BY <1>1, Inductive, PTL

\* No descriptor is recycled under a Buffer.
THEOREM NoRecycling == Spec => []BufferKeepsDescriptor
<1>1. IInv => BufferKeepsDescriptor
  BY DEF IInv, BufferInv, BufferKeepsDescriptor
<1> QED
  BY <1>1, Inductive, PTL

\* The last instance leaves no segment behind.
THEOREM NoSegmentLeak == Spec => []ExplodeFreesAll
<1>1. IInv => ExplodeFreesAll
  BY DEF IInv
<1> QED
  BY <1>1, Inductive, PTL

\* bufferFree removes no segment of another descriptor, and none of a descriptor
\* that has another Buffer.
LEMMA FreeRemovesOwn ==
  ASSUME IInv, NEW h \in Handle, bufferFree(h),
         NEW g \in Handle, NEW j \in Idx, m_descriptor[g] = j,
         m_descriptor'[g] = j
  PROVE  /\ shm_key'[j] = shm_key[j]
         /\ shm_key[j] \in live => shm_key[j] \in live'
<1> USE ConstAssumption
<1>1. PICK i \in Idx : i = m_descriptor[h]
  BY DEF IInv, TypeOK, bufferFree
<1>2. NIL \notin Idx
  BY DEF Idx, NIL, DL!Idx, DL!NIL
<1>3. g # h
  BY <1>2 DEF bufferFree, MadeBuffer, IInv, TypeOK
<1>4. CASE ref_count[i] = 1
  <2>1. g \in Refs(i) \ {h} => Cardinality(Refs(i)) # 1
    <3> SUFFICES ASSUME g \in Refs(i) \ {h}, Cardinality(Refs(i)) = 1
                 PROVE  FALSE
      OBVIOUS
    <3>1. PICK z : Refs(i) = {z}
      BY RefsFinite, FS_Singleton
    <3> QED
      BY <3>1, <1>1 DEF Refs
  <2>2. j # i
    BY <2>1, <1>1, <1>3, <1>4 DEF IInv, RefCountExact, Refs
  <2>3. Used(i) /\ Used(j)
    BY <1>1, <1>2 DEF IInv, BufferInv, Used
  <2>4. shm_key[i] # shm_key[j]
    BY <2>2, <2>3 DEF IInv, SegmentInv
  <2> QED
    BY <2>2, <2>4, <1>1, <1>4 DEF bufferFree, detachDescriptor, IInv, TypeOK
<1>5. CASE ref_count[i] # 1
  BY <1>1, <1>5 DEF bufferFree
<1> QED
  BY <1>4, <1>5

\* A segment goes with its last Buffer or with the last instance, never before.
THEOREM SegmentOutlivesBuffers == Spec => RemovedOnlyByLast
<1> DEFINE Keeps(g) ==
      LET i == m_descriptor[g] IN
      i # NIL /\ m_descriptor'[g] = i /\ ~exploded' =>
        /\ shm_key'[i] = shm_key[i]
        /\ shm_key[i] \in live => shm_key[i] \in live'
<1>1. IInv /\ [Next]_vars => [\A g \in Handle : Keeps(g)]_vars
  <2> SUFFICES ASSUME IInv, Next, NEW g \in Handle,
                      m_descriptor[g] # NIL, ~exploded',
                      m_descriptor'[g] = m_descriptor[g]
               PROVE  /\ shm_key'[m_descriptor[g]] = shm_key[m_descriptor[g]]
                      /\ shm_key[m_descriptor[g]] \in live =>
                           shm_key[m_descriptor[g]] \in live'
    OBVIOUS
  <2>0. PICK j \in Idx : j = m_descriptor[g]
    BY DEF IInv, TypeOK
  <2> SUFFICES /\ shm_key'[j] = shm_key[j]
               /\ shm_key[j] \in live => shm_key[j] \in live'
    BY <2>0
  <2>1. Used(j)
    BY <2>0, ConstAssumption DEF IInv, BufferInv, Used
  <2>2. ASSUME NEW h \in Handle, NEW x \in Id,
               getBufferNew(h, x) \/ getBufferNewFails(h, x)
        PROVE  /\ shm_key'[j] = shm_key[j] /\ live \subseteq live'
    <3>1. nextFreeIdx # NIL
      BY <2>2 DEF getBufferNew, getBufferNewFails, DL!getFreeDescriptor, NIL
    <3>2. nextFreeIdx # j
      BY <2>1, <3>1, IssuedIsUnused
    <3> QED
      BY <2>2, <3>2 DEF getBufferNew, getBufferNewFails, IInv, TypeOK
  <2>3. ASSUME NEW h \in Handle, bufferFree(h)
        PROVE  /\ shm_key'[j] = shm_key[j]
               /\ shm_key[j] \in live => shm_key[j] \in live'
    BY <2>0, <2>3, FreeRemovesOwn
  <2>4. ASSUME NEW p \in Proc, Exit(p) \/ Crash(p)
        PROVE  shm_key' = shm_key /\ live' = live
    BY <2>4 DEF Exit, Crash
  <2>5. ASSUME NEW h \in Handle, NEW x \in Id,
               getBufferMap(h, x) \/ getBufferSpins(h, x)
        PROVE  shm_key' = shm_key /\ live' = live
    BY <2>5 DEF getBufferMap, getBufferSpins
  <2>6. ASSUME NEW h \in Handle, NEW k \in Handle, CopyFrom(h, k)
        PROVE  shm_key' = shm_key /\ live' = live
    BY <2>6 DEF CopyFrom
  <2> QED
    BY <2>2, <2>3, <2>4, <2>5, <2>6 DEF Next, Destroy, AssignFree
<1>2. IInv /\ [Next]_vars =>
        [\A h \in Handle :
           LET i == m_descriptor[h] IN
           i # NIL /\ m_descriptor'[h] = i /\ ~exploded' =>
             /\ shm_key'[i] = shm_key[i]
             /\ shm_key[i] \in live => shm_key[i] \in live']_vars
  BY <1>1
<1> QED
  BY <1>2, Inductive, PTL DEF Spec, RemovedOnlyByLast
=============================================================================

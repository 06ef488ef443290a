----------------------- MODULE ManagerLifecycleProofs -----------------------
(***************************************************************************)
(* Proofs about the birth and death of IPC::BufferManager for any number   *)
(* of processes, files, segments and deaths.                               *)
(*                                                                         *)
(* Base holds whatever happens: the file lock makes the creator of a       *)
(* segment the only process that knows it, and a destructor removes a      *)
(* segment only after the name is gone.  Single holds until something      *)
(* happens that may lead to two managers: whoever is inside init() has the *)
(* named file open, and the process that is about to unlink it is alone,   *)
(* since every instance in use is counted and attached.  Reachable and     *)
(* ZeroIsRemoved say how a segment that exists can still be found or       *)
(* removed.                                                                *)
(***************************************************************************)
EXTENDS ManagerLifecycle, FiniteSetTheorems, TLAPS

\* Control points inside the file lock.
Locking == {"reading", "create", "lookup", "attachNew", "attach", "control",
            "write", "count", "close"}

\* The creator, from shmget to the write of the key.
Creating == {"attachNew", "control", "write"}

\* ~BufferManager from unlink to IPC_RMID.
Exploding == {"unlock", "detachLast", "rmid"}

\* Control points at which m_shmId is set, and at which it is attached.
Attached == {"control", "write", "count", "close", "ready", "explode", "leave",
             "unlock", "detachLast", "detach"}
HasSegment == Attached \cup {"lookup", "attachNew", "attach", "rmid"}

Types ==
  /\ name \in Gen \cup {NONE}
  /\ content \in [Gen -> Gen \cup {NONE}]
  /\ flock \in [Gen -> Proc \cup {NoProc}]
  /\ exists \in [Gen -> BOOLEAN]
  /\ ref_count \in [Gen -> Int]
  /\ mtx \in [Gen -> Proc \cup {NoProc}]
  /\ attached \in [Gen -> SUBSET Proc]
  /\ fd \in [Proc -> Gen \cup {NONE}]
  /\ m_shmId \in [Proc -> Gen \cup {NONE}]
  /\ pc \in [Proc -> PCs]
  /\ made \in [file : Nat, seg : Nat]
  /\ deaths \in Nat
  /\ \A p \in Proc :
       /\ pc[p] \in Locking \cup {"opened"} => fd[p] # NONE
       /\ pc[p] \in HasSegment => m_shmId[p] # NONE

\* Files and segments that are still to be made.
Fresh ==
  /\ \A f \in Gen : f > made.file =>
       content[f] = NONE /\ name # f /\ \A p \in Proc : fd[p] # f
  /\ \A s \in Gen : s > made.seg =>
       /\ ~exists[s] /\ ref_count[s] = 0
       /\ \A f \in Gen : content[f] # s
       /\ \A p \in Proc : m_shmId[p] # s

LockHeld == \A p \in Proc : pc[p] \in Locking => flock[fd[p]] = p

\* What a process has read in the file is still there.
KeyRead ==
  \A p \in Proc :
    /\ pc[p] \in Creating \cup {"create"} => content[fd[p]] = NONE
    /\ pc[p] \in {"lookup", "attach", "count"} => content[fd[p]] = m_shmId[p]

\* A segment without a key in a file is known to its creator alone.
CreatorAlone ==
  \A p \in Proc : pc[p] \in Creating =>
    /\ exists[m_shmId[p]]
    /\ \A q \in Proc : q # p => m_shmId[q] # m_shmId[p]
    /\ \A f \in Gen : content[f] # m_shmId[p]

\* A segment that is to be removed is not the one that the name leads to.
Unlinked ==
  \A p \in Proc : pc[p] \in Exploding /\ name # NONE => content[name] # m_shmId[p]

MtxHeld ==
  \A p \in Proc : pc[p] \in {"explode", "leave", "unlock"} => mtx[m_shmId[p]] = p

IsAttached == \A p \in Proc : pc[p] \in Attached => p \in attached[m_shmId[p]]

Base ==
  /\ Types /\ Fresh /\ LockHeld /\ KeyRead /\ CreatorAlone /\ Unlinked
  /\ MtxHeld /\ IsAttached /\ FileNamesLiveSegment

\* Processes that ref_count stands for.
Counted == {"write", "close", "ready"}
Users(s) == {q \in Proc : pc[q] \in Counted /\ m_shmId[q] = s}

InitHasName == \A p \in Proc : pc[p] \in Initialising => name # NONE /\ fd[p] = name

Using == Ready \cup {"explode"}

UsesNamed ==
  \A p \in Proc : pc[p] \in Using => name # NONE /\ content[name] = m_shmId[p]

ExplodesAlone ==
  \A p, q \in Proc : pc[p] = "explode" /\ pc[q] \in Using => q = p

EachIsCounted == \A s \in Gen : Cardinality(Users(s)) <= ref_count[s]

Single == InitHasName /\ UsesNamed /\ ExplodesAlone /\ EachIsCounted

\* With one manager: a segment has a name, or a process about to name or to
\* remove it.
Reachable ==
  \A s \in Gen \ orphans : exists[s] =>
    \/ name # NONE /\ content[name] = s
    \/ \E p \in Proc : m_shmId[p] = s /\ pc[p] \in Creating \cup Exploding

\* Without deaths: ref_count is not too large, and at 0 somebody removes the
\* segment.
CountIsReal == \A s \in Gen : ref_count[s] <= Cardinality(Users(s))

ZeroIsRemoved ==
  \A s \in Gen \ orphans : exists[s] /\ ref_count[s] <= 0 =>
    \E p \in Proc : /\ m_shmId[p] = s
                    /\ pc[p] \in {"attachNew", "control", "explode"} \cup Exploding

IInv ==
  /\ Base
  /\ ~split => Single /\ Reachable
  /\ deaths = 0 => CountIsReal /\ ZeroIsRemoved

-----------------------------------------------------------------------------
\* The next file or segment is one of the model's, and new.
LEMMA NextGen ==
  /\ NONE \notin Gen
  /\ \A k \in Nat : k < MaxGen =>
       /\ k + 1 \in Gen /\ k + 1 > k /\ k + 1 \in Nat
       /\ \A g \in Gen : g > k + 1 => g > k /\ g # k + 1
BY ConstAssumption DEF Gen, NONE

\* Every step keeps the types.
LEMMA TypesStep == Types /\ [Next]_vars => Types'
<1> SUFFICES ASSUME Types, [Next]_vars PROVE Types'
  OBVIOUS
<1> USE ConstAssumption, NextGen
    DEF Types, Locking, HasSegment, Attached, PCs, Step, files, segs, hist
<1>1. ASSUME NEW p \in Proc, InitThrows(p) PROVE Types'
  BY <1>1 DEF InitThrows, Throws, Closed
<1>2. ASSUME NEW p \in Proc, Open(p) PROVE Types'
  BY <1>2 DEF Open
<1>3. ASSUME NEW p \in Proc, LockFile(p) PROVE Types'
  BY <1>3 DEF LockFile
<1>4. ASSUME NEW p \in Proc, ReadKey(p) PROVE Types'
  BY <1>4 DEF ReadKey
<1>5. ASSUME NEW p \in Proc, ShmGetNew(p) PROVE Types'
  BY <1>5 DEF ShmGetNew
<1>6. ASSUME NEW p \in Proc, ShmGet(p) PROVE Types'
  BY <1>6 DEF ShmGet, Throws, Closed
<1>7. ASSUME NEW p \in Proc, ShmAt(p) PROVE Types'
  BY <1>7 DEF ShmAt
<1>8. ASSUME NEW p \in Proc, ShmAtFails(p) PROVE Types'
  BY <1>8 DEF ShmAtFails, Throws, Closed
<1>9. ASSUME NEW p \in Proc, InitControl(p) PROVE Types'
  BY <1>9 DEF InitControl
<1>10. ASSUME NEW p \in Proc, WriteKey(p) PROVE Types'
  BY <1>10 DEF WriteKey, Closed
<1>11. ASSUME NEW p \in Proc, Count(p) PROVE Types'
  BY <1>11 DEF Count
<1>12. ASSUME NEW p \in Proc, CountInterrupted(p) PROVE Types'
  BY <1>12 DEF CountInterrupted, Closed
<1>13. ASSUME NEW p \in Proc, CloseFile(p) PROVE Types'
  BY <1>13 DEF CloseFile, Closed
<1>14. ASSUME NEW p \in Proc, Destructor(p) PROVE Types'
  BY <1>14 DEF Destructor
<1>15. ASSUME NEW p \in Proc, Unlink(p) PROVE Types'
  BY <1>15 DEF Unlink
<1>16. ASSUME NEW p \in Proc, UnlockMtx(p) PROVE Types'
  BY <1>16 DEF UnlockMtx
<1>17. ASSUME NEW p \in Proc, ShmDt(p) PROVE Types'
  BY <1>17 DEF ShmDt, Detached
<1>18. ASSUME NEW p \in Proc, RmId(p) PROVE Types'
  BY <1>18 DEF RmId
<1>19. ASSUME NEW p \in Proc, UseBroken(p) PROVE Types'
  BY <1>19 DEF UseBroken, Detached
<1>20. ASSUME NEW p \in Proc, Crash(p) PROVE Types'
  BY <1>20 DEF Crash, Closed, Detached
<1>21. ASSUME NEW p \in Proc, Restart(p) PROVE Types'
  BY <1>21 DEF Restart
<1>22. CASE UNCHANGED vars
  BY <1>22 DEF vars
<1> QED
  BY <1>1, <1>2, <1>3, <1>4, <1>5, <1>6, <1>7, <1>8, <1>9, <1>10, <1>11,
     <1>12, <1>13, <1>14, <1>15, <1>16, <1>17, <1>18, <1>19, <1>20, <1>21,
     <1>22 DEF Next

\* No step knows a file or a segment that is still to be made.
LEMMA FreshStep == Types /\ Fresh /\ [Next]_vars => Fresh'
<1> SUFFICES ASSUME Types, Fresh, [Next]_vars PROVE Fresh'
  OBVIOUS
<1> USE ConstAssumption, NextGen
    DEF Types, Fresh, Locking, HasSegment, Attached, PCs, Step, files, segs, hist
<1>1. ASSUME NEW p \in Proc, InitThrows(p) PROVE Fresh'
  BY <1>1 DEF InitThrows, Throws, Closed
<1>2. ASSUME NEW p \in Proc, Open(p) PROVE Fresh'
  BY <1>2 DEF Open
<1>3. ASSUME NEW p \in Proc, LockFile(p) PROVE Fresh'
  BY <1>3 DEF LockFile
<1>4. ASSUME NEW p \in Proc, ReadKey(p) PROVE Fresh'
  BY <1>4 DEF ReadKey
<1>5. ASSUME NEW p \in Proc, ShmGetNew(p) PROVE Fresh'
  BY <1>5 DEF ShmGetNew
<1>6. ASSUME NEW p \in Proc, ShmGet(p) PROVE Fresh'
  BY <1>6 DEF ShmGet, Throws, Closed
<1>7. ASSUME NEW p \in Proc, ShmAt(p) PROVE Fresh'
  BY <1>7 DEF ShmAt
<1>8. ASSUME NEW p \in Proc, ShmAtFails(p) PROVE Fresh'
  BY <1>8 DEF ShmAtFails, Throws, Closed
<1>9. ASSUME NEW p \in Proc, InitControl(p) PROVE Fresh'
  BY <1>9 DEF InitControl
<1>10. ASSUME NEW p \in Proc, WriteKey(p) PROVE Fresh'
  BY <1>10 DEF WriteKey, Closed
<1>11. ASSUME NEW p \in Proc, Count(p) PROVE Fresh'
  BY <1>11 DEF Count
<1>12. ASSUME NEW p \in Proc, CountInterrupted(p) PROVE Fresh'
  BY <1>12 DEF CountInterrupted, Closed
<1>13. ASSUME NEW p \in Proc, CloseFile(p) PROVE Fresh'
  BY <1>13 DEF CloseFile, Closed
<1>14. ASSUME NEW p \in Proc, Destructor(p) PROVE Fresh'
  BY <1>14 DEF Destructor
<1>15. ASSUME NEW p \in Proc, Unlink(p) PROVE Fresh'
  BY <1>15 DEF Unlink
<1>16. ASSUME NEW p \in Proc, UnlockMtx(p) PROVE Fresh'
  BY <1>16 DEF UnlockMtx
<1>17. ASSUME NEW p \in Proc, ShmDt(p) PROVE Fresh'
  BY <1>17 DEF ShmDt, Detached
<1>18. ASSUME NEW p \in Proc, RmId(p) PROVE Fresh'
  BY <1>18 DEF RmId
<1>19. ASSUME NEW p \in Proc, UseBroken(p) PROVE Fresh'
  BY <1>19 DEF UseBroken, Detached
<1>20. ASSUME NEW p \in Proc, Crash(p) PROVE Fresh'
  BY <1>20 DEF Crash, Closed, Detached
<1>21. ASSUME NEW p \in Proc, Restart(p) PROVE Fresh'
  BY <1>21 DEF Restart
<1>22. CASE UNCHANGED vars
  BY <1>22 DEF vars
<1> QED
  BY <1>1, <1>2, <1>3, <1>4, <1>5, <1>6, <1>7, <1>8, <1>9, <1>10, <1>11,
     <1>12, <1>13, <1>14, <1>15, <1>16, <1>17, <1>18, <1>19, <1>20, <1>21,
     <1>22 DEF Next

\* Every step keeps the file lock with the process inside it, and a new segment
\* with its creator.
LEMMA FileStep == Base /\ [Next]_vars => (LockHeld /\ KeyRead /\ CreatorAlone)'
<1> SUFFICES ASSUME Base, [Next]_vars PROVE (LockHeld /\ KeyRead /\ CreatorAlone)'
  OBVIOUS
<1> USE ConstAssumption, NextGen
    DEF Base, Types, Fresh, LockHeld, KeyRead, CreatorAlone, Creating, Locking,
        HasSegment, Attached, Step, files, segs, hist
<1>1. ASSUME NEW p \in Proc, InitThrows(p) PROVE (LockHeld /\ KeyRead /\ CreatorAlone)'
  BY <1>1 DEF InitThrows, Throws, Closed
<1>2. ASSUME NEW p \in Proc, Open(p) PROVE (LockHeld /\ KeyRead /\ CreatorAlone)'
  BY <1>2 DEF Open
<1>3. ASSUME NEW p \in Proc, LockFile(p) PROVE (LockHeld /\ KeyRead /\ CreatorAlone)'
  BY <1>3 DEF LockFile
<1>4. ASSUME NEW p \in Proc, ReadKey(p) PROVE (LockHeld /\ KeyRead /\ CreatorAlone)'
  BY <1>4 DEF ReadKey
<1>5. ASSUME NEW p \in Proc, ShmGetNew(p) PROVE (LockHeld /\ KeyRead /\ CreatorAlone)'
  BY <1>5 DEF ShmGetNew
<1>6. ASSUME NEW p \in Proc, ShmGet(p) PROVE (LockHeld /\ KeyRead /\ CreatorAlone)'
  BY <1>6 DEF ShmGet, Throws, Closed
<1>7. ASSUME NEW p \in Proc, ShmAt(p) PROVE (LockHeld /\ KeyRead /\ CreatorAlone)'
  BY <1>7 DEF ShmAt
<1>8. ASSUME NEW p \in Proc, ShmAtFails(p) PROVE (LockHeld /\ KeyRead /\ CreatorAlone)'
  BY <1>8 DEF ShmAtFails, Throws, Closed
<1>9. ASSUME NEW p \in Proc, InitControl(p) PROVE (LockHeld /\ KeyRead /\ CreatorAlone)'
  BY <1>9 DEF InitControl
<1>10. ASSUME NEW p \in Proc, WriteKey(p) PROVE (LockHeld /\ KeyRead /\ CreatorAlone)'
  BY <1>10 DEF WriteKey, Closed
<1>11. ASSUME NEW p \in Proc, Count(p) PROVE (LockHeld /\ KeyRead /\ CreatorAlone)'
  BY <1>11 DEF Count
<1>12. ASSUME NEW p \in Proc, CountInterrupted(p) PROVE (LockHeld /\ KeyRead /\ CreatorAlone)'
  BY <1>12 DEF CountInterrupted, Closed
<1>13. ASSUME NEW p \in Proc, CloseFile(p) PROVE (LockHeld /\ KeyRead /\ CreatorAlone)'
  BY <1>13 DEF CloseFile, Closed
<1>14. ASSUME NEW p \in Proc, Destructor(p) PROVE (LockHeld /\ KeyRead /\ CreatorAlone)'
  BY <1>14 DEF Destructor
<1>15. ASSUME NEW p \in Proc, Unlink(p) PROVE (LockHeld /\ KeyRead /\ CreatorAlone)'
  BY <1>15 DEF Unlink
<1>16. ASSUME NEW p \in Proc, UnlockMtx(p) PROVE (LockHeld /\ KeyRead /\ CreatorAlone)'
  BY <1>16 DEF UnlockMtx
<1>17. ASSUME NEW p \in Proc, ShmDt(p) PROVE (LockHeld /\ KeyRead /\ CreatorAlone)'
  BY <1>17 DEF ShmDt, Detached
<1>18. ASSUME NEW p \in Proc, RmId(p) PROVE (LockHeld /\ KeyRead /\ CreatorAlone)'
  BY <1>18 DEF RmId
<1>19. ASSUME NEW p \in Proc, UseBroken(p) PROVE (LockHeld /\ KeyRead /\ CreatorAlone)'
  BY <1>19 DEF UseBroken, Detached
<1>20. ASSUME NEW p \in Proc, Crash(p) PROVE (LockHeld /\ KeyRead /\ CreatorAlone)'
  BY <1>20 DEF Crash, Closed, Detached
<1>21. ASSUME NEW p \in Proc, Restart(p) PROVE (LockHeld /\ KeyRead /\ CreatorAlone)'
  BY <1>21 DEF Restart
<1>22. CASE UNCHANGED vars
  BY <1>22 DEF vars
<1> QED
  BY <1>1, <1>2, <1>3, <1>4, <1>5, <1>6, <1>7, <1>8, <1>9, <1>10, <1>11,
     <1>12, <1>13, <1>14, <1>15, <1>16, <1>17, <1>18, <1>19, <1>20, <1>21,
     <1>22 DEF Next

\* Every step keeps the segments that are to be removed without a name.
LEMMA NameStep == Base /\ [Next]_vars => (Unlinked /\ FileNamesLiveSegment)'
<1> SUFFICES ASSUME Base, [Next]_vars PROVE (Unlinked /\ FileNamesLiveSegment)'
  OBVIOUS
<1> USE ConstAssumption, NextGen
    DEF Base, Types, Fresh, CreatorAlone, Unlinked, FileNamesLiveSegment, Creating,
        Exploding, Locking, HasSegment, Attached, Step, files, segs, hist
<1>1. ASSUME NEW p \in Proc, InitThrows(p) PROVE (Unlinked /\ FileNamesLiveSegment)'
  BY <1>1 DEF InitThrows, Throws, Closed
<1>2. ASSUME NEW p \in Proc, Open(p) PROVE (Unlinked /\ FileNamesLiveSegment)'
  BY <1>2 DEF Open
<1>3. ASSUME NEW p \in Proc, LockFile(p) PROVE (Unlinked /\ FileNamesLiveSegment)'
  BY <1>3 DEF LockFile
<1>4. ASSUME NEW p \in Proc, ReadKey(p) PROVE (Unlinked /\ FileNamesLiveSegment)'
  BY <1>4 DEF ReadKey
<1>5. ASSUME NEW p \in Proc, ShmGetNew(p) PROVE (Unlinked /\ FileNamesLiveSegment)'
  BY <1>5 DEF ShmGetNew
<1>6. ASSUME NEW p \in Proc, ShmGet(p) PROVE (Unlinked /\ FileNamesLiveSegment)'
  BY <1>6 DEF ShmGet, Throws, Closed
<1>7. ASSUME NEW p \in Proc, ShmAt(p) PROVE (Unlinked /\ FileNamesLiveSegment)'
  BY <1>7 DEF ShmAt
<1>8. ASSUME NEW p \in Proc, ShmAtFails(p) PROVE (Unlinked /\ FileNamesLiveSegment)'
  BY <1>8 DEF ShmAtFails, Throws, Closed
<1>9. ASSUME NEW p \in Proc, InitControl(p) PROVE (Unlinked /\ FileNamesLiveSegment)'
  BY <1>9 DEF InitControl
<1>10. ASSUME NEW p \in Proc, WriteKey(p) PROVE (Unlinked /\ FileNamesLiveSegment)'
  BY <1>10 DEF WriteKey, Closed
<1>11. ASSUME NEW p \in Proc, Count(p) PROVE (Unlinked /\ FileNamesLiveSegment)'
  BY <1>11 DEF Count
<1>12. ASSUME NEW p \in Proc, CountInterrupted(p) PROVE (Unlinked /\ FileNamesLiveSegment)'
  BY <1>12 DEF CountInterrupted, Closed
<1>13. ASSUME NEW p \in Proc, CloseFile(p) PROVE (Unlinked /\ FileNamesLiveSegment)'
  BY <1>13 DEF CloseFile, Closed
<1>14. ASSUME NEW p \in Proc, Destructor(p) PROVE (Unlinked /\ FileNamesLiveSegment)'
  BY <1>14 DEF Destructor
<1>15. ASSUME NEW p \in Proc, Unlink(p) PROVE (Unlinked /\ FileNamesLiveSegment)'
  BY <1>15 DEF Unlink
<1>16. ASSUME NEW p \in Proc, UnlockMtx(p) PROVE (Unlinked /\ FileNamesLiveSegment)'
  BY <1>16 DEF UnlockMtx
<1>17. ASSUME NEW p \in Proc, ShmDt(p) PROVE (Unlinked /\ FileNamesLiveSegment)'
  BY <1>17 DEF ShmDt, Detached
<1>18. ASSUME NEW p \in Proc, RmId(p) PROVE (Unlinked /\ FileNamesLiveSegment)'
  BY <1>18 DEF RmId
<1>19. ASSUME NEW p \in Proc, UseBroken(p) PROVE (Unlinked /\ FileNamesLiveSegment)'
  BY <1>19 DEF UseBroken, Detached
<1>20. ASSUME NEW p \in Proc, Crash(p) PROVE (Unlinked /\ FileNamesLiveSegment)'
  BY <1>20 DEF Crash, Closed, Detached
<1>21. ASSUME NEW p \in Proc, Restart(p) PROVE (Unlinked /\ FileNamesLiveSegment)'
  BY <1>21 DEF Restart
<1>22. CASE UNCHANGED vars
  BY <1>22 DEF vars
<1> QED
  BY <1>1, <1>2, <1>3, <1>4, <1>5, <1>6, <1>7, <1>8, <1>9, <1>10, <1>11,
     <1>12, <1>13, <1>14, <1>15, <1>16, <1>17, <1>18, <1>19, <1>20, <1>21,
     <1>22 DEF Next

\* Every step keeps segments attached and their mutexes locked.
LEMMA SegmentStep == Base /\ [Next]_vars => (MtxHeld /\ IsAttached)'
<1> SUFFICES ASSUME Base, [Next]_vars PROVE (MtxHeld /\ IsAttached)'
  OBVIOUS
<1> USE ConstAssumption, NextGen
    DEF Base, Types, Fresh, CreatorAlone, MtxHeld, IsAttached, Creating,
        HasSegment, Attached, Step, files, segs, hist
<1>1. ASSUME NEW p \in Proc, InitThrows(p) PROVE (MtxHeld /\ IsAttached)'
  BY <1>1 DEF InitThrows, Throws, Closed
<1>2. ASSUME NEW p \in Proc, Open(p) PROVE (MtxHeld /\ IsAttached)'
  BY <1>2 DEF Open
<1>3. ASSUME NEW p \in Proc, LockFile(p) PROVE (MtxHeld /\ IsAttached)'
  BY <1>3 DEF LockFile
<1>4. ASSUME NEW p \in Proc, ReadKey(p) PROVE (MtxHeld /\ IsAttached)'
  BY <1>4 DEF ReadKey
<1>5. ASSUME NEW p \in Proc, ShmGetNew(p) PROVE (MtxHeld /\ IsAttached)'
  BY <1>5 DEF ShmGetNew
<1>6. ASSUME NEW p \in Proc, ShmGet(p) PROVE (MtxHeld /\ IsAttached)'
  BY <1>6 DEF ShmGet, Throws, Closed
<1>7. ASSUME NEW p \in Proc, ShmAt(p) PROVE (MtxHeld /\ IsAttached)'
  BY <1>7 DEF ShmAt
<1>8. ASSUME NEW p \in Proc, ShmAtFails(p) PROVE (MtxHeld /\ IsAttached)'
  BY <1>8 DEF ShmAtFails, Throws, Closed
<1>9. ASSUME NEW p \in Proc, InitControl(p) PROVE (MtxHeld /\ IsAttached)'
  BY <1>9 DEF InitControl
<1>10. ASSUME NEW p \in Proc, WriteKey(p) PROVE (MtxHeld /\ IsAttached)'
  BY <1>10 DEF WriteKey, Closed
<1>11. ASSUME NEW p \in Proc, Count(p) PROVE (MtxHeld /\ IsAttached)'
  BY <1>11 DEF Count
<1>12. ASSUME NEW p \in Proc, CountInterrupted(p) PROVE (MtxHeld /\ IsAttached)'
  BY <1>12 DEF CountInterrupted, Closed
<1>13. ASSUME NEW p \in Proc, CloseFile(p) PROVE (MtxHeld /\ IsAttached)'
  BY <1>13 DEF CloseFile, Closed
<1>14. ASSUME NEW p \in Proc, Destructor(p) PROVE (MtxHeld /\ IsAttached)'
  BY <1>14 DEF Destructor
<1>15. ASSUME NEW p \in Proc, Unlink(p) PROVE (MtxHeld /\ IsAttached)'
  BY <1>15 DEF Unlink
<1>16. ASSUME NEW p \in Proc, UnlockMtx(p) PROVE (MtxHeld /\ IsAttached)'
  BY <1>16 DEF UnlockMtx
<1>17. ASSUME NEW p \in Proc, ShmDt(p) PROVE (MtxHeld /\ IsAttached)'
  BY <1>17 DEF ShmDt, Detached
<1>18. ASSUME NEW p \in Proc, RmId(p) PROVE (MtxHeld /\ IsAttached)'
  BY <1>18 DEF RmId
<1>19. ASSUME NEW p \in Proc, UseBroken(p) PROVE (MtxHeld /\ IsAttached)'
  BY <1>19 DEF UseBroken, Detached
<1>20. ASSUME NEW p \in Proc, Crash(p) PROVE (MtxHeld /\ IsAttached)'
  BY <1>20 DEF Crash, Closed, Detached
<1>21. ASSUME NEW p \in Proc, Restart(p) PROVE (MtxHeld /\ IsAttached)'
  BY <1>21 DEF Restart
<1>22. CASE UNCHANGED vars
  BY <1>22 DEF vars
<1> QED
  BY <1>1, <1>2, <1>3, <1>4, <1>5, <1>6, <1>7, <1>8, <1>9, <1>10, <1>11,
     <1>12, <1>13, <1>14, <1>15, <1>16, <1>17, <1>18, <1>19, <1>20, <1>21,
     <1>22 DEF Next

\* Base is inductive by itself.
LEMMA BaseStep == Base /\ [Next]_vars => Base'
BY TypesStep, FreshStep, FileStep, NameStep, SegmentStep DEF Base

\* A set with two elements is counted as two at least.
LEMMA AtLeastTwo ==
  ASSUME NEW S, IsFiniteSet(S), NEW a \in S, NEW b \in S, a # b
  PROVE  Cardinality(S) >= 2
<1>1. /\ IsFiniteSet(S \ {a}) /\ b \in S \ {a}
      /\ Cardinality(S \ {a}) = Cardinality(S) - 1
  BY FS_RemoveElement
<1>2. Cardinality(S \ {a}) # 0
  BY <1>1, FS_EmptySet
<1>3. Cardinality(S) \in Nat /\ Cardinality(S \ {a}) \in Nat
  BY <1>1, FS_CardinalityType
<1> QED
  BY <1>1, <1>2, <1>3

\* The users of a segment are finitely many.
LEMMA UsersFinite ==
  /\ \A s : IsFiniteSet(Users(s)) /\ Cardinality(Users(s)) \in Nat
  /\ Types => \A s \in Gen : IsFiniteSet(attached[s]) /\ Cardinality(attached[s]) \in Nat
<1>1. ASSUME NEW S \in SUBSET Proc PROVE IsFiniteSet(S) /\ Cardinality(S) \in Nat
  BY ConstAssumption, FS_Subset, FS_CardinalityType
<1>2. \A s : Users(s) \in SUBSET Proc
  BY DEF Users
<1>3. Types => \A s \in Gen : attached[s] \in SUBSET Proc
  BY DEF Types
<1> QED
  BY <1>1, <1>2, <1>3

\* As long as nothing leads to two managers, every step keeps the processes on
\* the file and the segment that the name stands for, and leaves the last
\* instance alone.
LEMMA SingleStep == Base /\ Single /\ ~split' /\ [Next]_vars => (InitHasName /\ UsesNamed /\ ExplodesAlone)'
<1> SUFFICES ASSUME Base, Single, ~split', [Next]_vars PROVE (InitHasName /\ UsesNamed /\ ExplodesAlone)'
  OBVIOUS
<1> USE ConstAssumption, NextGen
    DEF Base, Types, Single, InitHasName, UsesNamed, ExplodesAlone, KeyRead,
        MtxHeld, Creating, Initialising, Ready, Using, Locking, HasSegment,
        Attached, Step, files, segs, hist
<1>1. ASSUME NEW p \in Proc, InitThrows(p) PROVE (InitHasName /\ UsesNamed /\ ExplodesAlone)'
  BY <1>1 DEF InitThrows, Throws, Closed
<1>2. ASSUME NEW p \in Proc, Open(p) PROVE (InitHasName /\ UsesNamed /\ ExplodesAlone)'
  BY <1>2 DEF Open
<1>3. ASSUME NEW p \in Proc, LockFile(p) PROVE (InitHasName /\ UsesNamed /\ ExplodesAlone)'
  BY <1>3 DEF LockFile
<1>4. ASSUME NEW p \in Proc, ReadKey(p) PROVE (InitHasName /\ UsesNamed /\ ExplodesAlone)'
  BY <1>4 DEF ReadKey
<1>5. ASSUME NEW p \in Proc, ShmGetNew(p) PROVE (InitHasName /\ UsesNamed /\ ExplodesAlone)'
  BY <1>5 DEF ShmGetNew
<1>6. ASSUME NEW p \in Proc, ShmGet(p) PROVE (InitHasName /\ UsesNamed /\ ExplodesAlone)'
  BY <1>6 DEF ShmGet, Throws, Closed
<1>7. ASSUME NEW p \in Proc, ShmAt(p) PROVE (InitHasName /\ UsesNamed /\ ExplodesAlone)'
  BY <1>7 DEF ShmAt
<1>8. ASSUME NEW p \in Proc, ShmAtFails(p) PROVE (InitHasName /\ UsesNamed /\ ExplodesAlone)'
  BY <1>8 DEF ShmAtFails, Throws, Closed
<1>9. ASSUME NEW p \in Proc, InitControl(p) PROVE (InitHasName /\ UsesNamed /\ ExplodesAlone)'
  BY <1>9 DEF InitControl
<1>10. ASSUME NEW p \in Proc, WriteKey(p) PROVE (InitHasName /\ UsesNamed /\ ExplodesAlone)'
  BY <1>10 DEF WriteKey, Closed
<1>11. ASSUME NEW p \in Proc, Count(p) PROVE (InitHasName /\ UsesNamed /\ ExplodesAlone)'
  BY <1>11 DEF Count
<1>12. ASSUME NEW p \in Proc, CountInterrupted(p) PROVE (InitHasName /\ UsesNamed /\ ExplodesAlone)'
  BY <1>12 DEF CountInterrupted, Closed
<1>13. ASSUME NEW p \in Proc, CloseFile(p) PROVE (InitHasName /\ UsesNamed /\ ExplodesAlone)'
  BY <1>13 DEF CloseFile, Closed
<1>14. ASSUME NEW p \in Proc, Destructor(p) PROVE (InitHasName /\ UsesNamed /\ ExplodesAlone)'
  <2> DEFINE s == m_shmId[p]
  <2>1. /\ pc[p] = "ready" /\ mtx[s] = NoProc
        /\ UNCHANGED <<files, fd, m_shmId>>
    BY <1>14 DEF Destructor
  <2>2. CASE ~(ref_count[s] = 1 \/ NumAttached(s) = 1)
    <3>1. pc' = [pc EXCEPT ![p] = "leave"]
      BY <1>14, <2>2 DEF Destructor
    <3> QED
      BY <2>1, <3>1
  <2>3. CASE ref_count[s] = 1 \/ NumAttached(s) = 1
    <3>1. pc' = [pc EXCEPT ![p] = "explode"]
      BY <1>14, <2>3 DEF Destructor
    <3>2. ASSUME NEW q \in Proc, q # p, pc[q] \in Using PROVE FALSE
      <4>1. m_shmId[q] = s
        BY <2>1, <3>2
      <4>2. pc[q] # "explode"
        BY <2>1, <4>1, ConstAssumption
      <4>3. p \in Users(s) /\ q \in Users(s)
        BY <2>1, <3>2, <4>1, <4>2 DEF Users, Counted
      <4>4. p \in attached[s] /\ q \in attached[s]
        BY <2>1, <3>2, <4>1 DEF IsAttached
      <4>5. ref_count[s] # 1
        BY <2>1, <3>2, <4>3, AtLeastTwo, UsersFinite DEF EachIsCounted
      <4>6. NumAttached(s) # 1
        BY <2>1, <3>2, <4>4, AtLeastTwo, UsersFinite DEF NumAttached
      <4> QED
        BY <2>3, <4>5, <4>6
    <3> QED
      BY <2>1, <3>1, <3>2
  <2> QED
    BY <2>2, <2>3
<1>15. ASSUME NEW p \in Proc, Unlink(p) PROVE (InitHasName /\ UsesNamed /\ ExplodesAlone)'
  <2>1. \A q \in Proc \ {p} : pc[q] \notin Initialising
    BY <1>15 DEF Unlink
  <2>2. /\ pc[p] = "explode" /\ pc' = [pc EXCEPT ![p] = "unlock"]
        /\ UNCHANGED <<content, fd, m_shmId>>
    BY <1>15 DEF Unlink
  <2> QED
    BY <2>1, <2>2
<1>16. ASSUME NEW p \in Proc, UnlockMtx(p) PROVE (InitHasName /\ UsesNamed /\ ExplodesAlone)'
  BY <1>16 DEF UnlockMtx
<1>17. ASSUME NEW p \in Proc, ShmDt(p) PROVE (InitHasName /\ UsesNamed /\ ExplodesAlone)'
  BY <1>17 DEF ShmDt, Detached
<1>18. ASSUME NEW p \in Proc, RmId(p) PROVE (InitHasName /\ UsesNamed /\ ExplodesAlone)'
  BY <1>18 DEF RmId
<1>19. ASSUME NEW p \in Proc, UseBroken(p) PROVE (InitHasName /\ UsesNamed /\ ExplodesAlone)'
  BY <1>19 DEF UseBroken, Detached
<1>20. ASSUME NEW p \in Proc, Crash(p) PROVE (InitHasName /\ UsesNamed /\ ExplodesAlone)'
  BY <1>20 DEF Crash, Closed, Detached
<1>21. ASSUME NEW p \in Proc, Restart(p) PROVE (InitHasName /\ UsesNamed /\ ExplodesAlone)'
  BY <1>21 DEF Restart
<1>22. CASE UNCHANGED vars
  BY <1>22 DEF vars
<1> QED
  BY <1>1, <1>2, <1>3, <1>4, <1>5, <1>6, <1>7, <1>8, <1>9, <1>10, <1>11,
     <1>12, <1>13, <1>14, <1>15, <1>16, <1>17, <1>18, <1>19, <1>20, <1>21,
     <1>22 DEF Next

\* How a step may change the users of segment s and its ref_count: not at all; by
\* InitControl; by Count; by becoming an instance that is not counted; by the
\* destructor; by a death.
UsersChange(s) ==
  \/ Users(s)' = Users(s) /\ ref_count'[s] = ref_count[s]
  \/ \E p \in Proc : Users(s)' = {p} /\ ref_count'[s] = 1
  \/ \E p \in Proc \ Users(s) :
       Users(s)' = Users(s) \cup {p} /\ ref_count'[s] = ref_count[s] + 1
  \/ \E p \in Proc :
       Users(s)' = Users(s) \cup {p} /\ ref_count'[s] = ref_count[s] /\ split'
  \/ \E p \in Users(s) :
       Users(s)' = Users(s) \ {p} /\ ref_count'[s] = ref_count[s] - 1
  \/ \E p \in Proc :
       Users(s)' = Users(s) \ {p} /\ ref_count'[s] = ref_count[s] /\ deaths' # 0

\* These are the only changes.
LEMMA UsersStep == Base /\ [Next]_vars => \A s \in Gen : UsersChange(s)
<1> SUFFICES ASSUME Base, [Next]_vars PROVE \A s \in Gen : UsersChange(s)
  OBVIOUS
<1> USE ConstAssumption, NextGen
    DEF Base, Types, Fresh, Users, Counted, UsersChange, CreatorAlone, Creating,
        HasSegment, Attached, Step, files, segs, hist
<1>1. ASSUME NEW p \in Proc, InitThrows(p) PROVE \A s \in Gen : UsersChange(s)
  BY <1>1 DEF InitThrows, Throws, Closed
<1>2. ASSUME NEW p \in Proc, Open(p) PROVE \A s \in Gen : UsersChange(s)
  BY <1>2 DEF Open
<1>3. ASSUME NEW p \in Proc, LockFile(p) PROVE \A s \in Gen : UsersChange(s)
  BY <1>3 DEF LockFile
<1>4. ASSUME NEW p \in Proc, ReadKey(p) PROVE \A s \in Gen : UsersChange(s)
  BY <1>4 DEF ReadKey
<1>5. ASSUME NEW p \in Proc, ShmGetNew(p) PROVE \A s \in Gen : UsersChange(s)
  BY <1>5 DEF ShmGetNew
<1>6. ASSUME NEW p \in Proc, ShmGet(p) PROVE \A s \in Gen : UsersChange(s)
  BY <1>6 DEF ShmGet, Throws, Closed
<1>7. ASSUME NEW p \in Proc, ShmAt(p) PROVE \A s \in Gen : UsersChange(s)
  BY <1>7 DEF ShmAt
<1>8. ASSUME NEW p \in Proc, ShmAtFails(p) PROVE \A s \in Gen : UsersChange(s)
  BY <1>8 DEF ShmAtFails, Throws, Closed
<1>9. ASSUME NEW p \in Proc, InitControl(p) PROVE \A s \in Gen : UsersChange(s)
  BY <1>9 DEF InitControl
<1>10. ASSUME NEW p \in Proc, WriteKey(p) PROVE \A s \in Gen : UsersChange(s)
  BY <1>10 DEF WriteKey, Closed
<1>11. ASSUME NEW p \in Proc, Count(p) PROVE \A s \in Gen : UsersChange(s)
  BY <1>11 DEF Count
<1>12. ASSUME NEW p \in Proc, CountInterrupted(p) PROVE \A s \in Gen : UsersChange(s)
  BY <1>12 DEF CountInterrupted, Closed
<1>13. ASSUME NEW p \in Proc, CloseFile(p) PROVE \A s \in Gen : UsersChange(s)
  BY <1>13 DEF CloseFile, Closed
<1>14. ASSUME NEW p \in Proc, Destructor(p) PROVE \A s \in Gen : UsersChange(s)
  BY <1>14 DEF Destructor
<1>15. ASSUME NEW p \in Proc, Unlink(p) PROVE \A s \in Gen : UsersChange(s)
  BY <1>15 DEF Unlink
<1>16. ASSUME NEW p \in Proc, UnlockMtx(p) PROVE \A s \in Gen : UsersChange(s)
  BY <1>16 DEF UnlockMtx
<1>17. ASSUME NEW p \in Proc, ShmDt(p) PROVE \A s \in Gen : UsersChange(s)
  BY <1>17 DEF ShmDt, Detached
<1>18. ASSUME NEW p \in Proc, RmId(p) PROVE \A s \in Gen : UsersChange(s)
  BY <1>18 DEF RmId
<1>19. ASSUME NEW p \in Proc, UseBroken(p) PROVE \A s \in Gen : UsersChange(s)
  BY <1>19 DEF UseBroken, Detached
<1>20. ASSUME NEW p \in Proc, Crash(p) PROVE \A s \in Gen : UsersChange(s)
  BY <1>20 DEF Crash, Closed, Detached
<1>21. ASSUME NEW p \in Proc, Restart(p) PROVE \A s \in Gen : UsersChange(s)
  BY <1>21 DEF Restart
<1>22. CASE UNCHANGED vars
  BY <1>22 DEF vars
<1> QED
  BY <1>1, <1>2, <1>3, <1>4, <1>5, <1>6, <1>7, <1>8, <1>9, <1>10, <1>11,
     <1>12, <1>13, <1>14, <1>15, <1>16, <1>17, <1>18, <1>19, <1>20, <1>21,
     <1>22 DEF Next

\* A step keeps ref_count at or above the number of users as long as nothing
\* leads to two managers, and at or below it as long as nobody dies.
LEMMA CountStep ==
  ASSUME Base, [Next]_vars
  PROVE  /\ EachIsCounted /\ ~split' => EachIsCounted'
         /\ CountIsReal /\ deaths' = 0 => CountIsReal'
<1> DEFINE Bounds(s) ==
      /\ ~split' /\ Cardinality(Users(s)) <= ref_count[s] =>
           Cardinality(Users(s)') <= ref_count'[s]
      /\ deaths' = 0 /\ ref_count[s] <= Cardinality(Users(s)) =>
           ref_count'[s] <= Cardinality(Users(s)')
<1> SUFFICES ASSUME NEW s \in Gen PROVE Bounds(s)
  BY DEF EachIsCounted, CountIsReal
<1>1. UsersChange(s)
  BY UsersStep
<1>2. /\ IsFiniteSet(Users(s)) /\ Cardinality(Users(s)) \in Nat
      /\ ref_count[s] \in Int
  BY UsersFinite DEF Base, Types
<1> DEFINE n == Cardinality(Users(s))
<1>3. ASSUME NEW p
      PROVE  /\ Cardinality({p}) = 1
             /\ Cardinality(Users(s) \cup {p}) = IF p \in Users(s) THEN n ELSE n + 1
             /\ Cardinality(Users(s) \ {p}) = IF p \in Users(s) THEN n - 1 ELSE n
  BY <1>2, FS_Singleton, FS_AddElement, FS_RemoveElement
<1>4. CASE Users(s)' = Users(s) /\ ref_count'[s] = ref_count[s]
  BY <1>2, <1>4
<1>5. ASSUME NEW p, Users(s)' = {p}, ref_count'[s] = 1 PROVE Bounds(s)
  <2>1. Cardinality(Users(s)') = 1
    BY <1>3, <1>5
  <2> QED
    BY <1>2, <1>5, <2>1
<1>6. ASSUME NEW p, p \notin Users(s), Users(s)' = Users(s) \cup {p},
             ref_count'[s] = ref_count[s] + 1
      PROVE  Bounds(s)
  <2>1. Cardinality(Users(s)') = n + 1
    BY <1>3, <1>6
  <2> QED
    BY <1>2, <1>6, <2>1
<1>7. ASSUME NEW p, Users(s)' = Users(s) \cup {p}, ref_count'[s] = ref_count[s], split'
      PROVE  Bounds(s)
  <2>1. Cardinality(Users(s)') \in {n, n + 1}
    BY <1>3, <1>7
  <2> QED
    BY <1>2, <1>7, <2>1
<1>8. ASSUME NEW p \in Users(s), Users(s)' = Users(s) \ {p},
             ref_count'[s] = ref_count[s] - 1
      PROVE  Bounds(s)
  <2>1. Cardinality(Users(s)') = n - 1
    BY <1>3, <1>8
  <2> QED
    BY <1>2, <1>8, <2>1
<1>9. ASSUME NEW p, Users(s)' = Users(s) \ {p}, ref_count'[s] = ref_count[s], deaths' # 0
      PROVE  Bounds(s)
  <2>1. Cardinality(Users(s)') \in {n - 1, n}
    BY <1>3, <1>9
  <2> QED
    BY <1>2, <1>9, <2>1
<1> QED
  BY <1>1, <1>4, <1>5, <1>6, <1>7, <1>8, <1>9 DEF UsersChange

\* With one manager, every step leaves a segment that exists with its name, or
\* with the process that names or removes it.
LEMMA ReachableStep == Base /\ Single /\ Reachable /\ ~split' /\ [Next]_vars => Reachable'
<1> SUFFICES ASSUME Base, Single, Reachable, ~split', [Next]_vars PROVE Reachable'
  OBVIOUS
<1> USE ConstAssumption, NextGen
    DEF Base, Types, Single, Reachable, KeyRead, InitHasName, UsesNamed, Using,
        Initialising, Creating, Exploding, Locking, HasSegment, Attached, Step,
        files, segs, hist
<1>1. ASSUME NEW p \in Proc, InitThrows(p) PROVE Reachable'
  BY <1>1 DEF InitThrows, Throws, Closed
<1>2. ASSUME NEW p \in Proc, Open(p) PROVE Reachable'
  BY <1>2 DEF Open
<1>3. ASSUME NEW p \in Proc, LockFile(p) PROVE Reachable'
  BY <1>3 DEF LockFile
<1>4. ASSUME NEW p \in Proc, ReadKey(p) PROVE Reachable'
  BY <1>4 DEF ReadKey
<1>5. ASSUME NEW p \in Proc, ShmGetNew(p) PROVE Reachable'
  BY <1>5 DEF ShmGetNew
<1>6. ASSUME NEW p \in Proc, ShmGet(p) PROVE Reachable'
  BY <1>6 DEF ShmGet, Throws, Closed
<1>7. ASSUME NEW p \in Proc, ShmAt(p) PROVE Reachable'
  BY <1>7 DEF ShmAt
<1>8. ASSUME NEW p \in Proc, ShmAtFails(p) PROVE Reachable'
  BY <1>8 DEF ShmAtFails, Throws, Closed
<1>9. ASSUME NEW p \in Proc, InitControl(p) PROVE Reachable'
  BY <1>9 DEF InitControl
<1>10. ASSUME NEW p \in Proc, WriteKey(p) PROVE Reachable'
  BY <1>10 DEF WriteKey, Closed
<1>11. ASSUME NEW p \in Proc, Count(p) PROVE Reachable'
  BY <1>11 DEF Count
<1>12. ASSUME NEW p \in Proc, CountInterrupted(p) PROVE Reachable'
  BY <1>12 DEF CountInterrupted, Closed
<1>13. ASSUME NEW p \in Proc, CloseFile(p) PROVE Reachable'
  BY <1>13 DEF CloseFile, Closed
<1>14. ASSUME NEW p \in Proc, Destructor(p) PROVE Reachable'
  BY <1>14 DEF Destructor
<1>15. ASSUME NEW p \in Proc, Unlink(p) PROVE Reachable'
  BY <1>15 DEF Unlink
<1>16. ASSUME NEW p \in Proc, UnlockMtx(p) PROVE Reachable'
  BY <1>16 DEF UnlockMtx
<1>17. ASSUME NEW p \in Proc, ShmDt(p) PROVE Reachable'
  BY <1>17 DEF ShmDt, Detached
<1>18. ASSUME NEW p \in Proc, RmId(p) PROVE Reachable'
  BY <1>18 DEF RmId
<1>19. ASSUME NEW p \in Proc, UseBroken(p) PROVE Reachable'
  BY <1>19 DEF UseBroken, Detached
<1>20. ASSUME NEW p \in Proc, Crash(p) PROVE Reachable'
  BY <1>20 DEF Crash, Closed, Detached
<1>21. ASSUME NEW p \in Proc, Restart(p) PROVE Reachable'
  BY <1>21 DEF Restart
<1>22. CASE UNCHANGED vars
  BY <1>22 DEF vars
<1> QED
  BY <1>1, <1>2, <1>3, <1>4, <1>5, <1>6, <1>7, <1>8, <1>9, <1>10, <1>11,
     <1>12, <1>13, <1>14, <1>15, <1>16, <1>17, <1>18, <1>19, <1>20, <1>21,
     <1>22 DEF Next

\* Without deaths, every step leaves a segment that nobody is counted in with the
\* process that initialises or removes it.
LEMMA ZeroStep == Base /\ ZeroIsRemoved /\ deaths' = 0 /\ [Next]_vars => ZeroIsRemoved'
<1> SUFFICES ASSUME Base, ZeroIsRemoved, deaths' = 0, [Next]_vars PROVE ZeroIsRemoved'
  OBVIOUS
<1> USE ConstAssumption, NextGen
    DEF Base, Types, Fresh, ZeroIsRemoved, Exploding, Locking, HasSegment,
        Attached, Step, files, segs, hist
<1>1. ASSUME NEW p \in Proc, InitThrows(p) PROVE ZeroIsRemoved'
  BY <1>1 DEF InitThrows, Throws, Closed
<1>2. ASSUME NEW p \in Proc, Open(p) PROVE ZeroIsRemoved'
  BY <1>2 DEF Open
<1>3. ASSUME NEW p \in Proc, LockFile(p) PROVE ZeroIsRemoved'
  BY <1>3 DEF LockFile
<1>4. ASSUME NEW p \in Proc, ReadKey(p) PROVE ZeroIsRemoved'
  BY <1>4 DEF ReadKey
<1>5. ASSUME NEW p \in Proc, ShmGetNew(p) PROVE ZeroIsRemoved'
  BY <1>5 DEF ShmGetNew
<1>6. ASSUME NEW p \in Proc, ShmGet(p) PROVE ZeroIsRemoved'
  BY <1>6 DEF ShmGet, Throws, Closed
<1>7. ASSUME NEW p \in Proc, ShmAt(p) PROVE ZeroIsRemoved'
  BY <1>7 DEF ShmAt
<1>8. ASSUME NEW p \in Proc, ShmAtFails(p) PROVE ZeroIsRemoved'
  BY <1>8 DEF ShmAtFails, Throws, Closed
<1>9. ASSUME NEW p \in Proc, InitControl(p) PROVE ZeroIsRemoved'
  BY <1>9 DEF InitControl
<1>10. ASSUME NEW p \in Proc, WriteKey(p) PROVE ZeroIsRemoved'
  BY <1>10 DEF WriteKey, Closed
<1>11. ASSUME NEW p \in Proc, Count(p) PROVE ZeroIsRemoved'
  BY <1>11 DEF Count
<1>12. ASSUME NEW p \in Proc, CountInterrupted(p) PROVE ZeroIsRemoved'
  BY <1>12 DEF CountInterrupted, Closed
<1>13. ASSUME NEW p \in Proc, CloseFile(p) PROVE ZeroIsRemoved'
  BY <1>13 DEF CloseFile, Closed
<1>14. ASSUME NEW p \in Proc, Destructor(p) PROVE ZeroIsRemoved'
  <2> DEFINE s == m_shmId[p]
  <2>1. /\ pc[p] = "ready" /\ ref_count' = [ref_count EXCEPT ![s] = @ - 1]
        /\ UNCHANGED <<exists, m_shmId, orphans>>
    BY <1>14 DEF Destructor
  <2>2. /\ pc' = [pc EXCEPT ![p] = "explode"] \/ pc' = [pc EXCEPT ![p] = "leave"]
        /\ ref_count[s] = 1 => pc' = [pc EXCEPT ![p] = "explode"]
    BY <1>14 DEF Destructor
  <2>3. ASSUME NEW t \in Gen \ orphans, exists[t], ref_count[t] <= 0
        PROVE  \E q \in Proc : /\ m_shmId'[q] = t
                               /\ pc'[q] \in {"attachNew", "control", "explode"} \cup Exploding
    <3>1. PICK q \in Proc : /\ m_shmId[q] = t
                            /\ pc[q] \in {"attachNew", "control", "explode"} \cup Exploding
      BY <2>3
    <3> QED
      BY <2>1, <2>2, <3>1
  <2>4. ASSUME NEW t \in Gen \ orphans, ref_count[t] > 0, ref_count'[t] <= 0
        PROVE  m_shmId'[p] = t /\ pc'[p] = "explode"
    <3>1. t = s /\ ref_count[s] = 1
      BY <2>1, <2>4
    <3> QED
      BY <2>1, <2>2, <3>1
  <2>5. \A t \in Gen : ref_count[t] \in Int
    OBVIOUS
  <2> QED
    BY <2>1, <2>3, <2>4, <2>5
<1>15. ASSUME NEW p \in Proc, Unlink(p) PROVE ZeroIsRemoved'
  BY <1>15 DEF Unlink
<1>16. ASSUME NEW p \in Proc, UnlockMtx(p) PROVE ZeroIsRemoved'
  BY <1>16 DEF UnlockMtx
<1>17. ASSUME NEW p \in Proc, ShmDt(p) PROVE ZeroIsRemoved'
  BY <1>17 DEF ShmDt, Detached
<1>18. ASSUME NEW p \in Proc, RmId(p) PROVE ZeroIsRemoved'
  BY <1>18 DEF RmId
<1>19. ASSUME NEW p \in Proc, UseBroken(p) PROVE ZeroIsRemoved'
  BY <1>19 DEF UseBroken, Detached
<1>20. ASSUME NEW p \in Proc, Crash(p) PROVE ZeroIsRemoved'
  BY <1>20 DEF Crash, Closed, Detached
<1>21. ASSUME NEW p \in Proc, Restart(p) PROVE ZeroIsRemoved'
  BY <1>21 DEF Restart
<1>22. CASE UNCHANGED vars
  BY <1>22 DEF vars
<1> QED
  BY <1>1, <1>2, <1>3, <1>4, <1>5, <1>6, <1>7, <1>8, <1>9, <1>10, <1>11,
     <1>12, <1>13, <1>14, <1>15, <1>16, <1>17, <1>18, <1>19, <1>20, <1>21,
     <1>22 DEF Next

\* The invariant holds in every behaviour.
LEMMA Inductive == Spec => []IInv
<1>1. Init => IInv
  <2> SUFFICES ASSUME Init PROVE IInv
    OBVIOUS
  <2>1. Base
    BY ConstAssumption, NextGen
       DEF Init, Base, Types, Fresh, LockHeld, KeyRead, CreatorAlone, Unlinked,
           MtxHeld, IsAttached, FileNamesLiveSegment, Locking, Creating, Exploding,
           HasSegment, Attached, PCs
  <2>2. \A s \in Gen : Cardinality(Users(s)) = 0 /\ ref_count[s] = 0
    <3>1. \A s : Users(s) = {}
      BY DEF Init, Users, Counted
    <3> QED
      BY <3>1, FS_EmptySet DEF Init
  <2>3. EachIsCounted /\ CountIsReal
    BY <2>2 DEF EachIsCounted, CountIsReal
  <2> QED
    BY <2>1, <2>3
       DEF Init, IInv, Single, InitHasName, UsesNamed, ExplodesAlone, Initialising,
           Using, Ready, Reachable, ZeroIsRemoved
<1>2. IInv /\ [Next]_vars => IInv'
  <2> SUFFICES ASSUME IInv, [Next]_vars PROVE IInv'
    OBVIOUS
  <2>1. Base'
    BY BaseStep DEF IInv
  <2>2. /\ ~split' => ~split
        /\ deaths' = 0 => deaths = 0
    <3> USE DEF IInv, Base, Types, Step, Throws, files, segs, hist
    <3>1. ASSUME NEW p \in Proc, InitThrows(p) \/ Open(p) \/ LockFile(p) \/ ReadKey(p)
          PROVE  UNCHANGED <<split, deaths>>
      BY <3>1 DEF InitThrows, Open, LockFile, ReadKey
    <3>2. ASSUME NEW p \in Proc, ShmGetNew(p) \/ ShmGet(p) \/ ShmAt(p) \/ ShmAtFails(p)
          PROVE  UNCHANGED <<split, deaths>>
      BY <3>2 DEF ShmGetNew, ShmGet, ShmAt, ShmAtFails
    <3>3. ASSUME NEW p \in Proc, InitControl(p) \/ Count(p) \/ CloseFile(p)
          PROVE  UNCHANGED <<split, deaths>>
      BY <3>3 DEF InitControl, Count, CloseFile
    <3>4. ASSUME NEW p \in Proc, WriteKey(p) \/ CountInterrupted(p)
          PROVE  (split => split') /\ UNCHANGED deaths
      BY <3>4 DEF WriteKey, CountInterrupted
    <3>5. ASSUME NEW p \in Proc, Unlink(p)
          PROVE  (split => split') /\ UNCHANGED deaths
      <4>1. split' = (split \/ \E q \in Proc \ {p} : pc[q] \in Initialising)
        BY <3>5, Zenon DEF Unlink
      <4>2. split => split'
        BY <4>1, Zenon
      <4> QED
        BY <3>5, <4>2 DEF Unlink
    <3>6. ASSUME NEW p \in Proc, Destructor(p) \/ UnlockMtx(p) \/ ShmDt(p) \/ RmId(p)
          PROVE  UNCHANGED <<split, deaths>>
      BY <3>6 DEF Destructor, UnlockMtx, ShmDt, RmId
    <3>7. ASSUME NEW p \in Proc, UseBroken(p) \/ Restart(p)
          PROVE  UNCHANGED <<split, deaths>>
      BY <3>7 DEF UseBroken, Restart
    <3>8. ASSUME NEW p \in Proc, Crash(p) PROVE UNCHANGED split /\ deaths' # 0
      BY <3>8 DEF Crash
    <3>9. CASE UNCHANGED vars
      BY <3>9 DEF vars
    <3> QED
      BY <3>1, <3>2, <3>3, <3>4, <3>5, <3>6, <3>7, <3>8, <3>9 DEF Next
  <2>3. ~split' => Single' /\ Reachable'
    BY <2>2, SingleStep, CountStep, ReachableStep DEF IInv, Single
  <2>4. deaths' = 0 => CountIsReal' /\ ZeroIsRemoved'
    BY <2>2, CountStep, ZeroStep DEF IInv
  <2> QED
    BY <2>1, <2>3, <2>4 DEF IInv
<1> QED
  BY <1>1, <1>2, PTL DEF Spec

-----------------------------------------------------------------------------
\* Whatever races, failures and deaths went before, the file never names a
\* segment that has been removed.
THEOREM FileNamesLive == Spec => []FileNamesLiveSegment
<1>1. IInv => FileNamesLiveSegment
  BY DEF IInv, Base
<1> QED
  BY <1>1, Inductive, PTL

\* Unless a process was inside init() during an unlink, or a key could not be
\* written or a process not counted, all instances share the named segment.
THEOREM ManagerIsOne == Spec => []OneManager
<1>1. IInv => OneManager
  BY DEF IInv, Single, UsesNamed, Using, OneManager
<1> QED
  BY <1>1, Inductive, PTL

\* A segment that was not given up in one of the windows is found by name,
\* attached or about to be removed: with one manager whoever dies, and with two
\* when nobody does.
THEOREM SegmentIsNotLeaked == Spec => []NoSegmentLeaked
<1>1. IInv => NoSegmentLeaked
  <2> SUFFICES ASSUME IInv, ~split \/ deaths = 0, NEW s \in Gen \ orphans, exists[s]
               PROVE  \/ name # NONE /\ content[name] = s
                      \/ attached[s] # {}
                      \/ \E p \in Proc : m_shmId[p] = s /\ pc[p] \in {"attachNew", "rmid"}
    BY DEF NoSegmentLeaked
  <2>1. CASE ~split
    BY <2>1 DEF IInv, Base, IsAttached, Attached, Reachable, Creating, Exploding
  <2>2. CASE deaths = 0 /\ ref_count[s] <= 0
    BY <2>2 DEF IInv, Base, IsAttached, Attached, ZeroIsRemoved, Exploding
  <2>3. CASE deaths = 0 /\ ref_count[s] > 0
    <3>1. Cardinality(Users(s)) # 0
      BY <2>3, UsersFinite DEF IInv, Base, Types, CountIsReal
    <3>2. PICK p \in Proc : pc[p] \in Counted /\ m_shmId[p] = s
      BY <3>1, FS_EmptySet DEF Users
    <3> QED
      BY <3>2 DEF IInv, Base, IsAttached, Attached, Counted
  <2>4. ref_count[s] \in Int
    BY DEF IInv, Base, Types
  <2> QED
    BY <2>1, <2>2, <2>3, <2>4
<1> QED
  BY <1>1, Inductive, PTL

\* A key that is in a file stays, whatever fails, dies or races: only the process
\* that has the file's lock writes one, and it has found the file empty.
THEOREM KeyIsWrittenOnce == Spec => KeyWrittenOnce
<1> DEFINE Stays == \A f \in Gen : content[f] # NONE => content'[f] = content[f]
<1>1. IInv /\ [Next]_vars => [Stays]_vars
  <2> SUFFICES ASSUME Base, Next PROVE Stays
    BY DEF IInv
  <2> USE DEF Step, Throws, files, segs, hist
  <2>1. ASSUME NEW p \in Proc, InitThrows(p) \/ Open(p) \/ LockFile(p) \/ ReadKey(p)
        PROVE  Stays
    BY <2>1 DEF InitThrows, Open, LockFile, ReadKey
  <2>2. ASSUME NEW p \in Proc, ShmGetNew(p) \/ ShmGet(p) \/ ShmAt(p) \/ ShmAtFails(p)
        PROVE  Stays
    BY <2>2 DEF ShmGetNew, ShmGet, ShmAt, ShmAtFails
  <2>3. ASSUME NEW p \in Proc,
               InitControl(p) \/ Count(p) \/ CountInterrupted(p) \/ CloseFile(p)
        PROVE  Stays
    BY <2>3 DEF InitControl, Count, CountInterrupted, CloseFile
  <2>4. ASSUME NEW p \in Proc, WriteKey(p) PROVE Stays
    <3>1. pc[p] = "write"
      BY <2>4 DEF WriteKey
    <3>2. content[fd[p]] = NONE
      BY <3>1 DEF Base, KeyRead, Creating
    <3> QED
      BY <2>4, <3>2 DEF WriteKey, Base, Types
  <2>5. ASSUME NEW p \in Proc,
               Destructor(p) \/ Unlink(p) \/ UnlockMtx(p) \/ ShmDt(p) \/ RmId(p)
        PROVE  Stays
    BY <2>5 DEF Destructor, Unlink, UnlockMtx, ShmDt, RmId
  <2>6. ASSUME NEW p \in Proc, UseBroken(p) \/ Crash(p) \/ Restart(p) PROVE Stays
    BY <2>6 DEF UseBroken, Crash, Restart
  <2> QED
    BY <2>1, <2>2, <2>3, <2>4, <2>5, <2>6 DEF Next
<1> QED
  BY <1>1, Inductive, PTL DEF Spec, KeyWrittenOnce
=============================================================================

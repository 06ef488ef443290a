-------------------------- MODULE AllocatorProofs ---------------------------
(***************************************************************************)
(* Proofs about BitBuffer and IPC::Allocator for every size of the buffer, *)
(* width of an int and of a unit, number of processes and of regions.      *)
(*                                                                         *)
(* The first part is about loops: the turns of a loop are a recursive      *)
(* function, which is shown to exist, and what holds at its start and is   *)
(* kept by a turn holds at its end.  The induction is over the set of the  *)
(* turns at which the invariant holds, whose complement would have a least *)
(* element.                                                                *)
(*                                                                         *)
(* The second part is find(): LoopInv is the invariant of its loop, and    *)
(* find() is first fit over what get() says, whatever the bits are.        *)
(*                                                                         *)
(* The third part is about the bits that elements share.  set(FULL_BIT)    *)
(* never makes another element free, in a buffer of any size; that it does *)
(* not take one either needs a buffer no larger than an int.               *)
(*                                                                         *)
(* The last part is the invariant of the Allocators.  Two regions are      *)
(* disjoint because the elements of one in use read as taken (Marked),     *)
(* while those of one that was found read as free until it is marked       *)
(* (StillFree), which the model Buffer's lock guarantees (LockHeld).       *)
(***************************************************************************)
EXTENDS Allocator, WellFoundedInduction, TLAPS

-----------------------------------------------------------------------------
(* Loops *)

\* Every nonempty set of naturals has a least element.
LEMMA LeastNatural ==
  ASSUME NEW T \in SUBSET Nat, T # {}
  PROVE  \E m \in T : \A k \in T : m <= k
<1> DEFINE R == {ss \in Nat \X Nat : ss[1] < ss[2]}
<1>1. IsWellFoundedOn(R, Nat)
  BY NatLessThanWellFounded DEF OpToRel
<1> HIDE DEF R
<1>2. PICK m \in T : \A y \in T : <<y, m>> \notin R
  BY <1>1, WFMin
<1>3. \A y \in T : y < m => <<y, m>> \in R
  BY DEF R
<1>4. \A y \in T : ~(y < m)
  BY <1>2, <1>3
<1>5. \A y \in T : m <= y
  BY <1>4
<1> QED
  BY <1>5

\* Induction over the turns of a loop: T is the set of the turns at which
\* something holds.
LEMMA TurnInduction ==
  ASSUME NEW n \in Nat, NEW T \in SUBSET (0 .. n), 0 \in T,
         \A c \in 1 .. n : c - 1 \in T => c \in T
  PROVE  T = 0 .. n
<1> DEFINE Bad == (0 .. n) \ T
<1> SUFFICES ASSUME Bad # {} PROVE FALSE
  OBVIOUS
<1>1. Bad \in SUBSET Nat
  OBVIOUS
<1>2. PICK m \in Bad : \A k \in Bad : m <= k
  BY <1>1, LeastNatural
<1>3. m \in 1 .. n
  OBVIOUS
<1>4. m - 1 \notin Bad
  BY <1>2, <1>3
<1> QED
  BY <1>3, <1>4

\* A loop of n turns has a table of the states after each turn.
LEMMA TurnsExist ==
  ASSUME NEW S, NEW z \in S, NEW n \in Nat, NEW F \in [S \X (1 .. n) -> S]
  PROVE  \E g \in [0 .. n -> S] :
           /\ g[0] = z
           /\ \A c \in 1 .. n : g[c] = F[<<g[c - 1], c>>]
<1> DEFINE Upto(m, g) == g[0] = z /\ \A c \in 1 .. m : g[c] = F[<<g[c - 1], c>>]
           Exists(m) == \E g \in [0 .. m -> S] : Upto(m, g)
           T == {m \in 0 .. n : Exists(m)}
<1>1. Exists(0)
  <2> DEFINE g == [c \in 0 .. 0 |-> z]
  <2>1. g \in [0 .. 0 -> S] /\ Upto(0, g)
    OBVIOUS
  <2> QED
    BY <2>1
<1>2. ASSUME NEW m \in 1 .. n, Exists(m - 1) PROVE Exists(m)
  <2>1. PICK h \in [0 .. m - 1 -> S] : Upto(m - 1, h)
    BY <1>2
  <2> DEFINE last == F[<<h[m - 1], m>>]
             g == [c \in 0 .. m |-> IF c = m THEN last ELSE h[c]]
  <2>2. last \in S
    <3>1. h[m - 1] \in S
      OBVIOUS
    <3>2. <<h[m - 1], m>> \in S \X (1 .. n)
      BY <3>1
    <3> QED
      BY <3>2
  <2> HIDE DEF last
  <2>3. g \in [0 .. m -> S]
    BY <2>2
  <2>4. Upto(m, g)
    <3>1. g[0] = z
      BY <2>1
    <3>2. ASSUME NEW c \in 1 .. m PROVE g[c] = F[<<g[c - 1], c>>]
      <4>1. g[c - 1] = h[c - 1]
        OBVIOUS
      <4>2. CASE c = m
        <5>1. g[c] = last
          BY <4>2
        <5>2. last = F[<<h[c - 1], c>>]
          BY <4>2 DEF last
        <5> QED
          BY <4>1, <5>1, <5>2
      <4>3. CASE c # m
        <5>1. g[c] = h[c] /\ c \in 1 .. m - 1
          BY <4>3
        <5> QED
          BY <2>1, <4>1, <5>1
      <4> QED
        BY <4>2, <4>3
    <3> QED
      BY <3>1, <3>2
  <2> QED
    BY <2>3, <2>4
<1> HIDE DEF Exists
<1>3. T = 0 .. n
  <2>1. 0 \in T /\ \A c \in 1 .. n : c - 1 \in T => c \in T
    BY <1>1, <1>2
  <2> QED
    BY <2>1, TurnInduction
<1>4. Exists(n)
  BY <1>3
<1> QED
  BY <1>4 DEF Exists

-----------------------------------------------------------------------------
(* The loop of find() *)

\* foundNum and foundUnitIdx, and their values before the first turn.
Record == [foundNum : Nat, foundUnitIdx : Int]

Start == [foundNum |-> 0, foundUnitIdx |-> -1]

\* A turn of find()'s loop keeps the types of its two variables.
LEMMA TurnType ==
  ASSUME NEW r \in Record, NEW i \in Int, NEW num \in Nat
  PROVE  Turn(r, i, num) \in Record
  BY DEF Turn, Record

\* What Scan computes: the turns of the loop, one by one.
LEMMA ScanTurns ==
  ASSUME NEW num \in Nat, m_numElements \in Nat
  PROVE  \E turn \in [0 .. m_numElements -> Record] :
           /\ turn[0] = Start
           /\ \A c \in 1 .. m_numElements : turn[c] = Turn(turn[c - 1], c - 1, num)
           /\ Scan(num) = turn[m_numElements]
<1> DEFINE n == m_numElements
<1>0. n \in Nat
  OBVIOUS
<1> DEFINE Step(r, c) == Turn(r, c - 1, num)
           turn[c \in 0 .. n] == IF c = 0 THEN Start ELSE Step(turn[c - 1], c)
<1>1. Scan(num) = turn[n]
  BY DEF Scan, Start
<1>2. \E g : g = [c \in 0 .. n |-> IF c = 0 THEN Start ELSE Step(g[c - 1], c)]
  <2> DEFINE F == [x \in Record \X (1 .. n) |-> Step(x[1], x[2])]
  <2>1. \A r \in Record, c \in 1 .. n : Step(r, c) \in Record
    BY TurnType
  <2> HIDE DEF Step
  <2>2. F \in [Record \X (1 .. n) -> Record]
    BY <2>1
  <2>3. \A r \in Record, c \in 1 .. n : F[<<r, c>>] = Step(r, c)
    OBVIOUS
  <2>4. Start \in Record
    BY DEF Start, Record
  <2> HIDE DEF F, n
  <2>5. PICK g \in [0 .. n -> Record] :
          g[0] = Start /\ \A c \in 1 .. n : g[c] = F[<<g[c - 1], c>>]
    BY <1>0, <2>2, <2>4, TurnsExist
  <2>6. \A c \in 1 .. n : g[c] = Step(g[c - 1], c)
    <3> TAKE c \in 1 .. n
    <3>1. g[c - 1] \in Record
      BY <1>0
    <3> QED
      BY <2>3, <2>5, <3>1
  <2>7. g = [c \in 0 .. n |-> g[c]]
    OBVIOUS
  <2>8. \A c \in 0 .. n : g[c] = IF c = 0 THEN Start ELSE Step(g[c - 1], c)
    BY <2>5, <2>6
  <2> QED
    BY <2>7, <2>8
<1> HIDE DEF Step
<1>3. turn = [c \in 0 .. n |-> IF c = 0 THEN Start ELSE Step(turn[c - 1], c)]
  BY <1>2
<1> HIDE DEF turn
<1>4. turn[0] = Start /\ \A c \in 1 .. n : turn[c] = Step(turn[c - 1], c)
  BY <1>3
<1>5. turn \in [0 .. n -> Record]
  <2> DEFINE T == {c \in 0 .. n : turn[c] \in Record}
  <2>1. 0 \in T
    BY <1>4 DEF Start, Record
  <2>2. \A c \in 1 .. n : c - 1 \in T => c \in T
    BY <1>4, TurnType DEF Step
  <2>3. T = 0 .. n
    BY <2>1, <2>2, TurnInduction
  <2> QED
    BY <1>3, <2>3
<1> QED
  BY <1>1, <1>4, <1>5 DEF Step

\* get() says free for num elements from i on.
FreeRun(i, num) == \A j \in Region(i, num) : get(j)

\* What the loop knows after turn c: while it runs, the elements of the run that
\* ends at c, and that no run before was long enough; at its end, the first run.
Searching(t, c, num) ==
  /\ t.foundNum <= c
  /\ \A j \in c - t.foundNum .. c - 1 : get(j)
  /\ t.foundNum < c => ~get(c - t.foundNum - 1)
  /\ t.foundNum > 0 => t.foundUnitIdx = c - 1
  /\ \A i \in 0 .. c - num : ~FreeRun(i, num)

FoundAt(s, c, num) ==
  /\ s \in 0 .. c - num
  /\ FreeRun(s, num)
  /\ \A i \in 0 .. s - 1 : ~FreeRun(i, num)

LoopInv(t, c, num) ==
  /\ t.foundNum <= num
  /\ t.foundNum < num => Searching(t, c, num)
  /\ t.foundNum = num => FoundAt(t.foundUnitIdx + 1 - num, c, num)

\* The invariant of find()'s loop holds before the first turn.
LEMMA LoopStart ==
  ASSUME NEW num \in Nat
  PROVE  LoopInv(Start, 0, num)
  BY DEF LoopInv, Start, Searching, FoundAt, FreeRun, Region

\* Every turn keeps it: a free element lengthens the run, a taken one ends it, and
\* nothing changes once the run is long enough.
LEMMA LoopTurn ==
  ASSUME NEW num \in Nat, NEW c \in Nat \ {0}, NEW r \in Record,
         LoopInv(r, c - 1, num)
  PROVE  LoopInv(Turn(r, c - 1, num), c, num)
<1> DEFINE t == Turn(r, c - 1, num)
<1>0. r.foundNum \in Nat /\ r.foundUnitIdx \in Int
  BY DEF Record
<1>1. CASE r.foundNum >= num
  <2>1. t = r /\ r.foundNum = num
    BY <1>0, <1>1 DEF Turn, LoopInv
  <2> QED
    BY <1>0, <2>1 DEF LoopInv, FoundAt
<1>2. CASE r.foundNum < num /\ get(c - 1)
  <2>1. t.foundNum = r.foundNum + 1 /\ t.foundUnitIdx = c - 1
    BY <1>0, <1>2 DEF Turn
  <2>2. Searching(r, c - 1, num)
    BY <1>2 DEF LoopInv
  <2>3. CASE r.foundNum + 1 < num
    <3>1. \A i \in 0 .. c - num : ~FreeRun(i, num)
      <4>1. ASSUME c - num >= 0 PROVE ~FreeRun(c - num, num)
        <5> DEFINE j == c - 1 - r.foundNum - 1
        <5>1. ~get(j)
          BY <1>0, <2>2, <2>3, <4>1 DEF Searching
        <5>2. j \in Region(c - num, num)
          BY <1>0, <2>3, <4>1 DEF Region
        <5> QED
          BY <5>1, <5>2 DEF FreeRun
      <4> QED
        BY <2>2, <4>1 DEF Searching
    <3>2. \A j \in c - t.foundNum .. c - 1 : get(j)
      BY <1>0, <1>2, <2>1, <2>2 DEF Searching
    <3> QED
      BY <1>0, <2>1, <2>2, <2>3, <3>1, <3>2 DEF LoopInv, Searching
  <2>4. CASE r.foundNum + 1 = num
    <3>1. FoundAt(c - num, c, num)
      BY <1>0, <1>2, <2>2, <2>4 DEF Searching, FoundAt, FreeRun, Region
    <3> QED
      BY <1>0, <2>1, <2>4, <3>1 DEF LoopInv
  <2> QED
    BY <1>0, <1>2, <2>3, <2>4
<1>3. CASE r.foundNum < num /\ ~get(c - 1)
  <2>1. t.foundNum = 0 /\ t.foundUnitIdx = r.foundUnitIdx
    BY <1>0, <1>3 DEF Turn, Record
  <2>2. Searching(r, c - 1, num)
    BY <1>3 DEF LoopInv
  <2>3. \A i \in 0 .. c - num : ~FreeRun(i, num)
    <3>1. ~FreeRun(c - num, num)
      BY <1>0, <1>3 DEF FreeRun, Region
    <3> QED
      BY <2>2, <3>1 DEF Searching
  <2> QED
    BY <1>0, <1>3, <2>1, <2>3 DEF LoopInv, Searching
<1> QED
  BY <1>0, <1>1, <1>2, <1>3

\* find(num) is first fit over what get() says, for every size and content.
LEMMA FindIsFirst ==
  ASSUME m_numElements \in Nat, NEW num \in 0 .. m_numElements
  PROVE  \/ find(num) = -1 /\ \A i \in 0 .. m_numElements - num : ~FreeRun(i, num)
         \/ FoundAt(find(num), m_numElements, num)
<1> DEFINE n == m_numElements
<1>1. PICK turn \in [0 .. n -> Record] :
        /\ turn[0] = Start
        /\ \A c \in 1 .. n : turn[c] = Turn(turn[c - 1], c - 1, num)
        /\ Scan(num) = turn[n]
  <2>1. num \in Nat
    OBVIOUS
  <2> QED
    BY <2>1, ScanTurns
<1> DEFINE T == {c \in 0 .. n : LoopInv(turn[c], c, num)}
<1>2. 0 \in T
  BY <1>1, LoopStart
<1>3. ASSUME NEW c \in 1 .. n, c - 1 \in T PROVE c \in T
  <2>1. turn[c - 1] \in Record
    OBVIOUS
  <2> QED
    BY <1>1, <1>3, <2>1, LoopTurn
<1>4. T = 0 .. n
  BY <1>2, <1>3, TurnInduction
<1>5. LoopInv(Scan(num), n, num)
  BY <1>1, <1>4
<1>6. Scan(num).foundNum \in Nat
  BY <1>1 DEF Record
<1> QED
  BY <1>5, <1>6 DEF LoopInv, Searching, find

-----------------------------------------------------------------------------
(* Bits that elements share *)

\* An index below the width is in the first unit, at its own bit.
LEMMA SmallDivMod ==
  ASSUME NEW d \in Nat \ {0}, NEW i \in 0 .. d - 1
  PROVE  i \div d = 0 /\ i % d = i
  OBVIOUS

\* The mask of an element whose index is less than the width of an int: its own
\* bit, and for the last one all the bits above, into which the sign extends.
LEMMA SmallBits ==
  ASSUME NEW i \in 0 .. IntBits - 1, NEW w
  PROVE  BitsOf(i, w) =
           {<<0, b>> : b \in IF i = IntBits - 1 THEN i .. UnitBits - 1 ELSE {i}}
<1>1. i \div UnitBits = 0 /\ i % UnitBits = i
  <2>1. UnitBits \in Nat \ {0} /\ i \in 0 .. UnitBits - 1
    BY WidthAssumption
  <2> QED
    BY <2>1, SmallDivMod
<1>2. i % IntBits = i /\ ~(i >= IntBits)
  BY WidthAssumption, SmallDivMod
<1>3. Mask(i, w) = IF i = IntBits - 1 THEN i .. UnitBits - 1 ELSE {i}
  BY <1>2 DEF Mask
<1> QED
  BY <1>1, <1>3 DEF BitsOf

\* Below the width of an int every element has its own bit and shares none.
LEMMA SmallApart ==
  ASSUME NEW i \in 0 .. IntBits - 1, NEW j \in 0 .. IntBits - 1, NEW w
  PROVE  /\ <<0, i>> \in BitsOf(i, w)
         /\ i # j => BitsOf(i, w) \cap BitsOf(j, w) = {}
<1>1. BitsOf(i, w) =
        {<<0, b>> : b \in IF i = IntBits - 1 THEN i .. UnitBits - 1 ELSE {i}}
  BY SmallBits
<1>2. BitsOf(j, w) =
        {<<0, b>> : b \in IF j = IntBits - 1 THEN j .. UnitBits - 1 ELSE {j}}
  BY SmallBits
<1> QED
  BY <1>1, <1>2, WidthAssumption

\* What deallocate() leaves of the list of the regions in use.
LEMMA Removed ==
  ASSUME NEW S, NEW s \in Seq(S), NEW k \in 1 .. Len(s)
  PROVE  /\ RemoveAt(s, k) \in Seq(S)
         /\ Len(RemoveAt(s, k)) = Len(s) - 1
         /\ \A j \in 1 .. Len(s) - 1 :
              RemoveAt(s, k)[j] = IF j < k THEN s[j] ELSE s[j + 1]
<1> DEFINE a == SubSeq(s, 1, k - 1)
           b == SubSeq(s, k + 1, Len(s))
<1>1. /\ a \in Seq(S) /\ Len(a) = k - 1
      /\ \A j \in 1 .. k - 1 : a[j] = s[j]
  OBVIOUS
<1>2. /\ b \in Seq(S) /\ Len(b) = Len(s) - k
      /\ \A j \in 1 .. Len(s) - k : b[j] = s[k + j]
  OBVIOUS
<1>3. RemoveAt(s, k) = a \o b
  BY DEF RemoveAt
<1> HIDE DEF a, b
<1>4. /\ a \o b \in Seq(S) /\ Len(a \o b) = Len(s) - 1
      /\ \A j \in 1 .. Len(s) - 1 :
           (a \o b)[j] = IF j < k THEN a[j] ELSE b[j - (k - 1)]
  <2>1. /\ a \o b \in Seq(S) /\ Len(a \o b) = Len(a) + Len(b)
        /\ \A j \in 1 .. Len(a) + Len(b) :
             (a \o b)[j] = IF j <= Len(a) THEN a[j] ELSE b[j - Len(a)]
    <3>1. a \in Seq(S) /\ b \in Seq(S)
      BY <1>1, <1>2
    <3> QED
      BY <3>1
  <2>2. Len(a) + Len(b) = Len(s) - 1
    BY <1>1, <1>2
  <2>3. \A j \in 1 .. Len(s) - 1 : j <= Len(a) <=> j < k
    BY <1>1
  <2> QED
    BY <1>1, <2>1, <2>2, <2>3
<1>5. \A j \in k .. Len(s) - 1 : b[j - (k - 1)] = s[j + 1]
  <2> TAKE j \in k .. Len(s) - 1
  <2>1. j - (k - 1) \in 1 .. Len(s) - k /\ k + (j - (k - 1)) = j + 1
    OBVIOUS
  <2> QED
    BY <1>2, <2>1
<1> QED
  BY <1>1, <1>3, <1>4, <1>5

\* Where the region at j was before the one at k was removed.
Old(j, k) == IF j < k THEN j ELSE j + 1

\* The regions that are left are all the others, each at one place.
LEMMA RemovedFrom ==
  ASSUME live \in Seq([idx : Int, num : Nat]), NEW k \in DOMAIN live,
         NEW rest, rest = RemoveAt(live, k)
  PROVE  /\ \A j \in DOMAIN rest :
              Old(j, k) \in DOMAIN live \ {k} /\ rest[j] = live[Old(j, k)]
         /\ \A i \in DOMAIN live \ {k} : \E j \in DOMAIN rest : Old(j, k) = i
         /\ \A i, j \in DOMAIN rest : Old(i, k) = Old(j, k) => i = j
<1>1. k \in 1 .. Len(live) /\ DOMAIN live = 1 .. Len(live)
  OBVIOUS
<1>2. /\ rest \in Seq([idx : Int, num : Nat])
      /\ Len(rest) = Len(live) - 1
      /\ \A j \in 1 .. Len(live) - 1 : rest[j] = live[Old(j, k)]
  BY <1>1, Removed DEF Old
<1>3. DOMAIN rest = 1 .. Len(live) - 1
  BY <1>2
<1>4. Len(live) \in Nat
  OBVIOUS
<1>5. \A j \in 1 .. Len(live) - 1 : Old(j, k) \in (1 .. Len(live)) \ {k}
  BY <1>1, <1>4 DEF Old
<1>6. ASSUME NEW i \in (1 .. Len(live)) \ {k}
      PROVE  \E j \in 1 .. Len(live) - 1 : Old(j, k) = i
  <2>1. CASE i < k
    BY <1>1, <1>4, <2>1 DEF Old
  <2>2. CASE i > k
    <3>1. i - 1 \in 1 .. Len(live) - 1 /\ Old(i - 1, k) = i
      BY <1>1, <1>4, <2>2 DEF Old
    <3> QED
      BY <3>1
  <2> QED
    BY <1>1, <2>1, <2>2
<1>7. ASSUME NEW i \in 1 .. Len(live) - 1, NEW j \in 1 .. Len(live) - 1,
             Old(i, k) = Old(j, k)
      PROVE  i = j
  <2>1. i \in Int /\ j \in Int /\ k \in Int
    BY <1>1, <1>4
  <2>2. CASE i < k /\ j < k
    BY <1>7, <2>2 DEF Old
  <2>3. CASE ~(i < k) /\ ~(j < k)
    BY <1>7, <2>1, <2>3 DEF Old
  <2>4. CASE (i < k /\ ~(j < k)) \/ (~(i < k) /\ j < k)
    BY <1>7, <2>1, <2>4 DEF Old
  <2> QED
    BY <2>2, <2>3, <2>4
<1> QED
  BY <1>1, <1>2, <1>3, <1>5, <1>6, <1>7

\* init() sets the bit of every element of a buffer no larger than an int, whether
\* it fills the last unit as a whole or bit by bit.
LEMMA InitialSmall ==
  ASSUME NEW n \in 1 .. IntBits, NEW w, NEW i \in Elems(n)
  PROVE  <<0, i>> \in InitialBits(n, w)
<1>0. /\ i \in 0 .. IntBits - 1 /\ i \in 0 .. UnitBits - 1
      /\ UnitBits \in Nat \ {0} /\ IntBits \in Nat
  BY WidthAssumption DEF Elems
<1>1. m_numUnits(n) = 1
  BY <1>0, WidthAssumption DEF m_numUnits
<1>2. CASE m_lastUnitBits(n) = 0
  BY <1>0, <1>1, <1>2 DEF InitialBits
<1>3. CASE m_lastUnitBits(n) # 0
  <2>1. n # UnitBits
    BY <1>0, <1>3 DEF m_lastUnitBits
  <2>2. m_lastUnitBits(n) = n
    BY <1>0, <2>1, WidthAssumption, SmallDivMod DEF m_lastUnitBits
  <2>3. <<0, i>> \in BitsOf(0 * UnitBits + i, w)
    BY <1>0, SmallApart
  <2> QED
    BY <1>0, <1>1, <1>3, <2>2, <2>3 DEF InitialBits
<1> QED
  BY <1>2, <1>3

-----------------------------------------------------------------------------
(* The invariant of the Allocators *)

\* A region of the buffer.
Placed(r) == r.idx \in Nat /\ r.num \in Nat /\ r.idx + r.num <= m_numElements

Types ==
  /\ m_numElements \in Nat \ {0}
  /\ wide \in BOOLEAN /\ damaged \in BOOLEAN
  /\ m_model \subseteq Proc
  /\ found \in [Proc -> [idx : Int, num : Nat]]
  /\ live \in Seq([idx : Int, num : Nat])

\* The model's lock has the process that is between find() and the marking.
LockHeld ==
  /\ \A p \in Proc : modelLock = p <=> found[p] # NoRegion
  /\ \A p \in Proc : modelLock = p => Placed(found[p])
  /\ \A k \in DOMAIN live : Placed(live[k])

\* Nothing is handed out before the first constructor.
NotYet == m_model = {} => live = <<>> /\ \A p \in Proc : modelLock # p

\* In a buffer no larger than an int, get() returns what set() has set.
Synced ==
  m_numElements <= IntBits =>
    \A i \in Elems(m_numElements) : get(i) <=> i \in freed

\* The elements of a region in use read as taken.
Marked == \A k \in DOMAIN live : \A i \in Covers(live[k]) : ~get(i)

\* Those of the region just found read as free until it is marked.
StillFree == \A p \in Proc : modelLock = p => \A i \in Covers(found[p]) : get(i)

IInv ==
  /\ Types /\ LockHeld /\ NotYet /\ Synced
  /\ ~damaged => Marked /\ StillFree
  /\ RegionsDisjoint /\ MapIsExact

-----------------------------------------------------------------------------
(* What set() and init() do to get() *)

\* Elements that were set to FULL_BIT, or read as taken before, read as taken,
\* whatever bits elements share.
LEMMA Taken ==
  ASSUME NEW E, setAll(E, FALSE)
  PROVE  \A i : i \in E \/ ~get(i) => ~get(i)'
<1> DEFINE bits == UNION {BitsOf(i, wide) : i \in E}
<1>1. m_storage' = m_storage \ bits /\ wide' = wide
  BY DEF setAll
<1>2. \A i \in E : BitsOf(i, wide) \subseteq bits
  OBVIOUS
<1> HIDE DEF bits
<1> QED
  BY <1>1, <1>2 DEF get

\* In a small buffer set() changes the elements it is called for and no other.
LEMMA SmallSet ==
  ASSUME m_numElements \in 1 .. IntBits, NEW E \in SUBSET Elems(m_numElements),
         NEW val \in BOOLEAN, setAll(E, val)
  PROVE  \A i \in Elems(m_numElements) :
           get(i)' <=> IF i \in E THEN val ELSE get(i)
<1> DEFINE bits == UNION {BitsOf(i, wide) : i \in E}
<1>1. /\ m_storage' = IF val THEN m_storage \cup bits ELSE m_storage \ bits
      /\ wide' = wide
  BY DEF setAll
<1>2. ASSUME NEW i \in Elems(m_numElements)
      PROVE  /\ i \in E => BitsOf(i, wide) \subseteq bits
             /\ i \notin E => BitsOf(i, wide) \cap bits = {}
             /\ BitsOf(i, wide) # {}
  <2>1. i \in 0 .. IntBits - 1 /\ \A j \in E : j \in 0 .. IntBits - 1
    BY WidthAssumption DEF Elems
  <2>2. /\ BitsOf(i, wide) # {}
        /\ \A j \in E : i # j => BitsOf(i, wide) \cap BitsOf(j, wide) = {}
    BY <2>1, SmallApart
  <2> QED
    BY <2>2
<1> HIDE DEF bits
<1> QED
  BY <1>1, <1>2 DEF get

\* set(i, val) is the loop over one element.
LEMMA SetIsSetAll ==
  ASSUME NEW i, NEW val \in BOOLEAN, set(i, val)
  PROVE  setAll({i}, val)
  BY DEF set, setAll

\* After init() every element of a small buffer reads as free.
LEMMA SmallInit ==
  ASSUME m_numElements \in 1 .. IntBits, NEW w, NEW i \in Elems(m_numElements)
  PROVE  BitsOf(i, w) \cap InitialBits(m_numElements, w) # {}
<1>1. i \in 0 .. IntBits - 1
  BY WidthAssumption DEF Elems
<1> QED
  BY <1>1, SmallApart, InitialSmall

-----------------------------------------------------------------------------
\* Every step of the Allocators, and of the earlier users of the map, keeps the
\* types and the size of the buffer.
LEMMA TypesStep ==
  ASSUME IInv, [AllocNext]_<<vars, allocVars>>
  PROVE  Types' /\ m_numElements' = m_numElements /\ wide' = wide
<1> USE DEF IInv, Types, vars, allocVars
<1>1. CASE Earlier
  BY <1>1 DEF Earlier, Next, set
<1>2. ASSUME NEW p \in Proc, Construct(p) \/ Copy(p)
      PROVE  Types' /\ m_numElements' = m_numElements /\ wide' = wide
  <2>1. damaged' \in BOOLEAN
    BY <1>2, Zenon DEF Construct, Copy
  <2> QED
    BY <1>2, <2>1 DEF Construct, Copy
<1>3. ASSUME NEW p \in Proc, NEW num \in 0 .. m_numElements, allocateFind(p, num)
      PROVE  Types' /\ m_numElements' = m_numElements /\ wide' = wide
  <2>1. find(num) \in Int
    BY FindIsFirst DEF FoundAt
  <2>2. [idx |-> find(num), num |-> num] \in [idx : Int, num : Nat]
    BY <2>1
  <2>3. found' \in [Proc -> [idx : Int, num : Nat]]
    BY <1>3, <2>2 DEF allocateFind
  <2> QED
    BY <1>3, <2>3 DEF allocateFind
<1>4. ASSUME NEW p \in Proc, allocateMark(p)
      PROVE  Types' /\ m_numElements' = m_numElements /\ wide' = wide
  <2>1. NoRegion \in [idx : Int, num : Nat] /\ found[p] \in [idx : Int, num : Nat]
    BY DEF NoRegion
  <2>2. /\ found' \in [Proc -> [idx : Int, num : Nat]]
        /\ live' \in Seq([idx : Int, num : Nat])
    BY <1>4, <2>1 DEF allocateMark
  <2> QED
    BY <1>4, <2>2 DEF allocateMark, setAll
<1>5. ASSUME NEW p \in Proc, NEW k \in DOMAIN live, deallocate(p, k)
      PROVE  Types' /\ m_numElements' = m_numElements /\ wide' = wide
  <2>1. live' \in Seq([idx : Int, num : Nat])
    BY <1>5, Removed DEF deallocate
  <2>2. damaged' \in BOOLEAN
    BY <1>5, Zenon DEF deallocate
  <2> QED
    BY <1>5, <2>1, <2>2 DEF deallocate, setAll
<1>6. CASE UNCHANGED <<vars, allocVars>>
  BY <1>6
<1> QED
  BY <1>1, <1>2, <1>3, <1>4, <1>5, <1>6 DEF AllocNext

\* Regions that are found or handed out lie within the buffer.
LEMMA LockStep ==
  ASSUME IInv, [AllocNext]_<<vars, allocVars>>
  PROVE  LockHeld' /\ NotYet'
<1> USE AllocatorAssumption
    DEF IInv, Types, LockHeld, NotYet, Placed, NoRegion, vars, allocVars
<1>1. CASE Earlier
  BY <1>1 DEF Earlier, Next, set
<1>2. ASSUME NEW p \in Proc, Construct(p) \/ Copy(p) PROVE LockHeld' /\ NotYet'
  BY <1>2 DEF Construct, Copy
<1>3. ASSUME NEW p \in Proc, NEW num \in 0 .. m_numElements, allocateFind(p, num)
      PROVE  LockHeld' /\ NotYet'
  <2>0. find(num) \in Int
    BY FindIsFirst DEF FoundAt
  <2>1. CASE find(num) < 0
    <3>1. UNCHANGED <<vars, m_model, modelLock, found, live>>
      BY <1>3, <2>0, <2>1 DEF allocateFind
    <3> QED
      BY <3>1
  <2>2. CASE find(num) >= 0
    <3> DEFINE r == [idx |-> find(num), num |-> num]
    <3>1. find(num) \in Nat /\ find(num) + num <= m_numElements
      BY <2>2, FindIsFirst DEF FoundAt
    <3>2. /\ p \in m_model /\ modelLock = NoProc /\ modelLock' = p
          /\ found' = [found EXCEPT ![p] = r]
          /\ UNCHANGED <<vars, m_model, live>>
      BY <1>3, <2>2, <3>1 DEF allocateFind
    <3>3. r # NoRegion /\ Placed(r)
      BY <3>1
    <3> HIDE DEF r
    <3> QED
      BY <3>2, <3>3
  <2> QED
    BY <2>0, <2>1, <2>2
<1>4. ASSUME NEW p \in Proc, allocateMark(p) PROVE LockHeld' /\ NotYet'
  <2>1. /\ modelLock = p /\ modelLock' = NoProc
        /\ live' = Append(live, found[p])
        /\ found' = [found EXCEPT ![p] = NoRegion]
        /\ UNCHANGED <<m_model, m_numElements>>
    BY <1>4 DEF allocateMark, setAll
  <2>2. \A k \in DOMAIN live' :
          \/ k \in DOMAIN live /\ live'[k] = live[k]
          \/ live'[k] = found[p]
    BY <2>1
  <2> QED
    BY <2>1, <2>2
<1>5. ASSUME NEW p \in Proc, NEW k \in DOMAIN live, deallocate(p, k)
      PROVE  LockHeld' /\ NotYet'
  <2>1. /\ m_model # {} /\ live' = RemoveAt(live, k)
        /\ UNCHANGED <<m_model, m_numElements, modelLock, found>>
    BY <1>5 DEF deallocate, setAll
  <2>2. \A j \in DOMAIN live' : \E i \in DOMAIN live : live'[j] = live[i]
    BY <2>1, RemovedFrom
  <2> QED
    BY <2>1, <2>2
<1>6. CASE UNCHANGED <<vars, allocVars>>
  BY <1>6
<1> QED
  BY <1>1, <1>2, <1>3, <1>4, <1>5, <1>6 DEF AllocNext

\* get() and the history of set() stay together.
LEMMA SyncedAfter ==
  ASSUME Types, Synced, NEW E \in SUBSET Elems(m_numElements), NEW val \in BOOLEAN,
         setAll(E, val)
  PROVE  Synced'
<1> SUFFICES ASSUME m_numElements <= IntBits,
                    NEW i \in Elems(m_numElements)
             PROVE  get(i)' <=> i \in freed'
  BY DEF setAll, Synced
<1>1. m_numElements \in 1 .. IntBits
  BY WidthAssumption DEF Types
<1>2. get(i)' <=> IF i \in E THEN val ELSE get(i)
  BY <1>1, SmallSet
<1>3. freed' = IF val THEN freed \cup E ELSE freed \ E
  BY DEF setAll
<1>4. get(i) <=> i \in freed
  BY DEF Synced
<1> QED
  BY <1>2, <1>3, <1>4

\* A region of the buffer covers elements of it.
LEMMA PlacedInside ==
  ASSUME m_numElements \in Nat, NEW r, Placed(r)
  PROVE  Covers(r) \subseteq Elems(m_numElements)
  BY DEF Placed, Covers, Elems

\* The elements that deallocate() frees for the region r.
Target(r) == {i \in Elems(m_numElements) : i - r.idx \in Covers(r)}

\* get() returns what the last set() of the element said in a buffer no larger than
\* an int: allocate() and deallocate() set only elements of the buffer.
LEMMA SyncedStep ==
  ASSUME IInv, [AllocNext]_<<vars, allocVars>>
  PROVE  Synced'
<1> USE DEF IInv
<1>0. UNCHANGED <<m_numElements, m_storage, wide, freed>> => Synced'
  BY DEF Synced, get
<1>1. CASE Earlier
  <2>1. PICK i \in Elems(m_numElements), val \in BOOLEAN : set(i, val)
    BY <1>1 DEF Earlier, Next
  <2> QED
    BY <2>1, SetIsSetAll, SyncedAfter
<1>2. ASSUME NEW p \in Proc, Construct(p) PROVE Synced'
  <2>1. /\ m_storage' = InitialBits(m_numElements, wide) /\ freed' = Elems(m_numElements)
        /\ UNCHANGED <<m_numElements, wide>>
    BY <1>2 DEF Construct
  <2> SUFFICES ASSUME m_numElements <= IntBits, NEW i \in Elems(m_numElements)
               PROVE  get(i)'
    BY <2>1 DEF Synced
  <2>2. m_numElements \in 1 .. IntBits
    BY WidthAssumption DEF Types
  <2> QED
    BY <2>1, <2>2, SmallInit DEF get
<1>3. ASSUME NEW p \in Proc, Copy(p) PROVE Synced'
  BY <1>0, <1>3 DEF Copy, vars
<1>4. ASSUME NEW p \in Proc, NEW num \in 0 .. m_numElements, allocateFind(p, num)
      PROVE  Synced'
  BY <1>0, <1>4 DEF allocateFind, vars
<1>5. ASSUME NEW p \in Proc, allocateMark(p) PROVE Synced'
  <2>1. setAll(Covers(found[p]), FALSE) /\ Placed(found[p])
    BY <1>5 DEF allocateMark, LockHeld
  <2>2. Covers(found[p]) \in SUBSET Elems(m_numElements)
    BY <2>1, PlacedInside DEF Types
  <2> QED
    BY <2>1, <2>2, SyncedAfter
<1>6. ASSUME NEW p \in Proc, NEW k \in DOMAIN live, deallocate(p, k) PROVE Synced'
  <2>1. setAll(Target(live[k]), TRUE)
    BY <1>6 DEF deallocate, Target
  <2>2. Target(live[k]) \in SUBSET Elems(m_numElements)
    BY DEF Target
  <2> QED
    BY <2>1, <2>2, SyncedAfter
<1>7. CASE UNCHANGED <<vars, allocVars>>
  BY <1>0, <1>7 DEF vars
<1> QED
  BY <1>1, <1>2, <1>3, <1>4, <1>5, <1>6, <1>7 DEF AllocNext

\* RegionsDisjoint and MapIsExact while nothing has been damaged.
Disjoint ==
  \A j, k \in DOMAIN live : j # k => Covers(live[j]) \cap Covers(live[k]) = {}

Exact ==
  m_model # {} /\ m_numElements <= IntBits =>
    \A i \in Elems(m_numElements) :
      get(i) <=> \A k \in DOMAIN live : i \notin Covers(live[k])

\* The two properties are about the states before any damage.
LEMMA AsConjuncts ==
  /\ RegionsDisjoint <=> (~damaged => Disjoint)
  /\ MapIsExact <=> (~damaged => Exact)
  BY Zenon DEF RegionsDisjoint, Disjoint, MapIsExact, Exact

\* damaged stays.
LEMMA DamageStays ==
  ASSUME IInv, [AllocNext]_<<vars, allocVars>>, damaged PROVE damaged'
<1>1. CASE Earlier
  BY <1>1 DEF Earlier, allocVars
<1>2. ASSUME NEW p \in Proc, Construct(p) PROVE damaged'
  <2>1. damaged' = (damaged \/ live # <<>> \/ \E q \in Proc : found[q] # NoRegion)
    BY <1>2, Zenon DEF Construct
  <2> QED
    BY <2>1, Zenon
<1>3. ASSUME NEW p \in Proc, Copy(p) PROVE damaged'
  BY <1>3 DEF Copy
<1>4. ASSUME NEW p \in Proc, NEW num \in 0 .. m_numElements, allocateFind(p, num)
      PROVE  damaged'
  BY <1>4 DEF allocateFind
<1>5. ASSUME NEW p \in Proc, allocateMark(p) PROVE damaged'
  BY <1>5 DEF allocateMark
<1>6. ASSUME NEW p \in Proc, NEW k \in DOMAIN live, deallocate(p, k) PROVE damaged'
  <2>1. damaged' = (damaged \/ ( /\ live[k].num > 0
                                 /\ live[k].idx # 0 \/ m_numElements > IntBits))
    BY <1>6, Zenon DEF deallocate
  <2> QED
    BY <2>1, Zenon
<1>7. CASE UNCHANGED <<vars, allocVars>>
  BY <1>7 DEF allocVars
<1> QED
  BY <1>1, <1>2, <1>3, <1>4, <1>5, <1>6, <1>7 DEF AllocNext

\* A region can be handed out because its elements read as free and those of the
\* regions in use do not.
LEMMA MapStep ==
  ASSUME IInv, [AllocNext]_<<vars, allocVars>>, ~damaged'
  PROVE  Marked' /\ StillFree' /\ Disjoint' /\ Exact'
<1> DEFINE Goal == Marked' /\ StillFree' /\ Disjoint' /\ Exact'
<1>0. /\ ~damaged /\ Marked /\ StillFree /\ Disjoint /\ Exact
      /\ Types /\ LockHeld /\ NotYet
  BY DamageStays, AsConjuncts DEF IInv
<1>8. UNCHANGED <<m_storage, wide>> => \A i : get(i)' <=> get(i)
  BY DEF get
<1>1. CASE Earlier
  <2>1. /\ m_model = {} /\ live = <<>> /\ \A p \in Proc : modelLock # p
        /\ UNCHANGED <<m_model, modelLock, live>>
    BY <1>0, <1>1 DEF Earlier, allocVars, NotYet
  <2> QED
    BY <2>1 DEF Marked, StillFree, Disjoint, Exact
<1>2. ASSUME NEW p \in Proc, Construct(p) PROVE Goal
  <2>1. damaged' = (damaged \/ live # <<>> \/ \E q \in Proc : found[q] # NoRegion)
    BY <1>2, Zenon DEF Construct
  <2>2. live = <<>> /\ \A q \in Proc : found[q] = NoRegion
    BY <2>1, Zenon
  <2>3. /\ live' = <<>> /\ \A q \in Proc : modelLock' # q
        /\ freed' = Elems(m_numElements) /\ m_numElements' = m_numElements
    BY <1>0, <1>2, <2>2 DEF Construct, LockHeld
  <2>4. Synced'
    BY SyncedStep
  <2> QED
    BY <2>3, <2>4 DEF Marked, StillFree, Disjoint, Exact, Synced
<1>3. ASSUME NEW p \in Proc, Copy(p) PROVE Goal
  <2>1. m_model # {} /\ UNCHANGED <<vars, modelLock, found, live>>
    BY <1>3 DEF Copy
  <2> QED
    BY <1>0, <1>8, <2>1 DEF vars, Marked, StillFree, Disjoint, Exact
<1>4. ASSUME NEW p \in Proc, NEW num \in 0 .. m_numElements, allocateFind(p, num)
      PROVE  Goal
  <2>1. UNCHANGED <<vars, m_model, live>>
    BY <1>4 DEF allocateFind
  <2>2. Marked' /\ Disjoint' /\ Exact'
    BY <1>0, <1>8, <2>1 DEF vars, Marked, Disjoint, Exact
  <2>3. ASSUME find(num) >= 0, modelLock' = p,
               found' = [found EXCEPT ![p] = [idx |-> find(num), num |-> num]]
        PROVE  StillFree'
    <3>1. find(num) \in Nat /\ FreeRun(find(num), num)
      BY <1>0, <2>3, FindIsFirst DEF Types, FoundAt
    <3>2. found'[p].idx = find(num) /\ found'[p].num = num
      BY <1>0, <2>3 DEF Types
    <3>3. \A i \in Covers(found'[p]) : get(i)
      BY <3>1, <3>2 DEF FreeRun, Region, Covers
    <3> QED
      BY <1>8, <2>1, <2>3, <3>3 DEF vars, StillFree
  <2>4. ASSUME UNCHANGED <<modelLock, found>> PROVE StillFree'
    BY <1>0, <1>8, <2>1, <2>4 DEF vars, StillFree
  <2> QED
    BY <1>4, <2>2, <2>3, <2>4 DEF allocateFind
<1>5. ASSUME NEW p \in Proc, allocateMark(p) PROVE Goal
  <2> DEFINE C == Covers(found[p])
  <2>1. /\ setAll(C, FALSE) /\ modelLock = p /\ modelLock' = NoProc
        /\ live' = Append(live, found[p])
        /\ UNCHANGED <<m_model, m_numElements>>
    BY <1>5 DEF allocateMark, setAll
  <2>2. \A i : i \in C \/ ~get(i) => ~get(i)'
    BY <2>1, Taken
  <2>3. /\ DOMAIN live' = DOMAIN live \cup {Len(live) + 1}
        /\ Len(live) + 1 \notin DOMAIN live
        /\ \A k \in DOMAIN live : live'[k] = live[k]
        /\ live'[Len(live) + 1] = found[p]
    BY <1>0, <2>1 DEF Types
  <2>4. \A i \in C : get(i)
    BY <1>0, <2>1 DEF StillFree
  <2>5. \A k \in DOMAIN live : C \cap Covers(live[k]) = {}
    BY <1>0, <2>4 DEF Marked
  <2>6. Marked'
    BY <1>0, <2>2, <2>3 DEF Marked
  <2>7. Disjoint'
    BY <1>0, <2>3, <2>5 DEF Disjoint
  <2>8. StillFree'
    BY <2>1, AllocatorAssumption DEF StillFree
  <2>9. Exact'
    <3> SUFFICES ASSUME m_model # {}, m_numElements <= IntBits,
                        NEW i \in Elems(m_numElements)
                 PROVE  get(i)' <=> \A k \in DOMAIN live' : i \notin Covers(live'[k])
      BY <2>1 DEF Exact
    <3>1. m_numElements \in 1 .. IntBits /\ C \in SUBSET Elems(m_numElements)
      BY <1>0, <2>1, WidthAssumption, PlacedInside DEF Types, LockHeld
    <3>2. get(i)' <=> i \notin C /\ get(i)
      BY <2>1, <3>1, SmallSet
    <3>3. get(i) <=> \A k \in DOMAIN live : i \notin Covers(live[k])
      BY <1>0 DEF Exact
    <3> QED
      BY <2>3, <3>2, <3>3
  <2> QED
    BY <2>6, <2>7, <2>8, <2>9
<1>6. ASSUME NEW p \in Proc, NEW k \in DOMAIN live, deallocate(p, k) PROVE Goal
  <2> DEFINE C == Covers(live[k])
  <2>1. /\ setAll(Target(live[k]), TRUE) /\ modelLock' = NoProc
        /\ live' = RemoveAt(live, k)
        /\ UNCHANGED <<m_model, m_numElements>>
    BY <1>6 DEF deallocate, setAll, Target
  <2>2. damaged' = (damaged \/ ( /\ live[k].num > 0
                                 /\ live[k].idx # 0 \/ m_numElements > IntBits))
    BY <1>6, Zenon DEF deallocate
  <2>3. ~(live[k].num > 0) \/ ~(live[k].idx # 0 \/ m_numElements > IntBits)
    BY <2>2, Zenon
  <2>4. /\ live[k].num \in Nat /\ live[k].idx \in Nat
        /\ \A j \in DOMAIN live : Covers(live[j]) \subseteq Elems(m_numElements)
    BY <1>0, PlacedInside DEF Types, LockHeld, Placed
  <2>5. /\ \A j \in DOMAIN live' :
             Old(j, k) \in DOMAIN live \ {k} /\ live'[j] = live[Old(j, k)]
        /\ \A i \in DOMAIN live \ {k} : \E j \in DOMAIN live' : Old(j, k) = i
        /\ \A i, j \in DOMAIN live' : Old(i, k) = Old(j, k) => i = j
    BY <1>0, <2>1, RemovedFrom DEF Types
  <2>6. \A i \in Elems(m_numElements) : get(i)' <=> i \in C \/ get(i)
    <3>1. CASE live[k].num = 0
      <4>1. C = {} /\ Target(live[k]) = {}
        BY <2>4, <3>1 DEF Covers, Target
      <4>2. UNCHANGED <<m_storage, wide>>
        BY <2>1, <4>1 DEF setAll
      <4> QED
        BY <1>8, <4>1, <4>2
    <3>2. CASE live[k].num # 0
      <4>1. live[k].idx = 0 /\ m_numElements \in 1 .. IntBits
        BY <1>0, <2>3, <2>4, <3>2, WidthAssumption DEF Types
      <4>2. Target(live[k]) = C
        BY <2>4, <4>1 DEF Target, Covers, Elems
      <4> QED
        BY <2>1, <2>4, <4>1, <4>2, SmallSet
    <3> QED
      BY <3>1, <3>2
  <2>7. Marked'
    <3> SUFFICES ASSUME NEW j \in DOMAIN live', NEW i \in Covers(live'[j])
                 PROVE  ~get(i)'
      BY DEF Marked
    <3>1. i \in Covers(live[Old(j, k)]) /\ Old(j, k) \in DOMAIN live /\ Old(j, k) # k
      BY <2>5
    <3>2. i \notin C /\ ~get(i) /\ i \in Elems(m_numElements)
      BY <1>0, <2>4, <3>1 DEF Disjoint, Marked
    <3> QED
      BY <2>6, <3>2
  <2>8. Disjoint'
    BY <1>0, <2>5 DEF Disjoint
  <2>9. StillFree'
    BY <2>1, AllocatorAssumption DEF StillFree
  <2>10. Exact'
    <3> SUFFICES ASSUME m_model # {}, m_numElements <= IntBits,
                        NEW i \in Elems(m_numElements)
                 PROVE  get(i)' <=> \A j \in DOMAIN live' : i \notin Covers(live'[j])
      BY <2>1 DEF Exact
    <3>1. get(i) <=> \A j \in DOMAIN live : i \notin Covers(live[j])
      BY <1>0 DEF Exact
    <3>2. i \in C => \A j \in DOMAIN live \ {k} : i \notin Covers(live[j])
      BY <1>0 DEF Disjoint
    <3>3. (\A j \in DOMAIN live' : i \notin Covers(live'[j]))
            <=> \A j \in DOMAIN live \ {k} : i \notin Covers(live[j])
      BY <2>5
    <3> QED
      BY <2>6, <3>1, <3>2, <3>3
  <2> QED
    BY <2>7, <2>8, <2>9, <2>10
<1>7. CASE UNCHANGED <<vars, allocVars>>
  BY <1>0, <1>8, <1>7 DEF vars, allocVars, Marked, StillFree, Disjoint, Exact
<1> QED
  BY <1>1, <1>2, <1>3, <1>4, <1>5, <1>6, <1>7 DEF AllocNext

\* The invariant holds in every behaviour.
LEMMA Inductive == AllocSpec => []IInv
<1>1. AllocInit => IInv
  <2> SUFFICES ASSUME AllocInit PROVE IInv
    OBVIOUS
  <2>1. NoRegion \in [idx : Int, num : Nat] /\ live = <<>> /\ DOMAIN live = {}
    BY DEF NoRegion, AllocInit
  <2>2. Types
    <3>1. m_numElements \in Nat \ {0} /\ wide \in BOOLEAN
      BY WidthAssumption DEF AllocInit, Init
    <3>2. found \in [Proc -> [idx : Int, num : Nat]]
      BY <2>1 DEF AllocInit
    <3>3. live \in Seq([idx : Int, num : Nat])
      BY <2>1
    <3>4. damaged \in BOOLEAN /\ m_model \subseteq Proc
      BY DEF AllocInit
    <3> QED
      BY <3>1, <3>2, <3>3, <3>4 DEF Types
  <2>3. LockHeld
    BY <2>1, AllocatorAssumption DEF AllocInit, LockHeld
  <2>4. NotYet
    BY <2>1, AllocatorAssumption DEF AllocInit, NotYet
  <2>5. Synced
    <3> SUFFICES ASSUME m_numElements <= IntBits, NEW i \in Elems(m_numElements)
                 PROVE  get(i)
      BY DEF AllocInit, Init, Synced
    <3>1. m_numElements \in 1 .. IntBits
      BY <2>2, WidthAssumption DEF Types
    <3> QED
      BY <3>1, SmallInit DEF AllocInit, Init, get
  <2>6. Marked /\ StillFree /\ RegionsDisjoint /\ MapIsExact
    BY <2>3, <2>4 DEF AllocInit, Marked, StillFree, RegionsDisjoint, MapIsExact, NotYet
  <2> QED
    BY <2>2, <2>3, <2>4, <2>5, <2>6 DEF IInv
<1>2. IInv /\ [AllocNext]_<<vars, allocVars>> => IInv'
  <2> SUFFICES ASSUME IInv, [AllocNext]_<<vars, allocVars>> PROVE IInv'
    OBVIOUS
  <2>1. Types' /\ LockHeld' /\ NotYet' /\ Synced'
    BY TypesStep, LockStep, SyncedStep
  <2>2. ~damaged' => Marked' /\ StillFree' /\ Disjoint' /\ Exact'
    BY MapStep
  <2>3. /\ RegionsDisjoint' <=> (~damaged' => Disjoint')
        /\ MapIsExact' <=> (~damaged' => Exact')
    BY Zenon DEF RegionsDisjoint, Disjoint, MapIsExact, Exact
  <2> QED
    BY <2>1, <2>2, <2>3 DEF IInv
<1> QED
  BY <1>1, <1>2, PTL DEF AllocSpec

\* No element is in two regions that callers hold, for any size of the buffer, even
\* where elements share bits of the map, until a constructor initialises the map
\* over them or deallocate() frees the wrong elements.
THEOREM RegionsAreDisjoint == AllocSpec => []RegionsDisjoint
<1>1. IInv => RegionsDisjoint
  BY DEF IInv
<1> QED
  BY <1>1, Inductive, PTL

\* With no more elements than an int has bits the map is the complement of the
\* regions in use: allocate() fails only when no run is long enough.
THEOREM MapStaysExact == AllocSpec => []MapIsExact
<1>1. IInv => MapIsExact
  BY DEF IInv
<1> QED
  BY <1>1, Inductive, PTL

\* The elements that find() reports are elements of the buffer that read as free,
\* for every size, also one at which elements share bits.
THEOREM FoundIsFree == AllocSpec => []FindsFree
<1>1. IInv => FindsFree
  <2> SUFFICES ASSUME IInv, NEW num \in 0 .. m_numElements, find(num) # -1,
                      NEW i \in Region(find(num), num)
               PROVE  i \in Elems(m_numElements) /\ get(i)
    BY DEF FindsFree
  <2>1. FoundAt(find(num), m_numElements, num) /\ m_numElements \in Nat
    BY FindIsFirst DEF IInv, Types
  <2> QED
    BY <2>1 DEF FoundAt, FreeRun, Region, Elems
<1> QED
  BY <1>1, Inductive, PTL

\* In a buffer no larger than an int, find() is first fit over the elements whose
\* last set() said FREE_BIT, after any sequence of calls.
THEOREM FindIsFirstFit == AllocSpec => []FindMatchesInInt
<1>1. IInv => FindMatchesInInt
  <2> SUFFICES ASSUME IInv, m_numElements <= IntBits, NEW num \in 0 .. m_numElements
               PROVE  find(num) = FirstFree(num)
    BY DEF FindMatchesInInt, FindMatches
  <2> DEFINE n == m_numElements
             starts == {i \in 0 .. n - num : Region(i, num) \subseteq freed}
  <2>1. n \in Nat /\ \A i \in Elems(n) : get(i) <=> i \in freed
    BY DEF IInv, Types, Synced
  <2>2. \A i \in 0 .. n - num : i \in starts <=> FreeRun(i, num)
    <3> TAKE i \in 0 .. n - num
    <3>1. Region(i, num) \subseteq Elems(n)
      BY <2>1 DEF Region, Elems
    <3> QED
      BY <2>1, <3>1 DEF FreeRun
  <2>3. FirstFree(num) = IF starts = {} THEN -1 ELSE Min(starts)
    BY DEF FirstFree
  <2>4. CASE find(num) = -1 /\ \A i \in 0 .. n - num : ~FreeRun(i, num)
    BY <2>2, <2>3, <2>4
  <2>5. CASE FoundAt(find(num), n, num)
    <3>1. find(num) \in starts /\ \A j \in starts : find(num) <= j
      BY <2>1, <2>2, <2>5 DEF FoundAt
    <3>2. starts \subseteq Int
      BY <2>1
    <3> HIDE DEF starts
    <3>3. Min(starts) \in starts /\ \A j \in starts : Min(starts) <= j
      BY <3>1 DEF Min
    <3>4. find(num) <= Min(starts) /\ Min(starts) <= find(num)
      BY <3>1, <3>3
    <3>5. find(num) \in Int /\ Min(starts) \in Int
      BY <3>1, <3>2, <3>3
    <3> QED
      BY <2>3, <3>1, <3>4, <3>5
  <2> QED
    BY <2>1, <2>4, <2>5, FindIsFirst
<1> QED
  BY <1>1, Inductive, PTL
=============================================================================

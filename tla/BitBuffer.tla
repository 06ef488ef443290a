----------------------------- MODULE BitBuffer ------------------------------
(***************************************************************************)
(* BitBuffer (src/BitBuffer.cpp), the occupancy map of IPC::Allocator: one *)
(* bit per element, 1 for free, in units of UnitBits bits.  A bit is       *)
(* addressed by 1 << bitIdx, a shift of an int, narrower than a unit.      *)
(*                                                                         *)
(* m_storage is the set of the bits <<unit, bit>> that are 1; freed is a   *)
(* history variable, the elements whose last set() said FREE_BIT.          *)
(***************************************************************************)
EXTENDS Integers, FiniteSetsExt

CONSTANTS
  UnitBits,   \* c_unitBits: bits of a storeUnit_t (64)
  IntBits,    \* bits of an int (32)
  Sizes       \* numbers of elements to construct a BitBuffer with

ASSUME WidthAssumption ==
  /\ IntBits \in Nat \ {0}
  /\ UnitBits \in {k \in Nat : k >= IntBits}
  /\ Sizes \subseteq Nat \ {0}

VARIABLES
  m_numElements,
  m_storage,
  wide,       \* what the build makes of a shift by IntBits or more
  freed

vars == <<m_numElements, m_storage, wide, freed>>

Elems(n) == 0 .. n - 1

\* The bits of 1 << b as an operand of a unit's width: the highest bit of the
\* int extends its sign.  A shift by IntBits or more is undefined; a build
\* either takes the count modulo IntBits or shifts in a wider register.
Mask(b, w) ==
  IF b >= IntBits /\ w THEN {b}
  ELSE IF b % IntBits = IntBits - 1 THEN IntBits - 1 .. UnitBits - 1
  ELSE {b % IntBits}

\* The bits set() and get() touch for element i.
BitsOf(i, w) == {<<i \div UnitBits, b>> : b \in Mask(i % UnitBits, w)}

m_numUnits(n)     == (n + UnitBits - 1) \div UnitBits
m_lastUnitBits(n) == n % UnitBits

\* init(): every unit is filled with ones, the last one bit by bit when it is
\* not full.
InitialBits(n, w) ==
  LET last == m_numUnits(n) - 1 IN
  IF m_lastUnitBits(n) = 0
  THEN (0 .. last) \X (0 .. UnitBits - 1)
  ELSE ((0 .. last - 1) \X (0 .. UnitBits - 1))
       \cup UNION {BitsOf(last * UnitBits + i, w) : i \in Elems(m_lastUnitBits(n))}

\* A constructor with a size and init().
Init ==
  /\ m_numElements \in Sizes
  /\ wide \in BOOLEAN
  /\ m_storage = InitialBits(m_numElements, wide)
  /\ freed = Elems(m_numElements)

\* get(i): is a bit of the unit left under the mask?
get(i) == BitsOf(i, wide) \cap m_storage # {}

\* set(i, val), for an index that checkIdx accepts (else it throws, no step).
set(i, val) ==
  /\ m_storage' = IF val THEN m_storage \cup BitsOf(i, wide)
                  ELSE m_storage \ BitsOf(i, wide)
  /\ freed' = IF val THEN freed \cup {i} ELSE freed \ {i}
  /\ UNCHANGED <<m_numElements, wide>>

Next == \E i \in Elems(m_numElements), val \in BOOLEAN : set(i, val)

Spec == Init /\ [][Next]_vars

-----------------------------------------------------------------------------
\* A turn of the loop of find(num), at element i; no turn when the loop has ended.
Turn(before, i, num) ==
  IF before.foundNum >= num THEN before
  ELSE IF get(i)
  THEN [foundNum |-> before.foundNum + 1, foundUnitIdx |-> i]
  ELSE [before EXCEPT !.foundNum = 0]

\* The loop of find(num): foundNum and foundUnitIdx after the last turn.
Scan(num) ==
  LET turn[c \in 0 .. m_numElements] ==
        IF c = 0 THEN [foundNum |-> 0, foundUnitIdx |-> -1]
        ELSE Turn(turn[c - 1], c - 1, num)
  IN  turn[m_numElements]

\* Mutation of find: the index of the region is one too high.
findOffByOne(num) ==
  IF Scan(num).foundNum = num THEN Scan(num).foundUnitIdx + 2 - num ELSE -1

\* Mutation of find: a region of num - 1 elements is reported.
findShort(num) ==
  IF Scan(num).foundNum >= num - 1 THEN Scan(num).foundUnitIdx + 1 - num ELSE -1

\* find(num) for a num that checkNumber accepts.
find(num) ==
  IF Scan(num).foundNum = num THEN Scan(num).foundUnitIdx + 1 - num ELSE -1

\* What find promises: the first run of num elements that are free.
Region(i, num) == i .. i + num - 1

FirstFree(num) ==
  LET starts == {i \in 0 .. m_numElements - num : Region(i, num) \subseteq freed}
  IN  IF starts = {} THEN -1 ELSE Min(starts)

\* find(num) "returns idx of continuous free region num- elements long, -1 if
\* not found", after any sequence of set() calls.
FindMatches == \A num \in 0 .. m_numElements : find(num) = FirstFree(num)

\* The same for a buffer with no more elements than an int has bits: the sign
\* that the highest bit extends then reaches no other element.
FindMatchesInInt == m_numElements <= IntBits => FindMatches

\* A region that find() reports lies within the buffer, and get() says free for
\* each of its elements, whatever the shifts do.
FindsFree ==
  \A num \in 0 .. m_numElements :
    find(num) # -1 =>
      \A i \in Region(find(num), num) : i \in Elems(m_numElements) /\ get(i)
=============================================================================

-------------------------- MODULE MCBufferManager ---------------------------
(***************************************************************************)
(* Instances of BufferManager for TLC: two processes, the first with two   *)
(* Buffer objects; or one process with three.                              *)
(***************************************************************************)
EXTENDS BufferManager, TLC

CONSTANTS p1, p2, a, b, c

TwoAndOne == a :> p1 @@ b :> p1 @@ c :> p2

AllOfOne == a :> p1 @@ b :> p1 @@ c :> p1

\* Segments are interchangeable, and so are ids.
Symmetry == Permutations(Seg) \cup Permutations(Id)
=============================================================================

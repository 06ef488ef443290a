--------------------------- MODULE MCMutexManager ---------------------------
(***************************************************************************)
(* Names for TLC: a is a prefix of b, and x, which nobody asks for, of c.  *)
(* The processes that are never killed are alike.                          *)
(***************************************************************************)
EXTENDS MutexManager, TLC

CONSTANTS a, b, c, x

MCShorter == [n \in Text |-> CASE n = b -> {a} [] n = c -> {x} [] OTHER -> {}]

Symmetry == Permutations(Proc \ Mortal)
=============================================================================

----------------------------- MODULE MCCommands -----------------------------
(***************************************************************************)
(* A registry for model checking: the root register r0 with a collection c *)
(* (whose entity is the register r1) and a delegated item a, and an item b *)
(* in r1.                                                                  *)
(***************************************************************************)
EXTENDS Commands, TLC

CONSTANTS a, b, c, ea, eb, r0, r1

MCParent == [x \in Items |-> IF x = b THEN r1 ELSE r0]
MCEntity == [x \in Items |-> CASE x = a -> ea [] x = b -> eb [] x = c -> r1]

\* Nothing tells one request thread from another.
ThreadSymmetry == Permutations(Thread)
=============================================================================

---------------------------- MODULE MCForwarding ----------------------------
(* A small instance of ForwardingTrie: two nested paths and one beside them. *)
EXTENDS ForwardingTrie, TLC

CONSTANTS outer, inner, other

MCPathOf == (outer :> <<"a">>) @@ (inner :> <<"a", "b">>) @@ (other :> <<"c", "b">>)

MCRecord == {[type |-> "FORWARD", code |-> 200, target |-> "x"],
             [type |-> "DELEGATE", code |-> 307, target |-> "y"]}

MCRequested == {<<>>, <<"a">>, <<"a", "b">>, <<"a", "b", "d">>, <<"a", "d", "b">>, <<"c">>, <<"c", "b">>}

ThreadSymmetry == Permutations(Thread)
==============================================================================

------------------------------ MODULE MCFencing ------------------------------
(***************************************************************************)
(* A small instance of Fencing: owner "a" has two sessions (its execution  *)
(* and its renewal goroutine, or a process restarted under the same name), *)
(* which nothing tells apart, and owner "b" has one.                       *)
(***************************************************************************)
EXTENDS Fencing, TLC

CONSTANTS a1, a2, b1

MCProcs == {a1, a2, b1}
MCOwners == {"a", "b"}
MCOwnerOf == [p \in MCProcs |-> IF p = b1 THEN "b" ELSE "a"]
MCTimes == {0, 1}
MCSymmetry == Permutations({a1, a2})
==============================================================================

---------------------------- MODULE MCSharedRibs ----------------------------
(* Constants for model checking SharedRibs: two attribute values, in one   *)
(* bucket of the table or in one each.                                     *)
EXTENDS SharedRibs, TLC

CONSTANTS a0, a1, h0, h1

MCAttr == {a0, a1}
OneAttr == {a0}
MCHash == {h0, h1}
Colliding == [a \in Attr |-> h0]
Spread == [a \in Attr |-> IF a = a0 THEN h0 ELSE h1]
MCSliceSize == [a \in Attr |-> IF a = a0 THEN 0 ELSE 3]

Symmetry == Permutations(Rib) \union Permutations(Thread)
              \union Permutations(Ptr) \union Permutations(Tree)
              \union Permutations(PathID)
=============================================================================

----------------------------- MODULE MCXKCTree -----------------------------
(* Model-checking instance of XKCTree.  insert() never looks at a value     *)
(* beyond equality, so the tree's shape depends only on how many letters    *)
(* have been inserted: one build of MCN distinct letters passes through the *)
(* tree of every alphabet of at most MCN letters.  MCN = 40 takes the tree  *)
(* to depth 5, well past depth 3 where the count_nodes() comparison first   *)
(* chooses between a shallower and a deeper free slot.                      *)
EXTENDS XKCTree

MCN == 40

MCSymbols == 0..MCN - 1

MCTreeAlphabet == [i \in 1..MCN |-> i - 1]
=============================================================================

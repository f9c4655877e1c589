---------------------------- MODULE MCVisibility ----------------------------
(* Visibility on a small instance: see the .cfg files for the bounds. Runs *)
(* differ in nothing but the entry they find, so that which of the sets of *)
(* confirmed capabilities is which does not matter to a safety property.   *)
EXTENDS Visibility

Symmetric == Permutations(Confirmed)
=============================================================================

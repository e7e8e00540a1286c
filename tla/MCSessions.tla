----------------------------- MODULE MCSessions -----------------------------
(* A small instance of Sessions: one browser with two tabs. *)
EXTENDS Sessions, TLC

CONSTANT b1

OneBrowser == [t \in Tab |-> b1]
AnyPage    == {[op |-> "page", id |-> 0]}

TabSymmetry == Permutations(Tab)
=============================================================================

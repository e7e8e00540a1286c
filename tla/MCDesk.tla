------------------------------- MODULE MCDesk -------------------------------
(* A small instance of Desk, whose tabs are alike. *)
EXTENDS Desk, TLC

TabSymmetry == Permutations(Tab)
=============================================================================

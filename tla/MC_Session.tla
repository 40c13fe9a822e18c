---------------------------- MODULE MC_Session ----------------------------
(* Session on a small instance; the destinations are interchangeable.      *)
EXTENDS Session, TLC

DestSymmetry == Permutations(Dest)
=============================================================================

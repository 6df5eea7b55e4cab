------------------------------- MODULE MCSession -------------------------------
(* Session with interchangeable users.                                     *)
EXTENDS Session, TLC

Symmetry == Permutations(User)
=============================================================================

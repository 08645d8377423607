-------------------------- MODULE MCPrivateSession --------------------------
(* Symmetry of the TLC runs of PrivateSession.                             *)
EXTENDS PrivateSession, TLC

(* Call slots are interchangeable.                                         *)
CallSymmetry == Permutations(Calls)

=============================================================================

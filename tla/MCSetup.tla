------------------------------ MODULE MCSetup -------------------------------
(* Small instances of Setup for TLC; the cfg files give the constants.     *)
EXTENDS Setup, TLC

(* The threads run the same code. *)
ThreadSymmetry == Permutations(Threads)
=============================================================================

-------------------------- MODULE MCSessionEvents ---------------------------
(* Small instances of SessionEvents for TLC; the cfg files give the        *)
(* constants.                                                              *)
EXTENDS SessionEvents, TLC

(* Descriptors and sessions are interchangeable; of use without liveness.  *)
FdSessionSymmetry == Permutations(Fds) \cup Permutations(Sessions)
=============================================================================

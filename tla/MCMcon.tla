------------------------------- MODULE MCMcon -------------------------------
(* Small instances of Mcon for TLC; the cfg files give the constants. *)
EXTENDS MconImplements, TLC

(* The descriptors are interchangeable: the kernel may return any that is  *)
(* not open.                                                               *)
DescriptorSymmetry == Permutations(Fds)
=============================================================================

------------------------------- MODULE MCMemory -------------------------------
(* Instances of Memory for TLC: the constants are given in the .cfg files. *)
EXTENDS Memory
=============================================================================

---------------------------- MODULE MCIRBuilder ----------------------------
(* Instances of IRBuilder for TLC; the constants are given in the .cfg files. *)
EXTENDS IRBuilder
=============================================================================

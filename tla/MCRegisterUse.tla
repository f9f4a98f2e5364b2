--------------------------- MODULE MCRegisterUse ---------------------------
(***************************************************************************)
(* Statements of a few operators, with three registers for arguments.      *)
(***************************************************************************)
EXTENDS RegisterUse
=============================================================================

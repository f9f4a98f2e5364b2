------------------------------ MODULE MCPasses ------------------------------
(***************************************************************************)
(* Bodies of a few nodes over the variable X.  The literals hold a divisor *)
(* 0 and a pair the order of which matters; X may be negative, zero or     *)
(* positive, so that all branches are taken.                               *)
(***************************************************************************)
EXTENDS Passes

MCInputs == -1 .. 1
=============================================================================

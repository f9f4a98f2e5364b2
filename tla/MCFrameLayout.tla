--------------------------- MODULE MCFrameLayout ---------------------------
(***************************************************************************)
(* Functions with few instructions, and variables of sizes that are and    *)
(* are not multiples of four.                                              *)
(***************************************************************************)
EXTENDS FrameLayout
=============================================================================

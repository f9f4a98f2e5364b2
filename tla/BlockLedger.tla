---------------------------- MODULE BlockLedger ----------------------------
(***************************************************************************)
(* What the CFG construction promises about the blocks of one body, with   *)
(* no syntax tree and no instructions: blocks are created, one of them is  *)
(* open at any time, and a block that has been sealed (given its           *)
(* terminator) is never opened again.  When the body is closed, no block   *)
(* has been left unsealed.  README.md:522 states the outcome ("the last    *)
(* instruction is a terminator"); this is the discipline behind it.        *)
(***************************************************************************)
EXTENDS Naturals

VARIABLES
  created,   \* number of blocks so far
  open,      \* the block code is appended to, 0 once the body is closed
  sealed     \* blocks that have their terminator

vars == <<created, open, sealed>>

Init ==
  /\ created = 1
  /\ open = 1
  /\ sealed = {}

(* New blocks may appear while the open one stays open. *)
Extend ==
  /\ open # 0
  /\ created' \in {n \in Nat : n >= created}
  /\ UNCHANGED <<open, sealed>>

(* Leave the open block, possibly with others that were never open for     *)
(* long, and open one that is not sealed.                                  *)
Switch ==
  /\ open # 0
  /\ created' \in {n \in Nat : n >= created}
  /\ sealed \cup {open} \subseteq sealed'
  /\ sealed' \subseteq 1 .. created'
  /\ open' \in (1 .. created') \ sealed'

(* Seal the last block: all of them are sealed now. *)
Close ==
  /\ open # 0
  /\ sealed' = sealed \cup {open}
  /\ sealed' = 1 .. created
  /\ open' = 0
  /\ UNCHANGED created

Next == Extend \/ Switch \/ Close

Spec == Init /\ [][Next]_vars
=============================================================================

---------------------------- MODULE BasicBlocks ----------------------------
(***************************************************************************)
(* The control-flow half of the intermediate representation: basic blocks, *)
(* their instructions and the CFG edges recorded beside them               *)
(* (src/src/ir/{Instruction,BasicBlock,Function}.h), with the helpers      *)
(* IRBuilder.cpp writes every block through (emit, finishBlock).           *)
(*                                                                         *)
(* A function body is a sequence of blocks.  The code numbers blocks from  *)
(* 0; here block b is the b-th of the sequence, and NoBlock stands for the *)
(* -1 an instruction without a target carries.  Operands are left out:     *)
(* only the operation and the targets of an instruction are kept.          *)
(***************************************************************************)
EXTENDS Naturals, Sequences

NoBlock == 0

(* Straight-line operations; the builder's many arithmetic ones are "Eval". *)
PlainOps == {"Eval", "Copy", "Load", "Store"}

Terminators == {"Branch", "Jump", "Ret"}

Instr == [op : PlainOps \cup Terminators, targetBlock : Nat, falseBlock : Nat]

Op(o)        == [op |-> o, targetBlock |-> NoBlock, falseBlock |-> NoBlock]
Ret          == Op("Ret")
Jump(t)      == [op |-> "Jump", targetBlock |-> t, falseBlock |-> NoBlock]
Branch(t, f) == [op |-> "Branch", targetBlock |-> t, falseBlock |-> f]

IsTerminator(i) == i.op \in Terminators

Block == [instrs : Seq(Instr), succs : SUBSET Nat, preds : SUBSET Nat]

EmptyBlock == [instrs |-> <<>>, succs |-> {}, preds |-> {}]

(* BasicBlock::hasTerminator looks at the last instruction only. *)
HasTerminator(blk) ==
  /\ blk.instrs # <<>>
  /\ IsTerminator(blk.instrs[Len(blk.instrs)])

(* Where control goes after a block, read off its last instruction. *)
Targets(blk) ==
  IF HasTerminator(blk)
  THEN LET last == blk.instrs[Len(blk.instrs)]
       IN  {last.targetBlock, last.falseBlock} \ {NoBlock}
  ELSE {}

-----------------------------------------------------------------------------
(* IRFunction::createBlock: the new block's number is Len(bs) + 1. *)
CreateBlock(bs) == Append(bs, EmptyBlock)

(* Slip: only the successor side of an edge is recorded. *)
LinkForward(bs, from, to) == [bs EXCEPT ![from].succs = @ \cup {to}]

(* IRFunction::linkBlocks: record the edge at both of its ends. *)
LinkBlocks(bs, from, to) ==
  [bs EXCEPT ![from].succs = @ \cup {to}, ![to].preds = @ \cup {from}]

(* IRBuilder::emit appends without looking at what is already there. *)
Emit(bs, b, i) == [bs EXCEPT ![b].instrs = Append(@, i)]

(* IRBuilder::finishBlock is a no-op on a block that has its terminator. *)
FinishBlock(bs, b, t) == IF HasTerminator(bs[b]) THEN bs ELSE Emit(bs, b, t)

-----------------------------------------------------------------------------
(* The two ways a visitor leaves the current block b.  The second names    *)
(* the block the outgoing edges are recorded at, since the visitors of     *)
(* WHILE and FOR name the loop header there instead of the current block.  *)

JumpTo(bs, b, to) == LinkBlocks(FinishBlock(bs, b, Jump(to)), b, to)

BranchTo(bs, b, edgesAt, t, f) ==
  LinkBlocks(LinkBlocks(FinishBlock(bs, b, Branch(t, f)), edgesAt, t), edgesAt, f)
=============================================================================

-------------------------- MODULE IRBuilder_proofs --------------------------
(***************************************************************************)
(* What is safe about the construction of basic blocks, for trees of every *)
(* size: a terminator is always the last instruction of its block, and a   *)
(* lowered body leaves no block without one; and three facts about the     *)
(* control-flow graph: the edges recorded beside the blocks are those of   *)
(* the terminators, as long as no loop test calls ABS; the construction    *)
(* keeps the discipline of BlockLedger; and the current block can be       *)
(* reached exactly when the source lets control reach what is lowered.     *)
(*                                                                         *)
(* The argument for the blocks: at any time they split into the open ones  *)
(* (the current block and those some visitor still holds), which contain   *)
(* no terminator, and the sealed ones, which end in their only terminator. *)
(* Visitors hold disjoint sets of blocks, and where a visitor stands fixes *)
(* which blocks it holds; so every block that stops being current is       *)
(* sealed at that moment, and nothing is held when the stack is empty.     *)
(* The three others are argued for where they begin.                       *)
(***************************************************************************)
EXTENDS IRBuilder, TLAPS, SequenceTheorems, FiniteSetTheorems, WellFoundedInduction

-----------------------------------------------------------------------------
(* Open and sealed blocks *)

OpenBlock(blk) == \A k \in 1 .. Len(blk.instrs) : ~IsTerminator(blk.instrs[k])

SealedBlock(blk) ==
  /\ HasTerminator(blk)
  /\ \A k \in 1 .. Len(blk.instrs) - 1 : ~IsTerminator(blk.instrs[k])

(* The blocks bs are open inside S and sealed outside. *)
Partition(bs, S) ==
  /\ bs \in Seq(Block)
  /\ S \subseteq 1 .. Len(bs)
  /\ \A b \in 1 .. Len(bs) :
       IF b \in S THEN OpenBlock(bs[b]) ELSE SealedBlock(bs[b])

(* An open block has no terminator: finishBlock really appends to it. *)
LEMMA OpenHasNone ==
  ASSUME NEW blk \in Block, OpenBlock(blk)
  PROVE  ~HasTerminator(blk)
<1>1. blk.instrs \in Seq(Instr)  BY DEF Block
<1>2. blk.instrs # <<>> => Len(blk.instrs) \in 1 .. Len(blk.instrs)
  BY <1>1, EmptySeq, LenProperties
<1>3. QED  BY <1>2 DEF HasTerminator, OpenBlock

(* createBlock adds one open block. *)
LEMMA CreatePartition ==
  ASSUME NEW bs, NEW S, Partition(bs, S)
  PROVE  /\ Partition(CreateBlock(bs), S \cup {Len(bs) + 1})
         /\ Len(CreateBlock(bs)) = Len(bs) + 1
<1>1. bs \in Seq(Block)  BY DEF Partition
<1>2. EmptyBlock \in Block  BY DEF EmptyBlock, Block
<1>3. /\ CreateBlock(bs) \in Seq(Block)
      /\ Len(CreateBlock(bs)) = Len(bs) + 1
      /\ \A b \in 1 .. Len(bs) : CreateBlock(bs)[b] = bs[b]
      /\ CreateBlock(bs)[Len(bs) + 1] = EmptyBlock
  BY <1>1, <1>2 DEF CreateBlock
<1>4. OpenBlock(EmptyBlock)  BY DEF OpenBlock, EmptyBlock
<1>5. Len(bs) \in Nat  BY <1>1
<1> DEFINE cs == CreateBlock(bs)
           T == S \cup {Len(bs) + 1}
<1> HIDE DEF cs
<1>6. T \subseteq 1 .. Len(cs)
  <2>1. Len(cs) = Len(bs) + 1  BY <1>3 DEF cs
  <2>2. S \subseteq 1 .. Len(bs)  BY DEF Partition
  <2>3. ASSUME NEW b \in T  PROVE b \in 1 .. Len(bs) + 1
    <3>1. b \in 1 .. Len(bs) \/ b = Len(bs) + 1  BY <2>2
    <3>2. QED  BY <3>1, <1>5
  <2>4. QED  BY <2>1, <2>3
<1>7. ASSUME NEW b \in 1 .. Len(cs)
      PROVE  IF b \in T THEN OpenBlock(cs[b]) ELSE SealedBlock(cs[b])
  <2>1. CASE b = Len(bs) + 1  BY <2>1, <1>3, <1>4 DEF cs
  <2>2. CASE b # Len(bs) + 1
    <3>1. b \in 1 .. Len(bs) /\ cs[b] = bs[b]  BY <2>2, <1>3, <1>5 DEF cs
    <3>2. QED  BY <2>2, <3>1 DEF Partition
  <2>3. QED  BY <2>1, <2>2
<1>8. QED  BY <1>3, <1>6, <1>7 DEF Partition, cs

(* linkBlocks leaves the instructions alone. *)
LEMMA LinkPartition ==
  ASSUME NEW bs, NEW S, Partition(bs, S),
         NEW from \in 1 .. Len(bs), NEW to \in 1 .. Len(bs)
  PROVE  /\ Partition(LinkBlocks(bs, from, to), S)
         /\ Len(LinkBlocks(bs, from, to)) = Len(bs)
<1> DEFINE ls == LinkBlocks(bs, from, to)
<1>1. bs \in Seq(Block)  BY DEF Partition
<1>2. Len(bs) \in Nat  BY <1>1
<1>3. /\ ls \in [1 .. Len(bs) -> Block]
      /\ \A b \in 1 .. Len(bs) : ls[b].instrs = bs[b].instrs
  <2> DEFINE more(b)  == [bs[b] EXCEPT !.succs = @ \cup {to}]
             mid      == [bs EXCEPT ![from] = more(from)]
             again(b) == [mid[b] EXCEPT !.preds = @ \cup {from}]
  <2>1. bs \in [1 .. Len(bs) -> Block]  BY <1>1
  <2>2. more(from) \in Block /\ more(from).instrs = bs[from].instrs
    BY SMTT(60), <2>1, <1>2 DEF Block
  <2>3. /\ mid \in [1 .. Len(bs) -> Block]
        /\ \A b \in 1 .. Len(bs) : mid[b].instrs = bs[b].instrs
    <3> HIDE DEF more
    <3>1. QED  BY <2>1, <2>2
  <2>4. ls = [mid EXCEPT ![to] = again(to)]
    BY <2>1 DEF LinkBlocks
  <2> HIDE DEF mid, ls
  <2>5. again(to) \in Block /\ again(to).instrs = mid[to].instrs
    <3>1. mid[to] \in Block  BY <2>3
    <3>2. QED  BY <3>1, <1>2 DEF Block
  <2> HIDE DEF again
  <2>6. QED  BY <2>3, <2>4, <2>5
<1>4. ls \in Seq(Block) /\ Len(ls) = Len(bs)
  BY <1>2, <1>3
<1> HIDE DEF ls
<1>5. \A b \in 1 .. Len(bs) : /\ OpenBlock(bs[b]) => OpenBlock(ls[b])
                              /\ SealedBlock(bs[b]) => SealedBlock(ls[b])
  BY <1>3 DEF OpenBlock, SealedBlock, HasTerminator
<1>6. QED  BY <1>4, <1>5 DEF Partition, ls

(* emit: the other blocks are untouched, and the block gets one instruction *)
(* more.                                                                    *)
LEMMA EmitEffect ==
  ASSUME NEW bs \in Seq(Block), NEW b \in 1 .. Len(bs), NEW i \in Instr
  PROVE  /\ Emit(bs, b, i) \in Seq(Block)
         /\ Len(Emit(bs, b, i)) = Len(bs)
         /\ \A c \in 1 .. Len(bs) : c # b => Emit(bs, b, i)[c] = bs[c]
         /\ Emit(bs, b, i)[b].instrs = Append(bs[b].instrs, i)
<1> DEFINE more == [bs[b] EXCEPT !.instrs = Append(@, i)]
<1>1. bs \in [1 .. Len(bs) -> Block] /\ Len(bs) \in Nat /\ bs[b] \in Block
  OBVIOUS
<1>2. Append(bs[b].instrs, i) \in Seq(Instr)  BY <1>1 DEF Block
<1>3. more \in Block /\ more.instrs = Append(bs[b].instrs, i)
  BY <1>1, <1>2 DEF Block
<1>4. Emit(bs, b, i) = [bs EXCEPT ![b] = more]  BY <1>1 DEF Emit
<1> HIDE DEF more
<1>5. QED  BY <1>1, <1>3, <1>4

(* A straight-line instruction keeps an open block open ...                *)
LEMMA EmitPartition ==
  ASSUME NEW bs, NEW S, Partition(bs, S), NEW b \in S, NEW o \in PlainOps
  PROVE  /\ Partition(Emit(bs, b, Op(o)), S)
         /\ Len(Emit(bs, b, Op(o))) = Len(bs)
<1> DEFINE es == Emit(bs, b, Op(o))
           old == bs[b].instrs
<1>1. bs \in Seq(Block) /\ b \in 1 .. Len(bs) /\ OpenBlock(bs[b])
  BY DEF Partition
<1>2. Op(o) \in Instr /\ ~IsTerminator(Op(o))
  BY DEF Op, Instr, NoBlock, PlainOps, Terminators, IsTerminator
<1>3. /\ es \in Seq(Block)
      /\ Len(es) = Len(bs)
      /\ \A c \in 1 .. Len(bs) : c # b => es[c] = bs[c]
      /\ es[b].instrs = Append(old, Op(o))
  BY <1>1, <1>2, EmitEffect
<1>4. bs[b] \in Block /\ old \in Seq(Instr)
  <2>1. bs[b] \in Block  BY <1>1
  <2>2. QED  BY <2>1 DEF Block
<1>5. OpenBlock(es[b])
  BY <1>1, <1>2, <1>3, <1>4 DEF OpenBlock
<1> HIDE DEF es
<1>6. QED  BY <1>1, <1>3, <1>5 DEF Partition, es

(* ... and finishBlock seals one. *)
LEMMA FinishPartition ==
  ASSUME NEW bs, NEW S, Partition(bs, S), NEW b \in S,
         NEW t \in Instr, IsTerminator(t)
  PROVE  /\ Partition(FinishBlock(bs, b, t), S \ {b})
         /\ Len(FinishBlock(bs, b, t)) = Len(bs)
<1> DEFINE es == Emit(bs, b, t)
           old == bs[b].instrs
<1>1. bs \in Seq(Block) /\ b \in 1 .. Len(bs) /\ OpenBlock(bs[b]) /\ bs[b] \in Block
  BY DEF Partition
<1>2. FinishBlock(bs, b, t) = es  BY <1>1, OpenHasNone DEF FinishBlock
<1>3. /\ es \in Seq(Block)
      /\ Len(es) = Len(bs)
      /\ \A c \in 1 .. Len(bs) : c # b => es[c] = bs[c]
      /\ es[b].instrs = Append(old, t)
  BY <1>1, EmitEffect
<1>4. bs[b] \in Block /\ old \in Seq(Instr)
  <2>1. bs[b] \in Block  BY <1>1
  <2>2. QED  BY <2>1 DEF Block
<1>5. SealedBlock(es[b])
  <2>1. /\ Len(Append(old, t)) = Len(old) + 1
        /\ Append(old, t)[Len(old) + 1] = t
        /\ \A k \in 1 .. Len(old) : Append(old, t)[k] = old[k]
        /\ Len(old) \in Nat
        /\ Append(old, t) # <<>>
    BY <1>4
  <2>2. QED  BY <1>1, <1>3, <2>1 DEF OpenBlock, SealedBlock, HasTerminator
<1> HIDE DEF es
<1>6. QED  BY <1>1, <1>2, <1>3, <1>5 DEF Partition

(* Leaving a block by a jump or a branch seals it and nothing else. *)
LEMMA JumpPartition ==
  ASSUME NEW bs, NEW S, Partition(bs, S), NEW b \in S, NEW to \in 1 .. Len(bs)
  PROVE  /\ Partition(JumpTo(bs, b, to), S \ {b})
         /\ Len(JumpTo(bs, b, to)) = Len(bs)
<1>1. Jump(to) \in Instr /\ IsTerminator(Jump(to))
  BY DEF Partition, Jump, Instr, Terminators, NoBlock, IsTerminator
<1>2. b \in 1 .. Len(bs)  BY DEF Partition
<1> DEFINE fs == FinishBlock(bs, b, Jump(to))
<1>3. Partition(fs, S \ {b}) /\ Len(fs) = Len(bs)  BY <1>1, FinishPartition
<1> HIDE DEF fs
<1>4. /\ Partition(LinkBlocks(fs, b, to), S \ {b})
      /\ Len(LinkBlocks(fs, b, to)) = Len(bs)
  BY <1>2, <1>3, LinkPartition
<1>5. QED  BY <1>4 DEF JumpTo, fs

(* A branch seals the block it leaves, wherever its edges are recorded. *)
LEMMA BranchPartition ==
  ASSUME NEW bs, NEW S, Partition(bs, S), NEW b \in S, NEW e \in 1 .. Len(bs),
         NEW t \in 1 .. Len(bs), NEW f \in 1 .. Len(bs)
  PROVE  /\ Partition(BranchTo(bs, b, e, t, f), S \ {b})
         /\ Len(BranchTo(bs, b, e, t, f)) = Len(bs)
<1> DEFINE fs == FinishBlock(bs, b, Branch(t, f))
<1>1. Branch(t, f) \in Instr /\ IsTerminator(Branch(t, f))
  BY DEF Partition, Branch, Instr, Terminators, IsTerminator
<1>2. Partition(fs, S \ {b}) /\ Len(fs) = Len(bs)  BY <1>1, FinishPartition
<1>3. /\ Partition(LinkBlocks(fs, e, t), S \ {b})
      /\ Len(LinkBlocks(fs, e, t)) = Len(bs)
  BY <1>2, LinkPartition
<1> HIDE DEF fs
<1>4. QED  BY <1>3, LinkPartition DEF BranchTo, fs

(* A Ret seals the block it is put in. *)
LEMMA RetPartition ==
  ASSUME NEW bs, NEW S, Partition(bs, S), NEW b \in S
  PROVE  /\ Partition(FinishBlock(bs, b, Ret), S \ {b})
         /\ Len(FinishBlock(bs, b, Ret)) = Len(bs)
<1>1. Ret \in Instr /\ IsTerminator(Ret)
  BY DEF Ret, Op, Instr, Terminators, NoBlock, IsTerminator
<1>2. QED  BY <1>1, FinishPartition

(* The same, naming the blocks S that stay open. *)
LEMMA RetLeaves ==
  ASSUME NEW bs, NEW S, NEW b, b \notin S, Partition(bs, {b} \cup S)
  PROVE  /\ Partition(FinishBlock(bs, b, Ret), S)
         /\ Len(FinishBlock(bs, b, Ret)) = Len(bs)
<1> DEFINE T == {b} \cup S
<1>1. b \in T /\ T \ {b} = S /\ Partition(bs, T)  OBVIOUS
<1> HIDE DEF T
<1>2. /\ Partition(FinishBlock(bs, b, Ret), T \ {b})
      /\ Len(FinishBlock(bs, b, Ret)) = Len(bs)
  BY <1>1, RetPartition
<1>3. QED  BY <1>1, <1>2

(* A jump leaves the blocks S other than the current one open. *)
LEMMA JumpLeaves ==
  ASSUME NEW bs, NEW S, NEW b, b \notin S, Partition(bs, {b} \cup S),
         NEW to \in 1 .. Len(bs)
  PROVE  Partition(JumpTo(bs, b, to), S) /\ Len(JumpTo(bs, b, to)) = Len(bs)
<1> DEFINE T == {b} \cup S
<1>1. b \in T /\ T \ {b} = S /\ Partition(bs, T)  OBVIOUS
<1> HIDE DEF T
<1>2. Partition(JumpTo(bs, b, to), T \ {b}) /\ Len(JumpTo(bs, b, to)) = Len(bs)
  BY <1>1, JumpPartition
<1>3. QED  BY <1>1, <1>2

(* A branch leaves the blocks S other than the current one open. *)
LEMMA BranchLeaves ==
  ASSUME NEW bs, NEW S, NEW b, b \notin S, Partition(bs, {b} \cup S),
         NEW e \in 1 .. Len(bs), NEW t \in 1 .. Len(bs), NEW f \in 1 .. Len(bs)
  PROVE  /\ Partition(BranchTo(bs, b, e, t, f), S)
         /\ Len(BranchTo(bs, b, e, t, f)) = Len(bs)
<1> DEFINE T == {b} \cup S
<1>1. b \in T /\ T \ {b} = S /\ Partition(bs, T)  OBVIOUS
<1> HIDE DEF T
<1>2. /\ Partition(BranchTo(bs, b, e, t, f), T \ {b})
      /\ Len(BranchTo(bs, b, e, t, f)) = Len(bs)
  BY <1>1, BranchPartition
<1>3. QED  BY <1>1, <1>2

-----------------------------------------------------------------------------
(* The stack of visitors *)

BodyPoints == {"Body", "BodyValue"}

HoldsBody  == {"WhileCond", "ForTo", "CaseLabel"}
HoldsAfter == {"Then", "CaseLabel", "CaseBody"}
HasHeader  == {"WhileCond", "WhileBody", "RepeatBody", "RepeatCond",
               "ForTo", "ForBody", "ForBy"}
HoldsExit  == HasHeader \cup {"IfCond", "Then", "Else",
                              "CaseNext", "CaseLabel", "CaseBody"}

(* Where a visitor stands fixes which blocks of 1 .. n it holds. *)
FrameOK(f, n) ==
  /\ f \in Frame
  /\ Pending(f) \subseteq 1 .. n
  /\ f.body # NoBlock <=> f.at \in HoldsBody
  /\ f.after # NoBlock <=> f.at \in HoldsAfter
  /\ f.exit # NoBlock <=> f.at \in HoldsExit
  /\ f.at \in HasHeader => f.header \in 1 .. n
  /\ f.body # NoBlock => f.body # f.after /\ f.body # f.exit
  /\ f.after # NoBlock => f.after # f.exit

(* The visitors hold disjoint sets of blocks, none of them the current     *)
(* block c, and only the outermost one is the visitor of the body.         *)
StackOK(st, c, n) ==
  /\ st \in Seq(Frame)
  /\ \A i \in 1 .. Len(st) :
       /\ FrameOK(st[i], n)
       /\ st[i].at \in BodyPoints <=> i = 1
       /\ c \notin Pending(st[i])
  /\ \A i, j \in 1 .. Len(st) : i # j => Pending(st[i]) \cap Pending(st[j]) = {}

Held(st) == UNION {Pending(st[i]) : i \in 1 .. Len(st)}

OpenSet(st, c) == IF st = <<>> THEN {} ELSE {c} \cup Held(st)

IInv ==
  /\ TypeOK
  /\ StackOK(stack, cur, Len(blocks))
  /\ Partition(blocks, OpenSet(stack, cur))

(* A frame keeps its blocks when more are created. *)
LEMMA FrameGrows ==
  ASSUME NEW n \in Nat, NEW m \in Nat, n <= m, NEW f, FrameOK(f, n)
  PROVE  FrameOK(f, m)
BY DEF FrameOK

(* Entering a statement: its frame holds new blocks only. *)
LEMMA PushOK ==
  ASSUME NEW st, NEW c, NEW n \in Nat, NEW m \in Nat, n <= m,
         StackOK(st, c, n), st # <<>>,
         NEW f, FrameOK(f, m), f.at \notin BodyPoints,
         Pending(f) \subseteq (n + 1) .. m,
         NEW d \in {c} \cup ((n + 1) .. m), d \notin Pending(f)
  PROVE  /\ StackOK(Append(st, f), d, m)
         /\ Held(Append(st, f)) = Held(st) \cup Pending(f)
         /\ Append(st, f) # <<>>
<1> DEFINE new == Append(st, f)
<1>1. st \in Seq(Frame) /\ f \in Frame /\ Len(st) \in Nat  BY DEF StackOK, FrameOK
<1>2. /\ new \in Seq(Frame)
      /\ Len(new) = Len(st) + 1
      /\ \A i \in 1 .. Len(st) : new[i] = st[i]
      /\ new[Len(st) + 1] = f
      /\ new # <<>>
  BY <1>1
<1>3. Len(st) > 0  BY <1>1
<1> HIDE DEF new
<1>4. \A i \in 1 .. Len(st) : /\ FrameOK(st[i], n) /\ FrameOK(st[i], m)
                              /\ Pending(st[i]) \subseteq 1 .. n
                              /\ d \notin Pending(st[i])
  BY FrameGrows DEF StackOK, FrameOK
<1>5. ASSUME NEW i \in 1 .. Len(new)
      PROVE  /\ FrameOK(new[i], m)
             /\ new[i].at \in BodyPoints <=> i = 1
             /\ d \notin Pending(new[i])
  <2>1. CASE i = Len(st) + 1  BY <2>1, <1>2, <1>3
  <2>2. CASE i # Len(st) + 1
    <3>1. i \in 1 .. Len(st)  BY <2>2, <1>1, <1>2
    <3>2. QED  BY <3>1, <1>2, <1>4 DEF StackOK
  <2>3. QED  BY <2>1, <2>2
<1>6. ASSUME NEW i \in 1 .. Len(new), NEW j \in 1 .. Len(new), i # j
      PROVE  Pending(new[i]) \cap Pending(new[j]) = {}
  <2>1. CASE i = Len(st) + 1
    <3>1. j \in 1 .. Len(st)  BY <1>6, <2>1, <1>1, <1>2
    <3>2. QED  BY <3>1, <2>1, <1>2, <1>4
  <2>2. CASE j = Len(st) + 1
    <3>1. i \in 1 .. Len(st)  BY <1>6, <2>2, <1>1, <1>2
    <3>2. QED  BY <3>1, <2>2, <1>2, <1>4
  <2>3. CASE i # Len(st) + 1 /\ j # Len(st) + 1
    <3>1. i \in 1 .. Len(st) /\ j \in 1 .. Len(st)  BY <2>3, <1>1, <1>2
    <3>2. QED  BY <3>1, <1>2, <1>6 DEF StackOK
  <2>4. QED  BY <2>1, <2>2, <2>3
<1>7. Held(new) = Held(st) \cup Pending(f)
  <2>1. \A i : i \in 1 .. Len(new) <=> i \in 1 .. Len(st) \/ i = Len(st) + 1
    BY <1>1, <1>2
  <2>2. QED  BY <2>1, <1>2 DEF Held
<1>8. QED  BY <1>2, <1>5, <1>6, <1>7 DEF StackOK, new

Replaced(st, f) == [st EXCEPT ![Len(st)] = f]

(* Moving on inside a statement: its frame gives up some of its blocks and  *)
(* may take new ones.                                                       *)
LEMMA ReplaceOK ==
  ASSUME NEW st, NEW c, NEW n \in Nat, NEW m \in Nat, n <= m,
         StackOK(st, c, n), st # <<>>,
         NEW f, FrameOK(f, m),
         f.at \in BodyPoints <=> st[Len(st)].at \in BodyPoints,
         Pending(f) \subseteq Pending(st[Len(st)]) \cup ((n + 1) .. m),
         NEW d \in {c} \cup Pending(st[Len(st)]) \cup ((n + 1) .. m), d \notin Pending(f)
  PROVE  /\ StackOK(Replaced(st, f), d, m)
         /\ Held(Replaced(st, f))
              = (Held(st) \ Pending(st[Len(st)])) \cup Pending(f)
         /\ Replaced(st, f) # <<>>
<1> DEFINE new == Replaced(st, f)
           l   == Len(st)
<1>1. st \in Seq(Frame) /\ f \in Frame /\ l \in Nat  BY DEF StackOK, FrameOK
<1>2. l > 0  BY <1>1
<1>3. /\ new \in Seq(Frame)
      /\ Len(new) = l
      /\ \A i \in 1 .. l : i # l => new[i] = st[i]
      /\ new[l] = f
      /\ new # <<>>
  BY <1>1, <1>2 DEF Replaced
<1>4. \A i \in 1 .. l : /\ FrameOK(st[i], n) /\ FrameOK(st[i], m)
                        /\ Pending(st[i]) \subseteq 1 .. n
                        /\ c \notin Pending(st[i])
  BY FrameGrows DEF StackOK, FrameOK
<1>5. \A i \in 1 .. l : i # l => Pending(st[i]) \cap Pending(st[l]) = {}
  BY <1>2, <1>1 DEF StackOK
<1>6. l \in 1 .. l  BY <1>1, <1>2
<1> HIDE DEF new
<1>7. ASSUME NEW i \in 1 .. Len(new)
      PROVE  /\ FrameOK(new[i], m)
             /\ new[i].at \in BodyPoints <=> i = 1
             /\ d \notin Pending(new[i])
  <2>1. CASE i = l
    <3>1. f.at \in BodyPoints <=> l = 1  BY <1>6 DEF StackOK
    <3>2. QED  BY <2>1, <3>1, <1>3
  <2>2. CASE i # l
    <3>1. i \in 1 .. l  BY <1>3
    <3>2. d \notin Pending(st[i])
      <4>1. d = c \/ d \in Pending(st[l]) \/ d \in (n + 1) .. m  OBVIOUS
      <4>2. Pending(st[i]) \cap Pending(st[l]) = {}  BY <3>1, <2>2, <1>5
      <4>3. QED  BY <3>1, <4>1, <4>2, <1>4
    <3>3. QED  BY <3>1, <3>2, <2>2, <1>3, <1>4 DEF StackOK
  <2>3. QED  BY <2>1, <2>2
<1>8. \A i \in 1 .. l : i # l => Pending(st[i]) \cap Pending(f) = {}
  BY <1>4, <1>5
<1>9. ASSUME NEW i \in 1 .. Len(new), NEW j \in 1 .. Len(new), i # j
      PROVE  Pending(new[i]) \cap Pending(new[j]) = {}
  <2>1. CASE i = l  BY <1>9, <2>1, <1>3, <1>8
  <2>2. CASE j = l  BY <1>9, <2>2, <1>3, <1>8
  <2>3. CASE i # l /\ j # l  BY <1>9, <2>3, <1>3 DEF StackOK
  <2>4. QED  BY <2>1, <2>2, <2>3
<1>10. Held(new) = (Held(st) \ Pending(st[l])) \cup Pending(f)
  <2>1. ASSUME NEW x \in Held(new)
        PROVE  x \in (Held(st) \ Pending(st[l])) \cup Pending(f)
    <3>1. PICK i \in 1 .. l : x \in Pending(new[i])  BY <1>3 DEF Held
    <3>2. CASE i = l  BY <3>1, <3>2, <1>3
    <3>3. CASE i # l
      <4>1. x \in Pending(st[i]) /\ x \notin Pending(st[l])  BY <3>1, <3>3, <1>3, <1>5
      <4>2. QED  BY <4>1 DEF Held
    <3>4. QED  BY <3>2, <3>3
  <2>2. ASSUME NEW x \in Held(st), x \notin Pending(st[l])
        PROVE  x \in Held(new)
    <3>1. PICK i \in 1 .. l : x \in Pending(st[i])  BY DEF Held
    <3>2. i # l  BY <2>2, <3>1
    <3>3. x \in Pending(new[i])  BY <3>1, <3>2, <1>3
    <3>4. QED  BY <3>3, <1>3 DEF Held
  <2>3. ASSUME NEW x \in Pending(f)  PROVE x \in Held(new)
    BY <1>3, <1>6 DEF Held
  <2>4. QED  BY <2>1, <2>2, <2>3
<1>11. QED  BY <1>3, <1>7, <1>9, <1>10 DEF StackOK, new

(* Leaving a statement: its frame goes, and with it the blocks it held. *)
LEMMA PopOK ==
  ASSUME NEW st, NEW c, NEW n \in Nat, StackOK(st, c, n), st # <<>>,
         st[Len(st)].at \notin BodyPoints, NEW m \in Nat, n <= m,
         NEW d \in {c} \cup Pending(st[Len(st)]) \cup ((n + 1) .. m)
  PROVE  /\ StackOK(SubSeq(st, 1, Len(st) - 1), d, m)
         /\ Held(SubSeq(st, 1, Len(st) - 1)) = Held(st) \ Pending(st[Len(st)])
         /\ SubSeq(st, 1, Len(st) - 1) # <<>>
<1> DEFINE new == SubSeq(st, 1, Len(st) - 1)
           l   == Len(st)
<1>1. st \in Seq(Frame) /\ l \in Nat  BY DEF StackOK
<1>2. l > 0  BY <1>1
<1>3. l \in 1 .. l /\ l # 1
  <2>1. l \in 1 .. l  BY <1>1, <1>2
  <2>2. QED  BY <2>1 DEF StackOK
<1>4. /\ new \in Seq(Frame)
      /\ Len(new) = l - 1
      /\ \A i \in 1 .. l - 1 : new[i] = st[i]
      /\ new # <<>>
  <2>1. l >= 2
    <3>1. \A k \in Nat : k > 0 /\ k # 1 => k >= 2  OBVIOUS
    <3> HIDE DEF l
    <3>2. QED  BY <1>1, <1>2, <1>3, <3>1
  <2>2. \A i \in 1 .. l - 1 : st[i] \in Frame  BY <1>1
  <2>3. 1 \in Int /\ l - 1 \in Int /\ 1 <= l - 1  BY <1>1, <2>1
  <2>4. /\ new \in Seq(Frame)
        /\ Len(new) = (l - 1) - 1 + 1
        /\ \A i \in 1 .. (l - 1) - 1 + 1 : new[i] = st[1 + i - 1]
    BY <2>2, <2>3, SubSeqProperties
  <2>5. Len(new) = l - 1 /\ Len(new) > 0  BY <1>1, <2>1, <2>4
  <2>6. new # <<>>
    <3> HIDE DEF new
    <3>1. QED  BY <2>4, <2>5, EmptySeq
  <2>7. ASSUME NEW i \in 1 .. l - 1  PROVE new[i] = st[i]
    <3>1. i \in 1 .. (l - 1) - 1 + 1 /\ 1 + i - 1 = i  BY <1>1
    <3>2. QED  BY <3>1, <2>4
  <2>8. QED  BY <2>4, <2>5, <2>6, <2>7
<1> HIDE DEF new
<1>5. \A i \in 1 .. l - 1 : i \in 1 .. l /\ i # l  BY <1>1
<1>6. \A i \in 1 .. l - 1 : Pending(st[i]) \cap Pending(st[l]) = {}
  BY <1>3, <1>5 DEF StackOK
<1>7. ASSUME NEW i \in 1 .. Len(new)
      PROVE  /\ FrameOK(new[i], m)
             /\ new[i].at \in BodyPoints <=> i = 1
             /\ d \notin Pending(new[i])
  <2>1. i \in 1 .. l - 1 /\ i \in 1 .. l /\ new[i] = st[i]  BY <1>4, <1>5
  <2>2. FrameOK(st[i], n) /\ FrameOK(st[i], m) /\ Pending(st[i]) \subseteq 1 .. n
    BY <2>1, FrameGrows DEF StackOK, FrameOK
  <2>3. d = c \/ d \in Pending(st[l]) \/ d \in (n + 1) .. m  OBVIOUS
  <2>4. d \notin Pending(st[i])  BY <2>1, <2>2, <2>3, <1>6 DEF StackOK
  <2>5. QED  BY <2>1, <2>2, <2>4 DEF StackOK
<1>8. \A i, j \in 1 .. Len(new) : i # j => Pending(new[i]) \cap Pending(new[j]) = {}
  BY <1>4, <1>5 DEF StackOK
<1>9. Held(new) = Held(st) \ Pending(st[l])
  <2>1. \A i : i \in 1 .. l <=> i \in 1 .. l - 1 \/ i = l  BY <1>1, <1>2
  <2>2. QED  BY <2>1, <1>4, <1>6 DEF Held
<1>10. QED  BY <1>4, <1>7, <1>8, <1>9 DEF StackOK, new

-----------------------------------------------------------------------------
(* Steps of the builder *)

(* What the invariant says while a visitor is active. *)
LEMMA Active ==
  ASSUME IInv, ~Done
  PROVE  /\ Len(blocks) \in Nat
         /\ cur \in 1 .. Len(blocks)
         /\ cur \notin Held(stack)
         /\ Held(stack) \subseteq 1 .. Len(blocks)
         /\ Partition(blocks, {cur} \cup Held(stack))
         /\ stack \in Seq(Frame)
         /\ stack # <<>>
         /\ Top \in Frame
         /\ FrameOK(Top, Len(blocks))
         /\ Pending(Top) \subseteq Held(stack)
         /\ live \in BOOLEAN
<1>1. /\ Len(blocks) \in Nat /\ cur \in 1 .. Len(blocks)
      /\ stack \in Seq(Frame) /\ stack # <<>> /\ live \in BOOLEAN
  BY DEF IInv, TypeOK, Done
<1>2. Len(stack) \in 1 .. Len(stack)  BY <1>1
<1>3. Top \in Frame /\ FrameOK(Top, Len(blocks))
  BY <1>1, <1>2 DEF IInv, StackOK, Top
<1>4. Pending(Top) \subseteq Held(stack)  BY <1>2 DEF Held, Top
<1>5. cur \notin Held(stack) /\ Held(stack) \subseteq 1 .. Len(blocks)
  BY DEF IInv, StackOK, Held, FrameOK
<1>6. Partition(blocks, {cur} \cup Held(stack))
  BY <1>1 DEF IInv, OpenSet
<1>7. QED  BY <1>1, <1>3, <1>4, <1>5, <1>6

(* The blocks a visitor creates are open, and none of them is current. *)
LEMMA Creates ==
  ASSUME IInv, ~Done
  PROVE  /\ Partition(Create1, {cur} \cup (Held(stack) \cup {Next1}))
         /\ Partition(Create2, {cur} \cup (Held(stack) \cup {Next1, Next2}))
         /\ Partition(Create3, {cur} \cup (Held(stack) \cup {Next1, Next2, Next3}))
         /\ Len(Create1) = Next1 /\ Len(Create2) = Next2 /\ Len(Create3) = Next3
         /\ cur \notin Held(stack) \cup {Next1, Next2, Next3}
<1> DEFINE S0 == {cur} \cup Held(stack)
           S1 == S0 \cup {Next1}
           S2 == S1 \cup {Next2}
           S3 == S2 \cup {Next3}
<1>1. Partition(blocks, S0) /\ Len(blocks) \in Nat  BY Active
<1> HIDE DEF S0
<1>2. Partition(Create1, S1) /\ Len(Create1) = Next1
  BY <1>1, CreatePartition DEF Create1, Next1
<1> HIDE DEF S1
<1>3. Next2 = Len(Create1) + 1 /\ Next3 = Next2 + 1
  BY <1>1, <1>2 DEF Next1, Next2, Next3
<1>4. Partition(Create2, S2) /\ Len(Create2) = Next2
  BY <1>2, <1>3, CreatePartition DEF Create2
<1> HIDE DEF S2
<1>5. Partition(Create3, S3) /\ Len(Create3) = Next3
  BY <1>3, <1>4, CreatePartition DEF Create3
<1>6. /\ S1 = {cur} \cup (Held(stack) \cup {Next1})
      /\ S2 = {cur} \cup (Held(stack) \cup {Next1, Next2})
      /\ S3 = {cur} \cup (Held(stack) \cup {Next1, Next2, Next3})
  BY DEF S0, S1, S2, S3
<1>7. cur \notin Held(stack) \cup {Next1, Next2, Next3}
  BY Active DEF Next1, Next2, Next3
<1>8. QED  BY <1>2, <1>4, <1>5, <1>6, <1>7

(* The three moves on the stack, from a state that satisfies the invariant. *)
LEMMA Pushes ==
  ASSUME IInv, ~Done, NEW m \in Nat, Len(blocks) <= m,
         NEW f, FrameOK(f, m), f.at \notin BodyPoints,
         Pending(f) \subseteq (Len(blocks) + 1) .. m, Push(f),
         cur' \in {cur} \cup ((Len(blocks) + 1) .. m), cur' \notin Pending(f)
  PROVE  /\ StackOK(stack', cur', m)
         /\ Held(stack') = Held(stack) \cup Pending(f)
         /\ stack' # <<>>
<1> DEFINE n == Len(blocks)
           d == cur'
<1>1. n \in Nat /\ StackOK(stack, cur, n) /\ stack # <<>>
  BY Active DEF IInv
<1>2. d \in {cur} \cup ((n + 1) .. m) /\ d \notin Pending(f)
      /\ n <= m /\ Pending(f) \subseteq (n + 1) .. m
  OBVIOUS
<1> HIDE DEF n, d
<1>3. /\ StackOK(Append(stack, f), d, m)
      /\ Held(Append(stack, f)) = Held(stack) \cup Pending(f)
      /\ Append(stack, f) # <<>>
  BY <1>1, <1>2, PushOK
<1>4. stack' = Append(stack, f)  BY DEF Push
<1>5. QED  BY <1>3, <1>4 DEF d

(* A visitor that moves on holds the blocks of its new frame. *)
LEMMA Replaces ==
  ASSUME IInv, ~Done, NEW m \in Nat, Len(blocks) <= m,
         NEW f, FrameOK(f, m), f.at \in BodyPoints <=> Top.at \in BodyPoints,
         Pending(f) \subseteq Pending(Top) \cup ((Len(blocks) + 1) .. m), Replace(f),
         cur' \in {cur} \cup Pending(Top) \cup ((Len(blocks) + 1) .. m),
         cur' \notin Pending(f)
  PROVE  /\ StackOK(stack', cur', m)
         /\ Held(stack') = (Held(stack) \ Pending(Top)) \cup Pending(f)
         /\ stack' # <<>>
<1> DEFINE n == Len(blocks)
           d == cur'
<1>1. n \in Nat /\ StackOK(stack, cur, n) /\ stack # <<>>
  BY Active DEF IInv
<1>2. d \in {cur} \cup Pending(stack[Len(stack)]) \cup ((n + 1) .. m)
      /\ d \notin Pending(f) /\ n <= m
      /\ Pending(f) \subseteq Pending(stack[Len(stack)]) \cup ((n + 1) .. m)
      /\ (f.at \in BodyPoints <=> stack[Len(stack)].at \in BodyPoints)
  BY DEF Top
<1> HIDE DEF n, d
<1>3. /\ StackOK(Replaced(stack, f), d, m)
      /\ Held(Replaced(stack, f))
           = (Held(stack) \ Pending(stack[Len(stack)])) \cup Pending(f)
      /\ Replaced(stack, f) # <<>>
  BY <1>1, <1>2, ReplaceOK
<1>4. stack' = Replaced(stack, f)  BY DEF Replace, Replaced
<1>5. QED  BY <1>3, <1>4 DEF d, Top

(* A visitor that returns holds nothing any more. *)
LEMMA Pops ==
  ASSUME IInv, ~Done, NEW m \in Nat, Len(blocks) <= m,
         Top.at \notin BodyPoints, Pop,
         cur' \in {cur} \cup Pending(Top) \cup ((Len(blocks) + 1) .. m)
  PROVE  /\ StackOK(stack', cur', m)
         /\ Held(stack') = Held(stack) \ Pending(Top)
         /\ stack' # <<>>
<1> DEFINE n == Len(blocks)
           d == cur'
<1>1. n \in Nat /\ StackOK(stack, cur, n) /\ stack # <<>>
  BY Active DEF IInv
<1>2. d \in {cur} \cup Pending(stack[Len(stack)]) \cup ((n + 1) .. m)
      /\ n <= m /\ stack[Len(stack)].at \notin BodyPoints
  BY DEF Top
<1> HIDE DEF n, d
<1>3. /\ StackOK(SubSeq(stack, 1, Len(stack) - 1), d, m)
      /\ Held(SubSeq(stack, 1, Len(stack) - 1))
           = Held(stack) \ Pending(stack[Len(stack)])
      /\ SubSeq(stack, 1, Len(stack) - 1) # <<>>
  BY <1>1, <1>2, PopOK
<1>4. stack' = SubSeq(stack, 1, Len(stack) - 1)  BY DEF Pop
<1>5. QED  BY <1>3, <1>4 DEF d, Top

(* To re-establish the invariant it is enough to know the stack, the open  *)
(* blocks and the bookkeeping after the step.                              *)
LEMMA Establish ==
  ASSUME IInv,
         StackOK(stack', cur', Len(blocks')), stack' # <<>>,
         Partition(blocks', {cur'} \cup Held(stack')),
         Len(blocks) <= Len(blocks'),
         live' \in BOOLEAN,
         split' \subseteq 1 .. Len(blocks'),
         size' \in 0 .. MaxNodes
  PROVE  IInv'
<1>1. blocks' \in Seq(Block) /\ cur' \in 1 .. Len(blocks')  BY DEF Partition
<1>2. stack' \in Seq(Frame)  BY DEF StackOK
<1>3. Partition(blocks', OpenSet(stack', cur'))  BY DEF OpenSet
<1>4. QED  BY <1>1, <1>2, <1>3 DEF IInv, TypeOK

(* Numbers of the blocks a step may create. *)
LEMMA Numbers ==
  ASSUME IInv, ~Done
  PROVE  /\ Len(blocks) \in Nat /\ Len(blocks) > 0
         /\ Next1 \in Nat /\ Next2 \in Nat /\ Next3 \in Nat
         /\ Next1 = Len(blocks) + 1 /\ Next2 = Len(blocks) + 2 /\ Next3 = Len(blocks) + 3
         /\ \A b \in {cur} \cup Held(stack) : b \in 1 .. Len(blocks)
BY Active DEF Next1, Next2, Next3

(* A step adds at most one node to the tree, within the bound. *)
LEMMA Sizes ==
  ASSUME IInv, Visit \/ SameNode
  PROVE  size' \in 0 .. MaxNodes
BY MaxNodesAssumption DEF IInv, TypeOK, Visit, SameNode

(* The split loop headers still are blocks when more are created. *)
LEMMA Splits ==
  ASSUME IInv, UNCHANGED split, NEW m \in Nat, Len(blocks) <= m
  PROVE  split' \subseteq 1 .. m
<1>1. split \subseteq 1 .. Len(blocks) /\ Len(blocks) \in Nat  BY DEF IInv, TypeOK
<1>2. QED  BY <1>1

(* The invariant holds again after entering a statement, ...                *)
LEMMA Enters ==
  ASSUME IInv, ~Done, NEW m \in Nat, Len(blocks) <= m,
         NEW f, FrameOK(f, m), f.at \notin BodyPoints,
         Pending(f) \subseteq (Len(blocks) + 1) .. m, Push(f),
         cur' \in {cur} \cup ((Len(blocks) + 1) .. m), cur' \notin Pending(f),
         Partition(blocks', {cur'} \cup (Held(stack) \cup Pending(f))), Len(blocks') = m,
         live' \in BOOLEAN, Visit \/ SameNode, UNCHANGED split
  PROVE  IInv'
<1>1. /\ StackOK(stack', cur', m) /\ stack' # <<>>
      /\ Held(stack') = Held(stack) \cup Pending(f)
  BY Pushes
<1>2. QED  BY <1>1, Establish, Sizes, Splits

(* ... after moving on inside one, ...                                      *)
LEMMA Advances ==
  ASSUME IInv, ~Done, NEW m \in Nat, Len(blocks) <= m,
         NEW f, FrameOK(f, m), f.at \in BodyPoints <=> Top.at \in BodyPoints,
         Pending(f) \subseteq Pending(Top) \cup ((Len(blocks) + 1) .. m), Replace(f),
         cur' \in {cur} \cup Pending(Top) \cup ((Len(blocks) + 1) .. m),
         cur' \notin Pending(f),
         Partition(blocks', {cur'} \cup ((Held(stack) \ Pending(Top)) \cup Pending(f))),
         Len(blocks') = m,
         live' \in BOOLEAN, Visit \/ SameNode, UNCHANGED split
  PROVE  IInv'
<1>1. /\ StackOK(stack', cur', m) /\ stack' # <<>>
      /\ Held(stack') = (Held(stack) \ Pending(Top)) \cup Pending(f)
  BY Replaces
<1>2. QED  BY <1>1, Establish, Sizes, Splits

(* ... and after leaving one.                                               *)
LEMMA Leaves ==
  ASSUME IInv, ~Done, NEW m \in Nat, Len(blocks) <= m,
         Top.at \notin BodyPoints, Pop,
         cur' \in {cur} \cup Pending(Top) \cup ((Len(blocks) + 1) .. m),
         Partition(blocks', {cur'} \cup (Held(stack) \ Pending(Top))),
         Len(blocks') = m,
         live' \in BOOLEAN, Visit \/ SameNode, UNCHANGED split
  PROVE  IInv'
<1>1. /\ StackOK(stack', cur', m) /\ stack' # <<>>
      /\ Held(stack') = Held(stack) \ Pending(Top)
  BY Pops
<1>2. QED  BY <1>1, Establish, Sizes, Splits

(* Assignments, calls and RETURN preserve the invariant. *)
LEMMA StepSimple == ASSUME IInv, VisitSimple PROVE IInv'
<1> DEFINE n == Len(blocks)
           H == Held(stack)
<1>1. CASE BeginSimple
  <2> DEFINE f == FrameAt("Operand")
  <2>1. ~Done  BY <1>1 DEF BeginSimple, AtStatement
  <2>2. /\ cur' = cur /\ Push(f) /\ (Visit \/ SameNode)
        /\ UNCHANGED <<live, split>>
    BY <1>1 DEF BeginSimple
  <2>3. Partition(blocks', {cur'} \cup (H \cup {})) /\ Len(blocks') = n
    <3>1. Partition(blocks, {cur} \cup H)
      BY <2>1, Active
    <3>2. blocks' = blocks
      BY <1>1 DEF BeginSimple
    <3>3. {cur'} \cup (H \cup {}) = {cur} \cup H
      BY <2>2
    <3>4. QED  BY <3>1, <3>2, <3>3
  <2>4. /\ f \in Frame /\ f.at = "Operand"
        /\ f.body = NoBlock /\ f.after = NoBlock /\ f.exit = NoBlock
    BY <2>1, Active, Numbers DEF FrameAt, Frame, NoBlock, Points, StatementPoints, ExpressionPoints
  <2> HIDE DEF f
  <2>5. FrameOK(f, n) /\ Pending(f) = {} /\ f.at \notin BodyPoints
    BY <2>1, <2>4, Numbers
    DEF FrameOK, Pending, NoBlock, HoldsBody, HoldsAfter, HoldsExit,
         HasHeader, BodyPoints
  <2>6. /\ n \in Nat /\ n <= n /\ cur' \notin Pending(f) /\ live' \in BOOLEAN
        /\ cur' \in {cur} \cup ((n + 1) .. n) /\ Pending(f) \subseteq (n + 1) .. n
    BY <2>1, <2>2, <2>5, Active, Numbers
  <2>7. QED  BY <2>1, <2>2, <2>3, <2>5, <2>6, Enters
<1>2. CASE EndSimple
  <2>1. ~Done /\ Top.at = "Operand"  BY <1>2 DEF EndSimple, At
  <2>2. /\ Top \in Frame /\ Top.body = NoBlock /\ Top.after = NoBlock
        /\ Top.exit = NoBlock /\ Pending(Top) = {}
        /\ Pending(Top) \subseteq H /\ Top.at \notin BodyPoints
    BY <2>1, Active
    DEF FrameOK, Frame, Pending, NoBlock, HoldsBody, HoldsAfter, HoldsExit,
         HasHeader, BodyPoints
  <2>3. /\ cur' = cur /\ Pop /\ SameNode
        /\ UNCHANGED <<live, split>>
    BY <1>2 DEF EndSimple
  <2>4. Partition(blocks', {cur'} \cup (H \ Pending(Top))) /\ Len(blocks') = n
    <3>1. Partition(blocks, {cur} \cup H)
      BY <2>1, Active
    <3>2. Partition(blocks', {cur} \cup H) /\ Len(blocks') = n
      BY <1>2, <3>1, EmitPartition DEF EndSimple, PlainOps
    <3>3. {cur'} \cup (H \ Pending(Top)) = {cur} \cup H
      BY <2>2, <2>3
    <3>4. QED  BY <3>2, <3>3
  <2>5. /\ n \in Nat /\ n <= n /\ live' \in BOOLEAN
        /\ cur' \in {cur} \cup Pending(Top) \cup ((n + 1) .. n)
    BY <2>1, <2>2, <2>3, Active, Numbers DEF Frame
  <2>6. QED  BY <2>1, <2>2, <2>3, <2>4, <2>5, Leaves
<1>3. CASE BeginReturn
  <2> DEFINE f == FrameAt("ReturnValue")
  <2>1. ~Done  BY <1>3 DEF BeginReturn, AtStatement
  <2>2. /\ cur' = cur /\ Push(f) /\ (Visit \/ SameNode)
        /\ UNCHANGED <<live, split>>
    BY <1>3 DEF BeginReturn
  <2>3. Partition(blocks', {cur'} \cup (H \cup {})) /\ Len(blocks') = n
    <3>1. Partition(blocks, {cur} \cup H)
      BY <2>1, Active
    <3>2. blocks' = blocks
      BY <1>3 DEF BeginReturn
    <3>3. {cur'} \cup (H \cup {}) = {cur} \cup H
      BY <2>2
    <3>4. QED  BY <3>1, <3>2, <3>3
  <2>4. /\ f \in Frame /\ f.at = "ReturnValue"
        /\ f.body = NoBlock /\ f.after = NoBlock /\ f.exit = NoBlock
    BY <2>1, Active, Numbers DEF FrameAt, Frame, NoBlock, Points, StatementPoints, ExpressionPoints
  <2> HIDE DEF f
  <2>5. FrameOK(f, n) /\ Pending(f) = {} /\ f.at \notin BodyPoints
    BY <2>1, <2>4, Numbers
    DEF FrameOK, Pending, NoBlock, HoldsBody, HoldsAfter, HoldsExit,
         HasHeader, BodyPoints
  <2>6. /\ n \in Nat /\ n <= n /\ cur' \notin Pending(f) /\ live' \in BOOLEAN
        /\ cur' \in {cur} \cup ((n + 1) .. n) /\ Pending(f) \subseteq (n + 1) .. n
    BY <2>1, <2>2, <2>5, Active, Numbers
  <2>7. QED  BY <2>1, <2>2, <2>3, <2>5, <2>6, Enters
<1>4. CASE EndReturn
  <2>1. ~Done /\ Top.at = "ReturnValue"  BY <1>4 DEF EndReturn, At
  <2>2. /\ Top \in Frame /\ Top.body = NoBlock /\ Top.after = NoBlock
        /\ Top.exit = NoBlock /\ Pending(Top) = {}
        /\ Pending(Top) \subseteq H /\ Top.at \notin BodyPoints
    BY <2>1, Active
    DEF FrameOK, Frame, Pending, NoBlock, HoldsBody, HoldsAfter, HoldsExit,
         HasHeader, BodyPoints
  <2>3. /\ cur' = Next1 /\ Pop /\ SameNode
        /\ live' \in BOOLEAN /\ UNCHANGED split
    BY <1>4 DEF EndReturn
  <2>4. Partition(blocks', {cur'} \cup (H \ Pending(Top))) /\ Len(blocks') = Next1
    <3>1. Partition(blocks, {cur} \cup H) /\ cur \notin H
      BY <2>1, Active
    <3>2. Partition(FinishBlock(blocks, cur, Ret), H) /\ Len(FinishBlock(blocks, cur, Ret)) = n
      BY <3>1, RetLeaves
    <3>3. Partition(blocks', H \cup {Next1}) /\ Len(blocks') = Next1
      BY <1>4, <3>2, CreatePartition DEF EndReturn, Next1
    <3>4. {cur'} \cup (H \ Pending(Top)) = H \cup {Next1}
      BY <2>2, <2>3
    <3>5. QED  BY <3>3, <3>4
  <2>5. /\ Next1 \in Nat /\ n <= Next1 /\ live' \in BOOLEAN
        /\ cur' \in {cur} \cup Pending(Top) \cup ((n + 1) .. Next1)
    BY <2>1, <2>2, <2>3, Active, Numbers DEF Frame
  <2>6. QED  BY <2>1, <2>2, <2>3, <2>4, <2>5, Leaves
<1>5. QED  BY <1>1, <1>2, <1>3, <1>4 DEF VisitSimple

(* IF preserves the invariant. *)
LEMMA StepIf == ASSUME IInv, VisitIf PROVE IInv'
<1> DEFINE n == Len(blocks)
           H == Held(stack)
<1>1. CASE BeginIf
  <2> DEFINE f == [FrameAt("IfCond") EXCEPT
                   !.exit = Next1]
  <2>1. ~Done  BY <1>1 DEF BeginIf, AtStatement
  <2>2. /\ cur' = cur /\ Push(f) /\ (Visit \/ SameNode)
        /\ UNCHANGED <<live, split>>
    BY <1>1 DEF BeginIf
  <2>3. Partition(blocks', {cur'} \cup (H \cup {Next1})) /\ Len(blocks') = Next1
    <3>1. Partition(Create1, {cur} \cup (H \cup {Next1})) /\ Len(Create1) = Next1
      BY <2>1, Creates
    <3>2. blocks' = Create1
      BY <1>1 DEF BeginIf
    <3>3. QED  BY <2>2, <3>1, <3>2
  <2>4. /\ f \in Frame /\ f.at = "IfCond"
        /\ f.body = NoBlock /\ f.after = NoBlock /\ f.exit = Next1
    BY <2>1, Active, Numbers DEF FrameAt, Frame, NoBlock, Points, StatementPoints, ExpressionPoints
  <2> HIDE DEF f
  <2>5. FrameOK(f, Next1) /\ Pending(f) = {Next1} /\ f.at \notin BodyPoints
    BY <2>1, <2>4, Numbers
    DEF FrameOK, Pending, NoBlock, HoldsBody, HoldsAfter, HoldsExit,
         HasHeader, BodyPoints
  <2>6. /\ Next1 \in Nat /\ n <= Next1 /\ cur' \notin Pending(f) /\ live' \in BOOLEAN
        /\ cur' \in {cur} \cup ((n + 1) .. Next1) /\ Pending(f) \subseteq (n + 1) .. Next1
    BY <2>1, <2>2, <2>5, Active, Numbers
  <2>7. QED  BY <2>1, <2>2, <2>3, <2>5, <2>6, Enters
<1>2. CASE IfBranch
  <2> DEFINE f == [Top EXCEPT !.at = "Then", !.after = Next2]
  <2>1. ~Done /\ Top.at = "IfCond"  BY <1>2 DEF IfBranch, At
  <2>2. /\ Top \in Frame /\ Top.body = NoBlock /\ Top.after = NoBlock
        /\ Top.exit \in 1 .. n /\ Pending(Top) = {Top.exit}
        /\ Pending(Top) \subseteq H /\ Top.at \notin BodyPoints
    BY <2>1, Active
    DEF FrameOK, Frame, Pending, NoBlock, HoldsBody, HoldsAfter, HoldsExit,
         HasHeader, BodyPoints
  <2>3. /\ cur' = Next1 /\ Replace(f) /\ (Visit \/ SameNode)
        /\ UNCHANGED <<live, split>>
    BY <1>2 DEF IfBranch
  <2>4. Partition(blocks', {cur'} \cup ((H \ Pending(Top)) \cup {Next2, Top.exit})) /\ Len(blocks') = Next2
    <3>1. /\ Partition(Create2, {cur} \cup (H \cup {Next1, Next2}))
          /\ cur \notin H \cup {Next1, Next2} /\ Len(Create2) = Next2
      BY <2>1, Creates
    <3>2. /\ cur \in 1 .. Len(Create2) /\ Next1 \in 1 .. Len(Create2)
          /\ Next2 \in 1 .. Len(Create2)
      BY <2>1, <3>1, Active, Numbers
    <3>3. blocks' = BranchTo(Create2, cur, cur, Next1, Next2)
      BY <1>2 DEF IfBranch
    <3>4. Partition(blocks', H \cup {Next1, Next2}) /\ Len(blocks') = Next2
      BY <3>1, <3>2, <3>3, BranchLeaves
    <3>5. H \cup {Next1, Next2}
           = {cur'} \cup ((H \ Pending(Top)) \cup {Next2, Top.exit})
      BY <2>2, <2>3
    <3>6. QED  BY <3>4, <3>5
  <2>5. /\ f \in Frame /\ f.at = "Then"
        /\ f.body = NoBlock /\ f.after = Next2 /\ f.exit = Top.exit
    BY <2>1, <2>2, Active, Numbers DEF FrameAt, Frame, NoBlock, Points, StatementPoints, ExpressionPoints
  <2> HIDE DEF f
  <2>6. FrameOK(f, Next2) /\ Pending(f) = {Next2, Top.exit} /\ f.at \notin BodyPoints
    BY <2>1, <2>2, <2>5, Numbers
    DEF FrameOK, Pending, NoBlock, HoldsBody, HoldsAfter, HoldsExit,
         HasHeader, BodyPoints
  <2>7. /\ Next2 \in Nat /\ n <= Next2 /\ cur' \notin Pending(f) /\ live' \in BOOLEAN
        /\ cur' \in {cur} \cup Pending(Top) \cup ((n + 1) .. Next2)
        /\ Pending(f) \subseteq Pending(Top) \cup ((n + 1) .. Next2)
    BY SMTT(60), <2>1, <2>2, <2>3, <2>6, Active, Numbers DEF Frame
  <2>8. QED  BY <2>1, <2>2, <2>3, <2>4, <2>6, <2>7, Advances
<1>3. ASSUME NEW next \in {"IfCond", "Else"}, EndThen(next)
      PROVE  IInv'
  <2> DEFINE f == [Top EXCEPT !.at = next, !.after = NoBlock, !.leaves = @ \/ live]
  <2>1. ~Done /\ Top.at = "Then"  BY <1>3 DEF EndThen, At
  <2>2. /\ Top \in Frame /\ Top.body = NoBlock /\ Top.after \in 1 .. n
        /\ Top.exit \in 1 .. n /\ Top.after # Top.exit
        /\ Pending(Top) = {Top.after, Top.exit}
        /\ Pending(Top) \subseteq H /\ Top.at \notin BodyPoints
    BY <2>1, Active
    DEF FrameOK, Frame, Pending, NoBlock, HoldsBody, HoldsAfter, HoldsExit,
         HasHeader, BodyPoints
  <2>3. /\ cur' = Top.after /\ Replace(f) /\ (Visit \/ SameNode)
        /\ live' = Top.entered /\ UNCHANGED split
    BY <1>3 DEF EndThen
  <2>4. Partition(blocks', {cur'} \cup ((H \ Pending(Top)) \cup {Top.exit})) /\ Len(blocks') = n
    <3>1. Partition(blocks, {cur} \cup H) /\ cur \notin H
      BY <2>1, Active
    <3>2. blocks' = JumpTo(blocks, cur, Top.exit)
      BY <1>3 DEF EndThen
    <3>3. Partition(blocks', H) /\ Len(blocks') = n
      BY <2>2, <3>1, <3>2, JumpLeaves
    <3>4. H = {cur'} \cup ((H \ Pending(Top)) \cup {Top.exit})
      BY <2>2, <2>3
    <3>5. QED  BY <3>3, <3>4
  <2>5. /\ f \in Frame /\ f.at = next
        /\ f.body = NoBlock /\ f.after = NoBlock /\ f.exit = Top.exit
    BY <2>1, <2>2, Active, Numbers DEF FrameAt, Frame, NoBlock, Points, StatementPoints, ExpressionPoints
  <2> HIDE DEF f
  <2>6. FrameOK(f, n) /\ Pending(f) = {Top.exit} /\ f.at \notin BodyPoints
    BY <2>1, <2>2, <2>5, Numbers
    DEF FrameOK, Pending, NoBlock, HoldsBody, HoldsAfter, HoldsExit,
         HasHeader, BodyPoints
  <2>7. /\ n \in Nat /\ n <= n /\ cur' \notin Pending(f) /\ live' \in BOOLEAN
        /\ cur' \in {cur} \cup Pending(Top) \cup ((n + 1) .. n)
        /\ Pending(f) \subseteq Pending(Top) \cup ((n + 1) .. n)
    BY <2>1, <2>2, <2>3, <2>6, Active, Numbers DEF Frame
  <2>8. QED  BY <2>1, <2>2, <2>3, <2>4, <2>6, <2>7, Advances
<1>4. CASE EndIf
  <2>1. ~Done /\ Top.at = "Else"  BY <1>4 DEF EndIf, At
  <2>2. /\ Top \in Frame /\ Top.body = NoBlock /\ Top.after = NoBlock
        /\ Top.exit \in 1 .. n /\ Pending(Top) = {Top.exit}
        /\ Pending(Top) \subseteq H /\ Top.at \notin BodyPoints
    BY <2>1, Active
    DEF FrameOK, Frame, Pending, NoBlock, HoldsBody, HoldsAfter, HoldsExit,
         HasHeader, BodyPoints
  <2>3. /\ cur' = Top.exit /\ Pop /\ SameNode
        /\ live' \in BOOLEAN /\ UNCHANGED split
    BY <1>4 DEF EndIf
  <2>4. Partition(blocks', {cur'} \cup (H \ Pending(Top))) /\ Len(blocks') = n
    <3>1. Partition(blocks, {cur} \cup H) /\ cur \notin H
      BY <2>1, Active
    <3>2. blocks' = JumpTo(blocks, cur, Top.exit)
      BY <1>4 DEF EndIf
    <3>3. Partition(blocks', H) /\ Len(blocks') = n
      BY <2>2, <3>1, <3>2, JumpLeaves
    <3>4. H = {cur'} \cup (H \ Pending(Top))
      BY <2>2, <2>3
    <3>5. QED  BY <3>3, <3>4
  <2>5. /\ n \in Nat /\ n <= n /\ live' \in BOOLEAN
        /\ cur' \in {cur} \cup Pending(Top) \cup ((n + 1) .. n)
    BY <2>1, <2>2, <2>3, Active, Numbers DEF Frame
  <2>6. QED  BY <2>1, <2>2, <2>3, <2>4, <2>5, Leaves
<1>5. QED  BY <1>1, <1>2, <1>3, <1>4 DEF VisitIf

(* WHILE preserves the invariant. *)
LEMMA StepWhile == ASSUME IInv, BeginWhile \/ WhileBranch \/ EndWhile PROVE IInv'
<1> DEFINE n == Len(blocks)
           H == Held(stack)
<1>1. CASE BeginWhile
  <2> DEFINE f == [FrameAt("WhileCond") EXCEPT
                   !.header = Next1, !.body = Next2, !.exit = Next3]
  <2>1. ~Done  BY <1>1 DEF BeginWhile, AtStatement
  <2>2. /\ cur' = Next1 /\ Push(f) /\ (Visit \/ SameNode)
        /\ UNCHANGED <<live, split>>
    BY <1>1 DEF BeginWhile
  <2>3. Partition(blocks', {cur'} \cup (H \cup {Next2, Next3})) /\ Len(blocks') = Next3
    <3>1. /\ Partition(Create3, {cur} \cup (H \cup {Next1, Next2, Next3}))
          /\ cur \notin H \cup {Next1, Next2, Next3} /\ Len(Create3) = Next3
      BY <2>1, Creates
    <3>2. /\ cur \in 1 .. Len(Create3) /\ Next1 \in 1 .. Len(Create3)
      BY <2>1, <3>1, Active, Numbers
    <3>3. blocks' = JumpTo(Create3, cur, Next1)
      BY <1>1 DEF BeginWhile
    <3>4. Partition(blocks', H \cup {Next1, Next2, Next3}) /\ Len(blocks') = Next3
      BY <3>1, <3>2, <3>3, JumpLeaves
    <3>5. H \cup {Next1, Next2, Next3} = {cur'} \cup (H \cup {Next2, Next3})
      BY <2>2
    <3>6. QED  BY <3>4, <3>5
  <2>4. /\ f \in Frame /\ f.at = "WhileCond"
        /\ f.body = Next2 /\ f.after = NoBlock /\ f.exit = Next3 /\ f.header = Next1
    BY <2>1, Active, Numbers DEF FrameAt, Frame, NoBlock, Points, StatementPoints, ExpressionPoints
  <2> HIDE DEF f
  <2>5. FrameOK(f, Next3) /\ Pending(f) = {Next2, Next3} /\ f.at \notin BodyPoints
    BY <2>1, <2>4, Numbers
    DEF FrameOK, Pending, NoBlock, HoldsBody, HoldsAfter, HoldsExit,
         HasHeader, BodyPoints
  <2>6. /\ Next3 \in Nat /\ n <= Next3 /\ cur' \notin Pending(f) /\ live' \in BOOLEAN
        /\ cur' \in {cur} \cup ((n + 1) .. Next3) /\ Pending(f) \subseteq (n + 1) .. Next3
    BY <2>1, <2>2, <2>5, Active, Numbers
  <2>7. QED  BY <2>1, <2>2, <2>3, <2>5, <2>6, Enters
<1>2. CASE WhileBranch
  <2> DEFINE f == [Top EXCEPT !.at = "WhileBody", !.body = NoBlock]
  <2>1. ~Done /\ Top.at = "WhileCond"  BY <1>2 DEF WhileBranch, At
  <2>2. /\ Top \in Frame /\ Top.body \in 1 .. n /\ Top.after = NoBlock
        /\ Top.exit \in 1 .. n /\ Top.header \in 1 .. n
        /\ Top.body # Top.exit /\ Pending(Top) = {Top.body, Top.exit}
        /\ Pending(Top) \subseteq H /\ Top.at \notin BodyPoints
    BY <2>1, Active
    DEF FrameOK, Frame, Pending, NoBlock, HoldsBody, HoldsAfter, HoldsExit,
         HasHeader, BodyPoints
  <2>3. /\ cur' = Top.body /\ Replace(f) /\ (Visit \/ SameNode)
        /\ UNCHANGED <<live, split>>
    BY <1>2 DEF WhileBranch
  <2>4. Partition(blocks', {cur'} \cup ((H \ Pending(Top)) \cup {Top.exit})) /\ Len(blocks') = n
    <3>1. Partition(blocks, {cur} \cup H) /\ cur \notin H
      BY <2>1, Active
    <3>2. blocks' = BranchTo(blocks, cur, Top.header, Top.body, Top.exit)
      BY <1>2 DEF WhileBranch
    <3>3. Partition(blocks', H) /\ Len(blocks') = n
      BY <2>1, <2>2, <3>1, <3>2, Active, BranchLeaves
    <3>4. H = {cur'} \cup ((H \ Pending(Top)) \cup {Top.exit})
      BY <2>2, <2>3
    <3>5. QED  BY <3>3, <3>4
  <2>5. /\ f \in Frame /\ f.at = "WhileBody"
        /\ f.body = NoBlock /\ f.after = NoBlock /\ f.exit = Top.exit /\ f.header = Top.header
    BY <2>1, <2>2, Active, Numbers DEF FrameAt, Frame, NoBlock, Points, StatementPoints, ExpressionPoints
  <2> HIDE DEF f
  <2>6. FrameOK(f, n) /\ Pending(f) = {Top.exit} /\ f.at \notin BodyPoints
    BY <2>1, <2>2, <2>5, Numbers
    DEF FrameOK, Pending, NoBlock, HoldsBody, HoldsAfter, HoldsExit,
         HasHeader, BodyPoints
  <2>7. /\ n \in Nat /\ n <= n /\ cur' \notin Pending(f) /\ live' \in BOOLEAN
        /\ cur' \in {cur} \cup Pending(Top) \cup ((n + 1) .. n)
        /\ Pending(f) \subseteq Pending(Top) \cup ((n + 1) .. n)
    BY <2>1, <2>2, <2>3, <2>6, Active, Numbers DEF Frame
  <2>8. QED  BY <2>1, <2>2, <2>3, <2>4, <2>6, <2>7, Advances
<1>3. CASE EndWhile
  <2>1. ~Done /\ Top.at = "WhileBody"  BY <1>3 DEF EndWhile, At
  <2>2. /\ Top \in Frame /\ Top.body = NoBlock /\ Top.after = NoBlock
        /\ Top.exit \in 1 .. n /\ Top.header \in 1 .. n
        /\ Pending(Top) = {Top.exit} /\ Pending(Top) \subseteq H
        /\ Top.at \notin BodyPoints
    BY <2>1, Active
    DEF FrameOK, Frame, Pending, NoBlock, HoldsBody, HoldsAfter, HoldsExit,
         HasHeader, BodyPoints
  <2>3. /\ cur' = Top.exit /\ Pop /\ SameNode
        /\ live' = Top.entered /\ UNCHANGED split
    BY <1>3 DEF EndWhile
  <2>4. Partition(blocks', {cur'} \cup (H \ Pending(Top))) /\ Len(blocks') = n
    <3>1. Partition(blocks, {cur} \cup H) /\ cur \notin H
      BY <2>1, Active
    <3>2. blocks' = JumpTo(blocks, cur, Top.header)
      BY <1>3 DEF EndWhile
    <3>3. Partition(blocks', H) /\ Len(blocks') = n
      BY <2>2, <3>1, <3>2, JumpLeaves
    <3>4. H = {cur'} \cup (H \ Pending(Top))
      BY <2>2, <2>3
    <3>5. QED  BY <3>3, <3>4
  <2>5. /\ n \in Nat /\ n <= n /\ live' \in BOOLEAN
        /\ cur' \in {cur} \cup Pending(Top) \cup ((n + 1) .. n)
    BY <2>1, <2>2, <2>3, Active, Numbers DEF Frame
  <2>6. QED  BY <2>1, <2>2, <2>3, <2>4, <2>5, Leaves
<1>4. QED  BY <1>1, <1>2, <1>3

(* REPEAT preserves the invariant. *)
LEMMA StepRepeat == ASSUME IInv, BeginRepeat \/ RepeatUntil \/ EndRepeat PROVE IInv'
<1> DEFINE n == Len(blocks)
           H == Held(stack)
<1>1. CASE BeginRepeat
  <2> DEFINE f == [FrameAt("RepeatBody") EXCEPT
                   !.header = Next1, !.exit = Next2]
  <2>1. ~Done  BY <1>1 DEF BeginRepeat, AtStatement
  <2>2. /\ cur' = Next1 /\ Push(f) /\ (Visit \/ SameNode)
        /\ UNCHANGED <<live, split>>
    BY <1>1 DEF BeginRepeat
  <2>3. Partition(blocks', {cur'} \cup (H \cup {Next2})) /\ Len(blocks') = Next2
    <3>1. /\ Partition(Create2, {cur} \cup (H \cup {Next1, Next2}))
          /\ cur \notin H \cup {Next1, Next2} /\ Len(Create2) = Next2
      BY <2>1, Creates
    <3>2. /\ cur \in 1 .. Len(Create2) /\ Next1 \in 1 .. Len(Create2)
      BY <2>1, <3>1, Active, Numbers
    <3>3. blocks' = JumpTo(Create2, cur, Next1)
      BY <1>1 DEF BeginRepeat
    <3>4. Partition(blocks', H \cup {Next1, Next2}) /\ Len(blocks') = Next2
      BY <3>1, <3>2, <3>3, JumpLeaves
    <3>5. H \cup {Next1, Next2} = {cur'} \cup (H \cup {Next2})
      BY <2>2
    <3>6. QED  BY <3>4, <3>5
  <2>4. /\ f \in Frame /\ f.at = "RepeatBody"
        /\ f.body = NoBlock /\ f.after = NoBlock /\ f.exit = Next2 /\ f.header = Next1
    BY <2>1, Active, Numbers DEF FrameAt, Frame, NoBlock, Points, StatementPoints, ExpressionPoints
  <2> HIDE DEF f
  <2>5. FrameOK(f, Next2) /\ Pending(f) = {Next2} /\ f.at \notin BodyPoints
    BY <2>1, <2>4, Numbers
    DEF FrameOK, Pending, NoBlock, HoldsBody, HoldsAfter, HoldsExit,
         HasHeader, BodyPoints
  <2>6. /\ Next2 \in Nat /\ n <= Next2 /\ cur' \notin Pending(f) /\ live' \in BOOLEAN
        /\ cur' \in {cur} \cup ((n + 1) .. Next2) /\ Pending(f) \subseteq (n + 1) .. Next2
    BY <2>1, <2>2, <2>5, Active, Numbers
  <2>7. QED  BY <2>1, <2>2, <2>3, <2>5, <2>6, Enters
<1>2. CASE RepeatUntil
  <2> DEFINE f == [Top EXCEPT !.at = "RepeatCond"]
  <2>1. ~Done /\ Top.at = "RepeatBody"  BY <1>2 DEF RepeatUntil, At
  <2>2. /\ Top \in Frame /\ Top.body = NoBlock /\ Top.after = NoBlock
        /\ Top.exit \in 1 .. n /\ Top.header \in 1 .. n
        /\ Pending(Top) = {Top.exit} /\ Pending(Top) \subseteq H
        /\ Top.at \notin BodyPoints
    BY <2>1, Active
    DEF FrameOK, Frame, Pending, NoBlock, HoldsBody, HoldsAfter, HoldsExit,
         HasHeader, BodyPoints
  <2>3. /\ cur' = cur /\ Replace(f) /\ (Visit \/ SameNode)
        /\ UNCHANGED <<live, split>>
    BY <1>2 DEF RepeatUntil
  <2>4. Partition(blocks', {cur'} \cup ((H \ Pending(Top)) \cup {Top.exit})) /\ Len(blocks') = n
    <3>1. Partition(blocks, {cur} \cup H)
      BY <2>1, Active
    <3>2. blocks' = blocks
      BY <1>2 DEF RepeatUntil
    <3>3. {cur} \cup H = {cur'} \cup ((H \ Pending(Top)) \cup {Top.exit})
      BY <2>2, <2>3
    <3>4. QED  BY <3>1, <3>2, <3>3
  <2>5. /\ f \in Frame /\ f.at = "RepeatCond"
        /\ f.body = NoBlock /\ f.after = NoBlock /\ f.exit = Top.exit /\ f.header = Top.header
    BY <2>1, <2>2, Active, Numbers DEF FrameAt, Frame, NoBlock, Points, StatementPoints, ExpressionPoints
  <2> HIDE DEF f
  <2>6. FrameOK(f, n) /\ Pending(f) = {Top.exit} /\ f.at \notin BodyPoints
    BY <2>1, <2>2, <2>5, Numbers
    DEF FrameOK, Pending, NoBlock, HoldsBody, HoldsAfter, HoldsExit,
         HasHeader, BodyPoints
  <2>7. /\ n \in Nat /\ n <= n /\ cur' \notin Pending(f) /\ live' \in BOOLEAN
        /\ cur' \in {cur} \cup Pending(Top) \cup ((n + 1) .. n)
        /\ Pending(f) \subseteq Pending(Top) \cup ((n + 1) .. n)
    BY <2>1, <2>2, <2>3, <2>6, Active, Numbers DEF Frame
  <2>8. QED  BY <2>1, <2>2, <2>3, <2>4, <2>6, <2>7, Advances
<1>3. CASE EndRepeat
  <2>1. ~Done /\ Top.at = "RepeatCond"  BY <1>3 DEF EndRepeat, At
  <2>2. /\ Top \in Frame /\ Top.body = NoBlock /\ Top.after = NoBlock
        /\ Top.exit \in 1 .. n /\ Top.header \in 1 .. n
        /\ Pending(Top) = {Top.exit} /\ Pending(Top) \subseteq H
        /\ Top.at \notin BodyPoints
    BY <2>1, Active
    DEF FrameOK, Frame, Pending, NoBlock, HoldsBody, HoldsAfter, HoldsExit,
         HasHeader, BodyPoints
  <2>3. /\ cur' = Top.exit /\ Pop /\ SameNode
        /\ UNCHANGED <<live, split>>
    BY <1>3 DEF EndRepeat
  <2>4. Partition(blocks', {cur'} \cup (H \ Pending(Top))) /\ Len(blocks') = n
    <3>1. Partition(blocks, {cur} \cup H) /\ cur \notin H
      BY <2>1, Active
    <3>2. blocks' = BranchTo(blocks, cur, cur, Top.exit, Top.header)
      BY <1>3 DEF EndRepeat
    <3>3. Partition(blocks', H) /\ Len(blocks') = n
      BY <2>1, <2>2, <3>1, <3>2, Active, BranchLeaves
    <3>4. H = {cur'} \cup (H \ Pending(Top))
      BY <2>2, <2>3
    <3>5. QED  BY <3>3, <3>4
  <2>5. /\ n \in Nat /\ n <= n /\ live' \in BOOLEAN
        /\ cur' \in {cur} \cup Pending(Top) \cup ((n + 1) .. n)
    BY <2>1, <2>2, <2>3, Active, Numbers DEF Frame
  <2>6. QED  BY <2>1, <2>2, <2>3, <2>4, <2>5, Leaves
<1>4. QED  BY <1>1, <1>2, <1>3

(* FOR preserves the invariant. *)
LEMMA StepFor ==
  ASSUME IInv, BeginFor \/ ForInit \/ ForBranch \/ ForStep \/ EndFor
  PROVE  IInv'
<1> DEFINE n == Len(blocks)
           H == Held(stack)
<1>1. CASE BeginFor
  <2> DEFINE f == FrameAt("ForFrom")
  <2>1. ~Done  BY <1>1 DEF BeginFor, AtStatement
  <2>2. /\ cur' = cur /\ Push(f) /\ (Visit \/ SameNode)
        /\ UNCHANGED <<live, split>>
    BY <1>1 DEF BeginFor
  <2>3. Partition(blocks', {cur'} \cup (H \cup {})) /\ Len(blocks') = n
    <3>1. Partition(blocks, {cur} \cup H)
      BY <2>1, Active
    <3>2. blocks' = blocks
      BY <1>1 DEF BeginFor
    <3>3. {cur'} \cup (H \cup {}) = {cur} \cup H
      BY <2>2
    <3>4. QED  BY <3>1, <3>2, <3>3
  <2>4. /\ f \in Frame /\ f.at = "ForFrom"
        /\ f.body = NoBlock /\ f.after = NoBlock /\ f.exit = NoBlock
    BY <2>1, Active, Numbers DEF FrameAt, Frame, NoBlock, Points, StatementPoints, ExpressionPoints
  <2> HIDE DEF f
  <2>5. FrameOK(f, n) /\ Pending(f) = {} /\ f.at \notin BodyPoints
    BY <2>1, <2>4, Numbers
    DEF FrameOK, Pending, NoBlock, HoldsBody, HoldsAfter, HoldsExit,
         HasHeader, BodyPoints
  <2>6. /\ n \in Nat /\ n <= n /\ cur' \notin Pending(f) /\ live' \in BOOLEAN
        /\ cur' \in {cur} \cup ((n + 1) .. n) /\ Pending(f) \subseteq (n + 1) .. n
    BY <2>1, <2>2, <2>5, Active, Numbers
  <2>7. QED  BY <2>1, <2>2, <2>3, <2>5, <2>6, Enters
<1>2. CASE ForInit
  <2> DEFINE f == [Top EXCEPT
                   !.at = "ForTo", !.header = Next1, !.body = Next2, !.exit = Next3]
  <2>1. ~Done /\ Top.at = "ForFrom"  BY <1>2 DEF ForInit, At
  <2>2. /\ Top \in Frame /\ Top.body = NoBlock /\ Top.after = NoBlock
        /\ Top.exit = NoBlock /\ Pending(Top) = {}
        /\ Pending(Top) \subseteq H /\ Top.at \notin BodyPoints
    BY <2>1, Active
    DEF FrameOK, Frame, Pending, NoBlock, HoldsBody, HoldsAfter, HoldsExit,
         HasHeader, BodyPoints
  <2>3. /\ cur' = Next1 /\ Replace(f) /\ (Visit \/ SameNode)
        /\ UNCHANGED <<live, split>>
    BY <1>2 DEF ForInit
  <2>4. Partition(blocks', {cur'} \cup ((H \ Pending(Top)) \cup {Next2, Next3})) /\ Len(blocks') = Next3
    <3>1. /\ Partition(Create3, {cur} \cup (H \cup {Next1, Next2, Next3}))
          /\ cur \notin H \cup {Next1, Next2, Next3} /\ Len(Create3) = Next3
      BY <2>1, Creates
    <3>2. /\ cur \in 1 .. Len(Create3) /\ Next1 \in 1 .. Len(Create3)
      BY <2>1, <3>1, Active, Numbers
    <3> DEFINE es == Emit(Create3, cur, Op("Store"))
               js == JumpTo(es, cur, Next1)
    <3>3. Partition(es, {cur} \cup (H \cup {Next1, Next2, Next3})) /\ Len(es) = Next3
      BY <3>1, EmitPartition DEF PlainOps
    <3>4. Partition(js, H \cup {Next1, Next2, Next3}) /\ Len(js) = Next3
      <4>1. Next1 \in 1 .. Len(es)  BY <3>1, <3>2, <3>3
      <4> HIDE DEF es
      <4>2. QED  BY <3>1, <3>3, <4>1, JumpLeaves
    <3>5. blocks' = Emit(js, Next1, Op("Load"))
      BY <1>2 DEF ForInit
    <3> HIDE DEF js
    <3>6. Partition(blocks', H \cup {Next1, Next2, Next3}) /\ Len(blocks') = Next3
      BY <3>4, <3>5, EmitPartition DEF PlainOps
    <3>7. H \cup {Next1, Next2, Next3}
           = {cur'} \cup ((H \ Pending(Top)) \cup {Next2, Next3})
      BY <2>2, <2>3
    <3>8. QED  BY <3>6, <3>7
  <2>5. /\ f \in Frame /\ f.at = "ForTo"
        /\ f.body = Next2 /\ f.after = NoBlock /\ f.exit = Next3 /\ f.header = Next1
    BY <2>1, <2>2, Active, Numbers DEF FrameAt, Frame, NoBlock, Points, StatementPoints, ExpressionPoints
  <2> HIDE DEF f
  <2>6. FrameOK(f, Next3) /\ Pending(f) = {Next2, Next3} /\ f.at \notin BodyPoints
    BY <2>1, <2>2, <2>5, Numbers
    DEF FrameOK, Pending, NoBlock, HoldsBody, HoldsAfter, HoldsExit,
         HasHeader, BodyPoints
  <2>7. /\ Next3 \in Nat /\ n <= Next3 /\ cur' \notin Pending(f) /\ live' \in BOOLEAN
        /\ cur' \in {cur} \cup Pending(Top) \cup ((n + 1) .. Next3)
        /\ Pending(f) \subseteq Pending(Top) \cup ((n + 1) .. Next3)
    BY SMTT(60), <2>1, <2>2, <2>3, <2>6, Active, Numbers DEF Frame
  <2>8. QED  BY <2>1, <2>2, <2>3, <2>4, <2>6, <2>7, Advances
<1>3. CASE ForBranch
  <2> DEFINE f == [Top EXCEPT !.at = "ForBody", !.body = NoBlock]
  <2>1. ~Done /\ Top.at = "ForTo"  BY <1>3 DEF ForBranch, At
  <2>2. /\ Top \in Frame /\ Top.body \in 1 .. n /\ Top.after = NoBlock
        /\ Top.exit \in 1 .. n /\ Top.header \in 1 .. n
        /\ Top.body # Top.exit /\ Pending(Top) = {Top.body, Top.exit}
        /\ Pending(Top) \subseteq H /\ Top.at \notin BodyPoints
    BY <2>1, Active
    DEF FrameOK, Frame, Pending, NoBlock, HoldsBody, HoldsAfter, HoldsExit,
         HasHeader, BodyPoints
  <2>3. /\ cur' = Top.body /\ Replace(f) /\ (Visit \/ SameNode)
        /\ UNCHANGED <<live, split>>
    BY <1>3 DEF ForBranch
  <2>4. Partition(blocks', {cur'} \cup ((H \ Pending(Top)) \cup {Top.exit})) /\ Len(blocks') = n
    <3>1. Partition(blocks, {cur} \cup H) /\ cur \notin H
      BY <2>1, Active
    <3>2. /\ Partition(Emit(blocks, cur, Op("Eval")), {cur} \cup H)
          /\ Len(Emit(blocks, cur, Op("Eval"))) = n
      BY <3>1, EmitPartition DEF PlainOps
    <3>3. blocks' = BranchTo(Emit(blocks, cur, Op("Eval")), cur, Top.header, Top.exit, Top.body)
      BY <1>3 DEF ForBranch
    <3>4. Partition(blocks', H) /\ Len(blocks') = n
      BY <2>1, <2>2, <3>1, <3>2, <3>3, Active, BranchLeaves
    <3>5. H = {cur'} \cup ((H \ Pending(Top)) \cup {Top.exit})
      BY <2>2, <2>3
    <3>6. QED  BY <3>4, <3>5
  <2>5. /\ f \in Frame /\ f.at = "ForBody"
        /\ f.body = NoBlock /\ f.after = NoBlock /\ f.exit = Top.exit /\ f.header = Top.header
    BY <2>1, <2>2, Active, Numbers DEF FrameAt, Frame, NoBlock, Points, StatementPoints, ExpressionPoints
  <2> HIDE DEF f
  <2>6. FrameOK(f, n) /\ Pending(f) = {Top.exit} /\ f.at \notin BodyPoints
    BY <2>1, <2>2, <2>5, Numbers
    DEF FrameOK, Pending, NoBlock, HoldsBody, HoldsAfter, HoldsExit,
         HasHeader, BodyPoints
  <2>7. /\ n \in Nat /\ n <= n /\ cur' \notin Pending(f) /\ live' \in BOOLEAN
        /\ cur' \in {cur} \cup Pending(Top) \cup ((n + 1) .. n)
        /\ Pending(f) \subseteq Pending(Top) \cup ((n + 1) .. n)
    BY <2>1, <2>2, <2>3, <2>6, Active, Numbers DEF Frame
  <2>8. QED  BY <2>1, <2>2, <2>3, <2>4, <2>6, <2>7, Advances
<1>4. CASE ForStep
  <2> DEFINE f == [Top EXCEPT !.at = "ForBy"]
  <2>1. ~Done /\ Top.at = "ForBody"  BY <1>4 DEF ForStep, At
  <2>2. /\ Top \in Frame /\ Top.body = NoBlock /\ Top.after = NoBlock
        /\ Top.exit \in 1 .. n /\ Top.header \in 1 .. n
        /\ Pending(Top) = {Top.exit} /\ Pending(Top) \subseteq H
        /\ Top.at \notin BodyPoints
    BY <2>1, Active
    DEF FrameOK, Frame, Pending, NoBlock, HoldsBody, HoldsAfter, HoldsExit,
         HasHeader, BodyPoints
  <2>3. /\ cur' = cur /\ Replace(f) /\ (Visit \/ SameNode)
        /\ UNCHANGED <<live, split>>
    BY <1>4 DEF ForStep
  <2>4. Partition(blocks', {cur'} \cup ((H \ Pending(Top)) \cup {Top.exit})) /\ Len(blocks') = n
    <3>1. Partition(blocks, {cur} \cup H)
      BY <2>1, Active
    <3>2. Partition(blocks', {cur} \cup H) /\ Len(blocks') = n
      BY <1>4, <3>1, EmitPartition DEF ForStep, PlainOps
    <3>3. {cur} \cup H = {cur'} \cup ((H \ Pending(Top)) \cup {Top.exit})
      BY <2>2, <2>3
    <3>4. QED  BY <3>2, <3>3
  <2>5. /\ f \in Frame /\ f.at = "ForBy"
        /\ f.body = NoBlock /\ f.after = NoBlock /\ f.exit = Top.exit /\ f.header = Top.header
    BY <2>1, <2>2, Active, Numbers DEF FrameAt, Frame, NoBlock, Points, StatementPoints, ExpressionPoints
  <2> HIDE DEF f
  <2>6. FrameOK(f, n) /\ Pending(f) = {Top.exit} /\ f.at \notin BodyPoints
    BY <2>1, <2>2, <2>5, Numbers
    DEF FrameOK, Pending, NoBlock, HoldsBody, HoldsAfter, HoldsExit,
         HasHeader, BodyPoints
  <2>7. /\ n \in Nat /\ n <= n /\ cur' \notin Pending(f) /\ live' \in BOOLEAN
        /\ cur' \in {cur} \cup Pending(Top) \cup ((n + 1) .. n)
        /\ Pending(f) \subseteq Pending(Top) \cup ((n + 1) .. n)
    BY <2>1, <2>2, <2>3, <2>6, Active, Numbers DEF Frame
  <2>8. QED  BY <2>1, <2>2, <2>3, <2>4, <2>6, <2>7, Advances
<1>5. CASE EndFor
  <2>1. ~Done /\ Top.at = "ForBy"  BY <1>5 DEF EndFor, At
  <2>2. /\ Top \in Frame /\ Top.body = NoBlock /\ Top.after = NoBlock
        /\ Top.exit \in 1 .. n /\ Top.header \in 1 .. n
        /\ Pending(Top) = {Top.exit} /\ Pending(Top) \subseteq H
        /\ Top.at \notin BodyPoints
    BY <2>1, Active
    DEF FrameOK, Frame, Pending, NoBlock, HoldsBody, HoldsAfter, HoldsExit,
         HasHeader, BodyPoints
  <2>3. /\ cur' = Top.exit /\ Pop /\ SameNode
        /\ live' = Top.entered /\ UNCHANGED split
    BY <1>5 DEF EndFor
  <2>4. Partition(blocks', {cur'} \cup (H \ Pending(Top))) /\ Len(blocks') = n
    <3>1. Partition(blocks, {cur} \cup H) /\ cur \notin H
      BY <2>1, Active
    <3>2. /\ Partition(Emit(blocks, cur, Op("Eval")), {cur} \cup H)
          /\ Len(Emit(blocks, cur, Op("Eval"))) = n
      BY <3>1, EmitPartition DEF PlainOps
    <3>3. /\ Partition(Emit(Emit(blocks, cur, Op("Eval")), cur, Op("Store")), {cur} \cup H)
          /\ Len(Emit(Emit(blocks, cur, Op("Eval")), cur, Op("Store"))) = n
      BY <3>2, EmitPartition DEF PlainOps
    <3>4. blocks' = JumpTo(Emit(Emit(blocks, cur, Op("Eval")), cur, Op("Store")),
                           cur, Top.header)
      BY <1>5 DEF EndFor
    <3>5. Partition(blocks', H) /\ Len(blocks') = n
      BY <2>2, <3>1, <3>3, <3>4, JumpLeaves
    <3>6. H = {cur'} \cup (H \ Pending(Top))
      BY <2>2, <2>3
    <3>7. QED  BY <3>5, <3>6
  <2>5. /\ n \in Nat /\ n <= n /\ live' \in BOOLEAN
        /\ cur' \in {cur} \cup Pending(Top) \cup ((n + 1) .. n)
    BY <2>1, <2>2, <2>3, Active, Numbers DEF Frame
  <2>6. QED  BY <2>1, <2>2, <2>3, <2>4, <2>5, Leaves
<1>6. QED  BY <1>1, <1>2, <1>3, <1>4, <1>5

(* CASE preserves the invariant. *)
LEMMA StepCase == ASSUME IInv, VisitCase PROVE IInv'
<1> DEFINE n == Len(blocks)
           H == Held(stack)
<1>1. CASE BeginCase
  <2> DEFINE f == FrameAt("CaseExpr")
  <2>1. ~Done  BY <1>1 DEF BeginCase, AtStatement
  <2>2. /\ cur' = cur /\ Push(f) /\ (Visit \/ SameNode)
        /\ UNCHANGED <<live, split>>
    BY <1>1 DEF BeginCase
  <2>3. Partition(blocks', {cur'} \cup (H \cup {})) /\ Len(blocks') = n
    <3>1. Partition(blocks, {cur} \cup H)
      BY <2>1, Active
    <3>2. blocks' = blocks
      BY <1>1 DEF BeginCase
    <3>3. {cur'} \cup (H \cup {}) = {cur} \cup H
      BY <2>2
    <3>4. QED  BY <3>1, <3>2, <3>3
  <2>4. /\ f \in Frame /\ f.at = "CaseExpr"
        /\ f.body = NoBlock /\ f.after = NoBlock /\ f.exit = NoBlock
    BY <2>1, Active, Numbers DEF FrameAt, Frame, NoBlock, Points, StatementPoints, ExpressionPoints
  <2> HIDE DEF f
  <2>5. FrameOK(f, n) /\ Pending(f) = {} /\ f.at \notin BodyPoints
    BY <2>1, <2>4, Numbers
    DEF FrameOK, Pending, NoBlock, HoldsBody, HoldsAfter, HoldsExit,
         HasHeader, BodyPoints
  <2>6. /\ n \in Nat /\ n <= n /\ cur' \notin Pending(f) /\ live' \in BOOLEAN
        /\ cur' \in {cur} \cup ((n + 1) .. n) /\ Pending(f) \subseteq (n + 1) .. n
    BY <2>1, <2>2, <2>5, Active, Numbers
  <2>7. QED  BY <2>1, <2>2, <2>3, <2>5, <2>6, Enters
<1>2. CASE CaseDispatch
  <2> DEFINE f == [Top EXCEPT !.at = "CaseNext", !.exit = Next1]
  <2>1. ~Done /\ Top.at = "CaseExpr"  BY <1>2 DEF CaseDispatch, At
  <2>2. /\ Top \in Frame /\ Top.body = NoBlock /\ Top.after = NoBlock
        /\ Top.exit = NoBlock /\ Pending(Top) = {}
        /\ Pending(Top) \subseteq H /\ Top.at \notin BodyPoints
    BY <2>1, Active
    DEF FrameOK, Frame, Pending, NoBlock, HoldsBody, HoldsAfter, HoldsExit,
         HasHeader, BodyPoints
  <2>3. /\ cur' = cur /\ Replace(f) /\ (Visit \/ SameNode)
        /\ UNCHANGED <<live, split>>
    BY <1>2 DEF CaseDispatch
  <2>4. Partition(blocks', {cur'} \cup ((H \ Pending(Top)) \cup {Next1})) /\ Len(blocks') = Next1
    <3>1. /\ Partition(Create1, {cur} \cup (H \cup {Next1}))
          /\ cur \notin H \cup {Next1} /\ Len(Create1) = Next1
      BY <2>1, Creates
    <3>2. blocks' = Create1
      BY <1>2 DEF CaseDispatch
    <3>3. {cur} \cup (H \cup {Next1})
           = {cur'} \cup ((H \ Pending(Top)) \cup {Next1})
      BY <2>2, <2>3
    <3>4. QED  BY <3>1, <3>2, <3>3
  <2>5. /\ f \in Frame /\ f.at = "CaseNext"
        /\ f.body = NoBlock /\ f.after = NoBlock /\ f.exit = Next1
    BY <2>1, <2>2, Active, Numbers DEF FrameAt, Frame, NoBlock, Points, StatementPoints, ExpressionPoints
  <2> HIDE DEF f
  <2>6. FrameOK(f, Next1) /\ Pending(f) = {Next1} /\ f.at \notin BodyPoints
    BY <2>1, <2>2, <2>5, Numbers
    DEF FrameOK, Pending, NoBlock, HoldsBody, HoldsAfter, HoldsExit,
         HasHeader, BodyPoints
  <2>7. /\ Next1 \in Nat /\ n <= Next1 /\ cur' \notin Pending(f) /\ live' \in BOOLEAN
        /\ cur' \in {cur} \cup Pending(Top) \cup ((n + 1) .. Next1)
        /\ Pending(f) \subseteq Pending(Top) \cup ((n + 1) .. Next1)
    BY SMTT(60), <2>1, <2>2, <2>3, <2>6, Active, Numbers DEF Frame
  <2>8. QED  BY <2>1, <2>2, <2>3, <2>4, <2>6, <2>7, Advances
<1>3. CASE BeginAlternative
  <2> DEFINE f == [Top EXCEPT !.at = "CaseLabel", !.body = Next1, !.after = Next2]
  <2>1. ~Done /\ Top.at = "CaseNext"  BY <1>3 DEF BeginAlternative, At
  <2>2. /\ Top \in Frame /\ Top.body = NoBlock /\ Top.after = NoBlock
        /\ Top.exit \in 1 .. n /\ Pending(Top) = {Top.exit}
        /\ Pending(Top) \subseteq H /\ Top.at \notin BodyPoints
    BY <2>1, Active
    DEF FrameOK, Frame, Pending, NoBlock, HoldsBody, HoldsAfter, HoldsExit,
         HasHeader, BodyPoints
  <2>3. /\ cur' = cur /\ Replace(f) /\ (Visit \/ SameNode)
        /\ UNCHANGED <<live, split>>
    BY <1>3 DEF BeginAlternative
  <2>4. Partition(blocks', {cur'} \cup ((H \ Pending(Top)) \cup {Next1, Next2, Top.exit})) /\ Len(blocks') = Next2
    <3>1. /\ Partition(Create2, {cur} \cup (H \cup {Next1, Next2}))
          /\ cur \notin H \cup {Next1, Next2} /\ Len(Create2) = Next2
      BY <2>1, Creates
    <3>2. blocks' = Create2
      BY <1>3 DEF BeginAlternative
    <3>3. {cur} \cup (H \cup {Next1, Next2})
           = {cur'} \cup ((H \ Pending(Top)) \cup {Next1, Next2, Top.exit})
      BY <2>2, <2>3
    <3>4. QED  BY <3>1, <3>2, <3>3
  <2>5. /\ f \in Frame /\ f.at = "CaseLabel"
        /\ f.body = Next1 /\ f.after = Next2 /\ f.exit = Top.exit
    BY <2>1, <2>2, Active, Numbers DEF FrameAt, Frame, NoBlock, Points, StatementPoints, ExpressionPoints
  <2> HIDE DEF f
  <2>6. FrameOK(f, Next2) /\ Pending(f) = {Next1, Next2, Top.exit} /\ f.at \notin BodyPoints
    BY <2>1, <2>2, <2>5, Numbers
    DEF FrameOK, Pending, NoBlock, HoldsBody, HoldsAfter, HoldsExit,
         HasHeader, BodyPoints
  <2>7. /\ Next2 \in Nat /\ n <= Next2 /\ cur' \notin Pending(f) /\ live' \in BOOLEAN
        /\ cur' \in {cur} \cup Pending(Top) \cup ((n + 1) .. Next2)
        /\ Pending(f) \subseteq Pending(Top) \cup ((n + 1) .. Next2)
    BY SMTT(60), <2>1, <2>2, <2>3, <2>6, Active, Numbers DEF Frame
  <2>8. QED  BY <2>1, <2>2, <2>3, <2>4, <2>6, <2>7, Advances
<1>4. CASE TestLabel
  <2> DEFINE f == Top
  <2>1. ~Done /\ Top.at = "CaseLabel"  BY <1>4 DEF TestLabel, At
  <2>2. /\ Top \in Frame /\ Top.body \in 1 .. n
        /\ Top.after \in 1 .. n /\ Top.exit \in 1 .. n
        /\ Top.body # Top.after /\ Top.body # Top.exit
        /\ Top.after # Top.exit
        /\ Pending(Top) = {Top.body, Top.after, Top.exit}
        /\ Pending(Top) \subseteq H /\ Top.at \notin BodyPoints
    BY <2>1, Active
    DEF FrameOK, Frame, Pending, NoBlock, HoldsBody, HoldsAfter, HoldsExit,
         HasHeader, BodyPoints
  <2>3. /\ cur' = Next1 /\ Replace(f) /\ (Visit \/ SameNode)
        /\ UNCHANGED <<live, split>>
    BY <1>4, <2>1, Active DEF TestLabel, Replace, Top
  <2>4. Partition(blocks', {cur'} \cup ((H \ Pending(Top)) \cup {Top.body, Top.after, Top.exit})) /\ Len(blocks') = Next1
    <3> DEFINE es == Emit(Create1, cur, Op("Eval"))
    <3>1. /\ Partition(Create1, {cur} \cup (H \cup {Next1}))
          /\ cur \notin H \cup {Next1} /\ Len(Create1) = Next1
      BY <2>1, Creates
    <3>2. Partition(es, {cur} \cup (H \cup {Next1})) /\ Len(es) = Next1
      BY <3>1, EmitPartition DEF PlainOps
    <3>3. blocks' = BranchTo(es, cur, cur, Top.body, Next1)
      BY <1>4 DEF TestLabel
    <3> HIDE DEF es
    <3>4. cur \in 1 .. Len(es) /\ Next1 \in 1 .. Len(es) /\ Top.body \in 1 .. Len(es)
      BY <2>1, <2>2, <3>2, Active, Numbers
    <3>5. Partition(blocks', H \cup {Next1}) /\ Len(blocks') = Next1
      <4> DEFINE S == H \cup {Next1}
                 t == Top.body
      <4>1. /\ cur \notin S /\ Partition(es, {cur} \cup S) /\ t \in 1 .. Len(es)
            /\ blocks' = BranchTo(es, cur, cur, t, Next1)
        BY <3>1, <3>2, <3>3, <3>4
      <4> HIDE DEF S, t
      <4>2. Partition(blocks', S) /\ Len(blocks') = Len(es)
        BY <3>4, <4>1, BranchLeaves
      <4>3. QED  BY <3>2, <4>2 DEF S
    <3>6. H \cup {Next1}
           = {cur'} \cup ((H \ Pending(Top)) \cup {Top.body, Top.after, Top.exit})
      BY <2>2, <2>3
    <3>7. QED  BY <3>5, <3>6
  <2>5. /\ f \in Frame /\ f.at = "CaseLabel"
        /\ f.body = Top.body /\ f.after = Top.after /\ f.exit = Top.exit
    BY <2>1, <2>2, Active, Numbers DEF FrameAt, Frame, NoBlock, Points, StatementPoints, ExpressionPoints
  <2> HIDE DEF f
  <2>6. FrameOK(f, Next1) /\ Pending(f) = {Top.body, Top.after, Top.exit} /\ f.at \notin BodyPoints
    BY <2>1, <2>2, <2>5, Numbers
    DEF FrameOK, Pending, NoBlock, HoldsBody, HoldsAfter, HoldsExit,
         HasHeader, BodyPoints
  <2>7. /\ Next1 \in Nat /\ n <= Next1 /\ cur' \notin Pending(f) /\ live' \in BOOLEAN
        /\ cur' \in {cur} \cup Pending(Top) \cup ((n + 1) .. Next1)
        /\ Pending(f) \subseteq Pending(Top) \cup ((n + 1) .. Next1)
    BY SMTT(60), <2>1, <2>2, <2>3, <2>6, Active, Numbers DEF Frame
  <2>8. QED  BY <2>1, <2>2, <2>3, <2>4, <2>6, <2>7, Advances
<1>5. CASE TestLastLabel
  <2> DEFINE f == [Top EXCEPT !.at = "CaseBody", !.body = NoBlock]
  <2>1. ~Done /\ Top.at = "CaseLabel"  BY <1>5 DEF TestLastLabel, At
  <2>2. /\ Top \in Frame /\ Top.body \in 1 .. n
        /\ Top.after \in 1 .. n /\ Top.exit \in 1 .. n
        /\ Top.body # Top.after /\ Top.body # Top.exit
        /\ Top.after # Top.exit
        /\ Pending(Top) = {Top.body, Top.after, Top.exit}
        /\ Pending(Top) \subseteq H /\ Top.at \notin BodyPoints
    BY <2>1, Active
    DEF FrameOK, Frame, Pending, NoBlock, HoldsBody, HoldsAfter, HoldsExit,
         HasHeader, BodyPoints
  <2>3. /\ cur' = Top.body /\ Replace(f) /\ (Visit \/ SameNode)
        /\ UNCHANGED <<live, split>>
    BY <1>5 DEF TestLastLabel
  <2>4. Partition(blocks', {cur'} \cup ((H \ Pending(Top)) \cup {Top.after, Top.exit})) /\ Len(blocks') = n
    <3>1. Partition(blocks, {cur} \cup H) /\ cur \notin H
      BY <2>1, Active
    <3>2. /\ Partition(Emit(blocks, cur, Op("Eval")), {cur} \cup H)
          /\ Len(Emit(blocks, cur, Op("Eval"))) = n
      BY <3>1, EmitPartition DEF PlainOps
    <3>3. blocks' = BranchTo(Emit(blocks, cur, Op("Eval")), cur, cur, Top.body, Top.after)
      BY <1>5 DEF TestLastLabel
    <3>4. Partition(blocks', H) /\ Len(blocks') = n
      BY <2>1, <2>2, <3>1, <3>2, <3>3, Active, BranchLeaves
    <3>5. H = {cur'} \cup ((H \ Pending(Top)) \cup {Top.after, Top.exit})
      BY <2>2, <2>3
    <3>6. QED  BY <3>4, <3>5
  <2>5. /\ f \in Frame /\ f.at = "CaseBody"
        /\ f.body = NoBlock /\ f.after = Top.after /\ f.exit = Top.exit
    BY <2>1, <2>2, Active, Numbers DEF FrameAt, Frame, NoBlock, Points, StatementPoints, ExpressionPoints
  <2> HIDE DEF f
  <2>6. FrameOK(f, n) /\ Pending(f) = {Top.after, Top.exit} /\ f.at \notin BodyPoints
    BY <2>1, <2>2, <2>5, Numbers
    DEF FrameOK, Pending, NoBlock, HoldsBody, HoldsAfter, HoldsExit,
         HasHeader, BodyPoints
  <2>7. /\ n \in Nat /\ n <= n /\ cur' \notin Pending(f) /\ live' \in BOOLEAN
        /\ cur' \in {cur} \cup Pending(Top) \cup ((n + 1) .. n)
        /\ Pending(f) \subseteq Pending(Top) \cup ((n + 1) .. n)
    BY <2>1, <2>2, <2>3, <2>6, Active, Numbers DEF Frame
  <2>8. QED  BY <2>1, <2>2, <2>3, <2>4, <2>6, <2>7, Advances
<1>6. CASE EndAlternative
  <2> DEFINE f == [Top EXCEPT !.at = "CaseNext", !.after = NoBlock, !.leaves = @ \/ live]
  <2>1. ~Done /\ Top.at = "CaseBody"  BY <1>6 DEF EndAlternative, At
  <2>2. /\ Top \in Frame /\ Top.body = NoBlock /\ Top.after \in 1 .. n
        /\ Top.exit \in 1 .. n /\ Top.after # Top.exit
        /\ Pending(Top) = {Top.after, Top.exit}
        /\ Pending(Top) \subseteq H /\ Top.at \notin BodyPoints
    BY <2>1, Active
    DEF FrameOK, Frame, Pending, NoBlock, HoldsBody, HoldsAfter, HoldsExit,
         HasHeader, BodyPoints
  <2>3. /\ cur' = Top.after /\ Replace(f) /\ (Visit \/ SameNode)
        /\ live' = Top.entered /\ UNCHANGED split
    BY <1>6 DEF EndAlternative
  <2>4. Partition(blocks', {cur'} \cup ((H \ Pending(Top)) \cup {Top.exit})) /\ Len(blocks') = n
    <3>1. Partition(blocks, {cur} \cup H) /\ cur \notin H
      BY <2>1, Active
    <3>2. blocks' = JumpTo(blocks, cur, Top.exit)
      BY <1>6 DEF EndAlternative
    <3>3. Partition(blocks', H) /\ Len(blocks') = n
      BY <2>2, <3>1, <3>2, JumpLeaves
    <3>4. H = {cur'} \cup ((H \ Pending(Top)) \cup {Top.exit})
      BY <2>2, <2>3
    <3>5. QED  BY <3>3, <3>4
  <2>5. /\ f \in Frame /\ f.at = "CaseNext"
        /\ f.body = NoBlock /\ f.after = NoBlock /\ f.exit = Top.exit
    BY <2>1, <2>2, Active, Numbers DEF FrameAt, Frame, NoBlock, Points, StatementPoints, ExpressionPoints
  <2> HIDE DEF f
  <2>6. FrameOK(f, n) /\ Pending(f) = {Top.exit} /\ f.at \notin BodyPoints
    BY <2>1, <2>2, <2>5, Numbers
    DEF FrameOK, Pending, NoBlock, HoldsBody, HoldsAfter, HoldsExit,
         HasHeader, BodyPoints
  <2>7. /\ n \in Nat /\ n <= n /\ cur' \notin Pending(f) /\ live' \in BOOLEAN
        /\ cur' \in {cur} \cup Pending(Top) \cup ((n + 1) .. n)
        /\ Pending(f) \subseteq Pending(Top) \cup ((n + 1) .. n)
    BY <2>1, <2>2, <2>3, <2>6, Active, Numbers DEF Frame
  <2>8. QED  BY <2>1, <2>2, <2>3, <2>4, <2>6, <2>7, Advances
<1>7. CASE EndCase
  <2>1. ~Done /\ Top.at = "CaseNext"  BY <1>7 DEF EndCase, At
  <2>2. /\ Top \in Frame /\ Top.body = NoBlock /\ Top.after = NoBlock
        /\ Top.exit \in 1 .. n /\ Pending(Top) = {Top.exit}
        /\ Pending(Top) \subseteq H /\ Top.at \notin BodyPoints
    BY <2>1, Active
    DEF FrameOK, Frame, Pending, NoBlock, HoldsBody, HoldsAfter, HoldsExit,
         HasHeader, BodyPoints
  <2>3. /\ cur' = Top.exit /\ Pop /\ SameNode
        /\ live' \in BOOLEAN /\ UNCHANGED split
    BY <1>7 DEF EndCase
  <2>4. Partition(blocks', {cur'} \cup (H \ Pending(Top))) /\ Len(blocks') = n
    <3>1. Partition(blocks, {cur} \cup H) /\ cur \notin H
      BY <2>1, Active
    <3>2. blocks' = JumpTo(blocks, cur, Top.exit)
      BY <1>7 DEF EndCase
    <3>3. Partition(blocks', H) /\ Len(blocks') = n
      BY <2>2, <3>1, <3>2, JumpLeaves
    <3>4. H = {cur'} \cup (H \ Pending(Top))
      BY <2>2, <2>3
    <3>5. QED  BY <3>3, <3>4
  <2>5. /\ n \in Nat /\ n <= n /\ live' \in BOOLEAN
        /\ cur' \in {cur} \cup Pending(Top) \cup ((n + 1) .. n)
    BY <2>1, <2>2, <2>3, Active, Numbers DEF Frame
  <2>6. QED  BY <2>1, <2>2, <2>3, <2>4, <2>5, Leaves
<1>8. QED  BY <1>1, <1>2, <1>3, <1>4, <1>5, <1>6, <1>7 DEF VisitCase

(* ABS inside an expression: the stack stays, the current block moves on.  *)
LEMMA StepAbs == ASSUME IInv, EvaluateAbs PROVE IInv'
<1> DEFINE n == Len(blocks)
           H == Held(stack)
           e0 == Emit(Create3, cur, Op("Eval"))
           tested == BranchTo(e0, cur, cur, Next1, Next2)
           e1 == Emit(tested, Next1, Op("Copy"))
           negated == JumpTo(e1, Next1, Next3)
           e2 == Emit(negated, Next2, Op("Copy"))
<1>1. ~Done  BY DEF EvaluateAbs
<1>2. /\ cur' = Next3 /\ blocks' = JumpTo(e2, Next2, Next3)
      /\ UNCHANGED <<stack, live>> /\ Visit
      /\ split' = IF Top.at \in LoopTests THEN split \cup {Top.header} ELSE split
  BY DEF EvaluateAbs
<1>3. /\ Partition(Create3, {cur} \cup (H \cup {Next1, Next2, Next3}))
      /\ cur \notin H \cup {Next1, Next2, Next3} /\ Len(Create3) = Next3
  BY <1>1, Creates
<1>4. /\ cur \in 1 .. Next3 /\ Next1 \in 1 .. Next3
      /\ Next2 \in 1 .. Next3 /\ Next3 \in 1 .. Next3
      /\ Next1 \notin H \cup {Next2, Next3} /\ Next2 \notin H \cup {Next3}
      /\ Next3 \in Nat /\ n <= Next3 /\ Next3 \in (n + 1) .. Next3
  BY <1>1, Active, Numbers
<1>5. Partition(e0, {cur} \cup (H \cup {Next1, Next2, Next3})) /\ Len(e0) = Next3
  BY <1>3, EmitPartition DEF PlainOps
<1> HIDE DEF e0
<1>6. Partition(tested, H \cup {Next1, Next2, Next3}) /\ Len(tested) = Next3
  <2>1. cur \in 1 .. Len(e0) /\ Next1 \in 1 .. Len(e0) /\ Next2 \in 1 .. Len(e0)
    BY <1>4, <1>5
  <2>2. QED  BY <1>3, <1>5, <2>1, BranchLeaves
<1> HIDE DEF tested
<1>7. Partition(e1, {Next1} \cup (H \cup {Next2, Next3})) /\ Len(e1) = Next3
  <2>1. Partition(e1, H \cup {Next1, Next2, Next3}) /\ Len(e1) = Next3
    BY <1>6, EmitPartition DEF PlainOps
  <2>2. H \cup {Next1, Next2, Next3} = {Next1} \cup (H \cup {Next2, Next3})  OBVIOUS
  <2>3. QED  BY <2>1, <2>2
<1> HIDE DEF e1
<1>8. Partition(negated, H \cup {Next2, Next3}) /\ Len(negated) = Next3
  <2> DEFINE S == H \cup {Next2, Next3}
  <2>1. /\ Next3 \in 1 .. Len(e1) /\ Next1 \notin S
        /\ Partition(e1, {Next1} \cup S)
    BY <1>4, <1>7
  <2> HIDE DEF S
  <2>2. Partition(JumpTo(e1, Next1, Next3), S) /\ Len(JumpTo(e1, Next1, Next3)) = Len(e1)
    BY <2>1, JumpLeaves
  <2>3. QED  BY <1>7, <2>2 DEF S
<1> HIDE DEF negated
<1>9. Partition(e2, {Next2} \cup (H \cup {Next3})) /\ Len(e2) = Next3
  <2>1. Partition(e2, H \cup {Next2, Next3}) /\ Len(e2) = Next3
    BY <1>8, EmitPartition DEF PlainOps
  <2>2. H \cup {Next2, Next3} = {Next2} \cup (H \cup {Next3})  OBVIOUS
  <2>3. QED  BY <2>1, <2>2
<1> HIDE DEF e2
<1>10. Partition(blocks', H \cup {Next3}) /\ Len(blocks') = Next3
  <2> DEFINE S == H \cup {Next3}
  <2>1. /\ Next3 \in 1 .. Len(e2) /\ Next2 \notin S
        /\ Partition(e2, {Next2} \cup S)
    BY <1>4, <1>9
  <2> HIDE DEF S
  <2>2. Partition(blocks', S) /\ Len(blocks') = Len(e2)
    BY <1>2, <2>1, JumpLeaves
  <2>3. QED  BY <1>9, <2>2 DEF S
<1>11. /\ FrameOK(Top, Next3) /\ Replace(Top) /\ Next3 \notin Pending(Top)
       /\ Pending(Top) \subseteq Held(stack)
  <2>1. FrameOK(Top, Next3)  BY <1>1, <1>4, Active, FrameGrows
  <2>2. Replace(Top)  BY <1>1, <1>2, Active DEF Replace, Top
  <2>3. Next3 \notin Pending(Top)  BY <1>1, <1>4, Active, Numbers
  <2>4. QED  BY <2>1, <2>2, <2>3, <1>1, Active
<1>12. /\ StackOK(stack', cur', Next3) /\ stack' # <<>>
       /\ Held(stack') = (H \ Pending(Top)) \cup Pending(Top)
  BY <1>1, <1>2, <1>4, <1>11, Replaces
<1>13. Partition(blocks', {cur'} \cup Held(stack'))
  <2>1. H \cup {Next3} = {cur'} \cup Held(stack')  BY <1>2, <1>11, <1>12
  <2>2. QED  BY <1>10, <2>1
<1>14. split' \subseteq 1 .. Next3
  <2>1. split \subseteq 1 .. Next3
    <3>1. split \subseteq 1 .. n /\ n \in Nat  BY DEF IInv, TypeOK
    <3>2. QED  BY <3>1, <1>4
  <2>2. Top.at \in LoopTests => Top.header \in 1 .. Next3
    BY <1>11 DEF FrameOK, LoopTests, HasHeader
  <2>3. QED  BY <2>1, <2>2, <1>2
<1>15. QED
  BY <1>1, <1>2, <1>4, <1>10, <1>12, <1>13, <1>14, Active, Sizes, Establish

(* The visitor of the body itself. *)
LEMMA StepBody == ASSUME IInv, BeginBodyValue \/ EndBody PROVE IInv'
<1> DEFINE n == Len(blocks)
           H == Held(stack)
<1>1. CASE BeginBodyValue
  <2> DEFINE f == [Top EXCEPT !.at = "BodyValue"]
  <2>1. ~Done /\ Top.at = "Body"  BY <1>1 DEF BeginBodyValue, At
  <2>2. /\ Top \in Frame /\ Top.body = NoBlock /\ Top.after = NoBlock
        /\ Top.exit = NoBlock /\ Pending(Top) = {} /\ Top.at \in BodyPoints
    BY <2>1, Active
    DEF FrameOK, Frame, Pending, NoBlock, HoldsBody, HoldsAfter, HoldsExit,
         HasHeader, BodyPoints
  <2>3. /\ cur' = cur /\ blocks' = blocks /\ Replace(f) /\ Visit
        /\ UNCHANGED <<live, split>>
    BY <1>1 DEF BeginBodyValue
  <2>4. Partition(blocks', {cur'} \cup ((H \ Pending(Top)) \cup {}))
    <3>1. {cur'} \cup ((H \ Pending(Top)) \cup {}) = {cur} \cup H  BY <2>2, <2>3
    <3>2. QED  BY <2>1, <2>3, <3>1, Active
  <2>5. /\ f \in Frame /\ f.at = "BodyValue"
        /\ f.body = NoBlock /\ f.after = NoBlock /\ f.exit = NoBlock
    BY <2>2 DEF Frame, Points, ExpressionPoints
  <2> HIDE DEF f
  <2>6. FrameOK(f, n) /\ Pending(f) = {} /\ f.at \in BodyPoints
    BY <2>5
    DEF FrameOK, Pending, NoBlock, HoldsBody, HoldsAfter, HoldsExit,
         HasHeader, BodyPoints
  <2>7. n \in Nat /\ n <= n /\ live' \in BOOLEAN  BY <2>1, <2>3, Active
  <2>8. QED  BY <2>1, <2>2, <2>3, <2>4, <2>6, <2>7, Advances
<1>2. CASE EndBody
  <2>1. ~Done /\ Top.at \in BodyPoints  BY <1>2 DEF EndBody, At, BodyPoints
  <2>2. Len(stack) = 1
    <3>1. Len(stack) \in 1 .. Len(stack)  BY <2>1, Active
    <3>2. QED  BY <2>1, <3>1 DEF IInv, StackOK, Top
  <2>3. H = {}
    <3>1. Pending(Top) = {}
      BY <2>1, Active
      DEF FrameOK, Pending, NoBlock, HoldsBody, HoldsAfter, HoldsExit,
           HasHeader, BodyPoints
    <3>2. QED  BY <2>2, <3>1 DEF Held, Top
  <2>4. stack' = <<>>
    <3>1. stack' = SubSeq(stack, 1, 0) /\ stack \in Seq(Frame)
      BY <1>2, <2>1, <2>2, Active DEF EndBody, Pop
    <3>2. QED  BY <3>1
  <2>5. Partition(blocks', {}) /\ Len(blocks') = n
    <3>1. Partition(blocks, {cur} \cup {})  BY <2>1, <2>3, Active
    <3>2. blocks' = FinishBlock(blocks, cur, Ret)  BY <1>2 DEF EndBody
    <3>3. QED  BY <3>1, <3>2, RetLeaves
  <2>6. cur' = cur /\ live' = live /\ split' = split /\ size' = size
    BY <1>2 DEF EndBody, SameNode
  <2>7. TypeOK'
    BY <2>4, <2>5, <2>6 DEF IInv, TypeOK, Partition
  <2>8. StackOK(stack', cur', Len(blocks'))
    BY <2>4 DEF StackOK
  <2>9. QED  BY <2>4, <2>5, <2>7, <2>8 DEF IInv, OpenSet
<1>3. QED  BY <1>1, <1>2

-----------------------------------------------------------------------------
(* The theorems *)

(* The entry block is open and current, and nothing else is held. *)
LEMMA Initially == Init => IInv
<1> SUFFICES ASSUME Init  PROVE IInv
  OBVIOUS
<1> DEFINE f == FrameAt("Body")
<1>1. /\ f \in Frame /\ f.at = "Body"
      /\ f.body = NoBlock /\ f.after = NoBlock /\ f.exit = NoBlock
  BY DEF Init, FrameAt, Frame, NoBlock, Points, StatementPoints
<1>2. stack = <<f>> /\ blocks = <<EmptyBlock>> /\ cur = 1  BY DEF Init
<1> HIDE DEF f
<1>3. FrameOK(f, 1) /\ Pending(f) = {} /\ f.at \in BodyPoints
  BY <1>1
  DEF FrameOK, Pending, NoBlock, HoldsBody, HoldsAfter, HoldsExit,
       HasHeader, BodyPoints
<1>4. EmptyBlock \in Block /\ OpenBlock(EmptyBlock)
  BY DEF EmptyBlock, Block, OpenBlock
<1>5. /\ blocks \in Seq(Block) /\ Len(blocks) = 1 /\ blocks[1] = EmptyBlock
      /\ stack \in Seq(Frame) /\ Len(stack) = 1 /\ stack[1] = f /\ stack # <<>>
  BY <1>1, <1>2, <1>4
<1>6. TypeOK
  BY <1>2, <1>5, MaxNodesAssumption DEF Init, TypeOK
<1>7. StackOK(stack, cur, Len(blocks)) /\ Held(stack) = {}
  BY <1>3, <1>5 DEF StackOK, Held
<1>8. Partition(blocks, {cur} \cup Held(stack))
  BY <1>2, <1>4, <1>5, <1>7 DEF Partition
<1>9. QED  BY <1>5, <1>6, <1>7, <1>8 DEF IInv, OpenSet

(* The invariant depends on the variables only. *)
LEMMA Stays == ASSUME IInv, UNCHANGED vars PROVE IInv'
<1>1. blocks' = blocks /\ cur' = cur /\ stack' = stack
      /\ live' = live /\ split' = split /\ size' = size
  BY DEF vars
<1>2. QED  BY <1>1 DEF IInv, TypeOK

(* Every step of the builder preserves the invariant. *)
LEMMA Inductive == IInv /\ [Next]_vars => IInv'
<1> SUFFICES ASSUME IInv, [Next]_vars  PROVE IInv'
  OBVIOUS
<1>1. CASE BeginBodyValue \/ EndBody  BY <1>1, StepBody
<1>2. CASE EvaluateAbs  BY <1>2, StepAbs
<1>3. CASE VisitSimple  BY <1>3, StepSimple
<1>4. CASE VisitIf  BY <1>4, StepIf
<1>5. CASE VisitLoop  BY <1>5, StepWhile, StepRepeat, StepFor DEF VisitLoop
<1>6. CASE VisitCase  BY <1>6, StepCase
<1>7. CASE Finished \/ UNCHANGED vars  BY <1>7, Stays DEF Finished
<1>8. QED  BY <1>1, <1>2, <1>3, <1>4, <1>5, <1>6, <1>7 DEF Next

(* The inductive invariant holds of every lowering: blocks are either open *)
(* and held by exactly one visitor, or sealed by their only terminator.    *)
THEOREM OpenOrSealed == Spec => []IInv
BY Initially, Inductive, PTL DEF Spec

(* TypeCorrect: whatever tree is lowered, curBlock_ names a block of the   *)
(* function whenever a visitor is about to emit.                           *)
THEOREM TypeCorrect == Spec => []TypeOK
<1>1. IInv => TypeOK  BY DEF IInv
<1>2. QED  BY <1>1, OpenOrSealed, PTL

(* TerminatorsComeLast: whatever tree is lowered, no instruction follows a *)
(* terminator in any block, although emit never checks.                    *)
THEOREM TerminatorsComeLast == Spec => []TerminatorLast
<1>1. IInv => TerminatorLast
  <2> SUFFICES ASSUME IInv, NEW b \in 1 .. Len(blocks),
                      NEW k \in 1 .. Len(blocks[b].instrs) - 1
               PROVE  ~IsTerminator(blocks[b].instrs[k])
    BY DEF TerminatorLast
  <2>1. blocks[b].instrs \in Seq(Instr)
    <3>1. blocks[b] \in Block  BY DEF IInv, TypeOK
    <3>2. QED  BY <3>1 DEF Block
  <2>2. k \in 1 .. Len(blocks[b].instrs)  BY <2>1
  <2>3. OpenBlock(blocks[b]) \/ SealedBlock(blocks[b])  BY DEF IInv, Partition
  <2>4. QED  BY <2>2, <2>3 DEF OpenBlock, SealedBlock
<1>2. QED  BY <1>1, OpenOrSealed, PTL

(* NothingRunsOn: whatever tree is lowered, a finished body has no block   *)
(* without a terminator.                                                   *)
THEOREM NothingRunsOn == Spec => []AllFinished
<1>1. IInv => AllFinished
  BY DEF IInv, AllFinished, Done, OpenSet, Partition, SealedBlock
<1>2. QED  BY <1>1, OpenOrSealed, PTL

-----------------------------------------------------------------------------
(***************************************************************************)
(* The edges agree with the terminators after every call the visitors      *)
(* make, not only in a finished body.  A block is open, and has no edges,  *)
(* until it gets its terminator, and the edges of the terminator are       *)
(* recorded in the same visit.  WHILE and FOR record theirs at the loop    *)
(* header, which is the block that gets the terminator exactly when the    *)
(* test has not moved the current block on: that is the second conjunct of *)
(* the invariant, and what ABS destroys.                                   *)
(***************************************************************************)

(* Every block's edges are those its terminator asks for, at both ends. *)
EdgesMatch(bs) ==
  \A b \in 1 .. Len(bs) :
     /\ Targets(bs[b]) \subseteq 1 .. Len(bs)
     /\ bs[b].succs = Targets(bs[b])
     /\ bs[b].preds = {a \in 1 .. Len(bs) : b \in Targets(bs[a])}

Good(bs, S) == Partition(bs, S) /\ EdgesMatch(bs)

(* A visitor that evaluates a loop test is the innermost one. *)
TestsInnermost == \A i \in 1 .. Len(stack) - 1 : stack[i].at \notin LoopTests

(* The block a loop test is evaluated in is the header of its loop. *)
TestInHeader == ~Done /\ Top.at \in LoopTests => cur = Top.header

EdgeInv ==
  /\ IInv
  /\ TestsInnermost
  /\ split = {} => EdgesMatch(blocks) /\ TestInHeader

-----------------------------------------------------------------------------
(* The helpers *)

(* Control goes nowhere yet from an open block. *)
LEMMA OpenTargets ==
  ASSUME NEW blk \in Block, OpenBlock(blk)
  PROVE  Targets(blk) = {}
BY OpenHasNone DEF Targets

(* createBlock adds a block without edges. *)
LEMMA CreateGood ==
  ASSUME NEW bs, NEW S, Good(bs, S)
  PROVE  /\ Good(CreateBlock(bs), S \cup {Len(bs) + 1})
         /\ Len(CreateBlock(bs)) = Len(bs) + 1
<1> DEFINE cs == CreateBlock(bs)
           n  == Len(bs)
<1>1. bs \in Seq(Block) /\ n \in Nat /\ EmptyBlock \in Block
  BY DEF Good, Partition, EmptyBlock, Block
<1>2. /\ cs \in Seq(Block)
      /\ Len(cs) = n + 1
      /\ \A b \in 1 .. n : cs[b] = bs[b]
      /\ cs[n + 1] = EmptyBlock
  BY <1>1 DEF CreateBlock
<1>3. Partition(cs, S \cup {n + 1})  BY CreatePartition DEF Good
<1>4. /\ Targets(EmptyBlock) = {}
      /\ EmptyBlock.succs = {} /\ EmptyBlock.preds = {}
  BY DEF EmptyBlock, Targets, HasTerminator
<1>5. \A b \in 1 .. n : Targets(bs[b]) \subseteq 1 .. n  BY DEF Good, EdgesMatch
<1> HIDE DEF cs
<1>6. \A x : x \in 1 .. n + 1 <=> x \in 1 .. n \/ x = n + 1  BY <1>1
<1>7. n + 1 \notin 1 .. n  BY <1>1
<1>8. ASSUME NEW b \in 1 .. n + 1
      PROVE  /\ Targets(cs[b]) \subseteq 1 .. n + 1
             /\ cs[b].succs = Targets(cs[b])
             /\ cs[b].preds = {a \in 1 .. n + 1 : b \in Targets(cs[a])}
  <2>1. {a \in 1 .. n + 1 : b \in Targets(cs[a])} = {a \in 1 .. n : b \in Targets(bs[a])}
    BY <1>2, <1>4, <1>6
  <2>2. CASE b = n + 1
    <3>1. {a \in 1 .. n : b \in Targets(bs[a])} = {}  BY <2>2, <1>5, <1>7
    <3>2. QED  BY <2>1, <2>2, <3>1, <1>2, <1>4
  <2>3. CASE b # n + 1
    <3>1. b \in 1 .. n  BY <2>3, <1>6
    <3>2. /\ Targets(bs[b]) \subseteq 1 .. n
          /\ bs[b].succs = Targets(bs[b])
          /\ bs[b].preds = {a \in 1 .. n : b \in Targets(bs[a])}
      BY <3>1 DEF Good, EdgesMatch
    <3>3. QED  BY <2>1, <3>1, <3>2, <1>2, <1>6
  <2>4. QED  BY <2>2, <2>3
<1>9. EdgesMatch(cs)  BY <1>2, <1>8 DEF EdgesMatch
<1>10. QED  BY <1>2, <1>3, <1>9 DEF Good, cs

(* emit touches the instructions of one block only. *)
LEMMA EmitFields ==
  ASSUME NEW bs \in Seq(Block), NEW b \in 1 .. Len(bs), NEW i \in Instr
  PROVE  \A c \in 1 .. Len(bs) : /\ Emit(bs, b, i)[c].succs = bs[c].succs
                                 /\ Emit(bs, b, i)[c].preds = bs[c].preds
<1> DEFINE more == [bs[b] EXCEPT !.instrs = Append(@, i)]
<1>1. bs \in [1 .. Len(bs) -> Block] /\ bs[b] \in Block
  OBVIOUS
<1>2. more.succs = bs[b].succs /\ more.preds = bs[b].preds  BY <1>1 DEF Block
<1>3. Emit(bs, b, i) = [bs EXCEPT ![b] = more]  BY <1>1 DEF Emit
<1> HIDE DEF more
<1>4. QED  BY <1>1, <1>2, <1>3

(* What linkBlocks does: the successors of one block and the predecessors  *)
(* of another grow, and nothing else changes.                              *)
Linked(bs, ls, from, to) ==
  /\ ls \in Seq(Block) /\ Len(ls) = Len(bs)
  /\ \A c \in 1 .. Len(bs) :
       /\ ls[c].instrs = bs[c].instrs
       /\ ls[c].succs = IF c = from THEN bs[c].succs \cup {to} ELSE bs[c].succs
       /\ ls[c].preds = IF c = to THEN bs[c].preds \cup {from} ELSE bs[c].preds

(* One more successor of a block ... *)
LEMMA OneMoreSuccessor ==
  ASSUME NEW blk \in Block, NEW x \in Nat,
         NEW more, more = [blk EXCEPT !.succs = @ \cup {x}]
  PROVE  /\ more \in Block
         /\ more.instrs = blk.instrs
         /\ more.succs = blk.succs \cup {x}
         /\ more.preds = blk.preds
<1>1. more.instrs = blk.instrs  BY DEF Block
<1>2. more.succs = blk.succs \cup {x}  BY DEF Block
<1>3. more.preds = blk.preds  BY DEF Block
<1>4. more \in Block
  <2>1. blk.succs \cup {x} \in SUBSET Nat  BY DEF Block
  <2>2. QED  BY <2>1 DEF Block
<1>5. QED  BY <1>1, <1>2, <1>3, <1>4

(* ... or one more predecessor. *)
LEMMA OneMorePredecessor ==
  ASSUME NEW blk \in Block, NEW x \in Nat,
         NEW more, more = [blk EXCEPT !.preds = @ \cup {x}]
  PROVE  /\ more \in Block
         /\ more.instrs = blk.instrs
         /\ more.succs = blk.succs
         /\ more.preds = blk.preds \cup {x}
<1>1. more.instrs = blk.instrs  BY DEF Block
<1>2. more.succs = blk.succs  BY DEF Block
<1>3. more.preds = blk.preds \cup {x}  BY DEF Block
<1>4. more \in Block
  <2>1. blk.preds \cup {x} \in SUBSET Nat  BY DEF Block
  <2>2. QED  BY <2>1 DEF Block
<1>5. QED  BY <1>1, <1>2, <1>3, <1>4

(* linkBlocks does what Linked says. *)
LEMMA LinkFields ==
  ASSUME NEW bs \in Seq(Block), NEW from \in 1 .. Len(bs), NEW to \in 1 .. Len(bs)
  PROVE  Linked(bs, LinkBlocks(bs, from, to), from, to)
<1> DEFINE ls    == LinkBlocks(bs, from, to)
           more  == [bs[from] EXCEPT !.succs = @ \cup {to}]
           mid   == [bs EXCEPT ![from] = more]
           again == [mid[to] EXCEPT !.preds = @ \cup {from}]
<1>1. bs \in [1 .. Len(bs) -> Block] /\ Len(bs) \in Nat /\ from \in Nat /\ to \in Nat
  OBVIOUS
<1>2. bs[from] \in Block  BY <1>1
<1>3. /\ more \in Block
      /\ more.instrs = bs[from].instrs
      /\ more.succs = bs[from].succs \cup {to}
      /\ more.preds = bs[from].preds
  BY <1>1, <1>2, OneMoreSuccessor
<1>4. ls = [mid EXCEPT ![to] = again]  BY <1>1 DEF LinkBlocks
<1> HIDE DEF more, ls
<1>5. /\ mid \in [1 .. Len(bs) -> Block]
      /\ mid[from] = more
      /\ \A c \in 1 .. Len(bs) : c # from => mid[c] = bs[c]
  BY <1>1, <1>3
<1> HIDE DEF mid
<1>6. mid[to] \in Block  BY <1>5
<1>7. /\ again \in Block
      /\ again.instrs = mid[to].instrs
      /\ again.succs = mid[to].succs
      /\ again.preds = mid[to].preds \cup {from}
  BY <1>1, <1>6, OneMorePredecessor
<1> HIDE DEF again
<1>8. /\ ls \in [1 .. Len(bs) -> Block]
      /\ ls[to] = again
      /\ \A c \in 1 .. Len(bs) : c # to => ls[c] = mid[c]
  BY <1>4, <1>5, <1>7
<1>9. ls \in Seq(Block) /\ Len(ls) = Len(bs)  BY <1>1, <1>8
<1>10. ASSUME NEW c \in 1 .. Len(bs)
       PROVE  /\ mid[c].instrs = bs[c].instrs
              /\ mid[c].succs = IF c = from THEN bs[c].succs \cup {to} ELSE bs[c].succs
              /\ mid[c].preds = bs[c].preds
  <2>1. CASE c = from  BY <2>1, <1>3, <1>5
  <2>2. CASE c # from  BY <2>2, <1>5
  <2>3. QED  BY <2>1, <2>2
<1>11. ASSUME NEW c \in 1 .. Len(bs)
       PROVE  /\ ls[c].instrs = mid[c].instrs
              /\ ls[c].succs = mid[c].succs
              /\ ls[c].preds = IF c = to THEN mid[c].preds \cup {from} ELSE mid[c].preds
  <2>1. CASE c = to  BY <2>1, <1>7, <1>8
  <2>2. CASE c # to  BY <2>2, <1>8
  <2>3. QED  BY <2>1, <2>2
<1>12. \A c \in 1 .. Len(bs) :
         /\ ls[c].instrs = bs[c].instrs
         /\ ls[c].succs = IF c = from THEN bs[c].succs \cup {to} ELSE bs[c].succs
         /\ ls[c].preds = IF c = to THEN bs[c].preds \cup {from} ELSE bs[c].preds
  BY <1>10, <1>11
<1>13. QED  BY <1>9, <1>12 DEF Linked, ls

(* A straight-line instruction changes no target. *)
LEMMA EmitGood ==
  ASSUME NEW bs, NEW S, Good(bs, S), NEW b \in S, NEW o \in PlainOps
  PROVE  /\ Good(Emit(bs, b, Op(o)), S)
         /\ Len(Emit(bs, b, Op(o))) = Len(bs)
<1> DEFINE es == Emit(bs, b, Op(o))
<1>1. Partition(bs, S) /\ bs \in Seq(Block) /\ b \in 1 .. Len(bs)
  BY DEF Good, Partition
<1>2. Op(o) \in Instr
  BY DEF Op, Instr, NoBlock, PlainOps
<1>3. Partition(es, S) /\ Len(es) = Len(bs)  BY <1>1, EmitPartition
<1>4. \A c \in 1 .. Len(bs) : /\ es[c].succs = bs[c].succs
                              /\ es[c].preds = bs[c].preds
                              /\ c # b => es[c] = bs[c]
  BY <1>1, <1>2, EmitFields, EmitEffect
<1> HIDE DEF es
<1>5. Targets(bs[b]) = {} /\ Targets(es[b]) = {}
  <2>1. bs[b] \in Block /\ OpenBlock(bs[b])  BY <1>1 DEF Partition
  <2>2. es[b] \in Block /\ OpenBlock(es[b])  BY <1>1, <1>3 DEF Partition
  <2>3. QED  BY <2>1, <2>2, OpenTargets
<1>6. \A c \in 1 .. Len(bs) : Targets(es[c]) = Targets(bs[c])  BY <1>4, <1>5
<1>7. EdgesMatch(es)
  BY <1>3, <1>4, <1>6 DEF EdgesMatch, Good
<1>8. QED  BY <1>3, <1>7 DEF Good, es

(* What finishBlock does to an open block b: it gets the targets T. *)
Sealed(bs, fs, b, T) ==
  /\ fs \in Seq(Block) /\ Len(fs) = Len(bs)
  /\ Targets(bs[b]) = {}
  /\ Targets(fs[b]) = T
  /\ \A c \in 1 .. Len(bs) : /\ c # b => fs[c] = bs[c]
                             /\ fs[c].succs = bs[c].succs
                             /\ fs[c].preds = bs[c].preds

(* finishBlock does what Sealed says. *)
LEMMA FinishTargets ==
  ASSUME NEW bs, NEW S, Partition(bs, S), NEW b \in S,
         NEW t \in Instr, IsTerminator(t),
         NEW T, T = {t.targetBlock, t.falseBlock} \ {NoBlock}
  PROVE  Sealed(bs, FinishBlock(bs, b, t), b, T)
<1> DEFINE es == Emit(bs, b, t)
           old == bs[b].instrs
<1>1. bs \in Seq(Block) /\ b \in 1 .. Len(bs) /\ OpenBlock(bs[b]) /\ bs[b] \in Block
  BY DEF Partition
<1>2. FinishBlock(bs, b, t) = es  BY <1>1, OpenHasNone DEF FinishBlock
<1>3. /\ es \in Seq(Block)
      /\ Len(es) = Len(bs)
      /\ es[b].instrs = Append(old, t)
      /\ \A c \in 1 .. Len(bs) : /\ c # b => es[c] = bs[c]
                                 /\ es[c].succs = bs[c].succs
                                 /\ es[c].preds = bs[c].preds
  BY <1>1, EmitEffect, EmitFields
<1>4. old \in Seq(Instr)  BY <1>1 DEF Block
<1>5. /\ Append(old, t)[Len(Append(old, t))] = t
      /\ Append(old, t) # <<>>
  BY <1>4
<1> HIDE DEF es, old
<1>6. Targets(es[b]) = {t.targetBlock, t.falseBlock} \ {NoBlock}
  BY <1>3, <1>5 DEF Targets, HasTerminator
<1>7. Targets(bs[b]) = {}  BY <1>1, OpenTargets
<1>8. QED  BY <1>2, <1>3, <1>6, <1>7 DEF Sealed

(* A Ret goes nowhere, and no edge is recorded. *)
LEMMA RetGood ==
  ASSUME NEW bs, NEW S, Good(bs, S), NEW b \in S
  PROVE  /\ Good(FinishBlock(bs, b, Ret), S \ {b})
         /\ Len(FinishBlock(bs, b, Ret)) = Len(bs)
<1> DEFINE fs == FinishBlock(bs, b, Ret)
<1>1. /\ Ret \in Instr /\ IsTerminator(Ret)
      /\ {} = {Ret.targetBlock, Ret.falseBlock} \ {NoBlock}
  BY DEF Ret, Op, Instr, Terminators, NoBlock, IsTerminator
<1>2. Partition(bs, S)  BY DEF Good
<1>3. Partition(fs, S \ {b})  BY <1>2, RetPartition
<1>4. Sealed(bs, fs, b, {})  BY <1>1, <1>2, FinishTargets
<1> HIDE DEF fs
<1>5. \A c \in 1 .. Len(bs) : Targets(fs[c]) = Targets(bs[c])  BY <1>4 DEF Sealed
<1>6. EdgesMatch(fs)  BY <1>4, <1>5 DEF EdgesMatch, Good, Sealed
<1>7. QED  BY <1>3, <1>4, <1>6 DEF Good, Sealed, fs

(* Giving the block b the targets T and recording the edges to T at b and  *)
(* at their ends keeps the edges right.                                    *)
LEMMA NewEdges ==
  ASSUME NEW bs \in Seq(Block), EdgesMatch(bs),
         NEW cs \in Seq(Block), Len(cs) = Len(bs),
         NEW b \in 1 .. Len(bs), NEW T, T \subseteq 1 .. Len(bs),
         Targets(bs[b]) = {}, Targets(cs[b]) = T,
         \A c \in 1 .. Len(bs) :
            /\ c # b => Targets(cs[c]) = Targets(bs[c])
            /\ cs[c].succs = IF c = b THEN bs[c].succs \cup T ELSE bs[c].succs
            /\ cs[c].preds = IF c \in T THEN bs[c].preds \cup {b} ELSE bs[c].preds
  PROVE  EdgesMatch(cs)
<1> SUFFICES ASSUME NEW c \in 1 .. Len(bs)
             PROVE  /\ Targets(cs[c]) \subseteq 1 .. Len(bs)
                    /\ cs[c].succs = Targets(cs[c])
                    /\ cs[c].preds = {a \in 1 .. Len(bs) : c \in Targets(cs[a])}
  BY DEF EdgesMatch
<1>1. /\ Targets(bs[c]) \subseteq 1 .. Len(bs)
      /\ bs[c].succs = Targets(bs[c])
      /\ bs[c].preds = {a \in 1 .. Len(bs) : c \in Targets(bs[a])}
  BY DEF EdgesMatch
<1>2. Targets(cs[c]) \subseteq 1 .. Len(bs) /\ cs[c].succs = Targets(cs[c])
  <2>1. CASE c = b
    <3>1. bs[c].succs = {}  BY <2>1, <1>1
    <3>2. cs[c].succs = bs[c].succs \cup T  BY <2>1
    <3>3. Targets(cs[c]) = T  BY <2>1
    <3>4. QED  BY <3>1, <3>2, <3>3
  <2>2. CASE c # b  BY <2>2, <1>1
  <2>3. QED  BY <2>1, <2>2
<1>3. ASSUME NEW a \in 1 .. Len(bs)
      PROVE  c \in Targets(cs[a]) <=> c \in Targets(bs[a]) \/ (c \in T /\ a = b)
  <2>1. CASE a = b  BY <2>1
  <2>2. CASE a # b  BY <2>2
  <2>3. QED  BY <2>1, <2>2
<1>4. cs[c].preds = {a \in 1 .. Len(bs) : c \in Targets(cs[a])}
  BY <1>1, <1>3
<1>5. QED  BY <1>2, <1>4

(* A jump is recorded where it is. *)
LEMMA JumpGood ==
  ASSUME NEW bs, NEW S, Good(bs, S), NEW b \in S, NEW to \in 1 .. Len(bs)
  PROVE  /\ Good(JumpTo(bs, b, to), S \ {b})
         /\ Len(JumpTo(bs, b, to)) = Len(bs)
<1> DEFINE fs == FinishBlock(bs, b, Jump(to))
           ls == LinkBlocks(fs, b, to)
<1>1. Partition(bs, S) /\ bs \in Seq(Block) /\ Len(bs) \in Nat  BY DEF Good, Partition
<1>2. /\ Jump(to) \in Instr /\ IsTerminator(Jump(to))
      /\ {Jump(to).targetBlock, Jump(to).falseBlock} \ {NoBlock} = {to}
  BY <1>1 DEF Jump, Instr, Terminators, NoBlock, IsTerminator
<1>3. /\ Partition(JumpTo(bs, b, to), S \ {b})
      /\ Len(JumpTo(bs, b, to)) = Len(bs)
  BY <1>1, JumpPartition
<1>4. b \in 1 .. Len(bs)  BY <1>1 DEF Partition
<1>5. Sealed(bs, fs, b, {to})  BY <1>1, <1>2, FinishTargets
<1> HIDE DEF fs
<1>6. Linked(fs, ls, b, to)
  <2>1. fs \in Seq(Block) /\ b \in 1 .. Len(fs) /\ to \in 1 .. Len(fs)
    BY <1>4, <1>5 DEF Sealed
  <2>2. QED  BY <2>1, LinkFields
<1> HIDE DEF ls
<1>7. ls \in Seq(Block) /\ Len(ls) = Len(bs)  BY <1>5, <1>6 DEF Linked, Sealed
<1>8. \A c \in 1 .. Len(bs) : Targets(ls[c]) = Targets(fs[c])
  <2>1. \A c \in 1 .. Len(bs) : ls[c].instrs = fs[c].instrs
    BY <1>5, <1>6 DEF Linked, Sealed
  <2>2. QED  BY <2>1 DEF Targets, HasTerminator
<1>9. ASSUME NEW c \in 1 .. Len(bs)
      PROVE  /\ c # b => Targets(ls[c]) = Targets(bs[c])
             /\ ls[c].succs = IF c = b THEN bs[c].succs \cup {to} ELSE bs[c].succs
             /\ ls[c].preds = IF c \in {to} THEN bs[c].preds \cup {b} ELSE bs[c].preds
  BY <1>5, <1>6, <1>8 DEF Linked, Sealed
<1>10. Targets(ls[b]) = {to} /\ Targets(bs[b]) = {}
       /\ EdgesMatch(bs) /\ {to} \subseteq 1 .. Len(bs)
  BY <1>4, <1>5, <1>8 DEF Good, Sealed
<1>11. EdgesMatch(ls)  BY <1>1, <1>4, <1>7, <1>9, <1>10, NewEdges
<1>12. QED  BY <1>3, <1>11 DEF Good, JumpTo, fs, ls

(* A branch is recorded where it is, if its edges are put down there. *)
LEMMA BranchGood ==
  ASSUME NEW bs, NEW S, Good(bs, S), NEW b \in S,
         NEW t \in 1 .. Len(bs), NEW f \in 1 .. Len(bs)
  PROVE  /\ Good(BranchTo(bs, b, b, t, f), S \ {b})
         /\ Len(BranchTo(bs, b, b, t, f)) = Len(bs)
<1> DEFINE fs == FinishBlock(bs, b, Branch(t, f))
           ks == LinkBlocks(fs, b, t)
           ls == LinkBlocks(ks, b, f)
<1>1. Partition(bs, S) /\ bs \in Seq(Block) /\ Len(bs) \in Nat  BY DEF Good, Partition
<1>2. /\ Branch(t, f) \in Instr /\ IsTerminator(Branch(t, f))
      /\ {Branch(t, f).targetBlock, Branch(t, f).falseBlock} \ {NoBlock} = {t, f}
  BY <1>1 DEF Branch, Instr, Terminators, NoBlock, IsTerminator
<1>3. b \in 1 .. Len(bs)  BY <1>1 DEF Partition
<1>4. /\ Partition(BranchTo(bs, b, b, t, f), S \ {b})
      /\ Len(BranchTo(bs, b, b, t, f)) = Len(bs)
  BY <1>1, <1>3, BranchPartition
<1>5. Sealed(bs, fs, b, {t, f})  BY <1>1, <1>2, FinishTargets
<1> HIDE DEF fs
<1>6. Linked(fs, ks, b, t)
  <2>1. fs \in Seq(Block) /\ b \in 1 .. Len(fs) /\ t \in 1 .. Len(fs)
    BY <1>3, <1>5 DEF Sealed
  <2>2. QED  BY <2>1, LinkFields
<1> HIDE DEF ks
<1>7. Linked(ks, ls, b, f)
  <2>1. ks \in Seq(Block) /\ b \in 1 .. Len(ks) /\ f \in 1 .. Len(ks)
    BY <1>3, <1>5, <1>6 DEF Sealed, Linked
  <2>2. QED  BY <2>1, LinkFields
<1> HIDE DEF ls
<1>8. ls \in Seq(Block) /\ Len(ls) = Len(bs) /\ Len(ks) = Len(bs)
  BY <1>5, <1>6, <1>7 DEF Linked, Sealed
<1>9. \A c \in 1 .. Len(bs) : Targets(ls[c]) = Targets(fs[c])
  <2>1. \A c \in 1 .. Len(bs) : ls[c].instrs = fs[c].instrs
    BY <1>5, <1>6, <1>7, <1>8 DEF Linked, Sealed
  <2>2. QED  BY <2>1 DEF Targets, HasTerminator
<1>10. ASSUME NEW c \in 1 .. Len(bs)
       PROVE  /\ c # b => Targets(ls[c]) = Targets(bs[c])
              /\ ls[c].succs = IF c = b THEN bs[c].succs \cup {t, f} ELSE bs[c].succs
              /\ ls[c].preds = IF c \in {t, f} THEN bs[c].preds \cup {b} ELSE bs[c].preds
  <2>1. c # b => Targets(ls[c]) = Targets(bs[c])  BY <1>5, <1>9 DEF Sealed
  <2>2. /\ ls[c].succs = IF c = b THEN ks[c].succs \cup {f} ELSE ks[c].succs
        /\ ls[c].preds = IF c = f THEN ks[c].preds \cup {b} ELSE ks[c].preds
    BY <1>7, <1>8 DEF Linked
  <2>3. /\ ks[c].succs = IF c = b THEN bs[c].succs \cup {t} ELSE bs[c].succs
        /\ ks[c].preds = IF c = t THEN bs[c].preds \cup {b} ELSE bs[c].preds
    BY <1>5, <1>6 DEF Linked, Sealed
  <2>4. ls[c].succs = IF c = b THEN bs[c].succs \cup {t, f} ELSE bs[c].succs
    <3>1. CASE c = b  BY <3>1, <2>2, <2>3
    <3>2. CASE c # b  BY <3>2, <2>2, <2>3
    <3>3. QED  BY <3>1, <3>2
  <2>5. ls[c].preds = IF c \in {t, f} THEN bs[c].preds \cup {b} ELSE bs[c].preds
    <3>1. CASE c \in {t, f}  BY <3>1, <2>2, <2>3
    <3>2. CASE c \notin {t, f}  BY <3>2, <2>2, <2>3
    <3>3. QED  BY <3>1, <3>2
  <2>6. QED  BY <2>1, <2>4, <2>5
<1>11. Targets(ls[b]) = {t, f} /\ Targets(bs[b]) = {}
       /\ EdgesMatch(bs) /\ {t, f} \subseteq 1 .. Len(bs)
  BY <1>3, <1>5, <1>9 DEF Good, Sealed
<1>12. EdgesMatch(ls)  BY <1>1, <1>3, <1>8, <1>10, <1>11, NewEdges
<1>13. QED  BY <1>4, <1>12 DEF Good, BranchTo, fs, ks, ls

-----------------------------------------------------------------------------
(* The stack of visitors *)

(* No visitor is left waiting for a loop test. *)
Quiet == TestsInnermost /\ (~Done => Top.at \notin LoopTests)

(* What entering a statement does to the stack, ... *)
LEMMA PushShape ==
  ASSUME IInv, ~Done, NEW f, Push(f)
  PROVE  /\ Len(stack') = Len(stack) + 1 /\ Len(stack) \in Nat
         /\ \A i \in 1 .. Len(stack) : stack'[i] = stack[i]
         /\ stack'[Len(stack) + 1] = f
         /\ ~Done' /\ Top' = f
<1> DEFINE G == Frame \cup {f}
<1>1. stack \in Seq(Frame) /\ Len(stack) \in Nat  BY Active
<1>2. stack \in Seq(G)
  <2>1. \A i \in 1 .. Len(stack) : stack[i] \in G  BY <1>1
  <2>2. QED  BY <1>1, <2>1
<1>3. f \in G  OBVIOUS
<1> HIDE DEF G
<1>4. /\ Len(Append(stack, f)) = Len(stack) + 1
      /\ \A i \in 1 .. Len(stack) : Append(stack, f)[i] = stack[i]
      /\ Append(stack, f)[Len(stack) + 1] = f
      /\ Append(stack, f) # <<>>
  BY <1>2, <1>3
<1>5. stack' = Append(stack, f)  BY DEF Push
<1>6. QED  BY <1>1, <1>4, <1>5 DEF Top, Done

(* ... what moving on inside one does, ... *)
LEMMA ReplaceShape ==
  ASSUME IInv, ~Done, NEW f, Replace(f)
  PROVE  /\ Len(stack') = Len(stack) /\ Len(stack) \in Nat
         /\ \A i \in 1 .. Len(stack) - 1 : stack'[i] = stack[i]
         /\ stack'[Len(stack)] = f
         /\ ~Done' /\ Top' = f
<1> DEFINE l == Len(stack)
           G == Frame \cup {f}
<1>1. stack \in [1 .. l -> Frame] /\ l \in Nat /\ stack # <<>>  BY Active
<1>2. l \in 1 .. l  BY <1>1, Active
<1>3. stack \in [1 .. l -> G] /\ f \in G
  <2> HIDE DEF l
  <2>1. QED  BY <1>1
<1>4. stack' = [stack EXCEPT ![l] = f]  BY Zenon DEF Replace
<1> HIDE DEF G
<1>5. /\ stack' \in [1 .. l -> G]
      /\ stack'[l] = f
      /\ \A i \in 1 .. l : i # l => stack'[i] = stack[i]
  BY ZenonT(40), <1>2, <1>3, <1>4
<1>6. stack' \in Seq(G) /\ Len(stack') = l
  <2> HIDE DEF l
  <2>1. QED  BY <1>1, <1>5
<1>7. stack' # <<>>
  <2>1. Len(stack') > 0
    <3> HIDE DEF l
    <3>1. l \in Nat /\ l \in 1 .. l  BY Zenon, <1>1, <1>2
    <3>2. Len(stack') = l  BY Zenon, <1>6
    <3>3. QED  BY <3>1, <3>2
  <2>2. QED  BY <2>1, <1>6, EmptySeq
<1>8. Top' = f /\ ~Done'  BY Zenon, <1>5, <1>6, <1>7 DEF Top, Done
<1>9. ASSUME NEW i \in 1 .. l - 1  PROVE stack'[i] = stack[i]
  <2>1. i \in 1 .. l /\ i # l
    <3> HIDE DEF l
    <3>1. QED  BY <1>1
  <2>2. QED  BY <1>5, <2>1
<1>10. QED  BY <1>1, <1>5, <1>6, <1>8, <1>9

(* ... and what leaving one does. *)
LEMMA PopShape ==
  ASSUME IInv, ~Done, Pop
  PROVE  /\ Len(stack') = Len(stack) - 1 /\ Len(stack) \in Nat
         /\ stack' \in Seq(Frame)
         /\ \A i \in 1 .. Len(stack) - 1 : stack'[i] = stack[i]
<1> DEFINE l == Len(stack)
           new == SubSeq(stack, 1, l - 1)
<1>1. stack \in Seq(Frame) /\ l \in Nat /\ stack # <<>>  BY Active
<1>2. l \in 1 .. l  BY <1>1
<1>3. stack' = new  BY DEF Pop
<1>4. /\ new \in Seq(Frame)
      /\ Len(new) = l - 1
      /\ \A i \in 1 .. l - 1 : new[i] = stack[i]
  <2>1. CASE l = 1
    <3>1. new = <<>> /\ 1 .. l - 1 = {}  BY <1>1, <2>1
    <3>2. QED  BY <1>1, <2>1, <3>1
  <2>2. CASE l # 1
    <3>1. \A i \in 1 .. l - 1 : stack[i] \in Frame  BY <1>1
    <3>2. 1 \in Int /\ l - 1 \in Int /\ 1 <= l - 1
      <4> HIDE DEF l
      <4>1. QED  BY <1>1, <1>2, <2>2
    <3>3. /\ new \in Seq(Frame)
          /\ Len(new) = (l - 1) - 1 + 1
          /\ \A i \in 1 .. (l - 1) - 1 + 1 : new[i] = stack[1 + i - 1]
      BY <3>1, <3>2, SubSeqProperties
    <3>4. ASSUME NEW i \in 1 .. l - 1  PROVE new[i] = stack[i]
      <4>1. i \in 1 .. (l - 1) - 1 + 1 /\ 1 + i - 1 = i  BY <1>1
      <4>2. QED  BY <3>3, <4>1
    <3>5. Len(new) = l - 1  BY <1>1, <3>3
    <3>6. QED  BY <3>3, <3>4, <3>5
  <2>3. QED  BY <2>1, <2>2
<1>5. QED  BY <1>1, <1>3, <1>4

(* Entering a statement. *)
LEMMA PushKeeps ==
  ASSUME IInv, ~Done, TestsInnermost, Top.at \notin LoopTests, NEW f, Push(f)
  PROVE  TestsInnermost' /\ ~Done' /\ Top' = f
<1>1. /\ Len(stack') = Len(stack) + 1 /\ Len(stack) \in Nat
      /\ \A i \in 1 .. Len(stack) : stack'[i] = stack[i]
      /\ ~Done' /\ Top' = f
  BY PushShape
<1>2. ASSUME NEW i \in 1 .. Len(stack') - 1  PROVE stack'[i].at \notin LoopTests
  <2>1. i \in 1 .. Len(stack) /\ stack'[i] = stack[i]  BY <1>1
  <2>2. CASE i = Len(stack)  BY <2>1, <2>2 DEF Top
  <2>3. CASE i # Len(stack)
    <3>1. i \in 1 .. Len(stack) - 1  BY <1>1, <2>1, <2>3
    <3>2. QED  BY <2>1, <3>1 DEF TestsInnermost
  <2>4. QED  BY <2>2, <2>3
<1>3. QED  BY <1>1, <1>2 DEF TestsInnermost

(* Moving on inside a statement. *)
LEMMA ReplaceKeeps ==
  ASSUME IInv, ~Done, TestsInnermost, NEW f, Replace(f)
  PROVE  TestsInnermost' /\ ~Done' /\ Top' = f
BY ReplaceShape DEF TestsInnermost

(* Going back to the enclosing statement list. *)
LEMMA PopKeeps ==
  ASSUME IInv, ~Done, TestsInnermost, Pop
  PROVE  Quiet'
<1> DEFINE l == Len(stack)
<1>1. /\ Len(stack') = l - 1 /\ l \in Nat /\ stack' \in Seq(Frame)
      /\ \A i \in 1 .. l - 1 : stack'[i] = stack[i]
  BY PopShape
<1>2. \A i \in 1 .. l - 1 : stack'[i].at \notin LoopTests
  BY <1>1 DEF TestsInnermost
<1>3. TestsInnermost'
  <2>1. \A i \in 1 .. Len(stack') - 1 : i \in 1 .. l - 1  BY <1>1
  <2>2. QED  BY <1>2, <2>1 DEF TestsInnermost
<1>4. ASSUME ~Done'  PROVE Top'.at \notin LoopTests
  <2>1. stack' # <<>>  BY <1>4 DEF Done
  <2>2. Len(stack') \in 1 .. Len(stack')  BY <1>1, <2>1, EmptySeq
  <2>3. QED  BY <1>1, <1>2, <2>2 DEF Top
<1>5. QED  BY <1>3, <1>4 DEF Quiet

(* A step that hands the stack on without a loop test on top of it has     *)
(* only the edges left to show.                                            *)
LEMMA Settles ==
  ASSUME EdgeInv, Next, Quiet', split' = split,
         split = {} => EdgesMatch(blocks')
  PROVE  EdgeInv'
<1>1. IInv'  BY Inductive DEF EdgeInv
<1>2. TestInHeader'  BY DEF Quiet, TestInHeader
<1>3. QED  BY <1>1, <1>2 DEF EdgeInv, Quiet

-----------------------------------------------------------------------------
(* Where the visitors' jumps lead *)

(* The blocks of a frame that its point requires are blocks of the         *)
(* function.                                                               *)
LEMMA Ends ==
  ASSUME IInv, ~Done
  PROVE  /\ Top.at \in HoldsBody => Top.body \in 1 .. Len(blocks)
         /\ Top.at \in HoldsAfter => Top.after \in 1 .. Len(blocks)
         /\ Top.at \in HoldsExit => Top.exit \in 1 .. Len(blocks)
         /\ Top.at \in HasHeader => Top.header \in 1 .. Len(blocks)
BY Active DEF FrameOK, Pending

(* What the visitors start from. *)
LEMMA Start ==
  ASSUME IInv, ~Done, EdgesMatch(blocks)
  PROVE  /\ Good(blocks, {cur} \cup Held(stack))
         /\ Len(blocks) \in Nat
BY Active DEF Good

(* The blocks they create are good too. *)
LEMMA CreatesGood ==
  ASSUME IInv, ~Done, EdgesMatch(blocks)
  PROVE  /\ Good(Create1, {cur} \cup (Held(stack) \cup {Next1})) /\ Len(Create1) = Next1
         /\ Good(Create2, {cur} \cup (Held(stack) \cup {Next1, Next2})) /\ Len(Create2) = Next2
         /\ Good(Create3, {cur} \cup (Held(stack) \cup {Next1, Next2, Next3}))
         /\ Len(Create3) = Next3
<1>1. EdgesMatch(Create1)
  BY Start, CreateGood DEF Good, Create1
<1>2. EdgesMatch(Create2)
  <2>1. Good(Create1, {cur} \cup (Held(stack) \cup {Next1}))  BY <1>1, Creates DEF Good
  <2>2. QED  BY <2>1, CreateGood DEF Good, Create2
<1>3. EdgesMatch(Create3)
  <2>1. Good(Create2, {cur} \cup (Held(stack) \cup {Next1, Next2}))
    BY <1>2, Creates DEF Good
  <2>2. QED  BY <2>1, CreateGood DEF Good, Create3
<1>4. QED  BY <1>1, <1>2, <1>3, Creates DEF Good

(* A jump out of the current block keeps the edges right. *)
LEMMA JumpOut ==
  ASSUME EdgeInv, ~Done, split = {}, NEW to \in 1 .. Len(blocks)
  PROVE  EdgesMatch(JumpTo(blocks, cur, to))
<1>1. Good(blocks, {cur} \cup Held(stack))  BY Start DEF EdgeInv
<1>2. QED  BY <1>1, JumpGood DEF Good

(* So does an instruction put in it, ... *)
LEMMA EmitHere ==
  ASSUME EdgeInv, ~Done, split = {}, NEW o \in PlainOps
  PROVE  /\ Good(Emit(blocks, cur, Op(o)), {cur} \cup Held(stack))
         /\ Len(Emit(blocks, cur, Op(o))) = Len(blocks)
<1>1. Good(blocks, {cur} \cup Held(stack))  BY Start DEF EdgeInv
<1>2. QED  BY <1>1, EmitGood

(* ... and the test of a loop or a label. *)
LEMMA TestHere ==
  ASSUME EdgeInv, ~Done, split = {},
         NEW t \in 1 .. Len(blocks), NEW f \in 1 .. Len(blocks)
  PROVE  EdgesMatch(BranchTo(Emit(blocks, cur, Op("Eval")), cur, cur, t, f))
<1> DEFINE es == Emit(blocks, cur, Op("Eval"))
           S  == {cur} \cup Held(stack)
<1>1. Good(es, S) /\ Len(es) = Len(blocks)
  BY EmitHere DEF PlainOps
<1>2. cur \in S  OBVIOUS
<1> HIDE DEF es, S
<1>3. t \in 1 .. Len(es) /\ f \in 1 .. Len(es)  BY <1>1
<1>4. QED  BY <1>1, <1>2, <1>3, BranchGood DEF Good, es

(* A statement that is entered: no loop test is left below it. *)
LEMMA EnterQuietly ==
  ASSUME EdgeInv, AtStatement, NEW f, Push(f), f.at \notin LoopTests
  PROVE  Quiet'
<1>1. ~Done /\ Top.at \notin LoopTests
  BY DEF AtStatement, StatementPoints, LoopTests
<1>2. QED  BY <1>1, PushKeeps DEF EdgeInv, Quiet

(* A statement that moves on. *)
LEMMA MoveQuietly ==
  ASSUME EdgeInv, ~Done, NEW f, Replace(f), f.at \notin LoopTests
  PROVE  Quiet'
BY ReplaceKeeps DEF EdgeInv, Quiet

-----------------------------------------------------------------------------
(* The steps *)

(* The body itself: a Ret has no edges. *)
LEMMA EdgesBody == ASSUME EdgeInv, Next, BeginBodyValue \/ EndBody PROVE EdgeInv'
<1>1. CASE BeginBodyValue
  <2> DEFINE f == [Top EXCEPT !.at = "BodyValue"]
  <2>1. ~Done /\ Replace(f) /\ blocks' = blocks /\ split' = split
    BY <1>1 DEF BeginBodyValue, At
  <2>2. f.at \notin LoopTests  BY <2>1, Active DEF EdgeInv, Frame, LoopTests
  <2>3. QED  BY <2>1, <2>2, MoveQuietly, Settles DEF EdgeInv
<1>2. CASE EndBody
  <2>1. ~Done /\ Pop /\ blocks' = FinishBlock(blocks, cur, Ret) /\ split' = split
    BY <1>2 DEF EndBody, At
  <2>2. split = {} => EdgesMatch(blocks')
    <3>1. split = {} => Good(blocks, {cur} \cup Held(stack))
      BY <2>1, Start DEF EdgeInv
    <3>2. QED  BY <2>1, <3>1, RetGood DEF Good
  <2>3. QED  BY <2>1, <2>2, PopKeeps, Settles DEF EdgeInv
<1>3. QED  BY <1>1, <1>2

(* Assignments, calls and RETURN. *)
LEMMA EdgesSimple == ASSUME EdgeInv, Next, VisitSimple PROVE EdgeInv'
<1>1. CASE BeginSimple
  <2> DEFINE f == FrameAt("Operand")
  <2>1. AtStatement /\ Push(f) /\ blocks' = blocks /\ split' = split
    BY <1>1 DEF BeginSimple
  <2>2. f.at \notin LoopTests  BY DEF FrameAt, LoopTests
  <2>3. QED  BY <2>1, <2>2, EnterQuietly, Settles DEF EdgeInv
<1>2. CASE EndSimple
  <2>1. ~Done /\ Pop /\ blocks' = Emit(blocks, cur, Op("Store")) /\ split' = split
    BY <1>2 DEF EndSimple, At
  <2>2. split = {} => EdgesMatch(blocks')  BY <2>1, EmitHere DEF Good, PlainOps
  <2>3. QED  BY <2>1, <2>2, PopKeeps, Settles DEF EdgeInv
<1>3. CASE BeginReturn
  <2> DEFINE f == FrameAt("ReturnValue")
  <2>1. AtStatement /\ Push(f) /\ blocks' = blocks /\ split' = split
    BY <1>3 DEF BeginReturn
  <2>2. f.at \notin LoopTests  BY DEF FrameAt, LoopTests
  <2>3. QED  BY <2>1, <2>2, EnterQuietly, Settles DEF EdgeInv
<1>4. CASE EndReturn
  <2> DEFINE fs == FinishBlock(blocks, cur, Ret)
  <2>1. ~Done /\ Pop /\ blocks' = CreateBlock(fs) /\ split' = split
    BY <1>4 DEF EndReturn, At
  <2>2. ASSUME split = {}  PROVE EdgesMatch(blocks')
    <3>1. Good(blocks, {cur} \cup Held(stack))  BY <2>1, <2>2, Start DEF EdgeInv
    <3>2. Good(fs, ({cur} \cup Held(stack)) \ {cur})  BY <3>1, RetGood
    <3>3. QED  BY <2>1, <3>2, CreateGood DEF Good
  <2>3. QED  BY <2>1, <2>2, PopKeeps, Settles DEF EdgeInv
<1>5. QED  BY <1>1, <1>2, <1>3, <1>4 DEF VisitSimple

(* IF: every part jumps to the merge block. *)
LEMMA EdgesIf == ASSUME EdgeInv, Next, VisitIf PROVE EdgeInv'
<1>1. CASE BeginIf
  <2> DEFINE f == [FrameAt("IfCond") EXCEPT !.exit = Next1]
  <2>1. AtStatement /\ ~Done /\ Push(f) /\ blocks' = Create1 /\ split' = split
    BY <1>1 DEF BeginIf, AtStatement
  <2>2. f.at \notin LoopTests  BY DEF FrameAt, LoopTests
  <2>3. split = {} => EdgesMatch(blocks')  BY <2>1, CreatesGood DEF EdgeInv, Good
  <2>4. QED  BY <2>1, <2>2, <2>3, EnterQuietly, Settles
<1>2. CASE IfBranch
  <2> DEFINE f == [Top EXCEPT !.at = "Then", !.after = Next2]
  <2>1. /\ ~Done /\ Replace(f) /\ split' = split
        /\ blocks' = BranchTo(Create2, cur, cur, Next1, Next2)
    BY <1>2 DEF IfBranch, At
  <2>2. f.at \notin LoopTests  BY <2>1, Active DEF EdgeInv, Frame, LoopTests
  <2>3. ASSUME split = {}  PROVE EdgesMatch(blocks')
    <3>1. /\ Good(Create2, {cur} \cup (Held(stack) \cup {Next1, Next2}))
          /\ Len(Create2) = Next2
      BY <2>1, <2>3, CreatesGood DEF EdgeInv
    <3>2. Next1 \in 1 .. Len(Create2) /\ Next2 \in 1 .. Len(Create2)
      BY <2>1, <3>1, Numbers DEF EdgeInv
    <3> DEFINE S == {cur} \cup (Held(stack) \cup {Next1, Next2})
    <3>3. Good(Create2, S) /\ cur \in S  BY <3>1
    <3> HIDE DEF S
    <3>4. QED  BY <2>1, <3>2, <3>3, BranchGood DEF Good
  <2>4. QED  BY <2>1, <2>2, <2>3, MoveQuietly, Settles
<1>3. ASSUME NEW next \in {"IfCond", "Else"}, EndThen(next)  PROVE EdgeInv'
  <2> DEFINE f == [Top EXCEPT !.at = next, !.after = NoBlock, !.leaves = @ \/ live]
  <2>1. /\ ~Done /\ Top.at = "Then" /\ Replace(f) /\ split' = split
        /\ blocks' = JumpTo(blocks, cur, Top.exit)
    BY <1>3 DEF EndThen, At
  <2>2. f.at \notin LoopTests  BY <2>1, Active DEF EdgeInv, Frame, LoopTests
  <2>3. split = {} => EdgesMatch(blocks')
    BY <2>1, Ends, JumpOut DEF EdgeInv, HoldsExit
  <2>4. QED  BY <2>1, <2>2, <2>3, MoveQuietly, Settles
<1>4. CASE EndIf
  <2>1. /\ ~Done /\ Top.at = "Else" /\ Pop /\ split' = split
        /\ blocks' = JumpTo(blocks, cur, Top.exit)
    BY <1>4 DEF EndIf, At
  <2>2. split = {} => EdgesMatch(blocks')
    BY <2>1, Ends, JumpOut DEF EdgeInv, HoldsExit
  <2>3. QED  BY <2>1, <2>2, PopKeeps, Settles DEF EdgeInv
<1>5. QED  BY <1>1, <1>2, <1>3, <1>4 DEF VisitIf

(* WHILE: the test begins in the header, where the edges are recorded.     *)
LEMMA EdgesWhile ==
  ASSUME EdgeInv, Next, BeginWhile \/ WhileBranch \/ EndWhile
  PROVE  EdgeInv'
<1>1. CASE BeginWhile
  <2> DEFINE f == [FrameAt("WhileCond") EXCEPT
                     !.header = Next1, !.body = Next2, !.exit = Next3]
  <2>1. /\ ~Done /\ Top.at \notin LoopTests /\ Push(f) /\ split' = split
        /\ cur' = Next1 /\ blocks' = JumpTo(Create3, cur, Next1)
    BY <1>1 DEF BeginWhile, AtStatement, StatementPoints, LoopTests
  <2>2. f.header = Next1  BY DEF FrameAt
  <2>3. TestsInnermost' /\ Top' = f  BY <2>1, PushKeeps DEF EdgeInv
  <2>4. ASSUME split = {}  PROVE EdgesMatch(blocks')
    <3>1. /\ Good(Create3, {cur} \cup (Held(stack) \cup {Next1, Next2, Next3}))
          /\ Len(Create3) = Next3
      BY <2>1, <2>4, CreatesGood DEF EdgeInv
    <3>2. Next1 \in 1 .. Len(Create3)  BY <2>1, <3>1, Numbers DEF EdgeInv
    <3>3. QED  BY <2>1, <3>1, <3>2, JumpGood DEF Good
  <2>5. IInv'  BY Inductive DEF EdgeInv
  <2>6. TestInHeader'  BY <2>1, <2>2, <2>3 DEF TestInHeader
  <2>7. QED  BY <2>1, <2>3, <2>4, <2>5, <2>6 DEF EdgeInv
<1>2. CASE WhileBranch
  <2> DEFINE f == [Top EXCEPT !.at = "WhileBody", !.body = NoBlock]
  <2>1. /\ ~Done /\ Top.at = "WhileCond" /\ Replace(f) /\ split' = split
        /\ blocks' = BranchTo(blocks, cur, Top.header, Top.body, Top.exit)
    BY <1>2 DEF WhileBranch, At
  <2>2. f.at \notin LoopTests  BY <2>1, Active DEF EdgeInv, Frame, LoopTests
  <2>3. ASSUME split = {}  PROVE EdgesMatch(blocks')
    <3>1. Good(blocks, {cur} \cup Held(stack))  BY <2>1, <2>3, Start DEF EdgeInv
    <3>2. cur = Top.header  BY <2>1, <2>3 DEF EdgeInv, TestInHeader, LoopTests
    <3>3. Top.body \in 1 .. Len(blocks) /\ Top.exit \in 1 .. Len(blocks)
      BY <2>1, Ends DEF EdgeInv, HoldsBody, HoldsExit, HasHeader
    <3>4. blocks' = BranchTo(blocks, cur, cur, Top.body, Top.exit)  BY <2>1, <3>2
    <3>5. QED  BY <3>1, <3>3, <3>4, BranchGood DEF Good
  <2>4. QED  BY <2>1, <2>2, <2>3, MoveQuietly, Settles
<1>3. CASE EndWhile
  <2>1. /\ ~Done /\ Top.at = "WhileBody" /\ Pop /\ split' = split
        /\ blocks' = JumpTo(blocks, cur, Top.header)
    BY <1>3 DEF EndWhile, At
  <2>2. split = {} => EdgesMatch(blocks')
    BY <2>1, Ends, JumpOut DEF EdgeInv, HasHeader
  <2>3. QED  BY <2>1, <2>2, PopKeeps, Settles DEF EdgeInv
<1>4. QED  BY <1>1, <1>2, <1>3

(* REPEAT: the condition is recorded in the block it ends in. *)
LEMMA EdgesRepeat ==
  ASSUME EdgeInv, Next, BeginRepeat \/ RepeatUntil \/ EndRepeat
  PROVE  EdgeInv'
<1>1. CASE BeginRepeat
  <2> DEFINE f == [FrameAt("RepeatBody") EXCEPT !.header = Next1, !.exit = Next2]
  <2>1. /\ AtStatement /\ ~Done /\ Push(f) /\ split' = split
        /\ blocks' = JumpTo(Create2, cur, Next1)
    BY <1>1 DEF BeginRepeat, AtStatement
  <2>2. f.at \notin LoopTests  BY DEF FrameAt, LoopTests
  <2>3. ASSUME split = {}  PROVE EdgesMatch(blocks')
    <3>1. /\ Good(Create2, {cur} \cup (Held(stack) \cup {Next1, Next2}))
          /\ Len(Create2) = Next2
      BY <2>1, <2>3, CreatesGood DEF EdgeInv
    <3>2. Next1 \in 1 .. Len(Create2)  BY <2>1, <3>1, Numbers DEF EdgeInv
    <3>3. QED  BY <2>1, <3>1, <3>2, JumpGood DEF Good
  <2>4. QED  BY <2>1, <2>2, <2>3, EnterQuietly, Settles
<1>2. CASE RepeatUntil
  <2> DEFINE f == [Top EXCEPT !.at = "RepeatCond"]
  <2>1. ~Done /\ Replace(f) /\ blocks' = blocks /\ split' = split
    BY <1>2 DEF RepeatUntil, At
  <2>2. f.at \notin LoopTests  BY <2>1, Active DEF EdgeInv, Frame, LoopTests
  <2>3. QED  BY <2>1, <2>2, MoveQuietly, Settles DEF EdgeInv
<1>3. CASE EndRepeat
  <2>1. /\ ~Done /\ Top.at = "RepeatCond" /\ Pop /\ split' = split
        /\ blocks' = BranchTo(blocks, cur, cur, Top.exit, Top.header)
    BY <1>3 DEF EndRepeat, At
  <2>2. ASSUME split = {}  PROVE EdgesMatch(blocks')
    <3>1. Good(blocks, {cur} \cup Held(stack))  BY <2>1, <2>2, Start DEF EdgeInv
    <3>2. Top.exit \in 1 .. Len(blocks) /\ Top.header \in 1 .. Len(blocks)
      BY <2>1, Ends DEF EdgeInv, HoldsExit, HasHeader
    <3>3. QED  BY <2>1, <3>1, <3>2, BranchGood DEF Good
  <2>3. QED  BY <2>1, <2>2, PopKeeps, Settles DEF EdgeInv
<1>4. QED  BY <1>1, <1>2, <1>3

(* FOR: the loop variable is loaded in the header, before the limit.       *)
LEMMA EdgesFor ==
  ASSUME EdgeInv, Next, BeginFor \/ ForInit \/ ForBranch \/ ForStep \/ EndFor
  PROVE  EdgeInv'
<1>1. CASE BeginFor
  <2> DEFINE f == FrameAt("ForFrom")
  <2>1. AtStatement /\ Push(f) /\ blocks' = blocks /\ split' = split
    BY <1>1 DEF BeginFor
  <2>2. f.at \notin LoopTests  BY DEF FrameAt, LoopTests
  <2>3. QED  BY <2>1, <2>2, EnterQuietly, Settles DEF EdgeInv
<1>2. CASE ForInit
  <2> DEFINE f  == [Top EXCEPT
                      !.at = "ForTo", !.header = Next1, !.body = Next2, !.exit = Next3]
             S  == {cur} \cup (Held(stack) \cup {Next1, Next2, Next3})
             es == Emit(Create3, cur, Op("Store"))
             js == JumpTo(es, cur, Next1)
  <2>1. /\ ~Done /\ Replace(f) /\ split' = split /\ cur' = Next1
        /\ blocks' = Emit(js, Next1, Op("Load"))
    BY <1>2 DEF ForInit, At
  <2>2. f.header = Next1  BY <2>1, Active DEF EdgeInv, Frame
  <2>3. TestsInnermost' /\ Top' = f  BY <2>1, ReplaceKeeps DEF EdgeInv
  <2>4. ASSUME split = {}  PROVE EdgesMatch(blocks')
    <3>1. Good(Create3, S) /\ Len(Create3) = Next3
      BY <2>1, <2>4, CreatesGood DEF EdgeInv
    <3>2. /\ Next1 \in 1 .. Next3 /\ cur \in S
          /\ Next1 \in S \ {cur}
      BY <2>1, Numbers, Creates DEF EdgeInv
    <3> HIDE DEF S
    <3>3. Good(es, S) /\ Len(es) = Next3  BY <3>1, <3>2, EmitGood DEF PlainOps
    <3> HIDE DEF es
    <3>4. Good(js, S \ {cur})  BY <3>2, <3>3, JumpGood
    <3> HIDE DEF js
    <3>5. QED  BY <2>1, <3>2, <3>4, EmitGood DEF Good, PlainOps
  <2>5. IInv'  BY Inductive DEF EdgeInv
  <2>6. TestInHeader'  BY <2>1, <2>2, <2>3 DEF TestInHeader
  <2>7. QED  BY <2>1, <2>3, <2>4, <2>5, <2>6 DEF EdgeInv
<1>3. CASE ForBranch
  <2> DEFINE f == [Top EXCEPT !.at = "ForBody", !.body = NoBlock]
  <2>1. /\ ~Done /\ Top.at = "ForTo" /\ Replace(f) /\ split' = split
        /\ blocks' = BranchTo(Emit(blocks, cur, Op("Eval")),
                              cur, Top.header, Top.exit, Top.body)
    BY <1>3 DEF ForBranch, At
  <2>2. f.at \notin LoopTests  BY <2>1, Active DEF EdgeInv, Frame, LoopTests
  <2>3. ASSUME split = {}  PROVE EdgesMatch(blocks')
    <3>1. cur = Top.header  BY <2>1, <2>3 DEF EdgeInv, TestInHeader, LoopTests
    <3>2. Top.body \in 1 .. Len(blocks) /\ Top.exit \in 1 .. Len(blocks)
      BY <2>1, Ends DEF EdgeInv, HoldsBody, HoldsExit, HasHeader
    <3>3. QED  BY <2>1, <2>3, <3>1, <3>2, TestHere
  <2>4. QED  BY <2>1, <2>2, <2>3, MoveQuietly, Settles
<1>4. CASE ForStep
  <2> DEFINE f == [Top EXCEPT !.at = "ForBy"]
  <2>1. ~Done /\ Replace(f) /\ blocks' = Emit(blocks, cur, Op("Load")) /\ split' = split
    BY <1>4 DEF ForStep, At
  <2>2. f.at \notin LoopTests  BY <2>1, Active DEF EdgeInv, Frame, LoopTests
  <2>3. split = {} => EdgesMatch(blocks')  BY <2>1, EmitHere DEF Good, PlainOps
  <2>4. QED  BY <2>1, <2>2, <2>3, MoveQuietly, Settles
<1>5. CASE EndFor
  <2> DEFINE S  == {cur} \cup Held(stack)
             es == Emit(blocks, cur, Op("Eval"))
             ss == Emit(es, cur, Op("Store"))
  <2>1. /\ ~Done /\ Top.at = "ForBy" /\ Pop /\ split' = split
        /\ blocks' = JumpTo(ss, cur, Top.header)
    BY <1>5 DEF EndFor, At
  <2>2. ASSUME split = {}  PROVE EdgesMatch(blocks')
    <3>1. Good(es, S) /\ Len(es) = Len(blocks)  BY <2>1, <2>2, EmitHere DEF PlainOps
    <3>2. cur \in S  OBVIOUS
    <3> HIDE DEF S, es
    <3>3. Good(ss, S) /\ Len(ss) = Len(blocks)  BY <3>1, <3>2, EmitGood DEF PlainOps
    <3>4. Top.header \in 1 .. Len(blocks)  BY <2>1, Ends DEF EdgeInv, HasHeader
    <3> HIDE DEF ss
    <3>5. QED  BY <2>1, <3>2, <3>3, <3>4, JumpGood DEF Good
  <2>3. QED  BY <2>1, <2>2, PopKeeps, Settles DEF EdgeInv
<1>6. QED  BY <1>1, <1>2, <1>3, <1>4, <1>5

(* CASE: the tests and the ends of the alternatives. *)
LEMMA EdgesCase == ASSUME EdgeInv, Next, VisitCase PROVE EdgeInv'
<1>1. CASE BeginCase
  <2> DEFINE f == FrameAt("CaseExpr")
  <2>1. AtStatement /\ Push(f) /\ blocks' = blocks /\ split' = split
    BY <1>1 DEF BeginCase
  <2>2. f.at \notin LoopTests  BY DEF FrameAt, LoopTests
  <2>3. QED  BY <2>1, <2>2, EnterQuietly, Settles DEF EdgeInv
<1>2. CASE CaseDispatch
  <2> DEFINE f == [Top EXCEPT !.at = "CaseNext", !.exit = Next1]
  <2>1. ~Done /\ Replace(f) /\ blocks' = Create1 /\ split' = split
    BY <1>2 DEF CaseDispatch, At
  <2>2. f.at \notin LoopTests  BY <2>1, Active DEF EdgeInv, Frame, LoopTests
  <2>3. split = {} => EdgesMatch(blocks')  BY <2>1, CreatesGood DEF EdgeInv, Good
  <2>4. QED  BY <2>1, <2>2, <2>3, MoveQuietly, Settles
<1>3. CASE BeginAlternative
  <2> DEFINE f == [Top EXCEPT !.at = "CaseLabel", !.body = Next1, !.after = Next2]
  <2>1. ~Done /\ Replace(f) /\ blocks' = Create2 /\ split' = split
    BY <1>3 DEF BeginAlternative, At
  <2>2. f.at \notin LoopTests  BY <2>1, Active DEF EdgeInv, Frame, LoopTests
  <2>3. split = {} => EdgesMatch(blocks')  BY <2>1, CreatesGood DEF EdgeInv, Good
  <2>4. QED  BY <2>1, <2>2, <2>3, MoveQuietly, Settles
<1>4. CASE TestLabel
  <2> DEFINE S  == {cur} \cup (Held(stack) \cup {Next1})
             es == Emit(Create1, cur, Op("Eval"))
  <2>1. /\ ~Done /\ Top.at = "CaseLabel" /\ stack' = stack /\ split' = split
        /\ blocks' = BranchTo(es, cur, cur, Top.body, Next1)
    BY <1>4 DEF TestLabel, At
  <2>2. Quiet'
    BY <2>1 DEF EdgeInv, Quiet, TestsInnermost, Top, LoopTests
  <2>3. ASSUME split = {}  PROVE EdgesMatch(blocks')
    <3>1. Good(Create1, S) /\ Len(Create1) = Next1 /\ cur \in S
      BY <2>1, <2>3, CreatesGood DEF EdgeInv
    <3>2. Top.body \in 1 .. Next1 /\ Next1 \in 1 .. Next1
      <4>1. Top.body \in 1 .. Len(blocks)  BY <2>1, Ends DEF EdgeInv, HoldsBody
      <4>2. QED  BY <2>1, <4>1, Numbers DEF EdgeInv
    <3> HIDE DEF S
    <3>3. Good(es, S) /\ Len(es) = Next1  BY <3>1, EmitGood DEF PlainOps
    <3> HIDE DEF es
    <3>4. QED  BY <2>1, <3>1, <3>2, <3>3, BranchGood DEF Good
  <2>4. QED  BY <2>1, <2>2, <2>3, Settles
<1>5. CASE TestLastLabel
  <2> DEFINE f == [Top EXCEPT !.at = "CaseBody", !.body = NoBlock]
  <2>1. /\ ~Done /\ Top.at = "CaseLabel" /\ Replace(f) /\ split' = split
        /\ blocks' = BranchTo(Emit(blocks, cur, Op("Eval")), cur, cur, Top.body, Top.after)
    BY <1>5 DEF TestLastLabel, At
  <2>2. f.at \notin LoopTests  BY <2>1, Active DEF EdgeInv, Frame, LoopTests
  <2>3. ASSUME split = {}  PROVE EdgesMatch(blocks')
    <3>1. Top.body \in 1 .. Len(blocks) /\ Top.after \in 1 .. Len(blocks)
      BY <2>1, Ends DEF EdgeInv, HoldsBody, HoldsAfter
    <3>2. QED  BY <2>1, <2>3, <3>1, TestHere
  <2>4. QED  BY <2>1, <2>2, <2>3, MoveQuietly, Settles
<1>6. CASE EndAlternative
  <2> DEFINE f == [Top EXCEPT !.at = "CaseNext", !.after = NoBlock, !.leaves = @ \/ live]
  <2>1. /\ ~Done /\ Top.at = "CaseBody" /\ Replace(f) /\ split' = split
        /\ blocks' = JumpTo(blocks, cur, Top.exit)
    BY <1>6 DEF EndAlternative, At
  <2>2. f.at \notin LoopTests  BY <2>1, Active DEF EdgeInv, Frame, LoopTests
  <2>3. split = {} => EdgesMatch(blocks')
    BY <2>1, Ends, JumpOut DEF EdgeInv, HoldsExit
  <2>4. QED  BY <2>1, <2>2, <2>3, MoveQuietly, Settles
<1>7. CASE EndCase
  <2>1. /\ ~Done /\ Top.at = "CaseNext" /\ Pop /\ split' = split
        /\ blocks' = JumpTo(blocks, cur, Top.exit)
    BY <1>7 DEF EndCase, At
  <2>2. split = {} => EdgesMatch(blocks')
    BY <2>1, Ends, JumpOut DEF EdgeInv, HoldsExit
  <2>3. QED  BY <2>1, <2>2, PopKeeps, Settles DEF EdgeInv
<1>8. QED  BY <1>1, <1>2, <1>3, <1>4, <1>5, <1>6, <1>7 DEF VisitCase

(* ABS: outside a loop test its blocks are as good as any; inside one the  *)
(* header is noted as split and nothing is claimed any more.               *)
LEMMA EdgesAbs == ASSUME EdgeInv, Next, EvaluateAbs PROVE EdgeInv'
<1> DEFINE S == {cur} \cup (Held(stack) \cup {Next1, Next2, Next3})
           e0 == Emit(Create3, cur, Op("Eval"))
           tested == BranchTo(e0, cur, cur, Next1, Next2)
           e1 == Emit(tested, Next1, Op("Copy"))
           negated == JumpTo(e1, Next1, Next3)
           e2 == Emit(negated, Next2, Op("Copy"))
<1>1. /\ ~Done /\ stack' = stack
      /\ blocks' = JumpTo(e2, Next2, Next3)
      /\ split' = IF Top.at \in LoopTests THEN split \cup {Top.header} ELSE split
  BY DEF EvaluateAbs
<1>2. IInv' /\ TestsInnermost'
  BY <1>1, Inductive DEF EdgeInv, TestsInnermost
<1>3. ASSUME split' = {}  PROVE EdgesMatch(blocks') /\ TestInHeader'
  <2>1. split = {} /\ Top.at \notin LoopTests  BY <1>1, <1>3
  <2>2. TestInHeader'  BY <1>1, <2>1 DEF TestInHeader, Top
  <2>3. Good(Create3, S) /\ Len(Create3) = Next3
    BY <1>1, <2>1, CreatesGood DEF EdgeInv
  <2>4. /\ Next1 \in 1 .. Next3 /\ Next2 \in 1 .. Next3 /\ Next3 \in 1 .. Next3
        /\ Next1 # cur /\ Next2 # cur /\ Next1 # Next2
        /\ cur \in S /\ Next1 \in S /\ Next2 \in S
    BY <1>1, Numbers, Creates DEF EdgeInv
  <2> HIDE DEF S
  <2>5. Good(e0, S) /\ Len(e0) = Next3  BY <2>3, <2>4, EmitGood DEF PlainOps
  <2> HIDE DEF e0
  <2>6. Good(tested, S \ {cur}) /\ Len(tested) = Next3  BY <2>4, <2>5, BranchGood
  <2> HIDE DEF tested
  <2>7. Good(e1, S \ {cur}) /\ Len(e1) = Next3
    <3>1. Next1 \in S \ {cur}  BY <2>4
    <3>2. QED  BY <2>6, <3>1, EmitGood DEF PlainOps
  <2> HIDE DEF e1
  <2>8. Good(negated, (S \ {cur}) \ {Next1}) /\ Len(negated) = Next3
    <3> DEFINE T == S \ {cur}
    <3>1. Next1 \in T /\ Good(e1, T) /\ Next3 \in 1 .. Len(e1)  BY <2>4, <2>7
    <3> HIDE DEF T
    <3>2. Good(negated, T \ {Next1}) /\ Len(negated) = Len(e1)  BY <3>1, JumpGood
    <3>3. QED  BY <2>7, <3>2 DEF T
  <2> HIDE DEF negated
  <2>9. Next2 \in (S \ {cur}) \ {Next1}  BY <2>4
  <2>10. Good(e2, (S \ {cur}) \ {Next1}) /\ Len(e2) = Next3
    BY <2>8, <2>9, EmitGood DEF PlainOps
  <2> HIDE DEF e2
  <2>11. EdgesMatch(blocks')  BY <1>1, <2>4, <2>9, <2>10, JumpGood DEF Good
  <2>12. QED  BY <2>2, <2>11
<1>4. QED  BY <1>2, <1>3 DEF EdgeInv

-----------------------------------------------------------------------------
(* The theorems *)

(* The entry block has no edges, and no test is being evaluated. *)
LEMMA EdgesInitially == Init => EdgeInv
<1> SUFFICES ASSUME Init  PROVE EdgeInv
  OBVIOUS
<1>1. IInv  BY Initially
<1>2. /\ stack = <<FrameAt("Body")>> /\ Len(stack) = 1 /\ Top = FrameAt("Body")
  BY DEF Init, Top
<1>3. TestsInnermost /\ TestInHeader
  BY <1>2 DEF TestsInnermost, TestInHeader, FrameAt, LoopTests
<1>4. EdgesMatch(blocks)
  <2>1. blocks = <<EmptyBlock>> /\ Len(blocks) = 1 /\ blocks[1] = EmptyBlock
    BY DEF Init
  <2>2. Targets(EmptyBlock) = {} /\ EmptyBlock.succs = {} /\ EmptyBlock.preds = {}
    BY DEF EmptyBlock, Targets, HasTerminator
  <2>3. \A b : b \in 1 .. Len(blocks) <=> b = 1  BY <2>1
  <2>4. QED  BY <2>1, <2>2, <2>3 DEF EdgesMatch
<1>5. QED  BY <1>1, <1>3, <1>4 DEF EdgeInv

(* The invariant depends on the variables only. *)
LEMMA EdgesStay == ASSUME EdgeInv, UNCHANGED vars PROVE EdgeInv'
<1>1. IInv'  BY Stays DEF EdgeInv
<1>2. blocks' = blocks /\ cur' = cur /\ stack' = stack /\ split' = split
  BY DEF vars
<1>3. QED  BY <1>1, <1>2 DEF EdgeInv, TestsInnermost, TestInHeader, Top, Done

(* Every step of the builder preserves what is known of the edges. *)
LEMMA EdgesInductive == EdgeInv /\ [Next]_vars => EdgeInv'
<1> SUFFICES ASSUME EdgeInv, [Next]_vars  PROVE EdgeInv'
  OBVIOUS
<1>1. CASE Next
  <2>1. CASE BeginBodyValue \/ EndBody  BY <1>1, <2>1, EdgesBody
  <2>2. CASE EvaluateAbs  BY <1>1, <2>2, EdgesAbs
  <2>3. CASE VisitSimple  BY <1>1, <2>3, EdgesSimple
  <2>4. CASE VisitIf  BY <1>1, <2>4, EdgesIf
  <2>5. CASE VisitLoop
    BY <1>1, <2>5, EdgesWhile, EdgesRepeat, EdgesFor DEF VisitLoop
  <2>6. CASE VisitCase  BY <1>1, <2>6, EdgesCase
  <2>7. CASE Finished  BY <2>7, EdgesStay DEF Finished
  <2>8. QED  BY <1>1, <2>1, <2>2, <2>3, <2>4, <2>5, <2>6, <2>7 DEF Next
<1>2. CASE UNCHANGED vars  BY <1>2, EdgesStay
<1>3. QED  BY <1>1, <1>2

(* EdgesAlwaysRight: whatever tree is lowered, as long as no loop test has *)
(* called ABS the edges beside the blocks are those of the terminators     *)
(* after every step of the visitors, and a loop test is evaluated in the   *)
(* header of its loop.                                                     *)
THEOREM EdgesAlwaysRight == Spec => []EdgeInv
BY EdgesInitially, EdgesInductive, PTL DEF Spec

(* EdgesAreThoseOfTerminators: in a finished body the recorded successors  *)
(* and predecessors agree with the jumps (README.md:522), unless a loop    *)
(* test called ABS.                                                        *)
THEOREM EdgesAreThoseOfTerminators == Spec => []EdgesMatchUnlessSplit
<1>1. EdgeInv => EdgesMatchUnlessSplit
  BY DEF EdgeInv, EdgesMatchUnlessSplit, EdgesMatchTerminators, EdgesMatch
<1>2. QED  BY <1>1, EdgesAlwaysRight, PTL

-----------------------------------------------------------------------------
(***************************************************************************)
(* The construction of basic blocks implements BlockLedger, for trees of   *)
(* every size: whatever the visitors do, a block that has its terminator   *)
(* is never made current again.                                            *)
(*                                                                         *)
(* The argument: the sealed blocks are those that are not open (Partition).*)
(* A step either leaves the current block current and seals nothing, or    *)
(* it seals the current block, and all that is open after it was held by a *)
(* visitor before it or is new.                                            *)
(***************************************************************************)

(* What BlockLedger calls sealed. *)
SealedBlocks == {b \in 1 .. Len(blocks) : HasTerminator(blocks[b])}

(* Blocks are sealed exactly when they are not open. *)
LEMMA SealedOutside ==
  ASSUME NEW bs, NEW S, Partition(bs, S)
  PROVE  {b \in 1 .. Len(bs) : HasTerminator(bs[b])} = (1 .. Len(bs)) \ S
<1> SUFFICES ASSUME NEW b \in 1 .. Len(bs)
             PROVE  HasTerminator(bs[b]) <=> b \notin S
  OBVIOUS
<1>1. CASE b \in S
  <2>1. bs[b] \in Block /\ OpenBlock(bs[b])  BY <1>1 DEF Partition
  <2>2. QED  BY <1>1, <2>1, OpenHasNone
<1>2. CASE b \notin S  BY <1>2 DEF Partition, SealedBlock
<1>3. QED  BY <1>1, <1>2

(* What is sealed while a visitor is active. *)
LEMMA SealedNow ==
  ASSUME IInv, ~Done
  PROVE  SealedBlocks = (1 .. Len(blocks)) \ ({cur} \cup Held(stack))
BY Active, SealedOutside DEF SealedBlocks

(* A step that goes on in the current block, with the same blocks open and *)
(* new ones, is a step Extend of the ledger.                               *)
LEMMA Extends ==
  ASSUME IInv, ~Done, ~Done', cur' = cur, Len(blocks) <= Len(blocks'),
         Partition(blocks', {cur} \cup (Held(stack) \cup ((Len(blocks) + 1) .. Len(blocks'))))
  PROVE  Ledger!Extend
<1> DEFINE n == Len(blocks)
           m == Len(blocks')
<1>1. n \in Nat /\ m \in Nat  BY Active DEF Partition
<1>2. SealedBlocks' = (1 .. m) \ ({cur} \cup (Held(stack) \cup ((n + 1) .. m)))
  BY SealedOutside DEF SealedBlocks
<1>3. SealedBlocks = (1 .. n) \ ({cur} \cup Held(stack))  BY SealedNow
<1>4. n <= m  OBVIOUS
<1>5. cur # 0  BY Active
<1> HIDE DEF n, m
<1>6. SealedBlocks' = SealedBlocks
  <2>1. \A x : x \in 1 .. n <=> x \in 1 .. m /\ x \notin (n + 1) .. m
    BY <1>1, <1>4
  <2>2. QED  BY <1>2, <1>3, <2>1
<1>7. QED  BY <1>1, <1>4, <1>5, <1>6 DEF Ledger!Extend, SealedBlocks, n, m

(* A step after which only held and new blocks are open has sealed the     *)
(* current block: it is a step Switch of the ledger.                       *)
LEMMA Switches ==
  ASSUME IInv, IInv', ~Done, ~Done', Len(blocks) <= Len(blocks'),
         NEW S, S \subseteq Held(stack) \cup ((Len(blocks) + 1) .. Len(blocks')),
         Partition(blocks', S)
  PROVE  Ledger!Switch
<1> DEFINE n == Len(blocks)
           m == Len(blocks')
<1>1. n \in Nat /\ m \in Nat /\ cur \in 1 .. n /\ cur \notin Held(stack)
  BY Active DEF Partition
<1>2. SealedBlocks' = (1 .. m) \ S  BY SealedOutside DEF SealedBlocks
<1>3. SealedBlocks = (1 .. n) \ ({cur} \cup Held(stack))  BY SealedNow
<1>4. n <= m /\ S \subseteq Held(stack) \cup ((n + 1) .. m)  OBVIOUS
<1>5. /\ cur' \in 1 .. m
      /\ SealedBlocks' = (1 .. m) \ ({cur'} \cup Held(stack'))
  <2>1. Partition(blocks', {cur'} \cup Held(stack')) /\ cur' \in 1 .. m
    BY DEF IInv, TypeOK, OpenSet, Done
  <2>2. QED  BY <2>1, SealedOutside DEF SealedBlocks
<1> HIDE DEF n, m
<1>6. \A x \in 1 .. n : x \in 1 .. m /\ x \notin (n + 1) .. m
  BY <1>1, <1>4
<1>7. SealedBlocks \cup {cur} \subseteq SealedBlocks'
  BY <1>1, <1>2, <1>3, <1>4, <1>6
<1>8. SealedBlocks' \subseteq 1 .. m /\ cur' \in (1 .. m) \ SealedBlocks'
  BY <1>2, <1>5
<1>9. cur # 0  BY <1>1
<1>10. QED
  BY <1>1, <1>4, <1>7, <1>8, <1>9 DEF Ledger!Switch, SealedBlocks, n, m

-----------------------------------------------------------------------------
(* The visitor of the body is the outermost one: the others return to one. *)
LEMMA PopLeaves ==
  ASSUME IInv, ~Done, Pop, Top.at \notin BodyPoints
  PROVE  ~Done'
<1> DEFINE n == Len(blocks)
<1>1. n \in Nat /\ StackOK(stack, cur, n) /\ stack # <<>>
  BY Active DEF IInv
<1>2. n <= n /\ cur \in {cur} \cup Pending(stack[Len(stack)]) \cup ((n + 1) .. n)
      /\ stack[Len(stack)].at \notin BodyPoints
  BY <1>1 DEF Top
<1> HIDE DEF n
<1>3. SubSeq(stack, 1, Len(stack) - 1) # <<>>
  BY <1>1, <1>2, PopOK
<1>4. QED  BY <1>3 DEF Pop, Done

(* The builder goes on after entering a statement ... *)
LEMMA PushStays == ASSUME EdgeInv, AtStatement, NEW f, Push(f) PROVE ~Done'
<1>1. ~Done /\ Top.at \notin LoopTests
  BY DEF AtStatement, StatementPoints, LoopTests
<1>2. QED  BY <1>1, PushKeeps DEF EdgeInv

(* ... and after moving on inside one. *)
LEMMA ReplaceStays == ASSUME EdgeInv, ~Done, NEW f, Replace(f) PROVE ~Done'
BY ReplaceKeeps DEF EdgeInv

(* The current block is left as it is, or gets straight-line instructions. *)
LEMMA GoesOn ==
  ASSUME IInv, ~Done, ~Done', cur' = cur,
         \/ blocks' = blocks
         \/ \E o \in PlainOps : blocks' = Emit(blocks, cur, Op(o))
  PROVE  Ledger!Next
<1> DEFINE n == Len(blocks)
<1>1. /\ Partition(blocks', {cur} \cup Held(stack))
      /\ Len(blocks') = n /\ n \in Nat
  <2> DEFINE S == {cur} \cup Held(stack)
  <2>1. Partition(blocks, S) /\ cur \in S /\ n \in Nat  BY Active
  <2> HIDE DEF S
  <2>2. ASSUME blocks' = blocks
        PROVE  Partition(blocks', S) /\ Len(blocks') = n
    BY <2>1, <2>2
  <2>3. ASSUME NEW o \in PlainOps, blocks' = Emit(blocks, cur, Op(o))
        PROVE  Partition(blocks', S) /\ Len(blocks') = n
    BY <2>1, <2>3, EmitPartition
  <2>4. Partition(blocks', S) /\ Len(blocks') = n  BY <2>2, <2>3
  <2>5. QED  BY <2>1, <2>4 DEF S
<1>2. /\ n <= Len(blocks')
      /\ {cur} \cup Held(stack)
           = {cur} \cup (Held(stack) \cup ((n + 1) .. Len(blocks')))
  BY <1>1
<1>3. Ledger!Extend  BY <1>1, <1>2, Extends
<1>4. QED  BY <1>3 DEF Ledger!Next

(* It is left as it is, and one or two blocks are created. *)
LEMMA Prepares ==
  ASSUME IInv, ~Done, ~Done', cur' = cur, blocks' = Create1 \/ blocks' = Create2
  PROVE  Ledger!Next
<1> DEFINE n == Len(blocks)
           new == (n + 1) .. Len(blocks')
<1>1. n \in Nat /\ Next1 = n + 1 /\ Next2 = n + 2  BY Numbers
<1>2. CASE blocks' = Create1
  <2>1. Partition(blocks', {cur} \cup (Held(stack) \cup {Next1})) /\ Len(blocks') = n + 1
    BY <1>1, <1>2, Creates
  <2>2. new = {Next1} /\ n <= Len(blocks')  BY <1>1, <2>1
  <2>3. QED  BY <2>1, <2>2, Extends DEF Ledger!Next
<1>3. CASE blocks' = Create2
  <2>1. /\ Partition(blocks', {cur} \cup (Held(stack) \cup {Next1, Next2}))
        /\ Len(blocks') = n + 2
    BY <1>1, <1>3, Creates
  <2>2. new = {Next1, Next2} /\ n <= Len(blocks')  BY <1>1, <2>1
  <2>3. QED  BY <2>1, <2>2, Extends DEF Ledger!Next
<1>4. QED  BY <1>2, <1>3

(* It is left by a jump or a branch between existing blocks. *)
LEMMA Departs ==
  ASSUME IInv, IInv', ~Done, ~Done',
         Partition(blocks', Held(stack)), Len(blocks') = Len(blocks)
  PROVE  Ledger!Next
<1>1. /\ Len(blocks) <= Len(blocks')
      /\ Held(stack) \subseteq Held(stack) \cup ((Len(blocks) + 1) .. Len(blocks'))
  BY Active
<1>2. Ledger!Switch  BY <1>1, Switches
<1>3. QED  BY <1>2 DEF Ledger!Next

(* A jump out of the current block departs from it, ... *)
LEMMA JumpDeparts ==
  ASSUME IInv, IInv', ~Done, ~Done', NEW to \in 1 .. Len(blocks),
         blocks' = JumpTo(blocks, cur, to)
  PROVE  Ledger!Next
<1>1. Partition(blocks', Held(stack)) /\ Len(blocks') = Len(blocks)
  BY Active, JumpLeaves
<1>2. QED  BY <1>1, Departs

(* ... and so does the test of a loop or a label. *)
LEMMA BranchDeparts ==
  ASSUME IInv, IInv', ~Done, ~Done', NEW e \in 1 .. Len(blocks),
         NEW t \in 1 .. Len(blocks), NEW f \in 1 .. Len(blocks),
         \/ blocks' = BranchTo(blocks, cur, e, t, f)
         \/ blocks' = BranchTo(Emit(blocks, cur, Op("Eval")), cur, e, t, f)
  PROVE  Ledger!Next
<1> DEFINE es == Emit(blocks, cur, Op("Eval"))
           S  == {cur} \cup Held(stack)
<1>1. Partition(blocks, S) /\ cur \in S /\ cur \notin Held(stack)
  BY Active
<1>2. Partition(es, S) /\ Len(es) = Len(blocks)
  <2> HIDE DEF S
  <2>1. QED  BY <1>1, EmitPartition DEF PlainOps
<1>3. Partition(blocks', Held(stack)) /\ Len(blocks') = Len(blocks)
  <2> HIDE DEF es
  <2>1. CASE blocks' = BranchTo(blocks, cur, e, t, f)
    BY <1>1, <2>1, BranchLeaves
  <2>2. CASE blocks' = BranchTo(es, cur, e, t, f)
    <3>1. e \in 1 .. Len(es) /\ t \in 1 .. Len(es) /\ f \in 1 .. Len(es)
      BY <1>2
    <3>2. QED  BY <1>1, <1>2, <2>2, <3>1, BranchLeaves
  <2>3. QED  BY <2>1, <2>2 DEF es
<1>4. QED  BY <1>3, Departs

(* It is left for one of the blocks created in the same step. *)
LEMMA DepartsNew ==
  ASSUME IInv, IInv', ~Done, ~Done',
         NEW k \in {Next1, Next2, Next3}, Len(blocks') = k,
         NEW S, S \subseteq Held(stack) \cup (Next1 .. k), Partition(blocks', S)
  PROVE  Ledger!Next
<1>1. Len(blocks) <= k /\ Next1 = Len(blocks) + 1
  BY Numbers
<1>2. Ledger!Switch  BY <1>1, Switches
<1>3. QED  BY <1>2 DEF Ledger!Next

-----------------------------------------------------------------------------
(* The steps *)

(* Assignments and calls go on in the current block; RETURN leaves it. *)
LEMMA LedgerSimple == ASSUME EdgeInv, EdgeInv', VisitSimple PROVE Ledger!Next
<1>1. CASE BeginSimple
  <2>1. /\ AtStatement /\ ~Done /\ cur' = cur /\ blocks' = blocks
        /\ Push(FrameAt("Operand"))
    BY <1>1 DEF BeginSimple, AtStatement
  <2>2. ~Done'  BY <2>1, PushStays
  <2>3. QED  BY <2>1, <2>2, GoesOn DEF EdgeInv
<1>2. CASE EndSimple
  <2>1. ~Done /\ Top.at = "Operand" /\ cur' = cur /\ Pop /\ blocks' = Emit(blocks, cur, Op("Store"))
    BY <1>2 DEF EndSimple, At
  <2>2. ~Done'  BY <2>1, PopLeaves DEF EdgeInv, BodyPoints
  <2>3. QED  BY <2>1, <2>2, GoesOn DEF EdgeInv, PlainOps
<1>3. CASE BeginReturn
  <2>1. /\ AtStatement /\ ~Done /\ cur' = cur /\ blocks' = blocks
        /\ Push(FrameAt("ReturnValue"))
    BY <1>3 DEF BeginReturn, AtStatement
  <2>2. ~Done'  BY <2>1, PushStays
  <2>3. QED  BY <2>1, <2>2, GoesOn DEF EdgeInv
<1>4. CASE EndReturn
  <2> DEFINE fs == FinishBlock(blocks, cur, Ret)
             n  == Len(blocks)
             new == Held(stack) \cup {Next1}
  <2>1. /\ ~Done /\ Top.at = "ReturnValue" /\ blocks' = CreateBlock(fs) /\ Pop
    BY <1>4 DEF EndReturn, At
  <2>2. ~Done'  BY <2>1, PopLeaves DEF EdgeInv, BodyPoints
  <2>3. Partition(fs, Held(stack)) /\ Len(fs) = n
    BY <2>1, Active, RetLeaves DEF EdgeInv
  <2>4. Next1 = n + 1  BY DEF Next1
  <2> HIDE DEF fs
  <2>5. Partition(blocks', new) /\ Len(blocks') = Next1
    BY <2>1, <2>3, <2>4, CreatePartition
  <2>6. new \subseteq Held(stack) \cup (Next1 .. Next1)
    BY <2>1, Numbers DEF EdgeInv
  <2> HIDE DEF new
  <2>7. QED  BY <2>1, <2>2, <2>5, <2>6, DepartsNew DEF EdgeInv
<1>5. QED  BY <1>1, <1>2, <1>3, <1>4 DEF VisitSimple

(* IF: each test and the end of each part leave the current block. *)
LEMMA LedgerIf == ASSUME EdgeInv, EdgeInv', VisitIf PROVE Ledger!Next
<1>1. CASE BeginIf
  <2>1. /\ AtStatement /\ ~Done /\ cur' = cur /\ blocks' = Create1
        /\ Push([FrameAt("IfCond") EXCEPT !.exit = Next1])
    BY <1>1 DEF BeginIf, AtStatement
  <2>2. ~Done'  BY <2>1, PushStays
  <2>3. QED  BY <2>1, <2>2, Prepares DEF EdgeInv
<1>2. CASE IfBranch
  <2> DEFINE new == Held(stack) \cup {Next1, Next2}
  <2>1. /\ ~Done /\ blocks' = BranchTo(Create2, cur, cur, Next1, Next2)
        /\ Replace([Top EXCEPT !.at = "Then", !.after = Next2])
    BY <1>2 DEF IfBranch, At
  <2>2. ~Done'  BY <2>1, ReplaceStays
  <2>3. Partition(Create2, {cur} \cup new) /\ Len(Create2) = Next2 /\ cur \notin new
    BY <2>1, Creates DEF EdgeInv
  <2>4. /\ cur \in 1 .. Next2 /\ Next1 \in 1 .. Next2 /\ Next2 \in 1 .. Next2
        /\ new \subseteq Held(stack) \cup (Next1 .. Next2)
    BY <2>1, Numbers DEF EdgeInv
  <2> HIDE DEF new
  <2>5. Partition(blocks', new) /\ Len(blocks') = Next2
    BY <2>1, <2>3, <2>4, BranchLeaves
  <2>6. QED  BY <2>1, <2>2, <2>4, <2>5, DepartsNew DEF EdgeInv
<1>3. ASSUME NEW next \in {"IfCond", "Else"}, EndThen(next)  PROVE Ledger!Next
  <2>1. /\ ~Done /\ Top.at = "Then" /\ blocks' = JumpTo(blocks, cur, Top.exit)
        /\ Replace([Top EXCEPT !.at = next, !.after = NoBlock, !.leaves = @ \/ live])
    BY <1>3 DEF EndThen, At
  <2>2. ~Done'  BY <2>1, ReplaceStays
  <2>3. Top.exit \in 1 .. Len(blocks)  BY <2>1, Ends DEF EdgeInv, HoldsExit
  <2>4. QED  BY <2>1, <2>2, <2>3, JumpDeparts DEF EdgeInv
<1>4. CASE EndIf
  <2>1. /\ ~Done /\ Top.at = "Else" /\ blocks' = JumpTo(blocks, cur, Top.exit)
        /\ Pop
    BY <1>4 DEF EndIf, At
  <2>2. ~Done'  BY <2>1, PopLeaves DEF EdgeInv, BodyPoints
  <2>3. Top.exit \in 1 .. Len(blocks)  BY <2>1, Ends DEF EdgeInv, HoldsExit
  <2>4. QED  BY <2>1, <2>2, <2>3, JumpDeparts DEF EdgeInv
<1>5. QED  BY <1>1, <1>2, <1>3, <1>4 DEF VisitIf

(* WHILE: the branch seals the block the test ends in, wherever its edges  *)
(* are recorded.                                                           *)
LEMMA LedgerWhile ==
  ASSUME EdgeInv, EdgeInv', BeginWhile \/ WhileBranch \/ EndWhile
  PROVE  Ledger!Next
<1>1. CASE BeginWhile
  <2> DEFINE new == Held(stack) \cup {Next1, Next2, Next3}
  <2>1. /\ AtStatement /\ ~Done /\ blocks' = JumpTo(Create3, cur, Next1)
        /\ Push([FrameAt("WhileCond") EXCEPT
                   !.header = Next1, !.body = Next2, !.exit = Next3])
    BY <1>1 DEF BeginWhile, AtStatement
  <2>2. ~Done'  BY <2>1, PushStays
  <2>3. Partition(Create3, {cur} \cup new) /\ Len(Create3) = Next3 /\ cur \notin new
    BY <2>1, Creates DEF EdgeInv
  <2>4. /\ Next1 \in 1 .. Next3
        /\ new \subseteq Held(stack) \cup (Next1 .. Next3)
    BY <2>1, Numbers DEF EdgeInv
  <2> HIDE DEF new
  <2>5. Partition(blocks', new) /\ Len(blocks') = Next3
    BY <2>1, <2>3, <2>4, JumpLeaves
  <2>6. QED  BY <2>1, <2>2, <2>4, <2>5, DepartsNew DEF EdgeInv
<1>2. CASE WhileBranch
  <2>1. /\ ~Done /\ Top.at = "WhileCond"
        /\ blocks' = BranchTo(blocks, cur, Top.header, Top.body, Top.exit)
        /\ Replace([Top EXCEPT !.at = "WhileBody", !.body = NoBlock])
    BY <1>2 DEF WhileBranch, At
  <2>2. ~Done'  BY <2>1, ReplaceStays
  <2>3. /\ Top.header \in 1 .. Len(blocks) /\ Top.body \in 1 .. Len(blocks)
        /\ Top.exit \in 1 .. Len(blocks)
    BY <2>1, Ends, Active DEF EdgeInv, HoldsBody, HoldsExit, HasHeader
  <2>4. QED  BY <2>1, <2>2, <2>3, BranchDeparts DEF EdgeInv
<1>3. CASE EndWhile
  <2>1. /\ ~Done /\ Top.at = "WhileBody" /\ blocks' = JumpTo(blocks, cur, Top.header)
        /\ Pop
    BY <1>3 DEF EndWhile, At
  <2>2. ~Done'  BY <2>1, PopLeaves DEF EdgeInv, BodyPoints
  <2>3. Top.header \in 1 .. Len(blocks)  BY <2>1, Ends DEF EdgeInv, HasHeader
  <2>4. QED  BY <2>1, <2>2, <2>3, JumpDeparts DEF EdgeInv
<1>4. QED  BY <1>1, <1>2, <1>3

(* REPEAT: the body is entered by a jump and left by the condition. *)
LEMMA LedgerRepeat ==
  ASSUME EdgeInv, EdgeInv', BeginRepeat \/ RepeatUntil \/ EndRepeat
  PROVE  Ledger!Next
<1>1. CASE BeginRepeat
  <2> DEFINE new == Held(stack) \cup {Next1, Next2}
  <2>1. /\ AtStatement /\ ~Done /\ blocks' = JumpTo(Create2, cur, Next1)
        /\ Push([FrameAt("RepeatBody") EXCEPT !.header = Next1, !.exit = Next2])
    BY <1>1 DEF BeginRepeat, AtStatement
  <2>2. ~Done'  BY <2>1, PushStays
  <2>3. Partition(Create2, {cur} \cup new) /\ Len(Create2) = Next2 /\ cur \notin new
    BY <2>1, Creates DEF EdgeInv
  <2>4. /\ Next1 \in 1 .. Next2
        /\ new \subseteq Held(stack) \cup (Next1 .. Next2)
    BY <2>1, Numbers DEF EdgeInv
  <2> HIDE DEF new
  <2>5. Partition(blocks', new) /\ Len(blocks') = Next2
    BY <2>1, <2>3, <2>4, JumpLeaves
  <2>6. QED  BY <2>1, <2>2, <2>4, <2>5, DepartsNew DEF EdgeInv
<1>2. CASE RepeatUntil
  <2>1. /\ ~Done /\ cur' = cur /\ blocks' = blocks
        /\ Replace([Top EXCEPT !.at = "RepeatCond"])
    BY <1>2 DEF RepeatUntil, At
  <2>2. ~Done'  BY <2>1, ReplaceStays
  <2>3. QED  BY <2>1, <2>2, GoesOn DEF EdgeInv
<1>3. CASE EndRepeat
  <2>1. /\ ~Done /\ Top.at = "RepeatCond"
        /\ blocks' = BranchTo(blocks, cur, cur, Top.exit, Top.header)
        /\ Pop
    BY <1>3 DEF EndRepeat, At
  <2>2. ~Done'  BY <2>1, PopLeaves DEF EdgeInv, BodyPoints
  <2>3. /\ cur \in 1 .. Len(blocks) /\ Top.exit \in 1 .. Len(blocks)
        /\ Top.header \in 1 .. Len(blocks)
    BY <2>1, Ends, Active DEF EdgeInv, HoldsExit, HasHeader
  <2>4. QED  BY <2>1, <2>2, <2>3, BranchDeparts DEF EdgeInv
<1>4. QED  BY <1>1, <1>2, <1>3

(* FOR: the start value is stored in the block that is left for the header. *)
LEMMA LedgerFor ==
  ASSUME EdgeInv, EdgeInv', BeginFor \/ ForInit \/ ForBranch \/ ForStep \/ EndFor
  PROVE  Ledger!Next
<1>1. CASE BeginFor
  <2>1. /\ AtStatement /\ ~Done /\ cur' = cur /\ blocks' = blocks
        /\ Push(FrameAt("ForFrom"))
    BY <1>1 DEF BeginFor, AtStatement
  <2>2. ~Done'  BY <2>1, PushStays
  <2>3. QED  BY <2>1, <2>2, GoesOn DEF EdgeInv
<1>2. CASE ForInit
  <2> DEFINE new == Held(stack) \cup {Next1, Next2, Next3}
             es  == Emit(Create3, cur, Op("Store"))
             js  == JumpTo(es, cur, Next1)
  <2>1. /\ ~Done /\ blocks' = Emit(js, Next1, Op("Load"))
        /\ Replace([Top EXCEPT
                      !.at = "ForTo", !.header = Next1, !.body = Next2, !.exit = Next3])
    BY <1>2 DEF ForInit, At
  <2>2. ~Done'  BY <2>1, ReplaceStays
  <2>3. /\ Partition(Create3, {cur} \cup new) /\ Len(Create3) = Next3 /\ cur \notin new
        /\ Next1 \in new
    BY <2>1, Creates DEF EdgeInv
  <2>4. Next1 \in 1 .. Next3 /\ new \subseteq Held(stack) \cup (Next1 .. Next3)
    BY <2>1, Numbers DEF EdgeInv
  <2> HIDE DEF new
  <2>5. Partition(es, {cur} \cup new) /\ Len(es) = Next3
    BY <2>3, EmitPartition DEF PlainOps
  <2> HIDE DEF es
  <2>6. Partition(js, new) /\ Len(js) = Next3
    BY <2>3, <2>4, <2>5, JumpLeaves
  <2> HIDE DEF js
  <2>7. Partition(blocks', new) /\ Len(blocks') = Next3
    BY <2>1, <2>3, <2>6, EmitPartition DEF PlainOps
  <2>8. QED  BY <2>1, <2>2, <2>4, <2>7, DepartsNew DEF EdgeInv
<1>3. CASE ForBranch
  <2>1. /\ ~Done /\ Top.at = "ForTo"
        /\ blocks' = BranchTo(Emit(blocks, cur, Op("Eval")), cur, Top.header, Top.exit, Top.body)
        /\ Replace([Top EXCEPT !.at = "ForBody", !.body = NoBlock])
    BY <1>3 DEF ForBranch, At
  <2>2. ~Done'  BY <2>1, ReplaceStays
  <2>3. /\ Top.header \in 1 .. Len(blocks) /\ Top.exit \in 1 .. Len(blocks)
        /\ Top.body \in 1 .. Len(blocks)
    BY <2>1, Ends, Active DEF EdgeInv, HoldsBody, HoldsExit, HasHeader
  <2>4. QED  BY <2>1, <2>2, <2>3, BranchDeparts DEF EdgeInv
<1>4. CASE ForStep
  <2>1. /\ ~Done /\ cur' = cur /\ blocks' = Emit(blocks, cur, Op("Load"))
        /\ Replace([Top EXCEPT !.at = "ForBy"])
    BY <1>4 DEF ForStep, At
  <2>2. ~Done'  BY <2>1, ReplaceStays
  <2>3. QED  BY <2>1, <2>2, GoesOn DEF EdgeInv, PlainOps
<1>5. CASE EndFor
  <2> DEFINE S  == {cur} \cup Held(stack)
             es == Emit(blocks, cur, Op("Eval"))
             ss == Emit(es, cur, Op("Store"))
  <2>1. ~Done /\ Top.at = "ForBy" /\ Pop /\ blocks' = JumpTo(ss, cur, Top.header)
    BY <1>5 DEF EndFor, At
  <2>2. ~Done'  BY <2>1, PopLeaves DEF EdgeInv, BodyPoints
  <2>3. Top.header \in 1 .. Len(blocks)  BY <2>1, Ends DEF EdgeInv, HasHeader
  <2>4. Partition(blocks, S) /\ cur \in S /\ cur \notin Held(stack)
    BY <2>1, Active DEF EdgeInv
  <2> HIDE DEF S
  <2>5. Partition(es, S) /\ Len(es) = Len(blocks)
    BY <2>4, EmitPartition DEF PlainOps
  <2> HIDE DEF es
  <2>6. Partition(ss, S) /\ Len(ss) = Len(blocks)
    BY <2>4, <2>5, EmitPartition DEF PlainOps
  <2> HIDE DEF ss
  <2>7. Partition(blocks', Held(stack)) /\ Len(blocks') = Len(blocks)
    BY <2>1, <2>3, <2>4, <2>6, JumpLeaves DEF S
  <2>8. QED  BY <2>1, <2>2, <2>7, Departs DEF EdgeInv
<1>6. QED  BY <1>1, <1>2, <1>3, <1>4, <1>5

(* CASE: each label test and the end of each alternative leave the current *)
(* block.                                                                  *)
LEMMA LedgerCase == ASSUME EdgeInv, EdgeInv', VisitCase PROVE Ledger!Next
<1>1. CASE BeginCase
  <2>1. /\ AtStatement /\ ~Done /\ cur' = cur /\ blocks' = blocks
        /\ Push(FrameAt("CaseExpr"))
    BY <1>1 DEF BeginCase, AtStatement
  <2>2. ~Done'  BY <2>1, PushStays
  <2>3. QED  BY <2>1, <2>2, GoesOn DEF EdgeInv
<1>2. CASE CaseDispatch
  <2>1. /\ ~Done /\ cur' = cur /\ blocks' = Create1
        /\ Replace([Top EXCEPT !.at = "CaseNext", !.exit = Next1])
    BY <1>2 DEF CaseDispatch, At
  <2>2. ~Done'  BY <2>1, ReplaceStays
  <2>3. QED  BY <2>1, <2>2, Prepares DEF EdgeInv
<1>3. CASE BeginAlternative
  <2>1. /\ ~Done /\ cur' = cur /\ blocks' = Create2
        /\ Replace([Top EXCEPT !.at = "CaseLabel", !.body = Next1, !.after = Next2])
    BY <1>3 DEF BeginAlternative, At
  <2>2. ~Done'  BY <2>1, ReplaceStays
  <2>3. QED  BY <2>1, <2>2, Prepares DEF EdgeInv
<1>4. CASE TestLabel
  <2> DEFINE new == Held(stack) \cup {Next1}
             es  == Emit(Create1, cur, Op("Eval"))
  <2>1. /\ ~Done /\ Top.at = "CaseLabel" /\ stack' = stack
        /\ blocks' = BranchTo(es, cur, cur, Top.body, Next1)
    BY <1>4 DEF TestLabel, At
  <2>2. ~Done'  BY <2>1 DEF Done
  <2>3. Partition(Create1, {cur} \cup new) /\ Len(Create1) = Next1 /\ cur \notin new
    BY <2>1, Creates DEF EdgeInv
  <2>4. /\ cur \in 1 .. Next1 /\ Top.body \in 1 .. Next1 /\ Next1 \in 1 .. Next1
        /\ new \subseteq Held(stack) \cup (Next1 .. Next1)
    <3>1. Top.body \in 1 .. Len(blocks) /\ cur \in 1 .. Len(blocks)
      BY <2>1, Ends, Active DEF EdgeInv, HoldsBody
    <3>2. QED  BY <2>1, <3>1, Numbers DEF EdgeInv
  <2> HIDE DEF new
  <2>5. Partition(es, {cur} \cup new) /\ Len(es) = Next1
    BY <2>3, EmitPartition DEF PlainOps
  <2> HIDE DEF es
  <2>6. Partition(blocks', new) /\ Len(blocks') = Next1
    BY <2>1, <2>3, <2>4, <2>5, BranchLeaves
  <2>7. QED  BY <2>1, <2>2, <2>4, <2>6, DepartsNew DEF EdgeInv
<1>5. CASE TestLastLabel
  <2>1. /\ ~Done /\ Top.at = "CaseLabel"
        /\ blocks' = BranchTo(Emit(blocks, cur, Op("Eval")), cur, cur, Top.body, Top.after)
        /\ Replace([Top EXCEPT !.at = "CaseBody", !.body = NoBlock])
    BY <1>5 DEF TestLastLabel, At
  <2>2. ~Done'  BY <2>1, ReplaceStays
  <2>3. /\ cur \in 1 .. Len(blocks) /\ Top.body \in 1 .. Len(blocks)
        /\ Top.after \in 1 .. Len(blocks)
    BY <2>1, Ends, Active DEF EdgeInv, HoldsBody, HoldsAfter
  <2>4. QED  BY <2>1, <2>2, <2>3, BranchDeparts DEF EdgeInv
<1>6. CASE EndAlternative
  <2>1. /\ ~Done /\ Top.at = "CaseBody" /\ blocks' = JumpTo(blocks, cur, Top.exit)
        /\ Replace([Top EXCEPT !.at = "CaseNext", !.after = NoBlock, !.leaves = @ \/ live])
    BY <1>6 DEF EndAlternative, At
  <2>2. ~Done'  BY <2>1, ReplaceStays
  <2>3. Top.exit \in 1 .. Len(blocks)  BY <2>1, Ends DEF EdgeInv, HoldsExit
  <2>4. QED  BY <2>1, <2>2, <2>3, JumpDeparts DEF EdgeInv
<1>7. CASE EndCase
  <2>1. /\ ~Done /\ Top.at = "CaseNext" /\ blocks' = JumpTo(blocks, cur, Top.exit)
        /\ Pop
    BY <1>7 DEF EndCase, At
  <2>2. ~Done'  BY <2>1, PopLeaves DEF EdgeInv, BodyPoints
  <2>3. Top.exit \in 1 .. Len(blocks)  BY <2>1, Ends DEF EdgeInv, HoldsExit
  <2>4. QED  BY <2>1, <2>2, <2>3, JumpDeparts DEF EdgeInv
<1>8. QED  BY <1>1, <1>2, <1>3, <1>4, <1>5, <1>6, <1>7 DEF VisitCase

(* ABS: both arms are sealed as soon as they are filled; only the merge    *)
(* block stays open.                                                       *)
LEMMA LedgerAbs == ASSUME EdgeInv, EdgeInv', EvaluateAbs PROVE Ledger!Next
<1> DEFINE R3 == Held(stack) \cup {Next3}
           R2 == R3 \cup {Next2}
           R1 == R2 \cup {Next1}
           e0 == Emit(Create3, cur, Op("Eval"))
           tested == BranchTo(e0, cur, cur, Next1, Next2)
           e1 == Emit(tested, Next1, Op("Copy"))
           negated == JumpTo(e1, Next1, Next3)
           e2 == Emit(negated, Next2, Op("Copy"))
<1>1. ~Done /\ ~Done' /\ blocks' = JumpTo(e2, Next2, Next3)
  BY DEF EvaluateAbs, Done
<1>2. /\ Partition(Create3, {cur} \cup R1) /\ cur \notin R1 /\ Len(Create3) = Next3
  <2>1. R1 = Held(stack) \cup {Next1, Next2, Next3}  OBVIOUS
  <2>2. QED  BY <1>1, <2>1, Creates DEF EdgeInv
<1>3. /\ cur \in 1 .. Next3 /\ Next1 \in 1 .. Next3
      /\ Next2 \in 1 .. Next3 /\ Next3 \in 1 .. Next3
      /\ Next1 \notin R2 /\ Next2 \notin R3
  BY <1>1, Active, Numbers DEF EdgeInv
<1>4. /\ R1 = {Next1} \cup R2 /\ R2 = {Next2} \cup R3
      /\ R3 \subseteq Held(stack) \cup (Next1 .. Next3)
  BY <1>1, Numbers DEF EdgeInv
<1> HIDE DEF R1, R2, R3
<1>5. Partition(e0, {cur} \cup R1) /\ Len(e0) = Next3
  BY <1>2, EmitPartition DEF PlainOps
<1> HIDE DEF e0
<1>6. Partition(tested, {Next1} \cup R2) /\ Len(tested) = Next3
  <2>1. Partition(tested, R1) /\ Len(tested) = Next3
    BY <1>2, <1>3, <1>5, BranchLeaves
  <2>2. QED  BY <1>4, <2>1
<1> HIDE DEF tested
<1>7. Partition(e1, {Next1} \cup R2) /\ Len(e1) = Next3
  BY <1>6, EmitPartition DEF PlainOps
<1> HIDE DEF e1
<1>8. Partition(negated, {Next2} \cup R3) /\ Len(negated) = Next3
  <2>1. Partition(negated, R2) /\ Len(negated) = Next3
    BY <1>3, <1>7, JumpLeaves
  <2>2. QED  BY <1>4, <2>1
<1> HIDE DEF negated
<1>9. Partition(e2, {Next2} \cup R3) /\ Len(e2) = Next3
  BY <1>8, EmitPartition DEF PlainOps
<1> HIDE DEF e2
<1>10. Partition(blocks', R3) /\ Len(blocks') = Next3
  BY <1>1, <1>3, <1>9, JumpLeaves
<1>11. QED  BY <1>1, <1>4, <1>10, DepartsNew DEF EdgeInv

(* The body: RETURN's value is evaluated in the current block, and the     *)
(* last block is sealed when nothing else is open.                         *)
LEMMA LedgerBody == ASSUME EdgeInv, EdgeInv', BeginBodyValue \/ EndBody
                    PROVE  Ledger!Next
<1>1. CASE BeginBodyValue
  <2>1. /\ ~Done /\ cur' = cur /\ blocks' = blocks
        /\ Replace([Top EXCEPT !.at = "BodyValue"])
    BY <1>1 DEF BeginBodyValue, At
  <2>2. ~Done'  BY <2>1, ReplaceStays
  <2>3. QED  BY <2>1, <2>2, GoesOn DEF EdgeInv
<1>2. CASE EndBody
  <2> DEFINE n == Len(blocks)
  <2>1. /\ ~Done /\ Top.at \in BodyPoints /\ Pop
        /\ blocks' = FinishBlock(blocks, cur, Ret)
    BY <1>2 DEF EndBody, At, BodyPoints
  <2>2. Held(stack) = {} /\ Done'
    <3>1. stack \in Seq(Frame) /\ stack # <<>> /\ Pending(Top) = {}
      BY <2>1, Active
      DEF EdgeInv, FrameOK, Pending, NoBlock, HoldsBody, HoldsAfter, HoldsExit,
           HasHeader, BodyPoints
    <3>2. Len(stack) = 1
      <4>1. Len(stack) \in 1 .. Len(stack)  BY <3>1
      <4>2. QED  BY <2>1, <4>1 DEF EdgeInv, IInv, StackOK, Top
    <3>3. Held(stack) = {}  BY <3>1, <3>2 DEF Held, Top
    <3>4. stack' = SubSeq(stack, 1, 0)  BY <2>1, <3>2 DEF Pop
    <3>5. QED  BY <3>1, <3>3, <3>4 DEF Done
  <2>3. Partition(blocks, {cur} \cup {}) /\ cur \in 1 .. n
    BY <2>1, <2>2, Active DEF EdgeInv
  <2>4. Partition(blocks', {}) /\ Len(blocks') = n
    BY <2>1, <2>3, RetLeaves
  <2>5. SealedBlocks' = 1 .. n
    BY <2>4, SealedOutside DEF SealedBlocks
  <2>6. SealedBlocks = (1 .. n) \ {cur}
    BY <2>1, <2>2, SealedNow DEF EdgeInv
  <2>7. cur # 0  BY <2>3
  <2>8. Ledger!Close
    BY <2>1, <2>2, <2>3, <2>4, <2>5, <2>6, <2>7 DEF Ledger!Close, SealedBlocks
  <2>9. QED  BY <2>8 DEF Ledger!Next
<1>3. QED  BY <1>1, <1>2

-----------------------------------------------------------------------------
(* The refinement *)

(* The body begins with one open block. *)
LEMMA LedgerInitially == Init => Ledger!Init
<1> SUFFICES ASSUME Init  PROVE Ledger!Init
  OBVIOUS
<1>1. IInv /\ ~Done  BY Initially DEF Init, Done
<1>2. cur = 1 /\ Len(blocks) = 1  BY DEF Init
<1>3. SealedBlocks = {}  BY <1>1, <1>2, SealedNow
<1>4. QED  BY <1>1, <1>2, <1>3 DEF Ledger!Init, SealedBlocks

(* Every step of the builder is a step of the ledger, or none. *)
LEMMA LedgerSteps ==
  EdgeInv /\ EdgeInv' /\ [Next]_vars => [Ledger!Next]_(Ledger!vars)
<1> SUFFICES ASSUME EdgeInv, EdgeInv', [Next]_vars
             PROVE  Ledger!Next \/ UNCHANGED Ledger!vars
  OBVIOUS
<1>1. CASE BeginBodyValue \/ EndBody  BY <1>1, LedgerBody
<1>2. CASE EvaluateAbs  BY <1>2, LedgerAbs
<1>3. CASE VisitSimple  BY <1>3, LedgerSimple
<1>4. CASE VisitIf  BY <1>4, LedgerIf
<1>5. CASE VisitLoop  BY <1>5, LedgerWhile, LedgerRepeat, LedgerFor DEF VisitLoop
<1>6. CASE VisitCase  BY <1>6, LedgerCase
<1>7. CASE UNCHANGED vars  BY <1>7 DEF vars, Ledger!vars, Done
<1>8. QED
  BY <1>1, <1>2, <1>3, <1>4, <1>5, <1>6, <1>7 DEF Next, Finished

(* LoweringImplementsLedger: whatever tree is lowered, the construction    *)
(* keeps the discipline of BlockLedger: one block is open at a time, a     *)
(* block with a terminator is never made current again (IRBuilder.cpp sets *)
(* curBlock_ without looking), and when the body is closed all are sealed. *)
THEOREM LoweringImplementsLedger == Spec => BlocksAreLedgered
BY LedgerInitially, LedgerSteps, EdgesAlwaysRight, PTL
   DEF Spec, BlocksAreLedgered, Ledger!Spec

-----------------------------------------------------------------------------
(***************************************************************************)
(* The current block can be reached from the entry exactly when the source *)
(* lets control reach the construct being lowered, for trees of every      *)
(* size, ABS or no ABS.                                                    *)
(*                                                                         *)
(* The argument: the blocks that can be reached are the least set that     *)
(* holds the entry and all its targets (the recursive definition of        *)
(* Reachable arrives at it after as many rounds as there are blocks).  A   *)
(* terminator that is put at the end of an open block adds its targets to  *)
(* that set if the block was in it, and nothing else, because a target is  *)
(* either open itself, so that nothing leads on from it yet, or already in *)
(* the set.  The invariant then says of every active visitor which of the  *)
(* blocks it holds are in the set, by where it stands, by whether control  *)
(* entered its statement and by whether a part of it has reached its end.  *)
(***************************************************************************)

(* No block goes where there is none. *)
Bounded(bs) == \A b \in 1 .. Len(bs) : Targets(bs[b]) \subseteq 1 .. Len(bs)

(* The blocks S lead nowhere else. *)
LeadOnlyTo(bs, S) == \A b \in S : Targets(bs[b]) \subseteq S

(* The blocks every such set with the entry in it contains. *)
Reached(bs) ==
  {b \in 1 .. Len(bs) :
     \A S \in SUBSET (1 .. Len(bs)) : 1 \in S /\ LeadOnlyTo(bs, S) => b \in S}

(* They are such a set themselves. *)
LEMMA ReachedLeads ==
  ASSUME NEW bs, Bounded(bs), 1 \in 1 .. Len(bs)
  PROVE  Reached(bs) \subseteq 1 .. Len(bs) /\ 1 \in Reached(bs) /\ LeadOnlyTo(bs, Reached(bs))
<1>1. 1 \in Reached(bs) /\ Reached(bs) \subseteq 1 .. Len(bs)  BY DEF Reached
<1>2. ASSUME NEW b \in Reached(bs), NEW c \in Targets(bs[b])  PROVE c \in Reached(bs)
  <2>1. c \in 1 .. Len(bs)  BY <1>1, <1>2 DEF Bounded
  <2>2. ASSUME NEW S \in SUBSET (1 .. Len(bs)), 1 \in S, LeadOnlyTo(bs, S)
        PROVE  c \in S
    <3>1. b \in S  BY <2>2 DEF Reached
    <3>2. QED  BY <3>1, <2>2 DEF LeadOnlyTo
  <2>3. QED  BY <2>1, <2>2 DEF Reached
<1>3. QED  BY <1>1, <1>2 DEF LeadOnlyTo

(* And the least. *)
LEMMA ReachedLeast ==
  ASSUME NEW bs, NEW S, S \subseteq 1 .. Len(bs), 1 \in S, LeadOnlyTo(bs, S)
  PROVE  Reached(bs) \subseteq S
BY DEF Reached

(* Induction, for sets of numbers. *)
LEMMA AllNumbers ==
  ASSUME NEW S, 0 \in S, \A n \in Nat : n \in S => n + 1 \in S
  PROVE  Nat \subseteq S
<1> DEFINE R == OpToRel(<, Nat)
           T == {n \in Nat : n \notin S}
<1> HIDE DEF R
<1>0. R = {ss \in Nat \X Nat : ss[1] < ss[2]}  BY DEF R, OpToRel
<1>1. \A a, b \in Nat : a < b => <<a, b>> \in R  BY <1>0
<1>2. IsWellFoundedOn(R, Nat)  BY NatLessThanWellFounded, Zenon DEF R
<1>3. ASSUME T # {}  PROVE FALSE
  <2>1. T \subseteq Nat  OBVIOUS
  <2>2. PICK x \in T : \A y \in T : ~(<<y, x>> \in R)  BY <1>2, <1>3, <2>1, WFMin, Zenon
  <2>3. x \in Nat /\ x # 0  OBVIOUS
  <2>4. x - 1 \in Nat /\ x - 1 < x  BY <2>3
  <2>5. x - 1 \in S  BY <1>1, <2>2, <2>3, <2>4
  <2>6. (x - 1) + 1 \in S  BY <2>4, <2>5
  <2>7. QED  BY <2>3, <2>6
<1>4. QED  BY <1>3

(* The function on 0 .. k that starts with a and applies F from there on. *)
Iteration(g, D, a, F, k) ==
  g \in [0 .. k -> D] /\ g[0] = a /\ \A n \in 1 .. k : g[n] = F[g[n - 1]]

(* A function defined by what it gives for 0 and from one number to the    *)
(* next is there.                                                          *)
LEMMA Iterates ==
  ASSUME NEW D, NEW a \in D, NEW F \in [D -> D], NEW k \in Nat
  PROVE  \E g : Iteration(g, D, a, F, k)
<1> DEFINE Is(g, m) == g[0] = a /\ \A n \in 1 .. m : g[n] = F[g[n - 1]]
           S == {m \in Nat : \E g \in [0 .. m -> D] : Is(g, m)}
<1>1. 0 \in S
  <2>1. [n \in 0 .. 0 |-> a] \in [0 .. 0 -> D] /\ [n \in 0 .. 0 |-> a][0] = a  OBVIOUS
  <2>2. Is([n \in 0 .. 0 |-> a], 0)  BY <2>1
  <2>3. QED  BY <2>1, <2>2
<1>2. ASSUME NEW m \in Nat, m \in S  PROVE m + 1 \in S
  <2>1. PICK g \in [0 .. m -> D] : Is(g, m)  BY <1>2
  <2> DEFINE h == [n \in 0 .. m + 1 |-> IF n = m + 1 THEN F[g[m]] ELSE g[n]]
  <2>2. F[g[m]] \in D  OBVIOUS
  <2>3. \A n \in 0 .. m + 1 : n = m + 1 \/ n \in 0 .. m  OBVIOUS
  <2>4. h \in [0 .. m + 1 -> D]  BY <2>2, <2>3
  <2>5. h[0] = a  BY <2>1
  <2>6. ASSUME NEW n \in 1 .. m + 1  PROVE h[n] = F[h[n - 1]]
    <3>1. CASE n = m + 1
      <4>1. h[n] = F[g[m]] /\ h[n - 1] = g[m]  BY <3>1
      <4>2. QED  BY <4>1
    <3>2. CASE n # m + 1
      <4>1. n \in 1 .. m  BY <3>2
      <4>2. h[n] = g[n] /\ h[n - 1] = g[n - 1]  BY <4>1
      <4>3. QED  BY <2>1, <4>1, <4>2
    <3>3. QED  BY <3>1, <3>2
  <2> HIDE DEF h
  <2>7. Is(h, m + 1)  BY <2>5, <2>6
  <2>8. QED  BY <2>4, <2>7
<1> HIDE DEF S
<1>3. Nat \subseteq S  BY <1>1, <1>2, AllNumbers
<1>4. k \in S  BY <1>3
<1>5. QED  BY <1>4 DEF S, Iteration

(* The recursive definition of Reachable gives the same set: it has taken  *)
(* in everything after as many rounds as there are blocks, for a round     *)
(* that adds nothing is the last, and each before it adds a block.         *)
LEMMA ReachableIsReached ==
  ASSUME Bounded(blocks), Len(blocks) \in Nat, 1 \in 1 .. Len(blocks)
  PROVE  Reachable = Reached(blocks)
<1> DEFINE L == Len(blocks)
           Wider(V) == V \cup UNION {Targets(blocks[b]) : b \in V}
           D == SUBSET (1 .. L)
           F == [V \in D |-> Wider(V)]
           W == CHOOSE g : g = [n \in 0 .. L |-> IF n = 0 THEN {1} ELSE Wider(g[n - 1])]
<1>1. Reachable = W[L]  BY DEF Reachable
<1>2. L \in Nat /\ L # 0  OBVIOUS
<1>3. ASSUME NEW V \in D  PROVE Wider(V) \in D  BY DEF Bounded
<1>4. W[0] = {1} /\ \A n \in 1 .. L : W[n] = Wider(W[n - 1])
  <2>1. F \in [D -> D]  BY <1>3
  <2> DEFINE a == {1}
  <2>2. a \in D /\ L \in Nat  OBVIOUS
  <2> HIDE DEF F, D, L, a
  <2>a. \E g : Iteration(g, D, a, F, L)
    BY <2>1, <2>2, Iterates, Zenon
  <2>3. PICK g \in [0 .. L -> D] : g[0] = {1} /\ \A n \in 1 .. L : g[n] = F[g[n - 1]]
    BY <2>a DEF a, Iteration
  <2>4. g = [n \in 0 .. L |-> IF n = 0 THEN {1} ELSE Wider(g[n - 1])]
    <3>1. ASSUME NEW n \in 0 .. L  PROVE g[n] = IF n = 0 THEN {1} ELSE Wider(g[n - 1])
      <4>1. CASE n = 0  BY <2>3, <4>1
      <4>2. CASE n # 0
        <5>1. n \in 1 .. L /\ n - 1 \in 0 .. L  BY <1>2, <4>2
        <5>2. g[n - 1] \in D  BY <2>3, <5>1
        <5>3. g[n] = F[g[n - 1]]  BY <2>3, <5>1
        <5>4. F[g[n - 1]] = Wider(g[n - 1])  BY <5>2 DEF F
        <5>5. QED  BY <4>2, <5>3, <5>4
      <4>3. QED  BY <4>1, <4>2
    <3> HIDE DEF Wider
    <3>2. QED  BY <2>3, <3>1
  <2> HIDE DEF Wider
  <2>5. W = [n \in 0 .. L |-> IF n = 0 THEN {1} ELSE Wider(W[n - 1])]  BY <2>4
  <2> HIDE DEF W
  <2>6. W[0] = {1}  BY <1>2, <2>5
  <2>7. ASSUME NEW n \in 1 .. L  PROVE W[n] = Wider(W[n - 1])
    <3>1. n \in 0 .. L /\ n # 0  BY <1>2
    <3>2. QED  BY <2>5, <3>1
  <2>8. QED  BY <2>6, <2>7
<1> HIDE DEF W, F, L
(* Every round is about blocks that can be reached. *)
<1>5. \A n \in 0 .. L : W[n] \in D /\ W[n] \subseteq Reached(blocks) /\ 1 \in W[n]
  <2> DEFINE S == {n \in Nat : n \in 0 .. L =>
                     W[n] \in D /\ W[n] \subseteq Reached(blocks) /\ 1 \in W[n]}
  <2>1. 0 \in S
    <3>1. {1} \in D /\ 1 \in Reached(blocks)  BY ReachedLeads DEF L
    <3>2. QED  BY <1>4, <3>1
  <2>2. ASSUME NEW n \in Nat, n \in S  PROVE n + 1 \in S
    <3>1. CASE n + 1 \notin 0 .. L  BY <3>1
    <3>2. CASE n + 1 \in 0 .. L
      <4>1. n \in 0 .. L /\ n + 1 \in 1 .. L /\ (n + 1) - 1 = n  BY <1>2, <3>2
      <4>2. W[n] \in D /\ W[n] \subseteq Reached(blocks) /\ 1 \in W[n]  BY <2>2, <4>1
      <4>3. W[n + 1] = Wider(W[n])  BY <1>4, <4>1
      <4>4. W[n + 1] \in D  BY <1>3, <4>2, <4>3
      <4>5. Wider(W[n]) \subseteq Reached(blocks)
        <5>1. LeadOnlyTo(blocks, Reached(blocks))  BY ReachedLeads
        <5>2. QED  BY <4>2, <5>1 DEF LeadOnlyTo
      <4>6. 1 \in W[n + 1]  BY <4>2, <4>3
      <4> HIDE DEF Wider, D
      <4>7. QED  BY <4>3, <4>4, <4>5, <4>6
    <3>3. QED  BY <3>1, <3>2
  <2> HIDE DEF S
  <2>3. Nat \subseteq S  BY <2>1, <2>2, AllNumbers
  <2>4. \A n \in 0 .. L : n \in S  BY <1>2, <2>3
  <2>5. QED  BY <2>4 DEF S
(* No round takes a block out. *)
<1>6. \A n \in 0 .. L : \A m \in 0 .. n : W[m] \subseteq W[n]
  <2> DEFINE S == {n \in Nat : n \in 0 .. L => \A m \in 0 .. n : W[m] \subseteq W[n]}
  <2>1. 0 \in S  OBVIOUS
  <2>2. ASSUME NEW n \in Nat, n \in S  PROVE n + 1 \in S
    <3>1. CASE n + 1 \notin 0 .. L  BY <3>1
    <3>2. CASE n + 1 \in 0 .. L
      <4>1. n \in 0 .. L /\ n + 1 \in 1 .. L /\ (n + 1) - 1 = n  BY <1>2, <3>2
      <4>2. W[n] \subseteq W[n + 1]  BY <1>4, <4>1
      <4>3. \A m \in 0 .. n : W[m] \subseteq W[n]  BY <2>2, <4>1
      <4>4. \A m \in 0 .. n + 1 : m \in 0 .. n \/ m = n + 1  OBVIOUS
      <4>5. \A m \in 0 .. n + 1 : W[m] \subseteq W[n + 1]  BY <4>2, <4>3, <4>4
      <4>6. QED  BY <4>5
    <3>3. QED  BY <3>1, <3>2
  <2> HIDE DEF S
  <2>3. Nat \subseteq S  BY <2>1, <2>2, AllNumbers
  <2>4. \A n \in 0 .. L : n \in S  BY <1>2, <2>3
  <2>5. QED  BY <2>4 DEF S
(* A round that adds nothing comes, ... *)
<1>7. \E n \in 1 .. L : W[n] = W[n - 1]
  <2> SUFFICES ASSUME \A n \in 1 .. L : W[n] # W[n - 1]  PROVE FALSE
    OBVIOUS
  <2> DEFINE new(n) == IF n = 0 THEN 1 ELSE CHOOSE x : x \in W[n] \ W[n - 1]
             f == [n \in 0 .. L |-> new(n)]
  <2>1. ASSUME NEW n \in 1 .. L  PROVE new(n) \in W[n] \ W[n - 1]
    <3>1. n \in 0 .. L /\ n # 0 /\ n - 1 \in 0 .. n  BY <1>2
    <3>2. W[n - 1] \subseteq W[n] /\ W[n] # W[n - 1]  BY <1>6, <3>1
    <3>3. \E x : x \in W[n] \ W[n - 1]  BY <3>2
    <3>4. QED  BY <3>1, <3>3
  <2>2. \A n \in 0 .. L : new(n) \in W[n]
    <3>1. \A n \in 0 .. L : n = 0 \/ n \in 1 .. L  BY <1>2
    <3>2. new(0) \in W[0]  BY <1>4
    <3> HIDE DEF new
    <3>3. QED  BY <2>1, <3>1, <3>2
  <2> HIDE DEF new
  <2>3. \A n \in 0 .. L : new(n) \in 1 .. L  BY <1>5, <2>2
  <2>4. f \in [0 .. L -> 1 .. L]  BY <2>3
  <2>5. IsFiniteSet(0 .. L) /\ Cardinality(0 .. L) = L + 1  BY <1>2, FS_Interval
  <2>6. IsFiniteSet(1 .. L) /\ Cardinality(1 .. L) = L  BY <1>2, FS_Interval
  <2>7. Cardinality(1 .. L) < Cardinality(0 .. L)  BY <1>2, <2>5, <2>6
  <2> HIDE DEF f
  <2>8. PICK x, y \in 0 .. L : x # y /\ f[x] = f[y]
    <3> DEFINE S == 0 .. L
               T == 1 .. L
    <3>1. IsFiniteSet(S) /\ IsFiniteSet(T) /\ Cardinality(T) < Cardinality(S) /\ f \in [S -> T]
      BY <2>4, <2>5, <2>6, <2>7
    <3> HIDE DEF S, T
    <3>2. \E x, y \in S : x # y /\ f[x] = f[y]  BY <3>1, FS_PigeonHole, Zenon
    <3>3. QED  BY <3>2 DEF S
  <2>9. ASSUME NEW i \in 0 .. L, NEW j \in 0 .. L, i < j  PROVE f[i] # f[j]
    <3>0. f[i] = new(i) /\ f[j] = new(j)  BY DEF f
    <3>1. j \in 1 .. L /\ j - 1 \in 0 .. L /\ i \in 0 .. j - 1  BY <1>2, <2>9
    <3>2. new(j) \notin W[j - 1]  BY <2>1, <3>1
    <3>3. new(i) \in W[j - 1]  BY <1>6, <2>2, <3>1
    <3>4. QED  BY <3>0, <3>2, <3>3
  <2>10. x < y \/ y < x  BY <1>2, <2>8
  <2>11. QED  BY <2>8, <2>9, <2>10
<1>8. PICK n \in 1 .. L : W[n] = W[n - 1]  BY <1>7
<1>9. n - 1 \in 0 .. L /\ n \in 0 .. L /\ L \in 0 .. L /\ n - 1 \in 0 .. L  BY <1>2
<1>10. Reached(blocks) \subseteq W[n - 1]
  <2>1. W[n - 1] = Wider(W[n - 1])  BY <1>4, <1>8
  <2>2. LeadOnlyTo(blocks, W[n - 1])
    <3> DEFINE V == W[n - 1]
    <3>1. V = Wider(V)  BY <2>1
    <3> HIDE DEF V
    <3>2. LeadOnlyTo(blocks, V)  BY <3>1 DEF LeadOnlyTo
    <3>3. QED  BY <3>2 DEF V
  <2>3. W[n - 1] \subseteq 1 .. Len(blocks) /\ 1 \in W[n - 1]  BY <1>5, <1>9 DEF L
  <2>4. QED  BY <2>2, <2>3, ReachedLeast
<1>11. n - 1 \in 0 .. L /\ W[n - 1] \subseteq W[L]  BY <1>2, <1>6, <1>9
<1>12. W[L] \subseteq Reached(blocks)  BY <1>5, <1>9
<1>13. QED  BY <1>1, <1>10, <1>11, <1>12

-----------------------------------------------------------------------------
(* What the builder's calls reach *)

(* A body with the open blocks S in which control reaches R. *)
Reaches(bs, S, R) ==
  /\ Partition(bs, S)
  /\ Bounded(bs)
  /\ 1 \in 1 .. Len(bs)
  /\ R = Reached(bs)

(* Bodies with the same targets are reached alike. *)
LEMMA SameTargets ==
  ASSUME NEW bs, NEW cs, Len(cs) = Len(bs), Bounded(bs), 1 \in 1 .. Len(bs),
         \A b \in 1 .. Len(bs) : Targets(cs[b]) = Targets(bs[b])
  PROVE  Bounded(cs) /\ Reached(cs) = Reached(bs)
<1>1. Bounded(cs)  BY DEF Bounded
<1>2. LeadOnlyTo(cs, Reached(bs)) /\ LeadOnlyTo(bs, Reached(cs))
  BY <1>1, ReachedLeads DEF LeadOnlyTo
<1>3. Reached(cs) \subseteq Reached(bs) /\ Reached(bs) \subseteq Reached(cs)
  BY <1>1, <1>2, ReachedLeads, ReachedLeast
<1>4. QED  BY <1>1, <1>3

(* createBlock adds a block control does not reach. *)
LEMMA CreateReaches ==
  ASSUME NEW bs, NEW S, NEW R, Reaches(bs, S, R)
  PROVE  /\ Reaches(CreateBlock(bs), S \cup {Len(bs) + 1}, R)
         /\ Len(CreateBlock(bs)) = Len(bs) + 1
<1> DEFINE cs == CreateBlock(bs)
           n  == Len(bs)
<1>1. bs \in Seq(Block) /\ n \in Nat /\ EmptyBlock \in Block
  BY DEF Reaches, Partition, EmptyBlock, Block
<1>2. /\ Len(cs) = n + 1
      /\ \A b \in 1 .. n : cs[b] = bs[b]
      /\ cs[n + 1] = EmptyBlock
  BY <1>1 DEF CreateBlock
<1>3. Partition(cs, S \cup {n + 1})  BY CreatePartition DEF Reaches
<1>4. Targets(EmptyBlock) = {}  BY DEF EmptyBlock, Targets, HasTerminator
<1>5. Bounded(bs) /\ 1 \in 1 .. n  BY DEF Reaches
<1> HIDE DEF cs
<1>6. \A b \in 1 .. n + 1 : b \in 1 .. n \/ b = n + 1  BY <1>1
<1>7. 1 .. n \subseteq 1 .. n + 1  BY <1>1
<1>8. Bounded(cs) /\ 1 \in 1 .. Len(cs)
  BY <1>2, <1>4, <1>5, <1>6, <1>7 DEF Bounded
<1>9. LeadOnlyTo(cs, Reached(bs))
  BY <1>2, <1>5, ReachedLeads DEF LeadOnlyTo
<1>10. Reached(cs) \subseteq Reached(bs)
  BY <1>2, <1>5, <1>7, <1>9, ReachedLeads, ReachedLeast
<1>11. Reached(bs) \subseteq Reached(cs)
  <2>1. Reached(cs) \subseteq 1 .. n  BY <1>5, <1>10, ReachedLeads
  <2>2. LeadOnlyTo(bs, Reached(cs))
    BY <1>2, <1>8, <2>1, ReachedLeads DEF LeadOnlyTo
  <2>3. QED  BY <1>8, <2>1, <2>2, ReachedLeads, ReachedLeast
<1>12. R = Reached(cs)  BY <1>10, <1>11 DEF Reaches
<1>13. QED  BY <1>2, <1>3, <1>8, <1>12 DEF Reaches, cs

(* A straight-line instruction changes nothing of it. *)
LEMMA EmitReaches ==
  ASSUME NEW bs, NEW S, NEW R, Reaches(bs, S, R), NEW b \in S, NEW o \in PlainOps
  PROVE  /\ Reaches(Emit(bs, b, Op(o)), S, R)
         /\ Len(Emit(bs, b, Op(o))) = Len(bs)
<1> DEFINE es == Emit(bs, b, Op(o))
<1>1. Partition(bs, S) /\ bs \in Seq(Block) /\ b \in 1 .. Len(bs)
  BY DEF Reaches, Partition
<1>2. Op(o) \in Instr  BY DEF Op, Instr, NoBlock, PlainOps
<1>3. Partition(es, S) /\ Len(es) = Len(bs)  BY <1>1, EmitPartition
<1>4. \A c \in 1 .. Len(bs) : c # b => es[c] = bs[c]  BY <1>1, <1>2, EmitEffect
<1> HIDE DEF es
<1>5. Targets(bs[b]) = {} /\ Targets(es[b]) = {}
  <2>1. bs[b] \in Block /\ OpenBlock(bs[b])  BY <1>1 DEF Partition
  <2>2. es[b] \in Block /\ OpenBlock(es[b])  BY <1>1, <1>3 DEF Partition
  <2>3. QED  BY <2>1, <2>2, OpenTargets
<1>6. \A c \in 1 .. Len(bs) : Targets(es[c]) = Targets(bs[c])  BY <1>4, <1>5
<1>7. Bounded(es) /\ Reached(es) = Reached(bs)
  BY <1>3, <1>6, SameTargets DEF Reaches
<1>8. QED  BY <1>3, <1>7 DEF Reaches, es

(* What is reached when a block b leads to T, which may or may not be      *)
(* reached itself.                                                         *)
With(R, b, T) == IF b \in R THEN R \cup T ELSE R

(* In cs the block b leads to T, in bs to nowhere; the others are alike.    *)
Rerouted(bs, cs, b, T) ==
  /\ Len(cs) = Len(bs) /\ b \in 1 .. Len(bs) /\ T \subseteq 1 .. Len(bs)
  /\ Targets(bs[b]) = {} /\ Targets(cs[b]) = T
  /\ \A c \in 1 .. Len(bs) : c # b => Targets(cs[c]) = Targets(bs[c])

(* The targets lead nowhere yet, or had been reached before.               *)
Harmless(bs, b, T) ==
  b \in Reached(bs) => \A t \in T : Targets(bs[t]) = {} \/ t \in Reached(bs)

(* Then they are all that is reached more, and only if b was.              *)
LEMMA SealReaches ==
  ASSUME NEW bs, NEW cs, NEW b, NEW T, Rerouted(bs, cs, b, T), Harmless(bs, b, T),
         Bounded(bs), 1 \in 1 .. Len(bs)
  PROVE  Bounded(cs) /\ Reached(cs) = With(Reached(bs), b, T)
<1> DEFINE R == Reached(bs)
<1> USE DEF Rerouted, Harmless
<1>1. Bounded(cs)  BY DEF Bounded
<1>2. R \subseteq 1 .. Len(bs) /\ 1 \in R /\ LeadOnlyTo(bs, R)  BY ReachedLeads
<1>3. /\ Reached(cs) \subseteq 1 .. Len(bs) /\ 1 \in Reached(cs)
      /\ LeadOnlyTo(cs, Reached(cs))
  BY <1>1, ReachedLeads
<1>4. LeadOnlyTo(cs, With(R, b, T))
  <2>1. CASE b \notin R
    <3>1. LeadOnlyTo(cs, R)  BY <1>2, <2>1 DEF LeadOnlyTo
    <3>2. QED  BY <2>1, <3>1 DEF With
  <2>2. CASE b \in R
    <3>1. ASSUME NEW c \in R \cup T  PROVE Targets(cs[c]) \subseteq R \cup T
      <4>1. c \in 1 .. Len(bs)  BY <1>2
      <4>2. CASE c = b  BY <4>2
      <4>3. CASE c # b /\ c \in R  BY <1>2, <4>1, <4>3 DEF LeadOnlyTo
      <4>4. CASE c # b /\ c \notin R  BY <2>2, <4>1, <4>4
      <4>5. QED  BY <4>2, <4>3, <4>4
    <3> HIDE DEF R
    <3>2. QED  BY <2>2, <3>1 DEF LeadOnlyTo, With
  <2>3. QED  BY <2>1, <2>2
<1>5. Reached(cs) \subseteq With(R, b, T)
  <2>1. With(R, b, T) \subseteq 1 .. Len(bs) /\ 1 \in With(R, b, T)  BY <1>2 DEF With
  <2>2. QED  BY <1>4, <2>1, ReachedLeast
<1>6. LeadOnlyTo(bs, Reached(cs))  BY <1>3 DEF LeadOnlyTo
<1>7. R \subseteq Reached(cs)  BY <1>3, <1>6, ReachedLeast
<1>8. With(R, b, T) \subseteq Reached(cs)
  <2>1. CASE b \in R
    <3>1. T \subseteq Reached(cs)  BY <1>3, <1>7, <2>1 DEF LeadOnlyTo
    <3>2. QED  BY <1>7, <3>1 DEF With
  <2>2. CASE b \notin R  BY <1>7, <2>2 DEF With
  <2>3. QED  BY <2>1, <2>2
<1>9. QED  BY <1>1, <1>5, <1>8

(* A Ret: control goes nowhere from it. *)
LEMMA RetReaches ==
  ASSUME NEW bs, NEW S, NEW R, Reaches(bs, S, R), NEW b \in S
  PROVE  /\ Reaches(FinishBlock(bs, b, Ret), S \ {b}, R)
         /\ Len(FinishBlock(bs, b, Ret)) = Len(bs)
<1> DEFINE fs == FinishBlock(bs, b, Ret)
<1>1. /\ Ret \in Instr /\ IsTerminator(Ret)
      /\ {} = {Ret.targetBlock, Ret.falseBlock} \ {NoBlock}
  BY DEF Ret, Op, Instr, Terminators, NoBlock, IsTerminator
<1>2. Partition(bs, S)  BY DEF Reaches
<1>3. Partition(fs, S \ {b})  BY <1>2, RetPartition
<1>4. Sealed(bs, fs, b, {})  BY <1>1, <1>2, FinishTargets
<1> HIDE DEF fs
<1>5. \A c \in 1 .. Len(bs) : Targets(fs[c]) = Targets(bs[c])  BY <1>4 DEF Sealed
<1>6. Len(fs) = Len(bs)  BY <1>4 DEF Sealed
<1>7. Bounded(fs) /\ Reached(fs) = Reached(bs)  BY <1>5, <1>6, SameTargets DEF Reaches
<1>8. QED  BY <1>3, <1>6, <1>7 DEF Reaches, fs

(* Blocks control may be sent to: open ones, or reached ones. *)
MaySend(S, R, b, T) == b \in R => T \subseteq S \cup R

(* A jump sends it on. *)
LEMMA JumpReaches ==
  ASSUME NEW bs, NEW S, NEW R, Reaches(bs, S, R), NEW b \in S,
         NEW to \in 1 .. Len(bs), MaySend(S, R, b, {to})
  PROVE  /\ Reaches(JumpTo(bs, b, to), S \ {b}, With(R, b, {to}))
         /\ Len(JumpTo(bs, b, to)) = Len(bs)
<1> DEFINE fs == FinishBlock(bs, b, Jump(to))
           ls == LinkBlocks(fs, b, to)
<1>1. Partition(bs, S) /\ bs \in Seq(Block) /\ Len(bs) \in Nat  BY DEF Reaches, Partition
<1>2. /\ Jump(to) \in Instr /\ IsTerminator(Jump(to))
      /\ {Jump(to).targetBlock, Jump(to).falseBlock} \ {NoBlock} = {to}
  BY <1>1 DEF Jump, Instr, Terminators, NoBlock, IsTerminator
<1>3. Partition(JumpTo(bs, b, to), S \ {b}) /\ Len(JumpTo(bs, b, to)) = Len(bs)
  BY <1>1, JumpPartition
<1>4. b \in 1 .. Len(bs)  BY <1>1 DEF Partition
<1>5. Sealed(bs, fs, b, {to})  BY <1>1, <1>2, FinishTargets
<1> HIDE DEF fs
<1>6. Linked(fs, ls, b, to)
  <2>1. fs \in Seq(Block) /\ b \in 1 .. Len(fs) /\ to \in 1 .. Len(fs)
    BY <1>4, <1>5 DEF Sealed
  <2>2. QED  BY <2>1, LinkFields
<1> HIDE DEF ls
<1>7. Len(ls) = Len(bs)  BY <1>5, <1>6 DEF Linked, Sealed
<1>8. \A c \in 1 .. Len(bs) : Targets(ls[c]) = Targets(fs[c])
  <2>1. \A c \in 1 .. Len(bs) : ls[c].instrs = fs[c].instrs
    BY <1>5, <1>6 DEF Linked, Sealed
  <2>2. QED  BY <2>1 DEF Targets, HasTerminator
<1>9. /\ Targets(ls[b]) = {to} /\ Targets(bs[b]) = {}
      /\ \A c \in 1 .. Len(bs) : c # b => Targets(ls[c]) = Targets(bs[c])
  BY <1>4, <1>5, <1>8 DEF Sealed
<1>10. b \in R => \A t \in {to} : Targets(bs[t]) = {} \/ t \in R
  BY <1>1, OpenTargets DEF MaySend, Partition
<1>11. Bounded(bs) /\ 1 \in 1 .. Len(bs) /\ R = Reached(bs)  BY DEF Reaches
<1>12. Bounded(ls) /\ Reached(ls) = With(Reached(bs), b, {to})
  <2> DEFINE T == {to}
  <2>1. T \subseteq 1 .. Len(bs) /\ Targets(ls[b]) = T  BY <1>9
  <2>2. Harmless(bs, b, T)  BY <1>10, <1>11 DEF Harmless
  <2> HIDE DEF T
  <2>3. Rerouted(bs, ls, b, T)  BY <1>4, <1>7, <1>9, <2>1 DEF Rerouted
  <2>4. Bounded(bs) /\ 1 \in 1 .. Len(bs)  BY <1>11
  <2>5. Bounded(ls) /\ Reached(ls) = With(Reached(bs), b, T)
    BY <2>2, <2>3, <2>4, SealReaches
  <2>6. QED  BY <2>5 DEF T
<1>13. QED  BY <1>3, <1>7, <1>11, <1>12 DEF Reaches, JumpTo, fs, ls

(* A branch sends it to two blocks, wherever its edges are put down. *)
LEMMA BranchReaches ==
  ASSUME NEW bs, NEW S, NEW R, Reaches(bs, S, R), NEW b \in S, NEW e \in 1 .. Len(bs),
         NEW t \in 1 .. Len(bs), NEW f \in 1 .. Len(bs), MaySend(S, R, b, {t, f})
  PROVE  /\ Reaches(BranchTo(bs, b, e, t, f), S \ {b}, With(R, b, {t, f}))
         /\ Len(BranchTo(bs, b, e, t, f)) = Len(bs)
<1> DEFINE fs == FinishBlock(bs, b, Branch(t, f))
           ks == LinkBlocks(fs, e, t)
           ls == LinkBlocks(ks, e, f)
<1>1. Partition(bs, S) /\ bs \in Seq(Block) /\ Len(bs) \in Nat  BY DEF Reaches, Partition
<1>2. /\ Branch(t, f) \in Instr /\ IsTerminator(Branch(t, f))
      /\ {Branch(t, f).targetBlock, Branch(t, f).falseBlock} \ {NoBlock} = {t, f}
  BY <1>1 DEF Branch, Instr, Terminators, NoBlock, IsTerminator
<1>3. /\ Partition(BranchTo(bs, b, e, t, f), S \ {b})
      /\ Len(BranchTo(bs, b, e, t, f)) = Len(bs)
  BY <1>1, BranchPartition
<1>4. b \in 1 .. Len(bs)  BY <1>1 DEF Partition
<1>5. Sealed(bs, fs, b, {t, f})  BY <1>1, <1>2, FinishTargets
<1> HIDE DEF fs
<1>6. Linked(fs, ks, e, t)
  <2>1. fs \in Seq(Block) /\ e \in 1 .. Len(fs) /\ t \in 1 .. Len(fs)  BY <1>5 DEF Sealed
  <2>2. QED  BY <2>1, LinkFields
<1> HIDE DEF ks
<1>7. Linked(ks, ls, e, f)
  <2>1. ks \in Seq(Block) /\ e \in 1 .. Len(ks) /\ f \in 1 .. Len(ks)
    BY <1>5, <1>6 DEF Sealed, Linked
  <2>2. QED  BY <2>1, LinkFields
<1> HIDE DEF ls
<1>8. Len(ls) = Len(bs) /\ Len(ks) = Len(bs)  BY <1>5, <1>6, <1>7 DEF Linked, Sealed
<1>9. \A c \in 1 .. Len(bs) : Targets(ls[c]) = Targets(fs[c])
  <2>1. \A c \in 1 .. Len(bs) : ls[c].instrs = fs[c].instrs
    BY <1>5, <1>6, <1>7, <1>8 DEF Linked, Sealed
  <2>2. QED  BY <2>1 DEF Targets, HasTerminator
<1>10. /\ Targets(ls[b]) = {t, f} /\ Targets(bs[b]) = {}
       /\ \A c \in 1 .. Len(bs) : c # b => Targets(ls[c]) = Targets(bs[c])
  BY <1>4, <1>5, <1>9 DEF Sealed
<1>11. b \in R => \A u \in {t, f} : Targets(bs[u]) = {} \/ u \in R
  BY <1>1, OpenTargets DEF MaySend, Partition
<1>12. Bounded(bs) /\ 1 \in 1 .. Len(bs) /\ R = Reached(bs)  BY DEF Reaches
<1>13. Bounded(ls) /\ Reached(ls) = With(Reached(bs), b, {t, f})
  <2> DEFINE T == {t, f}
  <2>1. T \subseteq 1 .. Len(bs) /\ Targets(ls[b]) = T  BY <1>10
  <2>2. Harmless(bs, b, T)  BY <1>11, <1>12 DEF Harmless
  <2> HIDE DEF T
  <2>3. Rerouted(bs, ls, b, T)  BY <1>4, <1>8, <1>10, <2>1 DEF Rerouted
  <2>4. Bounded(bs) /\ 1 \in 1 .. Len(bs)  BY <1>12
  <2>5. Bounded(ls) /\ Reached(ls) = With(Reached(bs), b, T)
    BY <2>2, <2>3, <2>4, SealReaches
  <2>6. QED  BY <2>5 DEF T
<1>14. QED  BY <1>3, <1>8, <1>12, <1>13 DEF Reaches, BranchTo, fs, ks, ls

-----------------------------------------------------------------------------
(* Where control is *)

(* Points at which the source lets control be exactly when it entered the  *)
(* statement: no statement inside has been visited, or an alternative of a *)
(* CASE is about to begin.                                                 *)
Fresh == {"Operand", "ReturnValue", "IfCond", "WhileCond", "ForFrom", "ForTo",
          "CaseExpr", "CaseNext", "CaseLabel"}

(* Which blocks of a visitor control reaches (R), by where it stands:      *)
(* the header if it reached the statement, the block behind it if it did   *)
(* or if a part has reached its end, and so on.                            *)
FlowOK(f, R) ==
  /\ f.leaves => f.entered
  /\ f.at \in HasHeader => (f.header \in R <=> f.entered)
  /\ f.at \in {"IfCond", "Then", "Else", "CaseNext", "CaseLabel", "CaseBody"} =>
       (f.exit \in R <=> f.leaves)
  /\ f.at \in {"WhileBody", "ForBody", "ForBy"} => (f.exit \in R <=> f.entered)
  /\ f.at \in {"WhileCond", "ForTo"} => f.body \notin R
  /\ f.at \in {"WhileCond", "ForTo", "RepeatBody", "RepeatCond"} => f.exit \notin R
  /\ f.at \in {"Then", "CaseBody"} => (f.after \in R <=> f.entered)
  /\ f.at = "CaseLabel" => f.after \notin R /\ (f.body \in R => f.entered)
  /\ f.at = "CaseExpr" => ~f.leaves

(* Control comes to a statement only through those around it, of which all *)
(* are at their statements.                                                *)
Nested ==
  /\ \A i \in 1 .. Len(stack) - 1 : stack[i].at \in StatementPoints
  /\ \A j \in 1 .. Len(stack) : \A i \in 1 .. j : stack[j].entered => stack[i].entered

FlowAt(R) ==
  /\ \A i \in 1 .. Len(stack) : FlowOK(stack[i], R)
  /\ ~Done => /\ cur \in R <=> live
              /\ live => Top.entered
              /\ Top.at \in Fresh => (live <=> Top.entered)

Flow == Reached(blocks)

FlowInv ==
  /\ IInv
  /\ Bounded(blocks)
  /\ Nested
  /\ FlowAt(Flow)

(* What it says while a visitor is active. *)
LEMMA FlowActive ==
  ASSUME FlowInv, ~Done
  PROVE  /\ Reaches(blocks, {cur} \cup Held(stack), Flow)
         /\ Flow \subseteq 1 .. Len(blocks)
         /\ FlowOK(Top, Flow)
         /\ cur \in Flow <=> live
         /\ live => Top.entered
         /\ Top.at \in Fresh => (live <=> Top.entered)
         /\ live \in BOOLEAN /\ Top \in Frame
<1>1. /\ Partition(blocks, {cur} \cup Held(stack)) /\ Len(blocks) > 0 /\ Len(blocks) \in Nat
      /\ stack \in Seq(Frame) /\ stack # <<>> /\ live \in BOOLEAN /\ Top \in Frame
  BY Active, Numbers DEF FlowInv
<1>2. 1 \in 1 .. Len(blocks) /\ Len(stack) \in 1 .. Len(stack)  BY <1>1
<1>3. Flow \subseteq 1 .. Len(blocks)  BY <1>2, ReachedLeads DEF FlowInv, Flow
<1>4. Reaches(blocks, {cur} \cup Held(stack), Flow)
  BY <1>1, <1>2 DEF FlowInv, Reaches, Flow
<1>5. FlowOK(Top, Flow)  BY <1>2 DEF FlowInv, FlowAt, Top
<1>6. QED  BY <1>1, <1>3, <1>4, <1>5 DEF FlowInv, FlowAt

(* The blocks a visitor creates are not reached yet. *)
LEMMA FlowCreates ==
  ASSUME FlowInv, ~Done
  PROVE  /\ Reaches(Create1, {cur} \cup (Held(stack) \cup {Next1}), Flow)
         /\ Reaches(Create2, {cur} \cup (Held(stack) \cup {Next1, Next2}), Flow)
         /\ Reaches(Create3, {cur} \cup (Held(stack) \cup {Next1, Next2, Next3}), Flow)
         /\ Len(Create1) = Next1 /\ Len(Create2) = Next2 /\ Len(Create3) = Next3
         /\ cur \notin Held(stack) \cup {Next1, Next2, Next3}
         /\ Next1 \notin Flow /\ Next2 \notin Flow /\ Next3 \notin Flow
<1> DEFINE S0 == {cur} \cup Held(stack)
           S1 == S0 \cup {Next1}
           S2 == S1 \cup {Next2}
           S3 == S2 \cup {Next3}
<1>1. Reaches(blocks, S0, Flow) /\ Len(blocks) \in Nat /\ Flow \subseteq 1 .. Len(blocks)
  BY FlowActive, Active DEF FlowInv
<1> HIDE DEF S0
<1>2. Reaches(Create1, S1, Flow) /\ Len(Create1) = Next1
  BY <1>1, CreateReaches DEF Create1, Next1
<1> HIDE DEF S1
<1>3. Next2 = Len(Create1) + 1 /\ Next3 = Next2 + 1
  BY <1>1, <1>2 DEF Next1, Next2, Next3
<1>4. Reaches(Create2, S2, Flow) /\ Len(Create2) = Next2
  BY <1>2, <1>3, CreateReaches DEF Create2
<1> HIDE DEF S2
<1>5. Reaches(Create3, S3, Flow) /\ Len(Create3) = Next3
  BY <1>3, <1>4, CreateReaches DEF Create3
<1>6. /\ S1 = {cur} \cup (Held(stack) \cup {Next1})
      /\ S2 = {cur} \cup (Held(stack) \cup {Next1, Next2})
      /\ S3 = {cur} \cup (Held(stack) \cup {Next1, Next2, Next3})
  BY DEF S0, S1, S2, S3
<1>7. cur \notin Held(stack) \cup {Next1, Next2, Next3}
  BY Creates DEF FlowInv
<1>8. Next1 \notin Flow /\ Next2 \notin Flow /\ Next3 \notin Flow
  BY <1>1 DEF Next1, Next2, Next3
<1>9. QED  BY <1>2, <1>4, <1>5, <1>6, <1>7, <1>8

(* FlowOK is about the blocks a visitor holds and the header it returns to. *)
LEMMA SameFlow ==
  ASSUME NEW f, NEW n, FrameOK(f, n), NEW R, NEW Q, FlowOK(f, R),
         \A b \in Pending(f) : b \in R <=> b \in Q,
         f.at \in HasHeader => (f.header \in R <=> f.header \in Q)
  PROVE  FlowOK(f, Q)
<1>1. f.body # NoBlock => (f.body \in R <=> f.body \in Q)  BY DEF Pending
<1>2. f.after # NoBlock => (f.after \in R <=> f.after \in Q)  BY DEF Pending
<1>3. f.exit # NoBlock => (f.exit \in R <=> f.exit \in Q)  BY DEF Pending
<1>4. /\ f.at \in HoldsBody => (f.body \in R <=> f.body \in Q)
      /\ f.at \in HoldsAfter => (f.after \in R <=> f.after \in Q)
      /\ f.at \in HoldsExit => (f.exit \in R <=> f.exit \in Q)
  BY <1>1, <1>2, <1>3 DEF FrameOK
<1>5. QED
  BY <1>4 DEF FlowOK, HoldsBody, HoldsAfter, HoldsExit, HasHeader

(* A step makes Q of R: it reaches blocks of N only, and none unless       *)
(* control is at the block c it works in.                                  *)
Widens(R, Q, N, c) ==
  /\ R \subseteq Q
  /\ Q \subseteq R \cup N
  /\ c \notin R => Q = R

(* A visitor that holds none of them is in order after the step: if        *)
(* control did not come to its loop, it is not at the current block.       *)
LEMMA OthersKeep ==
  ASSUME FlowInv, ~Done, NEW Q, NEW N, Widens(Flow, Q, N, cur),
         NEW i \in 1 .. Len(stack), Pending(stack[i]) \cap N = {}
  PROVE  FlowOK(stack[i], Q)
<1>1. FlowOK(stack[i], Flow) /\ FrameOK(stack[i], Len(blocks))
  BY DEF FlowInv, FlowAt, IInv, StackOK
<1>2. \A b \in Pending(stack[i]) : b \in Flow <=> b \in Q  BY DEF Widens
<1>3. CASE stack[i].entered
  <2>1. stack[i].at \in HasHeader => stack[i].header \in Flow  BY <1>1, <1>3 DEF FlowOK
  <2>2. QED  BY <1>1, <1>2, <2>1, SameFlow DEF Widens
<1>4. CASE ~stack[i].entered
  <2>1. Len(stack) \in 1 .. Len(stack) /\ i \in 1 .. Len(stack)
    <3>1. stack \in Seq(Frame) /\ stack # <<>>  BY Active DEF FlowInv
    <3>2. QED  BY <3>1
  <2>2. ~Top.entered  BY <2>1, <1>4 DEF FlowInv, Nested, Top
  <2>3. cur \notin Flow  BY <2>2, FlowActive
  <2>4. Q = Flow  BY <2>3 DEF Widens
  <2>5. QED  BY <1>1, <2>4
<1>5. QED  BY <1>3, <1>4

(* What is left to show after a step: the frames after it are in order,    *)
(* and control stands where it should.                                     *)
LEMMA FlowSettles ==
  ASSUME IInv', NEW S, NEW Q, Reaches(blocks', S, Q), ~Done',
         \A i \in 1 .. Len(stack') - 1 : stack'[i].at \in StatementPoints,
         \A j \in 1 .. Len(stack') : \A i \in 1 .. j : stack'[j].entered => stack'[i].entered,
         \A i \in 1 .. Len(stack') : FlowOK(stack'[i], Q),
         cur' \in Q <=> live', live' => Top'.entered,
         Top'.at \in Fresh => (live' <=> Top'.entered)
  PROVE  FlowInv'
<1>1. Bounded(blocks') /\ Flow' = Q  BY DEF Reaches, Flow
<1>2. Nested'  BY DEF Nested
<1>3. FlowAt(Flow)'  BY <1>1 DEF FlowAt
<1>4. QED  BY <1>1, <1>2, <1>3 DEF FlowInv

(* Entering a statement. *)
LEMMA FlowEnters ==
  ASSUME FlowInv, IInv', AtStatement, NEW f, Push(f), f.entered = live, live' = live,
         NEW S, NEW Q, Reaches(blocks', S, Q),
         NEW N, N \cap (1 .. Len(blocks)) = {}, Widens(Flow, Q, N, cur),
         FlowOK(f, Q), cur' \in Q <=> live
  PROVE  FlowInv'
<1> DEFINE l == Len(stack)
<1>1. ~Done /\ Top.at \in StatementPoints  BY DEF AtStatement
<1>2. /\ Len(stack') = l + 1 /\ l \in Nat
      /\ \A i \in 1 .. l : stack'[i] = stack[i]
      /\ stack'[l + 1] = f /\ ~Done' /\ Top' = f
  BY <1>1, PushShape DEF FlowInv
<1>3. l \in 1 .. l /\ Top = stack[l]
  <2>1. stack \in Seq(Frame) /\ stack # <<>>  BY <1>1, Active DEF FlowInv
  <2>2. QED  BY <2>1 DEF Top
<1>4. \A i \in 1 .. l : stack[i].at \in StatementPoints
  <2>1. \A i \in 1 .. l : i = l \/ i \in 1 .. l - 1  BY <1>2
  <2>2. QED  BY <1>1, <1>3, <2>1 DEF FlowInv, Nested
<1>5. \A i \in 1 .. l : FlowOK(stack[i], Q)
  <2>1. \A i \in 1 .. l : Pending(stack[i]) \cap N = {}
    BY DEF FlowInv, IInv, StackOK, FrameOK
  <2>2. QED  BY <1>1, <2>1, OthersKeep
<1>6. live => \A i \in 1 .. l : stack[i].entered
  BY <1>1, <1>3, FlowActive DEF FlowInv, Nested
<1>7. \A j \in 1 .. l : \A i \in 1 .. j : stack[j].entered => stack[i].entered
  BY DEF FlowInv, Nested
<1> HIDE DEF l
<1>8. \A i \in 1 .. Len(stack') : i \in 1 .. l \/ i = l + 1  BY <1>2
<1>9. \A i \in 1 .. Len(stack') - 1 : stack'[i].at \in StatementPoints
  BY <1>2, <1>4
<1>10. \A i \in 1 .. Len(stack') : FlowOK(stack'[i], Q)
  BY <1>2, <1>5, <1>8
<1>11. ASSUME NEW j \in 1 .. Len(stack'), NEW i \in 1 .. j, stack'[j].entered
       PROVE  stack'[i].entered
  <2>1. CASE j = l + 1
    <3>1. live  BY <1>2, <1>11, <2>1
    <3>2. i \in 1 .. l \/ i = j  BY <1>2, <2>1
    <3>3. QED  BY <1>2, <1>6, <1>11, <3>1, <3>2
  <2>2. CASE j \in 1 .. l
    <3>1. i \in 1 .. l  BY <1>2, <2>2
    <3>2. QED  BY <1>2, <1>7, <1>11, <2>2, <3>1
  <2>3. QED  BY <1>8, <2>1, <2>2
<1>12. QED  BY <1>2, <1>9, <1>10, <1>11, FlowSettles

(* Moving on inside one. *)
LEMMA FlowAdvances ==
  ASSUME FlowInv, IInv', ~Done, NEW f, Replace(f), f.entered = Top.entered,
         NEW S, NEW Q, Reaches(blocks', S, Q),
         NEW N, N \cap (1 .. Len(blocks)) \subseteq Pending(Top), Widens(Flow, Q, N, cur),
         FlowOK(f, Q), cur' \in Q <=> live',
         live' => Top.entered, f.at \in Fresh => (live' <=> Top.entered)
  PROVE  FlowInv'
<1> DEFINE l == Len(stack)
<1>1. /\ Len(stack') = l /\ l \in Nat
      /\ \A i \in 1 .. l - 1 : stack'[i] = stack[i]
      /\ stack'[l] = f /\ ~Done' /\ Top' = f
  BY ReplaceShape DEF FlowInv
<1>2. l \in 1 .. l /\ Top = stack[l]
  <2>1. stack \in Seq(Frame) /\ stack # <<>>  BY Active DEF FlowInv
  <2>2. QED  BY <2>1 DEF Top
<1>3. \A i \in 1 .. l - 1 : i \in 1 .. l /\ i # l  BY <1>1
<1>4. \A i \in 1 .. l - 1 : stack[i].at \in StatementPoints
  BY DEF FlowInv, Nested
<1>5. \A i \in 1 .. l - 1 : FlowOK(stack[i], Q)
  <2>1. ASSUME NEW i \in 1 .. l - 1  PROVE Pending(stack[i]) \cap N = {}
    <3>1. i \in 1 .. l /\ i # l  BY <1>3
    <3>2. Pending(stack[i]) \cap Pending(stack[l]) = {} /\ Pending(stack[i]) \subseteq 1 .. Len(blocks)
      BY <1>2, <3>1 DEF FlowInv, IInv, StackOK, FrameOK
    <3>3. QED  BY <1>2, <3>2
  <2>2. QED  BY <1>3, <2>1, OthersKeep
<1>6. \A j \in 1 .. l : \A i \in 1 .. j : stack[j].entered => stack[i].entered
  BY DEF FlowInv, Nested
<1> HIDE DEF l
<1>7. \A i \in 1 .. l : i \in 1 .. l - 1 \/ i = l  BY <1>1
<1>8. \A i \in 1 .. l : FlowOK(stack'[i], Q) /\ (stack'[i].entered <=> stack[i].entered)
  BY <1>1, <1>2, <1>5, <1>7
<1>9. \A j \in 1 .. l : \A i \in 1 .. j : i \in 1 .. l  BY <1>1
<1>10. QED  BY <1>1, <1>4, <1>6, <1>8, <1>9, FlowSettles

(* Going back to the statement list around it. *)
LEMMA FlowLeaves ==
  ASSUME FlowInv, IInv', ~Done, Top.at \notin BodyPoints, Pop,
         NEW S, NEW Q, Reaches(blocks', S, Q),
         NEW N, N \cap (1 .. Len(blocks)) \subseteq Pending(Top), Widens(Flow, Q, N, cur),
         cur' \in Q <=> live', live' => Top.entered
  PROVE  FlowInv'
<1> DEFINE l == Len(stack)
<1>1. /\ Len(stack') = l - 1 /\ l \in Nat /\ stack' \in Seq(Frame)
      /\ \A i \in 1 .. l - 1 : stack'[i] = stack[i]
  BY PopShape DEF FlowInv
<1>2. l \in 1 .. l /\ Top = stack[l] /\ l # 1
  <2>1. stack \in Seq(Frame) /\ stack # <<>>  BY Active DEF FlowInv
  <2>2. l \in 1 .. l /\ Top = stack[l]  BY <2>1 DEF Top
  <2>3. QED  BY <2>2 DEF FlowInv, IInv, StackOK
<1>3. \A i \in 1 .. l - 1 : i \in 1 .. l /\ i # l  BY <1>1
<1>4. \A i \in 1 .. l - 1 : stack[i].at \in StatementPoints
  BY DEF FlowInv, Nested
<1>5. \A i \in 1 .. l - 1 : FlowOK(stack[i], Q)
  <2>1. ASSUME NEW i \in 1 .. l - 1  PROVE Pending(stack[i]) \cap N = {}
    <3>1. i \in 1 .. l /\ i # l  BY <1>3
    <3>2. Pending(stack[i]) \cap Pending(stack[l]) = {} /\ Pending(stack[i]) \subseteq 1 .. Len(blocks)
      BY <1>2, <3>1 DEF FlowInv, IInv, StackOK, FrameOK
    <3>3. QED  BY <1>2, <3>2
  <2>2. QED  BY <1>3, <2>1, OthersKeep
<1>6. \A j \in 1 .. l : \A i \in 1 .. j : stack[j].entered => stack[i].entered
  BY DEF FlowInv, Nested
<1> HIDE DEF l
<1>7. l - 1 \in 1 .. l - 1 /\ l - 1 \in 1 .. l  BY <1>1, <1>2
<1>8. ~Done' /\ Top' = stack[l - 1]
  <2>1. Len(stack') > 0  BY <1>1, <1>7
  <2>2. QED  BY <1>1, <1>7, <2>1 DEF Done, Top
<1>9. Top'.at \notin Fresh  BY <1>4, <1>7, <1>8 DEF StatementPoints, Fresh
<1>10. live' => Top'.entered  BY <1>2, <1>6, <1>7, <1>8
<1>11. \A i \in 1 .. l - 1 : FlowOK(stack'[i], Q) /\ (stack'[i].entered <=> stack[i].entered)
  BY <1>1, <1>5
<1>12. /\ \A i \in 1 .. (l - 1) - 1 : i \in 1 .. l - 1
       /\ \A j \in 1 .. l - 1 : j \in 1 .. l /\ (\A i \in 1 .. j : i \in 1 .. l - 1)
  BY <1>1
<1>13. \A i \in 1 .. Len(stack') - 1 : stack'[i].at \in StatementPoints
  BY <1>1, <1>4, <1>12
<1>14. \A j \in 1 .. Len(stack') : \A i \in 1 .. j : stack'[j].entered => stack'[i].entered
  BY <1>1, <1>6, <1>11, <1>12
<1>15. \A i \in 1 .. Len(stack') : FlowOK(stack'[i], Q)  BY <1>1, <1>11
<1>16. QED  BY <1>8, <1>9, <1>10, <1>13, <1>14, <1>15, FlowSettles

-----------------------------------------------------------------------------
(* The steps, once more *)

(* Blocks are added only if control was at the one that leads there. *)
LEMMA InWith ==
  ASSUME NEW R, NEW b, NEW T
  PROVE  /\ \A x : x \in With(R, b, T) <=> x \in R \/ (b \in R /\ x \in T)
         /\ Widens(R, With(R, b, T), T, b)
BY DEF With, Widens

(* A step that reaches nothing more. *)
LEMMA NothingWidens == ASSUME NEW R, NEW b PROVE Widens(R, R, {}, b)
BY DEF Widens

(* A jump out of the current block, to a block that is held or reached. *)
LEMMA FlowJump ==
  ASSUME FlowInv, ~Done, NEW to \in 1 .. Len(blocks), live => to \in Held(stack) \cup Flow
  PROVE  Reaches(JumpTo(blocks, cur, to), ({cur} \cup Held(stack)) \ {cur}, With(Flow, cur, {to}))
<1> DEFINE S == {cur} \cup Held(stack)
<1>1. Reaches(blocks, S, Flow) /\ cur \in S /\ MaySend(S, Flow, cur, {to})
  BY FlowActive DEF MaySend
<1> HIDE DEF S
<1>2. Reaches(JumpTo(blocks, cur, to), S \ {cur}, With(Flow, cur, {to}))
  BY <1>1, JumpReaches
<1>3. QED  BY <1>2 DEF S

(* The test of a loop or a label. *)
LEMMA FlowTest ==
  ASSUME FlowInv, ~Done, NEW e \in 1 .. Len(blocks),
         NEW t \in 1 .. Len(blocks), NEW f \in 1 .. Len(blocks),
         live => {t, f} \subseteq Held(stack) \cup Flow
  PROVE  /\ Reaches(BranchTo(blocks, cur, e, t, f),
                    ({cur} \cup Held(stack)) \ {cur}, With(Flow, cur, {t, f}))
         /\ Reaches(BranchTo(Emit(blocks, cur, Op("Eval")), cur, e, t, f),
                    ({cur} \cup Held(stack)) \ {cur}, With(Flow, cur, {t, f}))
<1> DEFINE S  == {cur} \cup Held(stack)
           es == Emit(blocks, cur, Op("Eval"))
<1>1. Reaches(blocks, S, Flow) /\ cur \in S /\ MaySend(S, Flow, cur, {t, f})
  BY FlowActive DEF MaySend
<1> HIDE DEF S
<1>2. Reaches(es, S, Flow) /\ Len(es) = Len(blocks)  BY <1>1, EmitReaches DEF PlainOps
<1> HIDE DEF es
<1>3. Reaches(BranchTo(blocks, cur, e, t, f), S \ {cur}, With(Flow, cur, {t, f}))
  BY <1>1, BranchReaches
<1>4. Reaches(BranchTo(es, cur, e, t, f), S \ {cur}, With(Flow, cur, {t, f}))
  BY <1>1, <1>2, BranchReaches
<1>5. QED  BY <1>3, <1>4 DEF S, es

(* A statement that is entered without a block of its own. *)
LEMMA FlowBegins ==
  ASSUME FlowInv, IInv', AtStatement, live' = live, blocks' = blocks, cur' = cur,
         NEW point \in {"Operand", "ReturnValue", "ForFrom", "CaseExpr"},
         Push(FrameAt(point))
  PROVE  FlowInv'
<1> DEFINE f == FrameAt(point)
<1>1. ~Done  BY DEF AtStatement
<1>2. f.at = point /\ f.entered = live /\ f.leaves = FALSE  BY DEF FrameAt
<1> HIDE DEF f
<1>3. FlowOK(f, Flow)  BY <1>2 DEF FlowOK, HasHeader
<1>4. Reaches(blocks', {cur} \cup Held(stack), Flow) /\ (cur' \in Flow <=> live)
  BY <1>1, FlowActive
<1>5. Widens(Flow, Flow, {}, cur) /\ {} \cap (1 .. Len(blocks)) = {}  BY NothingWidens
<1>6. QED  BY <1>2, <1>3, <1>4, <1>5, FlowEnters DEF f

(* Assignments, calls and RETURN. *)
LEMMA FlowSimple == ASSUME FlowInv, IInv', VisitSimple PROVE FlowInv'
<1>1. CASE BeginSimple
  <2>1. Push(FrameAt("Operand")) /\ AtStatement /\ live' = live /\ blocks' = blocks /\ cur' = cur
    BY <1>1 DEF BeginSimple
  <2>2. QED  BY <2>1, FlowBegins
<1>2. CASE EndSimple
  <2> DEFINE S == {cur} \cup Held(stack)
  <2>1. /\ ~Done /\ Top.at = "Operand" /\ Pop /\ live' = live /\ cur' = cur
        /\ blocks' = Emit(blocks, cur, Op("Store"))
    BY <1>2 DEF EndSimple, At
  <2>2. Reaches(blocks, S, Flow) /\ cur \in S  BY <2>1, FlowActive
  <2> HIDE DEF S
  <2>3. Reaches(blocks', S, Flow)  BY <2>1, <2>2, EmitReaches DEF PlainOps
  <2>4. (cur' \in Flow <=> live') /\ (live' => Top.entered) /\ Top.at \notin BodyPoints
    BY <2>1, FlowActive DEF BodyPoints
  <2>5. Widens(Flow, Flow, {}, cur) /\ {} \cap (1 .. Len(blocks)) \subseteq Pending(Top)
    BY NothingWidens
  <2>6. QED  BY <2>1, <2>3, <2>4, <2>5, FlowLeaves
<1>3. CASE BeginReturn
  <2>1. /\ Push(FrameAt("ReturnValue")) /\ AtStatement
        /\ live' = live /\ blocks' = blocks /\ cur' = cur
    BY <1>3 DEF BeginReturn
  <2>2. QED  BY <2>1, FlowBegins
<1>4. CASE EndReturn
  <2> DEFINE S  == {cur} \cup Held(stack)
             fs == FinishBlock(blocks, cur, Ret)
  <2>1. /\ ~Done /\ Top.at = "ReturnValue" /\ Pop /\ live' = FALSE /\ cur' = Next1
        /\ blocks' = CreateBlock(fs)
    BY <1>4 DEF EndReturn, At
  <2>2. Reaches(blocks, S, Flow) /\ cur \in S  BY <2>1, FlowActive
  <2> HIDE DEF S
  <2>3. Reaches(fs, S \ {cur}, Flow)  BY <2>2, RetReaches
  <2> HIDE DEF fs
  <2>4. Reaches(blocks', (S \ {cur}) \cup {Len(fs) + 1}, Flow)  BY <2>1, <2>3, CreateReaches
  <2>5. cur' \notin Flow /\ Top.at \notin BodyPoints  BY <2>1, FlowCreates DEF BodyPoints
  <2>6. Widens(Flow, Flow, {}, cur) /\ {} \cap (1 .. Len(blocks)) \subseteq Pending(Top)
    BY NothingWidens
  <2>7. QED  BY <2>1, <2>4, <2>5, <2>6, FlowLeaves
<1>5. QED  BY <1>1, <1>2, <1>3, <1>4 DEF VisitSimple

(* Leaving a statement at the end of its last part: the block behind it is *)
(* reached when some part reaches its end.                                 *)
LEMMA FlowMerges ==
  ASSUME FlowInv, IInv', ~Done, Top.at \in {"Else", "CaseNext"}, Pop,
         live' = (Top.leaves \/ live), cur' = Top.exit,
         blocks' = JumpTo(blocks, cur, Top.exit)
  PROVE  FlowInv'
<1> DEFINE T == {Top.exit}
           Q == With(Flow, cur, T)
<1>1. /\ Top.exit \in 1 .. Len(blocks) /\ Top.exit \in Pending(Top)
      /\ Pending(Top) \subseteq Held(stack)
  BY Ends, Active DEF FlowInv, FrameOK, Pending, NoBlock, HoldsExit
<1>2. Reaches(blocks', ({cur} \cup Held(stack)) \ {cur}, Q)  BY <1>1, FlowJump
<1>3. Widens(Flow, Q, T, cur)  BY InWith
<1>4. \A x : x \in Q <=> x \in Flow \/ (live /\ x \in T)  BY InWith, FlowActive
<1> HIDE DEF Q
<1>5. Top.exit \in Q <=> Top.exit \in Flow \/ live  BY <1>4
<1>6. FlowOK(Top, Flow) /\ (live => Top.entered)  BY FlowActive
<1>7. (cur' \in Q <=> live') /\ (live' => Top.entered)  BY <1>5, <1>6 DEF FlowOK
<1>8. T \cap (1 .. Len(blocks)) \subseteq Pending(Top) /\ Top.at \notin BodyPoints
  BY <1>1 DEF BodyPoints
<1> HIDE DEF T
<1>9. QED  BY <1>2, <1>3, <1>7, <1>8, FlowLeaves

(* IF: a part is reached when the statement is; the merge block when a     *)
(* part reaches its end.                                                   *)
LEMMA FlowIf == ASSUME FlowInv, IInv', VisitIf PROVE FlowInv'
<1>1. CASE BeginIf
  <2> DEFINE f == [FrameAt("IfCond") EXCEPT !.exit = Next1]
  <2>1. AtStatement /\ ~Done /\ Push(f) /\ live' = live /\ cur' = cur /\ blocks' = Create1
    BY <1>1 DEF BeginIf, AtStatement
  <2>2. f.at = "IfCond" /\ f.entered = live /\ f.leaves = FALSE /\ f.exit = Next1
    BY DEF FrameAt
  <2> HIDE DEF f
  <2>3. /\ Reaches(blocks', {cur} \cup (Held(stack) \cup {Next1}), Flow) /\ Next1 \notin Flow
        /\ (cur' \in Flow <=> live)
    BY <2>1, FlowCreates, FlowActive
  <2>4. FlowOK(f, Flow)  BY <2>2, <2>3 DEF FlowOK, HasHeader
  <2>5. Widens(Flow, Flow, {}, cur) /\ {} \cap (1 .. Len(blocks)) = {}  BY NothingWidens
  <2>6. QED  BY <2>1, <2>2, <2>3, <2>4, <2>5, FlowEnters
<1>2. CASE IfBranch
  <2> DEFINE f == [Top EXCEPT !.at = "Then", !.after = Next2]
             S == {cur} \cup (Held(stack) \cup {Next1, Next2})
             T == {Next1, Next2}
             Q == With(Flow, cur, T)
  <2>1. /\ ~Done /\ Top.at = "IfCond" /\ Replace(f) /\ live' = live /\ cur' = Next1
        /\ blocks' = BranchTo(Create2, cur, cur, Next1, Next2)
    BY <1>2 DEF IfBranch, At
  <2>2. /\ f.at = "Then" /\ f.after = Next2 /\ f.exit = Top.exit
        /\ f.entered = Top.entered /\ f.leaves = Top.leaves
    BY <2>1, FlowActive DEF Frame
  <2> HIDE DEF f
  <2>3. /\ Reaches(Create2, S, Flow) /\ Len(Create2) = Next2 /\ cur \in S
        /\ MaySend(S, Flow, cur, {Next1, Next2})
    BY <2>1, FlowCreates DEF MaySend
  <2>4. /\ cur \in 1 .. Next2 /\ Next1 \in 1 .. Next2 /\ Next2 \in 1 .. Next2
        /\ Next1 \notin 1 .. Len(blocks) /\ Next2 \notin 1 .. Len(blocks)
        /\ Top.exit \in 1 .. Len(blocks)
    BY <2>1, Numbers, Ends DEF FlowInv, HoldsExit
  <2> HIDE DEF S
  <2>5. Reaches(blocks', S \ {cur}, Q)  BY <2>1, <2>3, <2>4, BranchReaches
  <2>6. Widens(Flow, Q, T, cur)  BY InWith
  <2>7. /\ \A x : x \in Q <=> x \in Flow \/ (live /\ x \in T)
        /\ Next1 \notin Flow /\ Next2 \notin Flow /\ (live <=> Top.entered)
    BY <2>1, InWith, FlowActive, FlowCreates DEF Fresh
  <2> HIDE DEF Q
  <2>8. /\ Next1 \in Q <=> live
        /\ Next2 \in Q <=> Top.entered
        /\ Top.exit \in Q <=> Top.exit \in Flow
    BY <2>4, <2>7
  <2>9. FlowOK(Top, Flow)  BY <2>1, FlowActive
  <2>10. FlowOK(f, Q)
    BY <2>1, <2>2, <2>8, <2>9 DEF FlowOK, HasHeader
  <2>11. T \cap (1 .. Len(blocks)) \subseteq Pending(Top)  BY <2>4
  <2> HIDE DEF T
  <2>12. f.at \notin Fresh /\ (live' => Top.entered) /\ (cur' \in Q <=> live')
    BY <2>1, <2>2, <2>7, <2>8 DEF Fresh
  <2>13. QED  BY <2>1, <2>2, <2>5, <2>6, <2>10, <2>11, <2>12, FlowAdvances
<1>3. ASSUME NEW next \in {"IfCond", "Else"}, EndThen(next)
      PROVE  FlowInv'
  <2> DEFINE f == [Top EXCEPT !.at = next, !.after = NoBlock, !.leaves = @ \/ live]
             T == {Top.exit}
             Q == With(Flow, cur, T)
  <2>1. /\ ~Done /\ Top.at = "Then" /\ Replace(f) /\ live' = Top.entered /\ cur' = Top.after
        /\ blocks' = JumpTo(blocks, cur, Top.exit)
    BY <1>3 DEF EndThen, At
  <2>2. /\ f.at = next /\ f.exit = Top.exit
        /\ f.entered = Top.entered /\ f.leaves = (Top.leaves \/ live)
    BY <2>1, FlowActive DEF Frame
  <2> HIDE DEF f
  <2>3. /\ Top.exit \in 1 .. Len(blocks) /\ Top.exit \in Pending(Top)
        /\ Top.after # Top.exit /\ Pending(Top) \subseteq Held(stack)
    BY <2>1, Ends, Active
    DEF FlowInv, FrameOK, Pending, NoBlock, HoldsExit, HoldsAfter, HasHeader
  <2>4. Reaches(blocks', ({cur} \cup Held(stack)) \ {cur}, Q)
    BY <2>1, <2>3, FlowJump
  <2>5. Widens(Flow, Q, T, cur)  BY InWith
  <2>6. \A x : x \in Q <=> x \in Flow \/ (live /\ x \in T)  BY <2>1, InWith, FlowActive
  <2> HIDE DEF Q
  <2>7. /\ Top.after \in Q <=> Top.after \in Flow
        /\ Top.exit \in Q <=> Top.exit \in Flow \/ live
    BY <2>3, <2>6
  <2>8. FlowOK(Top, Flow) /\ (live => Top.entered)  BY <2>1, FlowActive
  <2>9. FlowOK(f, Q)
    BY <2>1, <2>2, <2>7, <2>8 DEF FlowOK, HasHeader
  <2>10. T \cap (1 .. Len(blocks)) \subseteq Pending(Top)  BY <2>3
  <2> HIDE DEF T
  <2>11. cur' \in Q <=> live'  BY <2>1, <2>7, <2>8 DEF FlowOK
  <2>12. QED  BY <2>1, <2>2, <2>4, <2>5, <2>9, <2>10, <2>11, FlowAdvances
<1>4. CASE EndIf
  <2>1. /\ ~Done /\ Top.at = "Else" /\ Pop /\ live' = (Top.leaves \/ live) /\ cur' = Top.exit
        /\ blocks' = JumpTo(blocks, cur, Top.exit)
    BY <1>4 DEF EndIf, At
  <2>2. QED  BY <2>1, FlowMerges
<1>5. QED  BY <1>1, <1>2, <1>3, <1>4 DEF VisitIf

(* The blocks of the visitor of a loop. *)
LEMMA LoopBlocks ==
  ASSUME FlowInv, ~Done, Top.at \in HasHeader
  PROVE  /\ Top.header \in 1 .. Len(blocks) /\ Top.exit \in 1 .. Len(blocks)
         /\ Top.exit \in Pending(Top) /\ Pending(Top) \subseteq Held(stack)
         /\ Top.at \in LoopTests => /\ Top.body \in 1 .. Len(blocks)
                                    /\ Top.body \in Pending(Top) /\ Top.body # Top.exit
         /\ Top.header \in Flow <=> Top.entered
         /\ live => Top.header \in Flow
         /\ Top.at \notin BodyPoints
<1>1. FrameOK(Top, Len(blocks)) /\ Pending(Top) \subseteq Held(stack)
  BY Active DEF FlowInv
<1>2. /\ Top.header \in 1 .. Len(blocks) /\ Top.exit \in 1 .. Len(blocks)
      /\ Top.at \in LoopTests => Top.body \in 1 .. Len(blocks)
  BY Ends DEF FlowInv, HoldsExit, HoldsBody, LoopTests
<1>3. /\ Top.exit # NoBlock
      /\ Top.at \in LoopTests => Top.body # NoBlock /\ Top.body # Top.exit
  BY <1>1 DEF FrameOK, HoldsExit, HoldsBody, LoopTests
<1>4. /\ Top.exit \in Pending(Top)
      /\ Top.at \in LoopTests => Top.body \in Pending(Top)
  BY <1>3 DEF Pending
<1>5. (Top.header \in Flow <=> Top.entered) /\ (live => Top.entered)
  BY FlowActive DEF FlowOK
<1>6. Top.at \notin BodyPoints  BY DEF HasHeader, BodyPoints
<1>7. QED  BY <1>1, <1>2, <1>3, <1>4, <1>5, <1>6

(* The test of a loop reaches its body and the block behind it. *)
LEMMA FlowTestsLoop ==
  ASSUME FlowInv, IInv', ~Done, Top.at \in LoopTests, cur' = Top.body, live' = live,
         NEW f, Replace(f), f.at \in {"WhileBody", "ForBody"}, f.header = Top.header,
         f.exit = Top.exit, f.entered = Top.entered, f.leaves = Top.leaves,
         NEW S, Reaches(blocks', S, With(Flow, cur, {Top.body, Top.exit}))
  PROVE  FlowInv'
<1> DEFINE T == {Top.body, Top.exit}
           Q == With(Flow, cur, T)
<1>1. Reaches(blocks', S, Q)  OBVIOUS
<1>2. Widens(Flow, Q, T, cur)  BY InWith
<1>3. \A x : x \in Q <=> x \in Flow \/ (live /\ x \in T)  BY InWith, FlowActive
<1> HIDE DEF Q
<1>4. Top.at \in HasHeader /\ Top.at \in Fresh  BY DEF LoopTests, HasHeader, Fresh
<1>5. /\ Top.exit \in Pending(Top) /\ Top.body \in Pending(Top)
      /\ (Top.header \in Flow <=> Top.entered) /\ (live <=> Top.entered)
  BY <1>4, LoopBlocks, FlowActive
<1>6. Top.body \notin Flow /\ Top.exit \notin Flow /\ (Top.leaves => Top.entered)
  BY FlowActive DEF FlowOK, LoopTests
<1>7. /\ Top.body \in Q <=> live
      /\ Top.exit \in Q <=> Top.entered
      /\ Top.header \in Q <=> Top.entered
  BY <1>3, <1>5, <1>6
<1>8. FlowOK(f, Q)  BY <1>6, <1>7 DEF FlowOK, HasHeader
<1>9. f.at \notin Fresh /\ (live' => Top.entered) /\ (cur' \in Q <=> live')
  BY <1>5, <1>7 DEF Fresh
<1>10. T \cap (1 .. Len(blocks)) \subseteq Pending(Top)  BY <1>5
<1> HIDE DEF T
<1>11. QED  BY <1>1, <1>2, <1>8, <1>9, <1>10, FlowAdvances

(* A jump back to the header reaches nothing new, and the block behind the *)
(* loop is reached if the loop is.                                         *)
LEMMA FlowLoopsBack ==
  ASSUME FlowInv, IInv', ~Done, Top.at \in {"WhileBody", "ForBy"}, Pop,
         cur' = Top.exit, live' = Top.entered,
         NEW S, Reaches(blocks', S, With(Flow, cur, {Top.header}))
  PROVE  FlowInv'
<1>1. Top.at \in HasHeader  BY DEF HasHeader
<1>2. (live => Top.header \in Flow) /\ Top.at \notin BodyPoints  BY <1>1, LoopBlocks
<1>3. With(Flow, cur, {Top.header}) = Flow  BY <1>2, FlowActive DEF With
<1>4. Top.exit \in Flow <=> Top.entered  BY FlowActive DEF FlowOK
<1>5. Widens(Flow, Flow, {}, cur) /\ {} \cap (1 .. Len(blocks)) \subseteq Pending(Top)
  BY NothingWidens
<1>6. QED  BY <1>2, <1>3, <1>4, <1>5, FlowLeaves

(* WHILE: the header is reached when the statement is, the body and the    *)
(* block behind it when the test is.                                       *)
LEMMA FlowWhile ==
  ASSUME FlowInv, IInv', BeginWhile \/ WhileBranch \/ EndWhile PROVE FlowInv'
<1>1. CASE BeginWhile
  <2> DEFINE f == [FrameAt("WhileCond") EXCEPT
                     !.header = Next1, !.body = Next2, !.exit = Next3]
             S == {cur} \cup (Held(stack) \cup {Next1, Next2, Next3})
             T == {Next1}
             Q == With(Flow, cur, T)
  <2>1. /\ AtStatement /\ ~Done /\ Push(f) /\ live' = live /\ cur' = Next1
        /\ blocks' = JumpTo(Create3, cur, Next1)
    BY <1>1 DEF BeginWhile, AtStatement
  <2>2. /\ f.at = "WhileCond" /\ f.entered = live /\ f.leaves = FALSE
        /\ f.header = Next1 /\ f.body = Next2 /\ f.exit = Next3
    BY DEF FrameAt
  <2> HIDE DEF f
  <2>3. /\ Reaches(Create3, S, Flow) /\ Len(Create3) = Next3 /\ cur \in S
        /\ MaySend(S, Flow, cur, {Next1})
        /\ Next1 \notin Flow /\ Next2 \notin Flow /\ Next3 \notin Flow
    BY <2>1, FlowCreates DEF MaySend
  <2>4. /\ Next1 \in 1 .. Next3 /\ Next1 # Next2 /\ Next1 # Next3
        /\ Next1 \notin 1 .. Len(blocks)
    BY <2>1, Numbers DEF FlowInv
  <2> HIDE DEF S
  <2>5. Reaches(blocks', S \ {cur}, Q)  BY <2>1, <2>3, <2>4, JumpReaches
  <2>6. Widens(Flow, Q, T, cur)  BY InWith
  <2>7. \A x : x \in Q <=> x \in Flow \/ (live /\ x \in T)  BY <2>1, InWith, FlowActive
  <2> HIDE DEF Q
  <2>8. (Next1 \in Q <=> live) /\ Next2 \notin Q /\ Next3 \notin Q  BY <2>3, <2>4, <2>7
  <2>9. FlowOK(f, Q)  BY <2>2, <2>8 DEF FlowOK, HasHeader
  <2>10. T \cap (1 .. Len(blocks)) = {}  BY <2>4
  <2> HIDE DEF T
  <2>11. QED  BY <2>1, <2>2, <2>5, <2>6, <2>8, <2>9, <2>10, FlowEnters
<1>2. CASE WhileBranch
  <2> DEFINE f == [Top EXCEPT !.at = "WhileBody", !.body = NoBlock]
  <2>1. /\ ~Done /\ Top.at = "WhileCond" /\ Replace(f) /\ live' = live /\ cur' = Top.body
        /\ blocks' = BranchTo(blocks, cur, Top.header, Top.body, Top.exit)
    BY <1>2 DEF WhileBranch, At
  <2>2. /\ f.at = "WhileBody" /\ f.header = Top.header /\ f.exit = Top.exit
        /\ f.entered = Top.entered /\ f.leaves = Top.leaves
    BY <2>1, FlowActive DEF Frame
  <2> HIDE DEF f
  <2>3. Top.at \in HasHeader /\ Top.at \in LoopTests  BY <2>1 DEF HasHeader, LoopTests
  <2>4. Reaches(blocks', ({cur} \cup Held(stack)) \ {cur}, With(Flow, cur, {Top.body, Top.exit}))
    BY <2>1, <2>3, LoopBlocks, FlowTest
  <2>5. QED  BY <2>1, <2>2, <2>3, <2>4, FlowTestsLoop
<1>3. CASE EndWhile
  <2>1. /\ ~Done /\ Top.at = "WhileBody" /\ Pop /\ live' = Top.entered /\ cur' = Top.exit
        /\ blocks' = JumpTo(blocks, cur, Top.header)
    BY <1>3 DEF EndWhile, At
  <2>2. Top.at \in HasHeader  BY <2>1 DEF HasHeader
  <2>3. Reaches(blocks', ({cur} \cup Held(stack)) \ {cur}, With(Flow, cur, {Top.header}))
    BY <2>1, <2>2, LoopBlocks, FlowJump
  <2>4. QED  BY <2>1, <2>3, FlowLoopsBack
<1>4. QED  BY <1>1, <1>2, <1>3

(* REPEAT: the block behind it is reached when the condition is. *)
LEMMA FlowRepeat ==
  ASSUME FlowInv, IInv', BeginRepeat \/ RepeatUntil \/ EndRepeat PROVE FlowInv'
<1>1. CASE BeginRepeat
  <2> DEFINE f == [FrameAt("RepeatBody") EXCEPT !.header = Next1, !.exit = Next2]
             S == {cur} \cup (Held(stack) \cup {Next1, Next2})
             T == {Next1}
             Q == With(Flow, cur, T)
  <2>1. /\ AtStatement /\ ~Done /\ Push(f) /\ live' = live /\ cur' = Next1
        /\ blocks' = JumpTo(Create2, cur, Next1)
    BY <1>1 DEF BeginRepeat, AtStatement
  <2>2. /\ f.at = "RepeatBody" /\ f.entered = live /\ f.leaves = FALSE
        /\ f.header = Next1 /\ f.exit = Next2
    BY DEF FrameAt
  <2> HIDE DEF f
  <2>3. /\ Reaches(Create2, S, Flow) /\ Len(Create2) = Next2 /\ cur \in S
        /\ MaySend(S, Flow, cur, {Next1})
        /\ Next1 \notin Flow /\ Next2 \notin Flow
    BY <2>1, FlowCreates DEF MaySend
  <2>4. Next1 \in 1 .. Next2 /\ Next1 # Next2 /\ Next1 \notin 1 .. Len(blocks)
    BY <2>1, Numbers DEF FlowInv
  <2> HIDE DEF S
  <2>5. Reaches(blocks', S \ {cur}, Q)  BY <2>1, <2>3, <2>4, JumpReaches
  <2>6. Widens(Flow, Q, T, cur)  BY InWith
  <2>7. \A x : x \in Q <=> x \in Flow \/ (live /\ x \in T)  BY <2>1, InWith, FlowActive
  <2> HIDE DEF Q
  <2>8. (Next1 \in Q <=> live) /\ Next2 \notin Q  BY <2>3, <2>4, <2>7
  <2>9. FlowOK(f, Q)  BY <2>2, <2>8 DEF FlowOK, HasHeader
  <2>10. T \cap (1 .. Len(blocks)) = {}  BY <2>4
  <2> HIDE DEF T
  <2>11. QED  BY <2>1, <2>2, <2>5, <2>6, <2>8, <2>9, <2>10, FlowEnters
<1>2. CASE RepeatUntil
  <2> DEFINE f == [Top EXCEPT !.at = "RepeatCond"]
  <2>1. /\ ~Done /\ Top.at = "RepeatBody" /\ Replace(f) /\ live' = live /\ cur' = cur
        /\ blocks' = blocks
    BY <1>2 DEF RepeatUntil, At
  <2>2. /\ f.at = "RepeatCond" /\ f.header = Top.header /\ f.exit = Top.exit
        /\ f.entered = Top.entered /\ f.leaves = Top.leaves
    BY <2>1, FlowActive DEF Frame
  <2> HIDE DEF f
  <2>3. FlowOK(f, Flow)  BY <2>1, <2>2, FlowActive DEF FlowOK, HasHeader
  <2>4. /\ Reaches(blocks', {cur} \cup Held(stack), Flow) /\ (cur' \in Flow <=> live')
        /\ (live' => Top.entered) /\ f.at \notin Fresh
    BY <2>1, <2>2, FlowActive DEF Fresh
  <2>5. Widens(Flow, Flow, {}, cur) /\ {} \cap (1 .. Len(blocks)) \subseteq Pending(Top)
    BY NothingWidens
  <2>6. QED  BY <2>1, <2>2, <2>3, <2>4, <2>5, FlowAdvances
<1>3. CASE EndRepeat
  <2> DEFINE Q == With(Flow, cur, {Top.exit, Top.header})
             T == {Top.exit}
  <2>1. /\ ~Done /\ Top.at = "RepeatCond" /\ Pop /\ live' = live /\ cur' = Top.exit
        /\ blocks' = BranchTo(blocks, cur, cur, Top.exit, Top.header)
    BY <1>3 DEF EndRepeat, At
  <2>2. Top.at \in HasHeader /\ cur \in 1 .. Len(blocks)
    BY <2>1, Numbers DEF FlowInv, HasHeader
  <2>3. /\ Top.header \in 1 .. Len(blocks) /\ Top.exit \in 1 .. Len(blocks)
        /\ Top.exit \in Pending(Top) /\ Pending(Top) \subseteq Held(stack)
        /\ live => Top.header \in Flow
        /\ Top.at \notin BodyPoints
    BY <2>1, <2>2, LoopBlocks
  <2>4. live => {Top.exit, Top.header} \subseteq Held(stack) \cup Flow  BY <2>3
  <2>5. Reaches(blocks', ({cur} \cup Held(stack)) \ {cur}, Q)
    BY <2>1, <2>2, <2>3, <2>4, FlowTest
  <2>6. \A x : x \in Q <=> x \in Flow \/ (live /\ x \in {Top.exit, Top.header})
    BY <2>1, InWith, FlowActive
  <2> HIDE DEF Q
  <2>7. (cur \in Flow <=> live) /\ (live => Top.entered) /\ Top.exit \notin Flow
    BY <2>1, FlowActive DEF FlowOK
  <2>8. Widens(Flow, Q, T, cur)  BY <2>3, <2>6, <2>7 DEF Widens
  <2>9. cur' \in Q <=> live'  BY <2>1, <2>6, <2>7
  <2>10. T \cap (1 .. Len(blocks)) \subseteq Pending(Top)  BY <2>3
  <2> HIDE DEF T
  <2>11. QED  BY <2>1, <2>3, <2>5, <2>7, <2>8, <2>9, <2>10, FlowLeaves
<1>4. QED  BY <1>1, <1>2, <1>3

(* FOR: as WHILE, with the start value stored before the header.           *)
LEMMA FlowFor ==
  ASSUME FlowInv, IInv', BeginFor \/ ForInit \/ ForBranch \/ ForStep \/ EndFor
  PROVE  FlowInv'
<1>1. CASE BeginFor
  <2>1. Push(FrameAt("ForFrom")) /\ AtStatement /\ live' = live /\ blocks' = blocks /\ cur' = cur
    BY <1>1 DEF BeginFor
  <2>2. QED  BY <2>1, FlowBegins
<1>2. CASE ForInit
  <2> DEFINE f == [Top EXCEPT
                     !.at = "ForTo", !.header = Next1, !.body = Next2, !.exit = Next3]
             S == {cur} \cup (Held(stack) \cup {Next1, Next2, Next3})
             T == {Next1}
             Q == With(Flow, cur, T)
             es == Emit(Create3, cur, Op("Store"))
             js == JumpTo(es, cur, Next1)
  <2>1. /\ ~Done /\ Top.at = "ForFrom" /\ Replace(f) /\ live' = live /\ cur' = Next1
        /\ blocks' = Emit(js, Next1, Op("Load"))
    BY <1>2 DEF ForInit, At
  <2>2. /\ f.at = "ForTo" /\ f.entered = Top.entered /\ f.leaves = Top.leaves
        /\ f.header = Next1 /\ f.body = Next2 /\ f.exit = Next3
    BY <2>1, FlowActive DEF Frame
  <2> HIDE DEF f
  <2>3. /\ Reaches(Create3, S, Flow) /\ Len(Create3) = Next3 /\ cur \in S /\ Next1 \in S
        /\ MaySend(S, Flow, cur, {Next1})
        /\ Next1 \notin Flow /\ Next2 \notin Flow /\ Next3 \notin Flow
    BY <2>1, FlowCreates DEF MaySend
  <2>4. /\ Next1 \in 1 .. Next3 /\ Next1 # Next2 /\ Next1 # Next3 /\ Next1 # cur
        /\ Next1 \notin 1 .. Len(blocks)
    BY <2>1, Numbers DEF FlowInv
  <2> HIDE DEF S
  <2>5. Reaches(es, S, Flow) /\ Len(es) = Next3  BY <2>3, EmitReaches DEF PlainOps
  <2> HIDE DEF es
  <2>6. Reaches(js, S \ {cur}, Q) /\ Next1 \in S \ {cur}
    BY <2>3, <2>4, <2>5, JumpReaches
  <2> HIDE DEF js
  <2>7. Reaches(blocks', S \ {cur}, Q)  BY <2>1, <2>6, EmitReaches DEF PlainOps
  <2>8. Widens(Flow, Q, T, cur)  BY InWith
  <2>9. /\ \A x : x \in Q <=> x \in Flow \/ (live /\ x \in T)
        /\ live <=> Top.entered
    BY <2>1, InWith, FlowActive DEF Fresh
  <2> HIDE DEF Q
  <2>10. (Next1 \in Q <=> live) /\ Next2 \notin Q /\ Next3 \notin Q  BY <2>3, <2>4, <2>9
  <2>11. FlowOK(Top, Flow)  BY <2>1, FlowActive
  <2>12. FlowOK(f, Q)  BY <2>2, <2>9, <2>10, <2>11 DEF FlowOK, HasHeader
  <2>13. T \cap (1 .. Len(blocks)) \subseteq Pending(Top)  BY <2>4
  <2> HIDE DEF T
  <2>14. QED
    BY <2>1, <2>2, <2>7, <2>8, <2>9, <2>10, <2>12, <2>13, FlowAdvances
<1>3. CASE ForBranch
  <2> DEFINE f == [Top EXCEPT !.at = "ForBody", !.body = NoBlock]
  <2>1. /\ ~Done /\ Top.at = "ForTo" /\ Replace(f) /\ live' = live /\ cur' = Top.body
        /\ blocks' = BranchTo(Emit(blocks, cur, Op("Eval")),
                              cur, Top.header, Top.exit, Top.body)
    BY <1>3 DEF ForBranch, At
  <2>2. /\ f.at = "ForBody" /\ f.header = Top.header /\ f.exit = Top.exit
        /\ f.entered = Top.entered /\ f.leaves = Top.leaves
    BY <2>1, FlowActive DEF Frame
  <2> HIDE DEF f
  <2>3. Top.at \in HasHeader /\ Top.at \in LoopTests  BY <2>1 DEF HasHeader, LoopTests
  <2>4. Reaches(blocks', ({cur} \cup Held(stack)) \ {cur}, With(Flow, cur, {Top.exit, Top.body}))
    BY <2>1, <2>3, LoopBlocks, FlowTest
  <2>5. {Top.exit, Top.body} = {Top.body, Top.exit}  OBVIOUS
  <2>6. Reaches(blocks', ({cur} \cup Held(stack)) \ {cur}, With(Flow, cur, {Top.body, Top.exit}))
    BY <2>4, <2>5
  <2>7. QED  BY <2>1, <2>2, <2>3, <2>6, FlowTestsLoop
<1>4. CASE ForStep
  <2> DEFINE f == [Top EXCEPT !.at = "ForBy"]
             S == {cur} \cup Held(stack)
  <2>1. /\ ~Done /\ Top.at = "ForBody" /\ Replace(f) /\ live' = live /\ cur' = cur
        /\ blocks' = Emit(blocks, cur, Op("Load"))
    BY <1>4 DEF ForStep, At
  <2>2. /\ f.at = "ForBy" /\ f.header = Top.header /\ f.exit = Top.exit
        /\ f.entered = Top.entered /\ f.leaves = Top.leaves
    BY <2>1, FlowActive DEF Frame
  <2> HIDE DEF f
  <2>3. FlowOK(f, Flow)  BY <2>1, <2>2, FlowActive DEF FlowOK, HasHeader
  <2>4. Reaches(blocks, S, Flow) /\ cur \in S  BY <2>1, FlowActive
  <2> HIDE DEF S
  <2>5. Reaches(blocks', S, Flow)  BY <2>1, <2>4, EmitReaches DEF PlainOps
  <2>6. (cur' \in Flow <=> live') /\ (live' => Top.entered) /\ f.at \notin Fresh
    BY <2>1, <2>2, FlowActive DEF Fresh
  <2>7. Widens(Flow, Flow, {}, cur) /\ {} \cap (1 .. Len(blocks)) \subseteq Pending(Top)
    BY NothingWidens
  <2>8. QED  BY <2>1, <2>2, <2>3, <2>5, <2>6, <2>7, FlowAdvances
<1>5. CASE EndFor
  <2> DEFINE S  == {cur} \cup Held(stack)
             es == Emit(blocks, cur, Op("Eval"))
             ss == Emit(es, cur, Op("Store"))
  <2>1. /\ ~Done /\ Top.at = "ForBy" /\ Pop /\ live' = Top.entered /\ cur' = Top.exit
        /\ blocks' = JumpTo(ss, cur, Top.header)
    BY <1>5 DEF EndFor, At
  <2>2. Top.at \in HasHeader  BY <2>1 DEF HasHeader
  <2>3. Top.header \in 1 .. Len(blocks) /\ (live => Top.header \in Flow)
    BY <2>1, <2>2, LoopBlocks
  <2>4. Reaches(blocks, S, Flow) /\ cur \in S /\ MaySend(S, Flow, cur, {Top.header})
    BY <2>1, <2>3, FlowActive DEF MaySend
  <2> HIDE DEF S
  <2>5. Reaches(es, S, Flow) /\ Len(es) = Len(blocks)
    BY <2>4, EmitReaches DEF PlainOps
  <2> HIDE DEF es
  <2>6. Reaches(ss, S, Flow) /\ Len(ss) = Len(blocks)
    BY <2>4, <2>5, EmitReaches DEF PlainOps
  <2> HIDE DEF ss
  <2>7. Reaches(blocks', S \ {cur}, With(Flow, cur, {Top.header}))
    BY <2>1, <2>3, <2>4, <2>6, JumpReaches
  <2>8. QED  BY <2>1, <2>7, FlowLoopsBack
<1>6. QED  BY <1>1, <1>2, <1>3, <1>4, <1>5

(* The blocks of the visitor of a CASE. *)
LEMMA CaseBlocks ==
  ASSUME FlowInv, ~Done, Top.at \in {"CaseLabel", "CaseBody"}
  PROVE  /\ Top.after \in 1 .. Len(blocks) /\ Top.exit \in 1 .. Len(blocks)
         /\ Top.after \in Pending(Top) /\ Top.exit \in Pending(Top) /\ Top.after # Top.exit
         /\ Pending(Top) \subseteq Held(stack)
         /\ Top.at = "CaseLabel" => /\ Top.body \in 1 .. Len(blocks)
                                    /\ Top.body \in Pending(Top)
                                    /\ Top.body # Top.exit /\ Top.body # Top.after
<1>1. FrameOK(Top, Len(blocks)) /\ Pending(Top) \subseteq Held(stack)
  BY Active DEF FlowInv
<1>2. /\ Top.after \in 1 .. Len(blocks) /\ Top.exit \in 1 .. Len(blocks)
      /\ Top.at = "CaseLabel" => Top.body \in 1 .. Len(blocks)
  BY Ends DEF FlowInv, HoldsExit, HoldsAfter, HoldsBody
<1>3. /\ Top.exit # NoBlock /\ Top.after # NoBlock /\ Top.after # Top.exit
      /\ Top.at = "CaseLabel" => Top.body # NoBlock /\ Top.body # Top.exit
                                 /\ Top.body # Top.after
  BY <1>1 DEF FrameOK, HoldsExit, HoldsBody, HoldsAfter
<1>4. /\ Top.exit \in Pending(Top) /\ Top.after \in Pending(Top)
      /\ Top.at = "CaseLabel" => Top.body \in Pending(Top)
  BY <1>3 DEF Pending
<1>5. QED  BY <1>1, <1>2, <1>3, <1>4

(* CASE: an alternative is reached when one of its labels is tested, the   *)
(* next one when the last label is.                                        *)
LEMMA FlowCase == ASSUME FlowInv, IInv', VisitCase PROVE FlowInv'
<1>1. CASE BeginCase
  <2>1. Push(FrameAt("CaseExpr")) /\ AtStatement /\ live' = live /\ blocks' = blocks /\ cur' = cur
    BY <1>1 DEF BeginCase
  <2>2. QED  BY <2>1, FlowBegins
<1>2. CASE CaseDispatch
  <2> DEFINE f == [Top EXCEPT !.at = "CaseNext", !.exit = Next1]
  <2>1. /\ ~Done /\ Top.at = "CaseExpr" /\ Replace(f) /\ live' = live /\ cur' = cur
        /\ blocks' = Create1
    BY <1>2 DEF CaseDispatch, At
  <2>2. /\ f.at = "CaseNext" /\ f.exit = Next1
        /\ f.entered = Top.entered /\ f.leaves = Top.leaves
    BY <2>1, FlowActive DEF Frame
  <2> HIDE DEF f
  <2>3. /\ Reaches(blocks', {cur} \cup (Held(stack) \cup {Next1}), Flow) /\ Next1 \notin Flow
        /\ (cur' \in Flow <=> live') /\ (live' <=> Top.entered)
    BY <2>1, FlowCreates, FlowActive DEF Fresh
  <2>4. FlowOK(Top, Flow)  BY <2>1, FlowActive
  <2>5. FlowOK(f, Flow)  BY <2>1, <2>2, <2>3, <2>4 DEF FlowOK, HasHeader
  <2>6. Widens(Flow, Flow, {}, cur) /\ {} \cap (1 .. Len(blocks)) \subseteq Pending(Top)
    BY NothingWidens
  <2>7. QED  BY <2>1, <2>2, <2>3, <2>5, <2>6, FlowAdvances
<1>3. CASE BeginAlternative
  <2> DEFINE f == [Top EXCEPT !.at = "CaseLabel", !.body = Next1, !.after = Next2]
  <2>1. /\ ~Done /\ Top.at = "CaseNext" /\ Replace(f) /\ live' = live /\ cur' = cur
        /\ blocks' = Create2
    BY <1>3 DEF BeginAlternative, At
  <2>2. /\ f.at = "CaseLabel" /\ f.body = Next1 /\ f.after = Next2 /\ f.exit = Top.exit
        /\ f.entered = Top.entered /\ f.leaves = Top.leaves
    BY <2>1, FlowActive DEF Frame
  <2> HIDE DEF f
  <2>3. /\ Reaches(blocks', {cur} \cup (Held(stack) \cup {Next1, Next2}), Flow)
        /\ Next1 \notin Flow /\ Next2 \notin Flow
        /\ (cur' \in Flow <=> live') /\ (live' <=> Top.entered)
    BY <2>1, FlowCreates, FlowActive DEF Fresh
  <2>4. FlowOK(Top, Flow)  BY <2>1, FlowActive
  <2>5. FlowOK(f, Flow)  BY <2>1, <2>2, <2>3, <2>4 DEF FlowOK, HasHeader
  <2>6. Widens(Flow, Flow, {}, cur) /\ {} \cap (1 .. Len(blocks)) \subseteq Pending(Top)
    BY NothingWidens
  <2>7. QED  BY <2>1, <2>2, <2>3, <2>5, <2>6, FlowAdvances
<1>4. CASE TestLabel
  <2> DEFINE S == {cur} \cup (Held(stack) \cup {Next1})
             T == {Top.body, Next1}
             Q == With(Flow, cur, T)
             es == Emit(Create1, cur, Op("Eval"))
  <2>1. /\ ~Done /\ Top.at = "CaseLabel" /\ stack' = stack /\ live' = live /\ cur' = Next1
        /\ blocks' = BranchTo(es, cur, cur, Top.body, Next1)
    BY <1>4 DEF TestLabel, At
  <2>2. /\ Top.body \in 1 .. Len(blocks) /\ Top.body \in Pending(Top)
        /\ Top.body # Top.exit /\ Top.body # Top.after
        /\ Top.after \in 1 .. Len(blocks) /\ Top.exit \in 1 .. Len(blocks)
        /\ Pending(Top) \subseteq Held(stack)
    BY <2>1, CaseBlocks
  <2>3. /\ Reaches(Create1, S, Flow) /\ Len(Create1) = Next1 /\ cur \in S
        /\ MaySend(S, Flow, cur, {Top.body, Next1}) /\ Next1 \notin Flow
    BY <2>1, <2>2, FlowCreates DEF MaySend
  <2>4. /\ cur \in 1 .. Next1 /\ Next1 \in 1 .. Next1 /\ Top.body \in 1 .. Next1
        /\ Next1 \notin 1 .. Len(blocks)
    <3>1. Next1 = Len(blocks) + 1 /\ Len(blocks) \in Nat /\ cur \in 1 .. Len(blocks)
      BY <2>1, Numbers DEF FlowInv
    <3>2. Top.body \in 1 .. Len(blocks)  BY <2>2
    <3>3. QED  BY <3>1, <3>2
  <2> HIDE DEF S
  <2>5. Reaches(es, S, Flow) /\ Len(es) = Next1  BY <2>3, EmitReaches DEF PlainOps
  <2> HIDE DEF es
  <2>6. Reaches(blocks', S \ {cur}, Q)  BY <2>1, <2>3, <2>4, <2>5, BranchReaches
  <2>7. Widens(Flow, Q, T, cur)  BY InWith
  <2>8. /\ \A x : x \in Q <=> x \in Flow \/ (live /\ x \in T)
        /\ live <=> Top.entered
    BY <2>1, InWith, FlowActive DEF Fresh
  <2> HIDE DEF Q
  <2>9. /\ Next1 \in Q <=> live
        /\ Top.exit \in Q <=> Top.exit \in Flow
        /\ Top.after \in Q <=> Top.after \in Flow
        /\ Top.body \in Q <=> Top.body \in Flow \/ live
    BY <2>2, <2>3, <2>4, <2>8
  <2>10. FlowOK(Top, Flow)  BY <2>1, FlowActive
  <2>11. FlowOK(Top, Q)  BY <2>1, <2>8, <2>9, <2>10 DEF FlowOK, HasHeader
  <2>12. T \cap (1 .. Len(blocks)) \subseteq Pending(Top)  BY <2>2, <2>4
  <2>13. Replace(Top)  BY <2>1, Active DEF FlowInv, Replace, Top
  <2> HIDE DEF T
  <2>14. QED
    BY <2>1, <2>6, <2>7, <2>8, <2>9, <2>11, <2>12, <2>13, FlowAdvances
<1>5. CASE TestLastLabel
  <2> DEFINE f == [Top EXCEPT !.at = "CaseBody", !.body = NoBlock]
             T == {Top.body, Top.after}
             Q == With(Flow, cur, T)
  <2>1. /\ ~Done /\ Top.at = "CaseLabel" /\ Replace(f) /\ live' = live /\ cur' = Top.body
        /\ blocks' = BranchTo(Emit(blocks, cur, Op("Eval")), cur, cur, Top.body, Top.after)
    BY <1>5 DEF TestLastLabel, At
  <2>2. /\ f.at = "CaseBody" /\ f.after = Top.after /\ f.exit = Top.exit
        /\ f.entered = Top.entered /\ f.leaves = Top.leaves
    BY <2>1, FlowActive DEF Frame
  <2> HIDE DEF f
  <2>3. /\ Top.body \in 1 .. Len(blocks) /\ Top.body \in Pending(Top)
        /\ Top.body # Top.exit /\ Top.body # Top.after /\ Top.after # Top.exit
        /\ Top.after \in 1 .. Len(blocks) /\ Top.after \in Pending(Top)
        /\ Pending(Top) \subseteq Held(stack) /\ cur \in 1 .. Len(blocks)
    BY <2>1, CaseBlocks, Numbers DEF FlowInv
  <2>4. live => {Top.body, Top.after} \subseteq Held(stack) \cup Flow  BY <2>3
  <2>5. Reaches(blocks', ({cur} \cup Held(stack)) \ {cur}, Q)
    BY <2>1, <2>3, <2>4, FlowTest
  <2>6. Widens(Flow, Q, T, cur)  BY InWith
  <2>7. /\ \A x : x \in Q <=> x \in Flow \/ (live /\ x \in T)
        /\ live <=> Top.entered
    BY <2>1, InWith, FlowActive DEF Fresh
  <2> HIDE DEF Q
  <2>8. FlowOK(Top, Flow)  BY <2>1, FlowActive
  <2>9. (Top.body \in Flow => live) /\ Top.after \notin Flow  BY <2>1, <2>7, <2>8 DEF FlowOK
  <2>10. /\ Top.body \in Q <=> live
         /\ Top.after \in Q <=> Top.entered
         /\ Top.exit \in Q <=> Top.exit \in Flow
    BY <2>3, <2>7, <2>9
  <2>11. FlowOK(f, Q)  BY <2>1, <2>2, <2>8, <2>10 DEF FlowOK, HasHeader
  <2>12. T \cap (1 .. Len(blocks)) \subseteq Pending(Top)  BY <2>3
  <2> HIDE DEF T
  <2>13. QED
    BY <2>1, <2>2, <2>5, <2>6, <2>7, <2>10, <2>11, <2>12, FlowAdvances
<1>6. CASE EndAlternative
  <2> DEFINE f == [Top EXCEPT !.at = "CaseNext", !.after = NoBlock, !.leaves = @ \/ live]
             T == {Top.exit}
             Q == With(Flow, cur, T)
  <2>1. /\ ~Done /\ Top.at = "CaseBody" /\ Replace(f) /\ live' = Top.entered /\ cur' = Top.after
        /\ blocks' = JumpTo(blocks, cur, Top.exit)
    BY <1>6 DEF EndAlternative, At
  <2>2. /\ f.at = "CaseNext" /\ f.exit = Top.exit
        /\ f.entered = Top.entered /\ f.leaves = (Top.leaves \/ live)
    BY <2>1, FlowActive DEF Frame
  <2> HIDE DEF f
  <2>3. /\ Top.exit \in 1 .. Len(blocks) /\ Top.exit \in Pending(Top)
        /\ Top.after # Top.exit /\ Pending(Top) \subseteq Held(stack)
    BY <2>1, CaseBlocks
  <2>4. Reaches(blocks', ({cur} \cup Held(stack)) \ {cur}, Q)
    BY <2>1, <2>3, FlowJump
  <2>5. Widens(Flow, Q, T, cur)  BY InWith
  <2>6. \A x : x \in Q <=> x \in Flow \/ (live /\ x \in T)  BY <2>1, InWith, FlowActive
  <2> HIDE DEF Q
  <2>7. /\ Top.after \in Q <=> Top.after \in Flow
        /\ Top.exit \in Q <=> Top.exit \in Flow \/ live
    BY <2>3, <2>6
  <2>8. FlowOK(Top, Flow) /\ (live => Top.entered)  BY <2>1, FlowActive
  <2>9. FlowOK(f, Q)  BY <2>1, <2>2, <2>7, <2>8 DEF FlowOK, HasHeader
  <2>10. T \cap (1 .. Len(blocks)) \subseteq Pending(Top)  BY <2>3
  <2> HIDE DEF T
  <2>11. cur' \in Q <=> live'  BY <2>1, <2>7, <2>8 DEF FlowOK
  <2>12. QED  BY <2>1, <2>2, <2>4, <2>5, <2>9, <2>10, <2>11, FlowAdvances
<1>7. CASE EndCase
  <2>1. /\ ~Done /\ Top.at = "CaseNext" /\ Pop /\ live' = (Top.leaves \/ live) /\ cur' = Top.exit
        /\ blocks' = JumpTo(blocks, cur, Top.exit)
    BY <1>7 DEF EndCase, At
  <2>2. QED  BY <2>1, FlowMerges
<1>8. QED  BY <1>1, <1>2, <1>3, <1>4, <1>5, <1>6, <1>7 DEF VisitCase

(* ABS: both arms meet in the block that is made current. *)
LEMMA FlowAbs == ASSUME FlowInv, IInv', EvaluateAbs PROVE FlowInv'
<1> DEFINE S == {cur} \cup (Held(stack) \cup {Next1, Next2, Next3})
           e0 == Emit(Create3, cur, Op("Eval"))
           tested == BranchTo(e0, cur, cur, Next1, Next2)
           e1 == Emit(tested, Next1, Op("Copy"))
           negated == JumpTo(e1, Next1, Next3)
           e2 == Emit(negated, Next2, Op("Copy"))
           S1 == S \ {cur}
           S2 == S1 \ {Next1}
           Q1 == With(Flow, cur, {Next1, Next2})
           Q2 == With(Q1, Next1, {Next3})
           Q  == With(Q2, Next2, {Next3})
           N  == {Next1, Next2, Next3}
<1>1. /\ ~Done /\ stack' = stack /\ live' = live /\ cur' = Next3
      /\ blocks' = JumpTo(e2, Next2, Next3)
  BY DEF EvaluateAbs
<1>2. /\ Reaches(Create3, S, Flow) /\ Len(Create3) = Next3 /\ cur \in S
      /\ MaySend(S, Flow, cur, {Next1, Next2})
      /\ Next1 \notin Flow /\ Next2 \notin Flow /\ Next3 \notin Flow
  BY <1>1, FlowCreates DEF MaySend
<1>3. /\ cur \in 1 .. Next3
      /\ Next1 \in 1 .. Next3 /\ Next2 \in 1 .. Next3 /\ Next3 \in 1 .. Next3
      /\ Next1 # cur /\ Next2 # cur /\ Next3 # cur /\ Next1 # Next2 /\ Next1 # Next3
      /\ Next2 # Next3
      /\ N \cap (1 .. Len(blocks)) = {}
  BY <1>1, Numbers DEF FlowInv
<1>4. /\ Next1 \in S1 /\ Next2 \in S2 /\ Next3 \in S1 /\ Next3 \in S2
  BY <1>3
<1> HIDE DEF S
<1>5. Reaches(e0, S, Flow) /\ Len(e0) = Next3  BY <1>2, EmitReaches DEF PlainOps
<1> HIDE DEF e0
<1>6. Reaches(tested, S1, Q1) /\ Len(tested) = Next3
  <2>1. cur \in 1 .. Len(e0) /\ Next1 \in 1 .. Len(e0) /\ Next2 \in 1 .. Len(e0)
    BY <1>3, <1>5
  <2>2. cur \in S /\ MaySend(S, Flow, cur, {Next1, Next2})  BY <1>2
  <2>3. QED  BY <1>5, <2>1, <2>2, BranchReaches
<1> HIDE DEF tested, S1
<1>7. Reaches(e1, S1, Q1) /\ Len(e1) = Next3  BY <1>4, <1>6, EmitReaches DEF PlainOps
<1> HIDE DEF e1
<1>8. Reaches(negated, S2, Q2) /\ Len(negated) = Next3
  <2>1. MaySend(S1, Q1, Next1, {Next3})  BY <1>4 DEF MaySend
  <2>2. QED  BY <1>3, <1>4, <1>7, <2>1, JumpReaches
<1> HIDE DEF negated, S2
<1>9. Reaches(e2, S2, Q2) /\ Len(e2) = Next3  BY <1>4, <1>8, EmitReaches DEF PlainOps
<1> HIDE DEF e2
<1>10. Reaches(blocks', S2 \ {Next2}, Q)
  <2>1. MaySend(S2, Q2, Next2, {Next3})  BY <1>4 DEF MaySend
  <2>2. QED  BY <1>1, <1>3, <1>4, <1>9, <2>1, JumpReaches
<1>11. \A x : /\ x \in Q1 <=> x \in Flow \/ (live /\ x \in {Next1, Next2})
              /\ x \in Q2 <=> x \in Q1 \/ (Next1 \in Q1 /\ x = Next3)
              /\ x \in Q <=> x \in Q2 \/ (Next2 \in Q2 /\ x = Next3)
  BY <1>1, FlowActive DEF With
<1>12. (cur \in Flow <=> live) /\ (live => Top.entered) /\ (Top.at \in Fresh => (live <=> Top.entered))
  BY <1>1, FlowActive
<1> HIDE DEF Q, Q1, Q2
<1>13. \A x : x \in Q <=> x \in Flow \/ (live /\ x \in N)
  BY <1>2, <1>3, <1>11
<1>14. Widens(Flow, Q, N, cur)  BY <1>12, <1>13 DEF Widens
<1>15. cur' \in Q <=> live'  BY <1>1, <1>2, <1>13
<1>16. FlowOK(Top, Q)
  <2>1. Len(stack) \in 1 .. Len(stack) /\ Pending(Top) \subseteq 1 .. Len(blocks)
    <3>1. stack \in Seq(Frame) /\ stack # <<>>  BY <1>1, Active DEF FlowInv
    <3>2. QED  BY <1>1, <3>1, Active DEF FlowInv, FrameOK
  <2>2. Pending(stack[Len(stack)]) \cap N = {}  BY <1>3, <2>1 DEF Top
  <2> HIDE DEF N
  <2>3. QED  BY <1>1, <1>14, <2>1, <2>2, OthersKeep DEF Top
<1>17. Replace(Top)  BY <1>1, Active DEF FlowInv, Replace, Top
<1>18. N \cap (1 .. Len(blocks)) \subseteq Pending(Top)  BY <1>3
<1> HIDE DEF N
<1>19. QED
  BY <1>1, <1>10, <1>12, <1>14, <1>15, <1>16, <1>17, <1>18, FlowAdvances

(* The body itself. *)
LEMMA FlowBody == ASSUME FlowInv, IInv', BeginBodyValue \/ EndBody PROVE FlowInv'
<1>1. CASE BeginBodyValue
  <2> DEFINE f == [Top EXCEPT !.at = "BodyValue"]
  <2>1. /\ ~Done /\ Top.at = "Body" /\ Replace(f) /\ live' = live /\ cur' = cur
        /\ blocks' = blocks
    BY <1>1 DEF BeginBodyValue, At
  <2>2. f.at = "BodyValue" /\ f.entered = Top.entered /\ f.leaves = Top.leaves
    BY <2>1, FlowActive DEF Frame
  <2> HIDE DEF f
  <2>3. FlowOK(f, Flow)  BY <2>1, <2>2, FlowActive DEF FlowOK, HasHeader
  <2>4. /\ Reaches(blocks', {cur} \cup Held(stack), Flow) /\ (cur' \in Flow <=> live')
        /\ (live' => Top.entered) /\ f.at \notin Fresh
    BY <2>1, <2>2, FlowActive DEF Fresh
  <2>5. Widens(Flow, Flow, {}, cur) /\ {} \cap (1 .. Len(blocks)) \subseteq Pending(Top)
    BY NothingWidens
  <2>6. QED  BY <2>1, <2>2, <2>3, <2>4, <2>5, FlowAdvances
<1>2. CASE EndBody
  <2> DEFINE S == {cur} \cup Held(stack)
  <2>1. /\ ~Done /\ Top.at \in BodyPoints /\ Pop
        /\ blocks' = FinishBlock(blocks, cur, Ret)
    BY <1>2 DEF EndBody, At, BodyPoints
  <2>2. Len(stack) = 1
    <3>1. Len(stack) \in 1 .. Len(stack)
      <4>1. stack \in Seq(Frame) /\ stack # <<>>  BY <2>1, Active DEF FlowInv
      <4>2. QED  BY <4>1
    <3>2. QED  BY <2>1, <3>1 DEF FlowInv, IInv, StackOK, Top
  <2>3. Len(stack') = 0 /\ stack' = <<>>
    <3>1. Len(stack') = 0 /\ stack' \in Seq(Frame)  BY <2>1, <2>2, PopShape DEF FlowInv
    <3>2. QED  BY <3>1, EmptySeq
  <2>4. Reaches(blocks, S, Flow) /\ cur \in S  BY <2>1, FlowActive
  <2> HIDE DEF S
  <2>5. Bounded(blocks')  BY <2>1, <2>4, RetReaches DEF Reaches
  <2>6. Nested' /\ FlowAt(Flow)'  BY <2>3 DEF Nested, FlowAt, Done
  <2>7. QED  BY <2>5, <2>6 DEF FlowInv
<1>3. QED  BY <1>1, <1>2

-----------------------------------------------------------------------------
(* Control enters the body at its first block. *)
LEMMA FlowInitially == Init => FlowInv
<1> SUFFICES ASSUME Init  PROVE FlowInv
  OBVIOUS
<1>1. IInv  BY Initially
<1>2. /\ blocks = <<EmptyBlock>> /\ Len(blocks) = 1 /\ blocks[1] = EmptyBlock
      /\ cur = 1 /\ live = TRUE
  BY DEF Init
<1>3. /\ stack = <<FrameAt("Body")>> /\ Len(stack) = 1 /\ Top = FrameAt("Body")
      /\ stack[1] = FrameAt("Body")
  BY DEF Init, Top
<1>4. Bounded(blocks)
  <2>1. Targets(EmptyBlock) = {}  BY DEF EmptyBlock, Targets, HasTerminator
  <2>2. QED  BY <1>2, <2>1 DEF Bounded
<1>5. 1 \in Flow  BY <1>2, <1>4, ReachedLeads DEF Flow
<1>6. Top.at = "Body" /\ Top.entered = TRUE /\ Top.leaves = FALSE
  BY <1>2, <1>3 DEF FrameAt
<1>7. Nested  BY <1>3 DEF Nested
<1>8. FlowOK(Top, Flow)  BY <1>6 DEF FlowOK, HasHeader
<1>9. FlowAt(Flow)  BY <1>2, <1>3, <1>5, <1>6, <1>8 DEF FlowAt, Fresh
<1>10. QED  BY <1>1, <1>4, <1>7, <1>9 DEF FlowInv

(* The invariant depends on the variables only. *)
LEMMA FlowStays == ASSUME FlowInv, UNCHANGED vars PROVE FlowInv'
<1>1. IInv'  BY Stays DEF FlowInv
<1>2. blocks' = blocks /\ cur' = cur /\ stack' = stack /\ live' = live
  BY DEF vars
<1>3. QED  BY <1>1, <1>2 DEF FlowInv, Nested, FlowAt, Flow, Top, Done

(* Every step of the builder preserves what is known of the flow. *)
LEMMA FlowInductive == FlowInv /\ [Next]_vars => FlowInv'
<1> SUFFICES ASSUME FlowInv, [Next]_vars  PROVE FlowInv'
  OBVIOUS
<1>1. IInv'  BY Inductive DEF FlowInv
<1>2. CASE BeginBodyValue \/ EndBody  BY <1>1, <1>2, FlowBody
<1>3. CASE EvaluateAbs  BY <1>1, <1>3, FlowAbs
<1>4. CASE VisitSimple  BY <1>1, <1>4, FlowSimple
<1>5. CASE VisitIf  BY <1>1, <1>5, FlowIf
<1>6. CASE VisitLoop  BY <1>1, <1>6, FlowWhile, FlowRepeat, FlowFor DEF VisitLoop
<1>7. CASE VisitCase  BY <1>1, <1>7, FlowCase
<1>8. CASE Finished \/ UNCHANGED vars  BY <1>8, FlowStays DEF Finished
<1>9. QED  BY <1>2, <1>3, <1>4, <1>5, <1>6, <1>7, <1>8 DEF Next

(* FlowAlwaysKnown: whatever tree is lowered, where a visitor stands tells *)
(* which of the blocks it holds control can reach, after every step: the   *)
(* header of a loop if control reached the loop, the block behind an IF or *)
(* a CASE if one of the parts has reached its end.                         *)
THEOREM FlowAlwaysKnown == Spec => []FlowInv
BY FlowInitially, FlowInductive, PTL DEF Spec

(* ControlGoesWhereTheSourceSays: whatever tree is lowered, and wherever   *)
(* ABS splits a block, the current block can be reached from the entry     *)
(* exactly when the source lets control reach the construct being lowered: *)
(* no jump of the visitors cuts a statement off, and nothing flows into    *)
(* the code after a RETURN.                                                *)
THEOREM ControlGoesWhereTheSourceSays == Spec => []ReachableIffLive
<1>1. FlowInv => ReachableIffLive
  <2> SUFFICES ASSUME FlowInv, ~Done  PROVE cur \in Reachable <=> live
    BY DEF ReachableIffLive
  <2>1. Bounded(blocks) /\ Len(blocks) \in Nat /\ 1 \in 1 .. Len(blocks)
    BY Numbers DEF FlowInv
  <2>2. Reachable = Flow  BY <2>1, ReachableIsReached DEF Flow
  <2>3. QED  BY <2>2, FlowActive
<1>2. QED  BY <1>1, FlowAlwaysKnown, PTL
=============================================================================

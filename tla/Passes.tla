------------------------------- MODULE Passes -------------------------------
(***************************************************************************)
(* What --opt does to a body (src/src/ir/PassManager.cpp, ir/passes): the  *)
(* passes ConstantFolding, CopyPropagation and DeadCodeElim, in the order  *)
(* main.cpp adds them, over what IRBuilder has built.                      *)
(*                                                                         *)
(* The body is built as IRBuilder.cpp builds it, with operands: vals holds *)
(* the results (IRValue) that visitors of expressions have returned and    *)
(* their callers still keep, merges one frame per active visit(IfStmt).    *)
(* The tree is chosen as it is visited.  Loops and CASE are left out (see  *)
(* module IRBuilder): all jumps go forward, and every body can be run.     *)
(* All variables are one global, X, that holds a number.                   *)
(***************************************************************************)
EXTENDS IRCode, SequencesExt

CONSTANTS MaxNodes,    \* bound: nodes of the tree
          Literals,    \* the numbers the source may contain
          Inputs,      \* the values X may have before the body runs
          BinaryOps,   \* the operators the source may use
          UnaryOps

ASSUME PassesAssumption ==
  /\ MaxNodes \in Nat
  /\ Literals \subseteq Int /\ Inputs \subseteq Int
  /\ BinaryOps \subseteq Binary /\ UnaryOps \subseteq Unary \ {"Copy"}

VARIABLES blocks,   \* curFunc_->blocks
          cur,      \* curBlock_
          vals,     \* values computed and not used yet, innermost last
          merges,   \* active IfStmt visitors, innermost last
          temps,    \* nextTempId
          nodes,    \* nodes visited so far
          phase,    \* what has been done to the body
          built     \* history: the body before the passes

vars == <<blocks, cur, vals, merges, temps, nodes, phase, built>>

building == <<cur, vals, merges, temps, nodes>>

Init ==
  /\ blocks = <<<<>>>>
  /\ cur = 1
  /\ vals = <<>>
  /\ merges = <<>>
  /\ temps = 0
  /\ nodes = 0
  /\ phase = "building"
  /\ built = <<>>

-----------------------------------------------------------------------------
(* Lowering. *)

(* A node is visited and leaves that many values, which one node each but  *)
(* the last must still combine (bound).                                    *)
Visit(depth) ==
  /\ phase = "building"
  /\ nodes + depth <= MaxNodes
  /\ nodes' = nodes + 1
  /\ UNCHANGED <<phase, built>>

(* A visitor of statements is active, not that of an IF's condition. *)
AtStatement == phase = "building" /\ (merges # <<>> => Last(merges).at # "cond")

Emit(bs, b, i) == [bs EXCEPT ![b] = Append(@, i)]

(* IRBuilder::finishBlock *)
Finish(bs, b, i) ==
  IF bs[b] # <<>> /\ IsTerminator(Last(bs[b])) THEN bs ELSE Emit(bs, b, i)

(* The last n values, replaced by v. *)
Result(n, v) == Append(SubSeq(vals, 1, Len(vals) - n), v)

(* visit(LiteralExpr) *)
Literal ==
  /\ Visit(Len(vals) + 1)
  /\ \E c \in Literals : vals' = Append(vals, Const(c))
  /\ UNCHANGED <<blocks, cur, merges, temps>>

(* emitLoad of a variable *)
Variable ==
  /\ Visit(Len(vals) + 1)
  /\ temps' = temps + 1
  /\ blocks' = Emit(blocks, cur, LoadFrom(temps', X))
  /\ vals' = Append(vals, Temp(temps'))
  /\ UNCHANGED <<cur, merges>>

(* visit(UnaryExpr) *)
OperateOne ==
  /\ vals # <<>> /\ Visit(Len(vals))
  /\ temps' = temps + 1
  /\ \E op \in UnaryOps :
       blocks' = Emit(blocks, cur, Compute(op, temps', <<Last(vals)>>))
  /\ vals' = Result(1, Temp(temps'))
  /\ UNCHANGED <<cur, merges>>

(* visit(BinaryExpr) *)
OperateTwo ==
  /\ Len(vals) >= 2 /\ Visit(Len(vals) - 1)
  /\ temps' = temps + 1
  /\ \E op \in BinaryOps :
       blocks' = Emit(blocks, cur, Compute(op, temps', <<vals[Len(vals) - 1], Last(vals)>>))
  /\ vals' = Result(2, Temp(temps'))
  /\ UNCHANGED <<cur, merges>>

(* tryEmitBuiltin, ABS: both branches copy into the same temporary. *)
Abs ==
  /\ vals # <<>> /\ Visit(Len(vals))
  /\ LET v     == Last(vals)
         neg   == temps + 1
         cmp   == temps + 2
         res   == temps + 3
         then  == Len(blocks) + 1
         else  == Len(blocks) + 2
         merge == Len(blocks) + 3
         entry == Finish(Emit(Emit(blocks, cur, Compute("Neg", neg, <<v>>)),
                              cur, Compute("Lt", cmp, <<v, Const(0)>>)),
                         cur, BranchOn(Temp(cmp), then, else))
         copied(u) == <<Compute("Copy", res, <<u>>), JumpTo(merge)>>
     IN  /\ blocks' = entry \o <<copied(Temp(neg)), copied(v), <<>>>>
         /\ cur' = merge
         /\ vals' = Result(1, Temp(res))
         /\ temps' = res
  /\ UNCHANGED merges

(* visit(AssignStmt) *)
Assign ==
  /\ AtStatement /\ Len(vals) = 1
  /\ blocks' = Emit(blocks, cur, StoreTo(X, vals[1]))
  /\ vals' = <<>>
  /\ UNCHANGED <<cur, merges, temps, nodes, phase, built>>

(* Out.Int *)
Write ==
  /\ AtStatement /\ Len(vals) = 1
  /\ blocks' = Emit(blocks, cur, WriteOut(vals[1]))
  /\ vals' = <<>>
  /\ UNCHANGED <<cur, merges, temps, nodes, phase, built>>

(* visit(ReturnStmt): what follows goes into a block nothing jumps to. *)
ReturnValue ==
  /\ AtStatement /\ Len(vals) = 1
  /\ blocks' = Append(Finish(blocks, cur, Return(vals)), <<>>)
  /\ cur' = Len(blocks')
  /\ vals' = <<>>
  /\ UNCHANGED <<merges, temps, nodes, phase, built>>

(* visit(IfStmt) up to the first condition *)
BeginIf ==
  /\ AtStatement /\ vals = <<>> /\ Visit(2)
  /\ blocks' = Append(blocks, <<>>)
  /\ merges' = Append(merges, [at |-> "cond", merge |-> Len(blocks'), else |-> 0])
  /\ UNCHANGED <<cur, vals, temps>>

(* from a condition to the statements behind it *)
IfBranch ==
  /\ phase = "building"
  /\ merges # <<>> /\ Last(merges).at = "cond" /\ Len(vals) = 1
  /\ LET then == Len(blocks) + 1
         else == Len(blocks) + 2
     IN  /\ blocks' = Finish(blocks, cur, BranchOn(vals[1], then, else)) \o <<<<>>, <<>>>>
         /\ cur' = then
         /\ merges' = [merges EXCEPT ![Len(merges)].at = "then",
                                     ![Len(merges)].else = else]
  /\ vals' = <<>>
  /\ UNCHANGED <<temps, nodes, phase, built>>

(* the end of a branch: the condition of an ELSIF, or ELSE and the end *)
EndThen ==
  /\ AtStatement /\ vals = <<>>
  /\ merges # <<>> /\ Last(merges).at = "then"
  /\ blocks' = Finish(blocks, cur, JumpTo(Last(merges).merge))
  /\ cur' = Last(merges).else
  /\ \E at \in {"else"} \cup IF nodes < MaxNodes THEN {"cond"} ELSE {} :
       merges' = [merges EXCEPT ![Len(merges)].at = at]
  /\ UNCHANGED <<vals, temps, nodes, phase, built>>

EndIf ==
  /\ AtStatement /\ vals = <<>>
  /\ merges # <<>> /\ Last(merges).at = "else"
  /\ blocks' = Finish(blocks, cur, JumpTo(Last(merges).merge))
  /\ cur' = Last(merges).merge
  /\ merges' = Front(merges)
  /\ UNCHANGED <<vals, temps, nodes, phase, built>>

(* visit(ProcDecl) behind emitStatements; vals may hold the value of RETURN. *)
EndBody ==
  /\ AtStatement
  /\ merges = <<>> /\ Len(vals) <= 1
  /\ blocks' = Finish(blocks, cur, Return(vals))
  /\ built' = blocks'
  /\ phase' = "built"
  /\ UNCHANGED building

-----------------------------------------------------------------------------
(* ConstantFolding *)

(* Slip: the operands in the wrong order. *)
FoldedSwapped(op, a, b) ==
  IF op \in {"Div", "Mod"} /\ a = 0 THEN 0 ELSE Compute2(op, b, a)

(* The operators of C++.  A zero divisor gives zero. *)
Folded(op, a, b) ==
  IF op \in {"Div", "Mod"} /\ b = 0 THEN 0 ELSE Compute2(op, a, b)

(* Slip: src2 is not cleared. *)
FoldInstrKeepsSrc2(i) ==
  IF i.op \in Binary /\ \A k \in DOMAIN i.srcs : IsConst(i.srcs[k])
  THEN Compute("Copy", i.dst, <<Const(Folded(i.op, i.srcs[1].val, i.srcs[2].val)), i.srcs[2]>>)
  ELSE i

(* The first loop folds two operands, the second one; a folded instruction *)
(* is a Copy, which neither folds again.                                   *)
FoldInstr(i) ==
  IF i.op \in Binary /\ \A k \in DOMAIN i.srcs : IsConst(i.srcs[k])
  THEN Compute("Copy", i.dst, <<Const(Folded(i.op, i.srcs[1].val, i.srcs[2].val))>>)
  ELSE IF i.op \in {"Neg", "Not"} /\ IsConst(i.srcs[1])
  THEN Compute("Copy", i.dst, <<Const(Compute1(i.op, i.srcs[1].val))>>)
  ELSE i

OnEach(f(_), bs) == [b \in DOMAIN bs |-> [k \in DOMAIN bs[b] |-> f(bs[b][k])]]

FoldPass ==
  /\ phase = "built"
  /\ blocks' = OnEach(FoldInstr, blocks)
  /\ phase' = "folded"
  /\ UNCHANGED <<built, building>>

-----------------------------------------------------------------------------
(* CopyPropagation *)

At(bs, p) == bs[p[1]][p[2]]

(* Slip: anything with a single operand passes for a copy. *)
ResultsInto(bs, t) ==
  {p \in Places(bs) : At(bs, p).op \in Unary /\ At(bs, p).dst = t}

(* Where t is copied into. *)
CopiesInto(bs, t) == {p \in Places(bs) : At(bs, p).op = "Copy" /\ At(bs, p).dst = t}

Behind(p, q) == p[1] > q[1] \/ (p[1] = q[1] /\ p[2] >= q[2])

(* One map for all blocks, in the order they were made: of several copies  *)
(* into a temporary it holds the last.                                     *)
LastCopies(bs, t) ==
  {p \in CopiesInto(bs, t) : \A q \in CopiesInto(bs, t) : Behind(p, q)}

Replacement(bs, v) ==
  IF IsTemp(v) /\ LastCopies(bs, v.val) # {}
  THEN At(bs, CHOOSE p \in LastCopies(bs, v.val) : TRUE).srcs[1]
  ELSE v

(* Every operand is replaced once, wherever it stands. *)
Propagated(bs, i) == [i EXCEPT !.srcs = [k \in DOMAIN @ |-> Replacement(bs, @[k])]]

PropagatePass ==
  /\ phase = "folded"
  /\ blocks' = OnEach(LAMBDA i : Propagated(blocks, i), blocks)
  /\ phase' = "propagated"
  /\ UNCHANGED <<built, building>>

-----------------------------------------------------------------------------
(* DeadCodeElim *)

(* Slip: the operands of branches are forgotten. *)
UsedInline(bs) ==
  UNION {OperandTemps(At(bs, p)) : p \in {p \in Places(bs) : At(bs, p).op # "Branch"}}

UsedTemps(bs) == UNION {OperandTemps(At(bs, p)) : p \in Places(bs)}

(* Slip: only results count. *)
KeptIfUsed(i, used) == IsTerminator(i) \/ i.dst \in used

(* Stores, writes and what has no result stay, terminators too. *)
Kept(i, used) == IsTerminator(i) \/ i.dst = NoDst \/ i.dst \in used

(* How many numbers of K are below k, and the one that j - 1 are below.    *)
Below(K, k) == Cardinality({h \in K : h < k})
Nth(K, j) == CHOOSE k \in K : Below(K, k) = j - 1

(* The new list of a block: what is kept, in order.                        *)
Survivors(s, used) == {k \in DOMAIN s : Kept(s[k], used)}
NewInstrs(s, used) ==
  LET K == Survivors(s, used) IN [j \in 1 .. Cardinality(K) |-> s[Nth(K, j)]]

(* Empty blocks go, except the entry. *)
Eliminated(bs) ==
  LET kept == [b \in DOMAIN bs |-> NewInstrs(bs[b], UsedTemps(bs))]
  IN  [b \in {b \in DOMAIN bs : kept[b] # <<>> \/ b = 1} |-> kept[b]]

EliminatePass ==
  /\ phase = "propagated"
  /\ blocks' = Eliminated(blocks)
  /\ phase' = "done"
  /\ UNCHANGED <<built, building>>

Finished == phase = "done" /\ UNCHANGED vars

Lower ==
  \/ Literal \/ Variable \/ OperateOne \/ OperateTwo \/ Abs
  \/ Assign \/ Write \/ ReturnValue
  \/ BeginIf \/ IfBranch \/ EndThen \/ EndIf \/ EndBody

Next == Lower \/ FoldPass \/ PropagatePass \/ EliminatePass \/ Finished

Spec == Init /\ [][Next]_vars

-----------------------------------------------------------------------------
(* Properties. *)

Lowered == phase # "building"

(* An instruction with the operands its operation reads, over the first t  *)
(* temporaries.                                                            *)
Owned(i, t) ==
  i \in Instr /\ WellFormed(i) /\ OperandTemps(i) \cup {i.dst} \subseteq 0 .. t

ValidBody(bs, t) ==
  /\ DOMAIN bs \subseteq Nat \ {0}
  /\ \A b \in DOMAIN bs :
       bs[b] \in Seq(Instr) /\ \A k \in 1 .. Len(bs[b]) : Owned(bs[b][k], t)

(* Whatever has been done to it, a body consists of instructions with the  *)
(* operands their operations read, over temporaries the function owns.     *)
TypeOK ==
  /\ phase \in {"building", "built", "folded", "propagated", "done"}
  /\ nodes \in 0 .. MaxNodes /\ temps \in Nat
  /\ phase = "building" => cur \in DOMAIN blocks
  /\ ValidBody(blocks, temps)

(* What a caller or the terminal sees of a body. *)
Behaviour(bs) == [a \in Inputs |-> Seen(Run(bs, X :> a))]

(* A body that has been lowered returns, before and after each pass: it    *)
(* reads no temporary that has not been written on the way (a pass may     *)
(* have removed the instruction that wrote it), and jumps to no block that *)
(* DeadCodeElim has erased.                                                *)
NeverStuck == Lowered => \A a \in Inputs : Run(blocks, X :> a).stands = "returned"

DividesByZero(bs) ==
  \E b \in DOMAIN bs : \E k \in DOMAIN bs[b] :
    /\ bs[b][k].op \in {"Div", "Mod"}
    /\ bs[b][k].srcs[2] = Const(0)

(* ConstantFolding changes nothing that can be seen: what the compiler     *)
(* computes is what the processor would have, in every place of the body   *)
(* and on every path.  Except a constant divisor 0: RISC-V gives -1 and    *)
(* the dividend, folding gives 0.                                          *)
FoldingPreserves ==
  [][phase' = "folded" /\ ~DividesByZero(blocks)
     => Behaviour(blocks') = Behaviour(blocks)]_vars

CopiedTwice(bs) == \E t \in 1 .. temps : Cardinality(CopiesInto(bs, t)) > 1

(* CopyPropagation, which looks neither at the place of a copy nor at the  *)
(* path it is on, changes nothing that can be seen as long as no temporary *)
(* is copied into at two places, that is, as long as there is no ABS.      *)
PropagationPreserves ==
  [][phase' = "propagated" /\ ~CopiedTwice(blocks)
     => Behaviour(blocks') = Behaviour(blocks)]_vars

(* DeadCodeElim changes nothing that can be seen, with or without ABS: the *)
(* results it drops are read on no path, and all effects stay in order.    *)
EliminationPreserves ==
  [][phase' = "done" => Behaviour(blocks') = Behaviour(blocks)]_vars

(* With --opt a body does what it does without (violated: ABS).            *)
SameBehaviour == phase = "done" => Behaviour(blocks) = Behaviour(built)
=============================================================================

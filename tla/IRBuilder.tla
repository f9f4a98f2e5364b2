----------------------------- MODULE IRBuilder -----------------------------
(***************************************************************************)
(* How IRBuilder.cpp lowers one procedure or module body into basic blocks *)
(* (src/src/ir/IRBuilder.cpp, the statement visitors and ABS).             *)
(*                                                                         *)
(* The visitors recurse over the syntax tree; the C++ call stack is the    *)
(* variable stack, one frame per statement being visited.  A frame says    *)
(* where its visitor stands and which blocks it still holds:               *)
(*   at      the point of the visitor: an expression or a statement list   *)
(*           it is about to hand over to its children, or its own code     *)
(*   header  the block a loop jumps back to                                *)
(*   body, after, exit                                                     *)
(*           blocks created by the visitor and not yet made current, reset *)
(*           to NoBlock once they are                                      *)
(*   entered, leaves                                                       *)
(*           history: whether the source lets control reach the statement, *)
(*           and whether some path through it has reached its end          *)
(*                                                                         *)
(* The tree is revealed as it is visited: every node costs one unit of     *)
(* size, so a behaviour lowers one tree of at most MaxNodes nodes, and all *)
(* such trees are covered.                                                 *)
(***************************************************************************)
EXTENDS BasicBlocks

CONSTANT MaxNodes   \* bound on the size of the tree

ASSUME MaxNodesAssumption == MaxNodes \in Nat

VARIABLES
  blocks,   \* curFunc_->blocks
  cur,      \* curBlock_
  stack,    \* the visitors that are active, innermost last
  live,     \* history: whether the source lets control reach this point
  split,    \* history: the loop headers whose test ABS cut into several blocks
  size      \* nodes of the tree visited so far

vars == <<blocks, cur, stack, live, split, size>>

StatementPoints ==
  {"Body", "Then", "Else", "WhileBody", "RepeatBody", "ForBody", "CaseBody"}

ExpressionPoints ==
  {"Operand", "ReturnValue", "BodyValue", "IfCond", "WhileCond", "RepeatCond",
   "ForFrom", "ForTo", "ForBy", "CaseExpr"}

Points == StatementPoints \cup ExpressionPoints \cup {"CaseNext", "CaseLabel"}

LoopTests == {"WhileCond", "ForTo"}

Frame == [at : Points, header : Nat, body : Nat, after : Nat, exit : Nat,
          entered : BOOLEAN, leaves : BOOLEAN]

FrameAt(point) ==
  [at |-> point, header |-> NoBlock, body |-> NoBlock, after |-> NoBlock,
   exit |-> NoBlock, entered |-> live, leaves |-> FALSE]

(* The blocks a frame has yet to make current. *)
Pending(f) == {f.body, f.after, f.exit} \ {NoBlock}

Done == stack = <<>>

Top == stack[Len(stack)]

At(point) == ~Done /\ Top.at = point

AtStatement == ~Done /\ Top.at \in StatementPoints

Push(f)    == stack' = Append(stack, f)
Replace(f) == stack' = [stack EXCEPT ![Len(stack)] = f]
Pop        == stack' = SubSeq(stack, 1, Len(stack) - 1)

(* The next node of the tree. *)
Visit   == size < MaxNodes /\ size' = size + 1
SameNode == UNCHANGED size

Next1 == Len(blocks) + 1
Next2 == Len(blocks) + 2
Next3 == Len(blocks) + 3

Create1 == CreateBlock(blocks)
Create2 == CreateBlock(Create1)
Create3 == CreateBlock(Create2)

-----------------------------------------------------------------------------
(* visit(ProcDecl) and visit(Module): the entry block is made current.     *)
Init ==
  /\ blocks = <<EmptyBlock>>
  /\ cur = 1
  /\ live = TRUE
  /\ split = {}
  /\ size = 0
  /\ stack = <<FrameAt("Body")>>

(* A procedure body ends in an optional RETURN expression ...              *)
BeginBodyValue ==
  /\ At("Body")
  /\ Visit
  /\ Replace([Top EXCEPT !.at = "BodyValue"])
  /\ UNCHANGED <<blocks, cur, live, split>>

(* ... and in a Ret of its value, or of none.                              *)
EndBody ==
  /\ At("Body") \/ At("BodyValue")
  /\ blocks' = FinishBlock(blocks, cur, Ret)
  /\ Pop
  /\ SameNode
  /\ UNCHANGED <<cur, live, split>>

-----------------------------------------------------------------------------
(* Expressions.  ABS is the one that needs blocks of its own: both arms    *)
(* copy into the result, and what follows is emitted into the merge block. *)
EvaluateAbs ==
  /\ ~Done
  /\ Top.at \in ExpressionPoints
  /\ Visit
  /\ LET tested == BranchTo(Emit(Create3, cur, Op("Eval")), cur, cur, Next1, Next2)
         negated == JumpTo(Emit(tested, Next1, Op("Copy")), Next1, Next3)
     IN  blocks' = JumpTo(Emit(negated, Next2, Op("Copy")), Next2, Next3)
  /\ cur' = Next3
  /\ split' = IF Top.at \in LoopTests THEN split \cup {Top.header} ELSE split
  /\ UNCHANGED <<stack, live>>

(* Assignments and calls: operands, then one instruction with an effect.   *)
BeginSimple ==
  /\ AtStatement
  /\ Visit
  /\ Push(FrameAt("Operand"))
  /\ UNCHANGED <<blocks, cur, live, split>>

EndSimple ==
  /\ At("Operand")
  /\ blocks' = Emit(blocks, cur, Op("Store"))
  /\ Pop
  /\ SameNode
  /\ UNCHANGED <<cur, live, split>>

(* RETURN: what follows it goes into a block nothing jumps to.             *)
BeginReturn ==
  /\ AtStatement
  /\ Visit
  /\ Push(FrameAt("ReturnValue"))
  /\ UNCHANGED <<blocks, cur, live, split>>

(* Slip: the code after RETURN goes on in the finished block. *)
EndReturnStays ==
  /\ At("ReturnValue")
  /\ blocks' = FinishBlock(blocks, cur, Ret)
  /\ live' = FALSE
  /\ Pop
  /\ SameNode
  /\ UNCHANGED <<cur, split>>

EndReturn ==
  /\ At("ReturnValue")
  /\ blocks' = CreateBlock(FinishBlock(blocks, cur, Ret))
  /\ cur' = Next1
  /\ live' = FALSE
  /\ Pop
  /\ SameNode
  /\ UNCHANGED split

-----------------------------------------------------------------------------
(* IF: the merge block first, then two blocks per condition.               *)
BeginIf ==
  /\ AtStatement
  /\ Visit
  /\ blocks' = Create1
  /\ Push([FrameAt("IfCond") EXCEPT !.exit = Next1])
  /\ UNCHANGED <<cur, live, split>>

IfBranch ==
  /\ At("IfCond")
  /\ blocks' = BranchTo(Create2, cur, cur, Next1, Next2)
  /\ cur' = Next1
  /\ Replace([Top EXCEPT !.at = "Then", !.after = Next2])
  /\ SameNode
  /\ UNCHANGED <<live, split>>

(* Slip: a THEN part jumps to the next condition instead of the end. *)
EndThenFallsThrough(next) ==
  /\ At("Then")
  /\ IF next = "IfCond" THEN Visit ELSE SameNode
  /\ blocks' = JumpTo(blocks, cur, Top.after)
  /\ cur' = Top.after
  /\ Replace([Top EXCEPT !.at = next, !.after = NoBlock, !.leaves = @ \/ live])
  /\ live' = Top.entered
  /\ UNCHANGED split

(* After a THEN part comes the next ELSIF, or the ELSE part (maybe empty). *)
EndThen(next) ==
  /\ At("Then")
  /\ IF next = "IfCond" THEN Visit ELSE SameNode
  /\ blocks' = JumpTo(blocks, cur, Top.exit)
  /\ cur' = Top.after
  /\ Replace([Top EXCEPT !.at = next, !.after = NoBlock, !.leaves = @ \/ live])
  /\ live' = Top.entered
  /\ UNCHANGED split

(* Slip: the last part of an IF is left without its jump. *)
EndIfNoJump ==
  /\ At("Else")
  /\ cur' = Top.exit
  /\ live' = (Top.leaves \/ live)
  /\ Pop
  /\ SameNode
  /\ UNCHANGED <<blocks, split>>

(* Slip: the ELSE block is taken for the merge block. *)
EndIfWrongBlock ==
  /\ At("Else")
  /\ blocks' = JumpTo(blocks, cur, Top.exit)
  /\ cur' = Top.after
  /\ live' = (Top.leaves \/ live)
  /\ Pop
  /\ SameNode
  /\ UNCHANGED split

EndIf ==
  /\ At("Else")
  /\ blocks' = JumpTo(blocks, cur, Top.exit)
  /\ cur' = Top.exit
  /\ live' = (Top.leaves \/ live)
  /\ Pop
  /\ SameNode
  /\ UNCHANGED split

-----------------------------------------------------------------------------
(* WHILE: the ELSIF parts of the tree are not visited.                     *)
BeginWhile ==
  /\ AtStatement
  /\ Visit
  /\ blocks' = JumpTo(Create3, cur, Next1)
  /\ cur' = Next1
  /\ Push([FrameAt("WhileCond") EXCEPT
             !.header = Next1, !.body = Next2, !.exit = Next3])
  /\ UNCHANGED <<live, split>>

WhileBranch ==
  /\ At("WhileCond")
  /\ blocks' = BranchTo(blocks, cur, Top.header, Top.body, Top.exit)
  /\ cur' = Top.body
  /\ Replace([Top EXCEPT !.at = "WhileBody", !.body = NoBlock])
  /\ SameNode
  /\ UNCHANGED <<live, split>>

EndWhile ==
  /\ At("WhileBody")
  /\ blocks' = JumpTo(blocks, cur, Top.header)
  /\ cur' = Top.exit
  /\ live' = Top.entered
  /\ Pop
  /\ SameNode
  /\ UNCHANGED split

(* REPEAT: the body is its own header, the condition ends the body.        *)
BeginRepeat ==
  /\ AtStatement
  /\ Visit
  /\ blocks' = JumpTo(Create2, cur, Next1)
  /\ cur' = Next1
  /\ Push([FrameAt("RepeatBody") EXCEPT !.header = Next1, !.exit = Next2])
  /\ UNCHANGED <<live, split>>

RepeatUntil ==
  /\ At("RepeatBody")
  /\ Replace([Top EXCEPT !.at = "RepeatCond"])
  /\ SameNode
  /\ UNCHANGED <<blocks, cur, live, split>>

EndRepeat ==
  /\ At("RepeatCond")
  /\ blocks' = BranchTo(blocks, cur, cur, Top.exit, Top.header)
  /\ cur' = Top.exit
  /\ Pop
  /\ SameNode
  /\ UNCHANGED <<live, split>>

-----------------------------------------------------------------------------
(* FOR: the start value is stored before the header, the loop variable is  *)
(* loaded and compared in it, stepped at the end of the body.              *)
BeginFor ==
  /\ AtStatement
  /\ Visit
  /\ Push(FrameAt("ForFrom"))
  /\ UNCHANGED <<blocks, cur, live, split>>

ForInit ==
  /\ At("ForFrom")
  /\ blocks' = Emit(JumpTo(Emit(Create3, cur, Op("Store")), cur, Next1),
                    Next1, Op("Load"))
  /\ cur' = Next1
  /\ Replace([Top EXCEPT
                !.at = "ForTo", !.header = Next1, !.body = Next2, !.exit = Next3])
  /\ SameNode
  /\ UNCHANGED <<live, split>>

ForBranch ==
  /\ At("ForTo")
  /\ blocks' = BranchTo(Emit(blocks, cur, Op("Eval")),
                        cur, Top.header, Top.exit, Top.body)
  /\ cur' = Top.body
  /\ Replace([Top EXCEPT !.at = "ForBody", !.body = NoBlock])
  /\ SameNode
  /\ UNCHANGED <<live, split>>

ForStep ==
  /\ At("ForBody")
  /\ blocks' = Emit(blocks, cur, Op("Load"))
  /\ Replace([Top EXCEPT !.at = "ForBy"])
  /\ SameNode
  /\ UNCHANGED <<cur, live, split>>

EndFor ==
  /\ At("ForBy")
  /\ blocks' = JumpTo(Emit(Emit(blocks, cur, Op("Eval")), cur, Op("Store")),
                      cur, Top.header)
  /\ cur' = Top.exit
  /\ live' = Top.entered
  /\ Pop
  /\ SameNode
  /\ UNCHANGED split

-----------------------------------------------------------------------------
(* CASE: a chain of label tests; the last label of an alternative falls    *)
(* through to the next alternative, every other one to a fresh test block. *)
BeginCase ==
  /\ AtStatement
  /\ Visit
  /\ Push(FrameAt("CaseExpr"))
  /\ UNCHANGED <<blocks, cur, live, split>>

CaseDispatch ==
  /\ At("CaseExpr")
  /\ blocks' = Create1
  /\ Replace([Top EXCEPT !.at = "CaseNext", !.exit = Next1])
  /\ SameNode
  /\ UNCHANGED <<cur, live, split>>

BeginAlternative ==
  /\ At("CaseNext")
  /\ Visit
  /\ blocks' = Create2
  /\ Replace([Top EXCEPT !.at = "CaseLabel", !.body = Next1, !.after = Next2])
  /\ UNCHANGED <<cur, live, split>>

TestLabel ==
  /\ At("CaseLabel")
  /\ Visit
  /\ blocks' = BranchTo(Emit(Create1, cur, Op("Eval")), cur, cur, Top.body, Next1)
  /\ cur' = Next1
  /\ UNCHANGED <<stack, live, split>>

TestLastLabel ==
  /\ At("CaseLabel")
  /\ blocks' = BranchTo(Emit(blocks, cur, Op("Eval")), cur, cur, Top.body, Top.after)
  /\ cur' = Top.body
  /\ Replace([Top EXCEPT !.at = "CaseBody", !.body = NoBlock])
  /\ SameNode
  /\ UNCHANGED <<live, split>>

(* Slip: the next alternative is appended to the merge block. *)
EndAlternativeInMerge ==
  /\ At("CaseBody")
  /\ blocks' = JumpTo(blocks, cur, Top.exit)
  /\ cur' = Top.exit
  /\ Replace([Top EXCEPT !.at = "CaseNext", !.after = NoBlock, !.leaves = @ \/ live])
  /\ live' = Top.entered
  /\ SameNode
  /\ UNCHANGED split

EndAlternative ==
  /\ At("CaseBody")
  /\ blocks' = JumpTo(blocks, cur, Top.exit)
  /\ cur' = Top.after
  /\ Replace([Top EXCEPT !.at = "CaseNext", !.after = NoBlock, !.leaves = @ \/ live])
  /\ live' = Top.entered
  /\ SameNode
  /\ UNCHANGED split

EndCase ==
  /\ At("CaseNext")
  /\ blocks' = JumpTo(blocks, cur, Top.exit)
  /\ cur' = Top.exit
  /\ live' = (Top.leaves \/ live)
  /\ Pop
  /\ SameNode
  /\ UNCHANGED split

-----------------------------------------------------------------------------
(* The body has been lowered: the builder stops. *)
Finished == Done /\ UNCHANGED vars

VisitSimple == BeginSimple \/ EndSimple \/ BeginReturn \/ EndReturn

VisitIf == BeginIf \/ IfBranch \/ (\E next \in {"IfCond", "Else"} : EndThen(next)) \/ EndIf

VisitLoop ==
  \/ BeginWhile \/ WhileBranch \/ EndWhile
  \/ BeginRepeat \/ RepeatUntil \/ EndRepeat
  \/ BeginFor \/ ForInit \/ ForBranch \/ ForStep \/ EndFor

VisitCase ==
  \/ BeginCase \/ CaseDispatch \/ BeginAlternative
  \/ TestLabel \/ TestLastLabel \/ EndAlternative \/ EndCase

Next ==
  \/ BeginBodyValue \/ EndBody
  \/ EvaluateAbs
  \/ VisitSimple \/ VisitIf \/ VisitLoop \/ VisitCase
  \/ Finished

Spec == Init /\ [][Next]_vars

-----------------------------------------------------------------------------
(* TypeOK: the block vector, the current block and the visitor stack keep  *)
(* their shapes.  curBlock_ always names a block of the function: none of  *)
(* the visitors tests it before calling curBlock_->id.                     *)
TypeOK ==
  /\ blocks \in Seq(Block)
  /\ cur \in 1 .. Len(blocks)
  /\ stack \in Seq(Frame)
  /\ live \in BOOLEAN
  /\ split \subseteq 1 .. Len(blocks)
  /\ size \in 0 .. MaxNodes

(* TerminatorLast: no instruction ever follows a terminator, although emit *)
(* does not look for one: every visitor that finishes a block makes an     *)
(* open one current before anything else is emitted (README.md:522).       *)
TerminatorLast ==
  \A b \in 1 .. Len(blocks) : \A k \in 1 .. Len(blocks[b].instrs) - 1 :
     ~IsTerminator(blocks[b].instrs[k])

(* AllFinished: when the body has been lowered every block of the function *)
(* ends in a terminator, so that no generated block runs on into whichever *)
(* block the code generator happens to print after it.                     *)
AllFinished == Done => \A b \in 1 .. Len(blocks) : HasTerminator(blocks[b])

(* EdgesMatchTerminators: in a finished body the edges recorded beside the  *)
(* blocks are those of the terminators, at both ends (README.md:522, 744). *)
(* Passes, the DOT export and the printer read the recorded edges only.    *)
EdgesMatchTerminators ==
  Done => \A b \in 1 .. Len(blocks) :
            /\ blocks[b].succs = Targets(blocks[b])
            /\ blocks[b].preds = {a \in 1 .. Len(blocks) : b \in Targets(blocks[a])}

(* The blocks control can reach, following the terminators from the entry. *)
Reachable ==
  LET within[n \in 0 .. Len(blocks)] ==
        IF n = 0 THEN {1}
        ELSE LET nearer == within[n - 1]
             IN  nearer \cup UNION {Targets(blocks[b]) : b \in nearer}
  IN  within[Len(blocks)]

(* EdgesMatchUnlessSplit: they are, as long as no loop test called ABS.     *)
EdgesMatchUnlessSplit == split = {} => EdgesMatchTerminators

(* ReachableIffLive: at every point of the lowering, the current block can *)
(* be reached from the entry exactly when the source lets control reach    *)
(* the construct being lowered: no statement is cut off by a wrong target, *)
(* and nothing flows into the code after a RETURN.                         *)
ReachableIffLive == ~Done => (cur \in Reachable <=> live)

(* Ledger: the construction implements the discipline of BlockLedger.      *)
Ledger == INSTANCE BlockLedger WITH
  created <- Len(blocks),
  open    <- IF Done THEN 0 ELSE cur,
  sealed  <- {b \in 1 .. Len(blocks) : HasTerminator(blocks[b])}

(* BlocksAreLedgered: every step of the builder is a step of the ledger:   *)
(* in particular a block that was given its terminator is never reopened.  *)
BlocksAreLedgered == Ledger!Spec
=============================================================================

---------------------------- MODULE RegisterUse ----------------------------
(***************************************************************************)
(* The code of the direct generator (src/src/codegen/RiscVCodeGen.cpp):    *)
(* each visitor of an expression leaves its value in a0, and keeps what it *)
(* needs beyond a child in a register or in a word below sp.  Does it find *)
(* it there when the child's code has run?                                 *)
(*                                                                         *)
(* The tree is chosen as it is visited, and the code of a visitor runs     *)
(* when it is emitted: nothing is kept in a register from one statement to *)
(* the next but by the visitors that are active, one frame each in frames. *)
(* Values are numbered as they are made; 0 is any value that is not ours.  *)
(* A leaf is an expression that ends in a0 and uses no other register: a   *)
(* literal, a variable, fields and pointers, ODD, ORD, negation.           *)
(***************************************************************************)
EXTENDS Integers, Sequences, SequencesExt

CONSTANTS MaxNodes,    \* bound: statements, and expressions that are no leaves
          ArgRegs,     \* registers for arguments, 8 in the code
          MaxArgs      \* bound: arguments of a call

A == <<"a0", "a1", "a2", "a3", "a4", "a5", "a6", "a7">>

(* With two arguments more than registers the code would name a register   *)
(* that does not exist, which the assembler refuses.                       *)
ASSUME RegisterAssumption ==
  MaxNodes \in Nat /\ ArgRegs \in 1 .. 8 /\ MaxArgs \in 1 .. ArgRegs + 1

Registers ==
  {"t0", "t1", "t2", "t3", "t4", "t5", "t6"} \cup {A[i] : i \in 1 .. ArgRegs}

VARIABLES regs,     \* what the registers hold
          words,    \* the words pushed for expressions, the last at sp
          frames,   \* visitors that wait for a child, innermost last
          mode,     \* where the generator is
          made,     \* values made so far
          nodes,    \* nodes visited so far
          used      \* history: the last operands that had been kept

vars == <<regs, words, frames, mode, made, nodes, used>>

(* kept: the values a visitor goes on to use.  inside (history): what has  *)
(* been visited since it set them aside.                                   *)
Frame(use, at, kept) == [use |-> use, at |-> at, kept |-> kept, inside |-> {}]

Init ==
  /\ regs = [r \in Registers |-> 0]
  /\ words = <<>>
  /\ frames = <<>>
  /\ mode = "statement"
  /\ made = 0 /\ nodes = 0
  /\ used = [use |-> "none", at |-> "none", inside |-> {}, wanted |-> <<>>, found |-> <<>>]

-----------------------------------------------------------------------------
Top == Last(frames)

(* The child the innermost visitor waits for at that point has returned.   *)
Back(use, at) ==
  mode = "return" /\ frames # <<>> /\ Top.use = use /\ Top.at = at

(* An expression may be visited; a place is a designator's address.        *)
Expression == mode = "visit"
Place == mode \in {"visit", "address"}

(* A statement may be visited: in a body, or at the top.                   *)
Statement == mode = "statement" /\ (frames # <<>> => Top.at = "body")

(* What is visited is inside all that waits.                               *)
Noted(use) == [k \in DOMAIN frames |-> [frames[k] EXCEPT !.inside = @ \cup {use}]]

Node == nodes < MaxNodes /\ nodes' = nodes + 1

(* A visitor starts, and waits for its first child.                        *)
Enter(f) == Node /\ frames' = Append(Noted(f.use), f)

(* It goes on with another part of the same kind as the first.             *)
Again(f) == Node /\ frames' = Append(Front(Noted(f.use)), f)

(* It waits for another child, and keeps these.                            *)
Wait(at, kept) == frames' = Append(Front(frames), Frame(Top.use, at, kept))

Leave == frames' = Front(frames)

(* A new value in a0, the others as in rs.                                 *)
Result(rs) == made' = made + 1 /\ regs' = [rs EXCEPT !["a0"] = made']

Uses(wanted, found) ==
  used' = [use |-> Top.use, at |-> Top.at, inside |-> Top.inside,
           wanted |-> wanted, found |-> found]

(* Slip: an expression without code.                                       *)
LeafNoCode ==
  /\ Place /\ mode' = "return"
  /\ UNCHANGED <<regs, made, words, frames, nodes, used>>

Leaf ==
  /\ Place /\ mode' = "return"
  /\ Result(regs)
  /\ UNCHANGED <<words, frames, nodes, used>>

-----------------------------------------------------------------------------
(* visit(BinaryExpr): the left operand waits on the stack; integers go     *)
(* through t0 and t1, REAL through t1 and t2.                              *)
Left(use) == IF use = "Binary" THEN "t0" ELSE "t1"
Right(use) == IF use = "Binary" THEN "t1" ELSE "t2"

BeginBinary ==
  /\ Expression /\ mode' = mode
  /\ \E use \in {"Binary", "Real"} : Enter(Frame(use, "lhs", <<>>))
  /\ UNCHANGED <<regs, words, made, used>>

BinaryLhs ==
  /\ \E use \in {"Binary", "Real"} : Back(use, "lhs")
  /\ words' = Append(words, regs["a0"])
  /\ regs' = IF Top.use = "Real" THEN [regs EXCEPT !["t1"] = regs["a0"]] ELSE regs
  /\ Wait("rhs", <<regs["a0"]>>) /\ mode' = "visit"
  /\ UNCHANGED <<made, nodes, used>>

(* Slip: the left operand is left in its register.                         *)
BinaryEndNoStack ==
  /\ \E use \in {"Binary", "Real"} : Back(use, "rhs")
  /\ LET rs == [regs EXCEPT ![Right(Top.use)] = regs["a0"]]
     IN  Uses(Top.kept, <<rs[Left(Top.use)]>>) /\ Result(rs)
  /\ words' = Front(words)
  /\ Leave /\ mode' = mode
  /\ UNCHANGED nodes

BinaryEnd ==
  /\ \E use \in {"Binary", "Real"} : Back(use, "rhs")
  /\ LET rs == [regs EXCEPT ![Right(Top.use)] = regs["a0"],
                            ![Left(Top.use)] = Last(words)]
     IN  Uses(Top.kept, <<rs[Left(Top.use)]>>) /\ Result(rs)
  /\ words' = Front(words)
  /\ Leave /\ mode' = mode
  /\ UNCHANGED nodes

(* tryEmitBuiltinCall, ABS: t0 takes the sign.                             *)
BeginAbs ==
  /\ Expression /\ mode' = mode
  /\ Enter(Frame("Abs", "arg", <<>>))
  /\ UNCHANGED <<regs, words, made, used>>

EndAbs ==
  /\ Back("Abs", "arg")
  /\ Result([regs EXCEPT !["t0"] = 0])
  /\ Leave /\ mode' = mode
  /\ UNCHANGED <<words, nodes, used>>

(* emitAddress, IndexSelector: the address so far waits in t3.             *)
BeginIndex ==
  /\ Place /\ mode' = "visit"
  /\ made' = made + 1
  /\ regs' = [regs EXCEPT !["a0"] = made', !["t3"] = made']
  /\ Enter(Frame("Index", "index", <<made'>>))
  /\ UNCHANGED <<words, used>>

(* An element's size other than 1 and 4 is put into t4.                    *)
EndIndex ==
  /\ Back("Index", "index")
  /\ Uses(Top.kept, <<regs["t3"]>>)
  /\ \E big \in BOOLEAN : Result(IF big THEN [regs EXCEPT !["t4"] = 0] ELSE regs)
  /\ Leave /\ mode' = mode
  /\ UNCHANGED <<words, nodes>>

(* Another index follows.                                                  *)
NextIndex ==
  /\ Back("Index", "index")
  /\ Uses(Top.kept, <<regs["t3"]>>)
  /\ made' = made + 1
  /\ regs' = [regs EXCEPT !["a0"] = made', !["t3"] = made']
  /\ Again(Frame("Index", "index", <<made'>>)) /\ mode' = "visit"
  /\ UNCHANGED words

(* visit(DesignatorExpr) with arguments: all but the last are pushed, then *)
(* popped into their registers.                                            *)
BeginCall ==
  /\ Expression /\ mode' = mode
  /\ Enter(Frame("Call", "arg", <<>>))
  /\ UNCHANGED <<regs, words, made, used>>

(* Arguments but the first are moved to their register as well.            *)
Moved == IF Top.kept = <<>> THEN regs
         ELSE [regs EXCEPT ![A[Len(Top.kept) + 1]] = regs["a0"]]

CallArg ==
  /\ Back("Call", "arg") /\ Len(Top.kept) + 1 < ArgRegs /\ Len(Top.kept) + 1 < MaxArgs
  /\ regs' = Moved
  /\ words' = Append(words, regs["a0"])
  /\ Wait("arg", Append(Top.kept, regs["a0"])) /\ mode' = "visit"
  /\ UNCHANGED <<made, nodes, used>>

(* What a procedure leaves in the registers is its own.                    *)
Called == Result([r \in Registers |-> 0])

(* n arguments; one more than there are registers is not even evaluated.   *)
CallEnd ==
  /\ Back("Call", "arg")
  /\ LET last == Len(Top.kept) + 1
     IN  \E n \in last .. MaxArgs :
           LET ws   == IF n = last THEN words ELSE Append(words, regs["a0"])
               left == Len(ws) - (n - 1)
           IN  /\ n = last \/ last = ArgRegs
               /\ words' = SubSeq(ws, 1, left)
               /\ Uses(Append(Top.kept, regs["a0"]),
                       [i \in 1 .. last |-> IF i < n THEN ws[left + i] ELSE Moved[A[i]]])
  /\ Called
  /\ Leave /\ mode' = mode
  /\ UNCHANGED nodes

CallNothing ==
  /\ Expression /\ mode' = "return"
  /\ Node /\ frames' = Noted("Call")
  /\ Called
  /\ UNCHANGED <<words, used>>

-----------------------------------------------------------------------------
(* visit(SetExpr): the set so far is in a0.  A single element has it       *)
(* pushed; a range a .. b pushes a instead.                                *)
FirstPart(use) == IF use = "Single" THEN "value" ELSE "low"

PushedFirst(use, ws, set) == IF use = "Single" THEN Append(ws, set) ELSE ws

BeginSet ==
  /\ Expression /\ mode' = mode
  /\ Result(regs)
  /\ \E use \in {"Single", "Range"} :
       /\ Enter(Frame(use, FirstPart(use), <<made'>>))
       /\ words' = PushedFirst(use, words, made')
  /\ UNCHANGED used

(* The set in a0 is complete, or gets another element.                     *)
Element(rs, ws) ==
  /\ Result(rs)
  /\ \/ Leave /\ mode' = mode /\ words' = ws /\ UNCHANGED nodes
     \/ \E use \in {"Single", "Range"} :
          /\ Again(Frame(use, FirstPart(use), <<made'>>)) /\ mode' = "visit"
          /\ words' = PushedFirst(use, ws, made')

EndSingle ==
  /\ Back("Single", "value")
  /\ Uses(Top.kept, <<Last(words)>>)
  /\ Element([regs EXCEPT !["t5"] = 0], Front(words))

RangeLow ==
  /\ Back("Range", "low")
  /\ regs' = [regs EXCEPT !["t2"] = regs["a0"]]
  /\ words' = Append(words, regs["a0"])
  /\ Wait("high", Append(Top.kept, regs["a0"])) /\ mode' = "visit"
  /\ UNCHANGED <<made, nodes, used>>

(* t2 runs from low to high in t3, t4 collects; then t4 is joined to a0.   *)
EndRange ==
  /\ Back("Range", "high")
  /\ Uses(Top.kept, <<regs["a0"], Last(words)>>)
  /\ Element([regs EXCEPT !["t2"] = 0, !["t3"] = regs["a0"], !["t4"] = 0, !["t5"] = 0],
             Front(words))

-----------------------------------------------------------------------------
(* Statements.                                                             *)
Begin(use, at, child) ==
  /\ Statement /\ mode' = child
  /\ Enter(Frame(use, at, <<>>))
  /\ UNCHANGED <<regs, words, made, used>>

End == Leave /\ mode' = "statement"

(* A condition, RETURN, what is written out: used as soon as it is there.  *)
BeginTest == Begin("Test", "value", "visit")

EndTest ==
  /\ Back("Test", "value")
  /\ End
  /\ UNCHANGED <<regs, words, made, nodes, used>>

(* visit(AssignStmt)                                                       *)
BeginAssign == Begin("Assign", "rhs", "visit")

AssignValue ==
  /\ Back("Assign", "rhs")
  /\ words' = Append(words, regs["a0"])
  /\ Wait("lhs", <<regs["a0"]>>) /\ mode' = "address"
  /\ UNCHANGED <<regs, made, nodes, used>>

(* Slip: the word is read and stays.                                       *)
EndAssignKeepsWord ==
  /\ Back("Assign", "lhs")
  /\ regs' = [regs EXCEPT !["t0"] = Last(words)]
  /\ Uses(Top.kept, <<regs'["t0"]>>)
  /\ End
  /\ UNCHANGED <<words, made, nodes>>

EndAssign ==
  /\ Back("Assign", "lhs")
  /\ regs' = [regs EXCEPT !["t0"] = Last(words)]
  /\ words' = Front(words)
  /\ Uses(Top.kept, <<regs'["t0"]>>)
  /\ End
  /\ UNCHANGED <<made, nodes>>

(* INC(x, n) and DEC(x, n): the address in t2, the old value in t0.        *)
BeginInc == Begin("Inc", "place", "address")

IncPlace ==
  /\ Back("Inc", "place")
  /\ made' = made + 1
  /\ regs' = [regs EXCEPT !["t2"] = regs["a0"], !["t0"] = made']
  /\ \/ Wait("by", <<made', regs["a0"]>>) /\ mode' = "visit"
     \/ End
  /\ UNCHANGED <<words, nodes, used>>

EndInc ==
  /\ Back("Inc", "by")
  /\ Uses(Top.kept, <<regs["t0"], regs["t2"]>>)
  /\ regs' = [regs EXCEPT !["t0"] = 0]
  /\ End
  /\ UNCHANGED <<words, made, nodes>>

(* NEW(p), In.Int(x), In.Char(x): what the system returns waits in t0.     *)
BeginRead ==
  /\ Statement /\ mode' = "address"
  /\ made' = made + 1
  /\ regs' = [regs EXCEPT !["a0"] = made', !["t0"] = made']
  /\ Enter(Frame("Read", "place", <<made'>>))
  /\ UNCHANGED <<words, used>>

EndRead ==
  /\ Back("Read", "place")
  /\ Uses(Top.kept, <<regs["t0"]>>)
  /\ End
  /\ UNCHANGED <<regs, words, made, nodes>>

(* visit(ForStmt).  t2 takes the address of a global variable.             *)
BeginFor == Begin("For", "from", "visit")

(* Slip: the variable waits where it was loaded.                           *)
BoundInT0 == "t0"

(* The variable waits for the bound in t5.                                 *)
Bound == "t5"

(* The variable is loaded into t0, and from there to where it waits.       *)
Loaded(r) ==
  /\ made' = made + 1
  /\ \E global \in BOOLEAN :
       regs' = [regs EXCEPT !["t0"] = made', ![r] = made',
                            !["t2"] = IF global THEN 0 ELSE @]

ForFrom ==
  /\ Back("For", "from")
  /\ Loaded(Bound)
  /\ Wait("to", <<made'>>) /\ mode' = "visit"
  /\ UNCHANGED <<words, nodes, used>>

ForTest ==
  /\ Back("For", "to")
  /\ Uses(Top.kept, <<regs[Bound]>>)
  /\ Wait("body", <<>>) /\ mode' = "statement"
  /\ UNCHANGED <<regs, words, made, nodes>>

(* Behind the body the variable is loaded again; BY is an expression.      *)
ForStep ==
  /\ Statement /\ frames # <<>> /\ Top.use = "For"
  /\ Loaded("t0")
  /\ \/ Wait("by", <<made'>>) /\ mode' = "visit"
     \/ End
  /\ UNCHANGED <<words, nodes, used>>

EndFor ==
  /\ Back("For", "by")
  /\ Uses(Top.kept, <<regs["t0"]>>)
  /\ \E global \in BOOLEAN :
       regs' = [regs EXCEPT !["t0"] = 0, !["t2"] = IF global THEN 0 ELSE @]
  /\ End
  /\ UNCHANGED <<words, made, nodes>>

(* visit(CaseStmt): the value waits in t6 while labels are compared.       *)
BeginCase == Begin("Case", "value", "visit")

CaseValue ==
  /\ Back("Case", "value")
  /\ regs' = [regs EXCEPT !["t6"] = regs["a0"]]
  /\ Wait("label", <<regs["a0"]>>) /\ mode' = "visit"
  /\ UNCHANGED <<words, made, nodes, used>>

(* To the next label, of this alternative or another, to a body, or out.   *)
CaseLabel ==
  /\ Back("Case", "label")
  /\ Uses(Top.kept, <<regs["t6"]>>)
  /\ \/ Node /\ frames' = frames /\ mode' = "visit"
     \/ UNCHANGED nodes /\ Wait("body", <<>>) /\ mode' = "statement"
     \/ UNCHANGED nodes /\ End
  /\ UNCHANGED <<regs, words, made>>

EndCase ==
  /\ Statement /\ frames # <<>> /\ Top.use = "Case"
  /\ End
  /\ UNCHANGED <<regs, words, made, nodes, used>>

-----------------------------------------------------------------------------
Finished == mode = "statement" /\ frames = <<>> /\ UNCHANGED vars

Next ==
  \/ Leaf \/ BeginBinary \/ BinaryLhs \/ BinaryEnd \/ BeginAbs \/ EndAbs
  \/ BeginIndex \/ EndIndex \/ NextIndex
  \/ BeginCall \/ CallArg \/ CallEnd \/ CallNothing
  \/ BeginSet \/ EndSingle \/ RangeLow \/ EndRange
  \/ BeginTest \/ EndTest \/ BeginAssign \/ AssignValue \/ EndAssign
  \/ BeginInc \/ IncPlace \/ EndInc \/ BeginRead \/ EndRead
  \/ BeginFor \/ ForFrom \/ ForTest \/ ForStep \/ EndFor
  \/ BeginCase \/ CaseValue \/ CaseLabel \/ EndCase
  \/ Finished

Spec == Init /\ [][Next]_vars

-----------------------------------------------------------------------------
(* Properties. *)
Constructs == {"Binary", "Real", "Abs", "Index", "Call", "Single", "Range",
          "Test", "Assign", "Inc", "Read", "For", "Case"}

(* The generator's state; a visitor waits for each child that is visited.  *)
TypeOK ==
  /\ regs \in [Registers -> 0 .. made]
  /\ words \in Seq(1 .. made)
  /\ \A k \in 1 .. Len(frames) :
       frames[k].use \in Constructs /\ frames[k].kept \in Seq(1 .. made)
  /\ mode \in {"statement", "visit", "address", "return"}
  /\ mode # "statement" => frames # <<>>
  /\ mode = "return" => regs["a0"] > 0
  /\ made \in Nat /\ nodes \in 0 .. MaxNodes

(* No statement leaves a word on the stack or takes one that is not its    *)
(* own, whatever its expressions do: RETURN and the end of a procedure     *)
(* find ra and s0 where the prologue put them.                             *)
StackReturns == mode = "statement" => words = <<>>

(* What a visitor keeps on the stack it finds again, whatever it contains: *)
(* left operands, assigned values, arguments, the set behind a single      *)
(* element and the lower end of a range (not the set behind a range, which *)
(* is not kept at all).                                                    *)
KeptOnStack ==
  /\ used.use \in {"Binary", "Real", "Call", "Assign", "Single"} => used.found = used.wanted
  /\ used.use = "Range" => used.found[2] = used.wanted[2]

(* The constructs that overwrite a register that is relied upon.           *)
Spoilers(use, at) ==
  CASE use = "Index"              -> {"Index", "Range", "Call"}
    [] use = "Inc"                -> {"Binary", "Abs", "Real", "Range", "Call"}
    [] use = "Read"               -> {"Binary", "Abs", "Call"}
    [] use = "For" /\ at = "to"   -> {"Single", "Range", "Call"}
    [] use = "For" /\ at = "by"   -> {"Binary", "Abs", "Call"}
    [] use = "Case"               -> {"Call"}

(* What a visitor keeps in a register it finds again, unless it contains   *)
(* one of the few constructs that use this register.                       *)
KeptInRegister ==
  used.use \in {"Index", "Inc", "Read", "For", "Case"} =>
    \/ used.found = used.wanted
    \/ used.inside \cap Spoilers(used.use, used.at) # {}
=============================================================================

------------------------------ MODULE IRCode ------------------------------
(***************************************************************************)
(* Three-address code with its operands (src/src/ir/{Value,Instruction}.h) *)
(* and what it does when it runs: the effect of each operation is that of  *)
(* the instructions RiscVIRCodeGen::emitInstr writes for it.               *)
(*                                                                         *)
(* An instruction keeps the operands it reads in one sequence (the code    *)
(* has src1, src2 and args for them).  The address of a variable is its    *)
(* name: temporaries that hold addresses are left out.  A body is a        *)
(* function from block numbers to instructions, since blocks can go.       *)
(***************************************************************************)
EXTENDS Integers, Sequences, FiniteSets

Temp(n)  == [kind |-> "Temp", val |-> n]
Const(c) == [kind |-> "Const", val |-> c]

IsTemp(v)  == v.kind = "Temp"
IsConst(v) == v.kind = "Const"

(* Jumps and returns end a block. *)
Terminators == {"Branch", "Jump", "Ret"}

Comparisons == {"Eq", "Neq", "Lt", "Le", "Gt", "Ge"}

(* Bitwise And and Or and the operations on REAL are left out. *)
Binary == {"Add", "Sub", "Mul", "Div", "Mod"} \cup Comparisons

Unary == {"Neg", "Not", "Copy"}

(* NoDst: hasDst is false. *)
NoDst == 0

(* The one variable, and the name of an instruction without one. *)
X == "x"
NoName == "none"

(* dst is a temporary's number, name the variable of a Load or Store, to   *)
(* the targets of a Jump or Branch.                                        *)
Code(op, dst, srcs, name, to) ==
  [op |-> op, dst |-> dst, srcs |-> srcs, name |-> name, to |-> to]

Compute(op, dst, srcs) == Code(op, dst, srcs, NoName, <<>>)
LoadFrom(dst, x)       == Code("Load", dst, <<>>, x, <<>>)
StoreTo(x, v)          == Code("Store", NoDst, <<v>>, x, <<>>)
WriteOut(v)            == Code("Write", NoDst, <<v>>, NoName, <<>>)
JumpTo(b)              == Code("Jump", NoDst, <<>>, NoName, <<b>>)
BranchOn(v, b, other)  == Code("Branch", NoDst, <<v>>, NoName, <<b, other>>)
Return(srcs)           == Code("Ret", NoDst, srcs, NoName, <<>>)

IsTerminator(i) == i.op \in Terminators

Operand == [kind : {"Temp", "Const"}, val : Int]

Instr ==
  [op : Binary \cup Unary \cup Terminators \cup {"Load", "Store", "Write"},
   dst : Nat, srcs : Seq(Operand), name : {X, NoName}, to : Seq(Nat)]

(* The operands an operation has, and whether it has a result. *)
WellFormed(i) ==
  /\ i.op \in Binary => Len(i.srcs) = 2 /\ i.dst # NoDst
  /\ i.op \in Unary => Len(i.srcs) = 1 /\ i.dst # NoDst
  /\ i.op \in {"Store", "Write", "Branch"} => Len(i.srcs) = 1 /\ i.dst = NoDst
  /\ i.op = "Load" => i.srcs = <<>> /\ i.dst # NoDst

OperandTemps(i) == {i.srcs[k].val : k \in {j \in 1 .. Len(i.srcs) : IsTemp(i.srcs[j])}}

-----------------------------------------------------------------------------
(* Arithmetic.  Both C++ and RISC-V round a quotient towards zero; they    *)
(* part ways at a zero divisor, which RISC-V gives results for.            *)
AbsValue(a) == IF a < 0 THEN -a ELSE a

Quotient(a, b) ==
  IF (a < 0) = (b < 0) THEN AbsValue(a) \div AbsValue(b)
                       ELSE -(AbsValue(a) \div AbsValue(b))

Bit(p) == IF p THEN 1 ELSE 0

Compare(op, a, b) ==
  CASE op = "Eq"  -> Bit(a = b)
    [] op = "Neq" -> Bit(a # b)
    [] op = "Lt"  -> Bit(a < b)
    [] op = "Le"  -> Bit(a <= b)
    [] op = "Gt"  -> Bit(a > b)
    [] op = "Ge"  -> Bit(a >= b)

Compute2(op, a, b) ==
  CASE op = "Add" -> a + b
    [] op = "Sub" -> a - b
    [] op = "Mul" -> a * b
    [] op = "Div" -> IF b = 0 THEN -1 ELSE Quotient(a, b)
    [] op = "Mod" -> IF b = 0 THEN a ELSE a - b * Quotient(a, b)
    [] OTHER      -> Compare(op, a, b)

Compute1(op, a) ==
  CASE op = "Neg"  -> -a
    [] op = "Not"  -> Bit(a = 0)
    [] op = "Copy" -> a

-----------------------------------------------------------------------------
(* A run: the block and place it is at, the temporaries written so far,    *)
(* the variables, what was written out, and how it stands.                 *)
Start(mem) ==
  [blk |-> 1, at |-> 1, env |-> <<>>, mem |-> mem, out |-> <<>>,
   answer |-> <<>>, stands |-> "running"]

Defined(m, v) == IsTemp(v) => v.val \in DOMAIN m.env

ValueOf(m, v) == IF IsConst(v) THEN v.val ELSE m.env[v.val]

Written(m, t, a) ==
  [m EXCEPT !.env = [u \in DOMAIN m.env \cup {t} |-> IF u = t THEN a ELSE m.env[u]],
            !.at = @ + 1]

Goto(m, b) == [m EXCEPT !.blk = b, !.at = 1]

Execute(m, i) ==
  LET arg(k) == ValueOf(m, i.srcs[k])
  IN  CASE i.op \in Binary   -> Written(m, i.dst, Compute2(i.op, arg(1), arg(2)))
        [] i.op \in Unary    -> Written(m, i.dst, Compute1(i.op, arg(1)))
        [] i.op = "Load"     -> Written(m, i.dst, m.mem[i.name])
        [] i.op = "Store"    -> [m EXCEPT !.mem[i.name] = arg(1), !.at = @ + 1]
        [] i.op = "Write"    -> [m EXCEPT !.out = Append(@, arg(1)), !.at = @ + 1]
        [] i.op = "Jump"     -> Goto(m, i.to[1])
        [] i.op = "Branch"   -> Goto(m, IF arg(1) # 0 THEN i.to[1] ELSE i.to[2])
        [] i.op = "Ret"      -> [m EXCEPT !.answer = [k \in 1 .. Len(i.srcs) |-> arg(k)],
                                          !.stands = "returned"]

(* A run is stuck when it reads a temporary that was never written, runs   *)
(* off the end of a block or jumps to a block that is not there.           *)
Step(bs, m) ==
  IF m.stands # "running" THEN m
  ELSE IF m.blk \in DOMAIN bs /\ m.at \in 1 .. Len(bs[m.blk])
          /\ \A k \in 1 .. Len(bs[m.blk][m.at].srcs) : Defined(m, bs[m.blk][m.at].srcs[k])
       THEN Execute(m, bs[m.blk][m.at])
       ELSE [m EXCEPT !.stands = "stuck"]

(* The instructions of a body: a block and a place in it.                  *)
Places(bs) == UNION {{b} \X DOMAIN bs[b] : b \in DOMAIN bs}

(* A body that only jumps forward runs each of its instructions at most    *)
(* once.                                                                   *)
Size(bs) == Cardinality(Places(bs))

Run(bs, mem) ==
  LET after[n \in Nat] == IF n = 0 THEN Start(mem) ELSE Step(bs, after[n - 1])
  IN  after[Size(bs)]

(* What can be seen of a run. *)
Seen(m) == <<m.stands, m.answer, m.mem, m.out>>
=============================================================================

--------------------------- MODULE Passes_proofs ---------------------------
(***************************************************************************)
(* Proofs about the passes: bodies are well typed until dead code is       *)
(* eliminated, no run of a body ever gets stuck, and none of the three     *)
(* passes can be seen.  They hold for trees of any size, any literals, any *)
(* operators and any inputs.                                               *)
(***************************************************************************)
EXTENDS Passes, TLAPS, FiniteSetTheorems, WellFoundedInduction

(***************************************************************************)
(* Part 1.  A step of a folded body is the step of the body.               *)
(***************************************************************************)

(* What the three kinds of instructions that folding is about do.          *)
LEMMA ExecuteBinary ==
  ASSUME NEW i, NEW m, i.op \in Binary
  PROVE  Execute(m, i)
         = Written(m, i.dst, Compute2(i.op, ValueOf(m, i.srcs[1]), ValueOf(m, i.srcs[2])))
BY DEF Execute, Binary, Comparisons, Unary

(* Operations with one operand.                                            *)
LEMMA ExecuteUnary ==
  ASSUME NEW i, NEW m, i.op \in Unary
  PROVE  Execute(m, i) = Written(m, i.dst, Compute1(i.op, ValueOf(m, i.srcs[1])))
BY DEF Execute, Binary, Comparisons, Unary

(* What is put in place of a folded instruction: a copy of a constant.     *)
LEMMA ExecuteCopy ==
  ASSUME NEW m, NEW t, NEW c
  PROVE  Execute(m, Compute("Copy", t, <<Const(c)>>)) = Written(m, t, c)
<1> DEFINE i == Compute("Copy", t, <<Const(c)>>)
<1>1. i.op = "Copy" /\ i.dst = t /\ i.srcs[1] = Const(c)
  BY DEF Compute, Code
<1>2. i.op \in Unary
  BY <1>1 DEF Unary
<1>3. Compute1("Copy", ValueOf(m, Const(c))) = c
  BY DEF Compute1, ValueOf, Const, IsConst
<1> HIDE DEF i
<1>4. Execute(m, i) = Written(m, t, c)
  BY <1>1, <1>2, <1>3, ExecuteUnary
<1> QED BY <1>4 DEF i

(* The processor does the same with a folded instruction, in any state,    *)
(* unless the divisor is 0.                                                *)
LEMMA FoldedInstrExecutes ==
  ASSUME NEW i \in Instr, WellFormed(i), NEW m,
         ~ (i.op \in {"Div", "Mod"} /\ i.srcs[2] = Const(0))
  PROVE  Execute(m, FoldInstr(i)) = Execute(m, i)
<1>1. CASE i.op \in Binary /\ \A k \in DOMAIN i.srcs : IsConst(i.srcs[k])
  <2> DEFINE a == i.srcs[1].val
             b == i.srcs[2].val
             c == Folded(i.op, a, b)
  <2>1. /\ i.srcs \in Seq(Operand) /\ Len(i.srcs) = 2
        /\ IsConst(i.srcs[1]) /\ IsConst(i.srcs[2])
    BY <1>1 DEF WellFormed, Instr
  <2>2. i.srcs[2] \in Operand
    BY <2>1
  <2>3. i.op \in {"Div", "Mod"} => b # 0
    BY <2>1, <2>2 DEF Const, IsConst, Operand
  <2>4. c = Compute2(i.op, a, b)
    BY <2>3 DEF Folded
  <2>5. FoldInstr(i) = Compute("Copy", i.dst, <<Const(c)>>)
    BY <1>1 DEF FoldInstr
  <2> HIDE DEF c
  <2>6. Execute(m, i) = Written(m, i.dst, Compute2(i.op, a, b))
    <3>1. ValueOf(m, i.srcs[1]) = a /\ ValueOf(m, i.srcs[2]) = b
      BY <2>1 DEF ValueOf
    <3> QED BY <1>1, <3>1, ExecuteBinary
  <2>7. Execute(m, Compute("Copy", i.dst, <<Const(c)>>)) = Written(m, i.dst, c)
    BY ExecuteCopy
  <2> QED BY <2>4, <2>5, <2>6, <2>7
<1>2. CASE /\ ~ (i.op \in Binary /\ \A k \in DOMAIN i.srcs : IsConst(i.srcs[k]))
           /\ i.op \in {"Neg", "Not"} /\ IsConst(i.srcs[1])
  <2> DEFINE c == Compute1(i.op, i.srcs[1].val)
  <2>1. FoldInstr(i) = Compute("Copy", i.dst, <<Const(c)>>)
    BY <1>2 DEF FoldInstr
  <2>2. Execute(m, i) = Written(m, i.dst, c)
    <3>1. ValueOf(m, i.srcs[1]) = i.srcs[1].val
      BY <1>2 DEF ValueOf
    <3>2. i.op \in Unary
      BY <1>2 DEF Unary
    <3> QED BY <3>1, <3>2, ExecuteUnary
  <2> HIDE DEF c
  <2>3. Execute(m, Compute("Copy", i.dst, <<Const(c)>>)) = Written(m, i.dst, c)
    BY ExecuteCopy
  <2> QED BY <2>1, <2>2, <2>3
<1>3. CASE /\ ~ (i.op \in Binary /\ \A k \in DOMAIN i.srcs : IsConst(i.srcs[k]))
           /\ ~ (i.op \in {"Neg", "Not"} /\ IsConst(i.srcs[1]))
  BY <1>3 DEF FoldInstr
<1> QED BY <1>1, <1>2, <1>3

(* What an instruction reads has been written, before and after folding.   *)
LEMMA FoldedInstrReads ==
  ASSUME NEW i \in Instr, WellFormed(i), NEW m
  PROVE  (\A k \in 1 .. Len(FoldInstr(i).srcs) : Defined(m, FoldInstr(i).srcs[k]))
         <=> (\A k \in 1 .. Len(i.srcs) : Defined(m, i.srcs[k]))
<1>1. ASSUME NEW c, FoldInstr(i) = Compute("Copy", i.dst, <<Const(c)>>)
      PROVE  \A k \in 1 .. Len(FoldInstr(i).srcs) : Defined(m, FoldInstr(i).srcs[k])
  <2>1. FoldInstr(i).srcs = <<Const(c)>>
    <3>1. Compute("Copy", i.dst, <<Const(c)>>).srcs = <<Const(c)>>
      BY DEF Compute, Code
    <3> QED BY <1>1, <3>1
  <2>2. ~ IsTemp(Const(c))
    BY DEF Const, IsTemp
  <2> QED BY <2>1, <2>2 DEF Defined
<1>2. CASE i.op \in Binary /\ \A k \in DOMAIN i.srcs : IsConst(i.srcs[k])
  <2>1. \E c : FoldInstr(i) = Compute("Copy", i.dst, <<Const(c)>>)
    BY <1>2 DEF FoldInstr
  <2>2. \A k \in 1 .. Len(i.srcs) : Defined(m, i.srcs[k])
    BY <1>2 DEF Defined, IsTemp, IsConst, Instr
  <2> QED BY <1>1, <2>1, <2>2
<1>3. CASE /\ ~ (i.op \in Binary /\ \A k \in DOMAIN i.srcs : IsConst(i.srcs[k]))
           /\ i.op \in {"Neg", "Not"} /\ IsConst(i.srcs[1])
  <2>1. \E c : FoldInstr(i) = Compute("Copy", i.dst, <<Const(c)>>)
    BY <1>3 DEF FoldInstr
  <2>2. Len(i.srcs) = 1
    BY <1>3 DEF WellFormed, Unary
  <2>3. \A k \in 1 .. Len(i.srcs) : Defined(m, i.srcs[k])
    BY <1>3, <2>2 DEF Defined, IsTemp, IsConst
  <2> QED BY <1>1, <2>1, <2>3
<1>4. CASE /\ ~ (i.op \in Binary /\ \A k \in DOMAIN i.srcs : IsConst(i.srcs[k]))
           /\ ~ (i.op \in {"Neg", "Not"} /\ IsConst(i.srcs[1]))
  BY <1>4 DEF FoldInstr
<1> QED BY <1>2, <1>3, <1>4

(* Folding keeps the blocks and the places in them.                        *)
LEMMA FoldedBody ==
  ASSUME NEW bs, NEW t, ValidBody(bs, t)
  PROVE  LET fs == OnEach(FoldInstr, bs)
         IN  /\ DOMAIN fs = DOMAIN bs
             /\ \A b \in DOMAIN bs :
                  /\ Len(fs[b]) = Len(bs[b])
                  /\ \A k \in 1 .. Len(bs[b]) : fs[b][k] = FoldInstr(bs[b][k])
BY DEF OnEach, ValidBody

(* One step, from any state.                                               *)
LEMMA FoldedStep ==
  ASSUME NEW bs, NEW t, ValidBody(bs, t), ~ DividesByZero(bs), NEW m
  PROVE  Step(OnEach(FoldInstr, bs), m) = Step(bs, m)
<1> DEFINE fs == OnEach(FoldInstr, bs)
<1>1. /\ DOMAIN fs = DOMAIN bs
      /\ \A b \in DOMAIN bs :
           /\ Len(fs[b]) = Len(bs[b])
           /\ \A k \in 1 .. Len(bs[b]) : fs[b][k] = FoldInstr(bs[b][k])
  BY FoldedBody
<1> HIDE DEF fs
<1>2. CASE m.blk \in DOMAIN bs /\ m.at \in 1 .. Len(bs[m.blk])
  <2> DEFINE i == bs[m.blk][m.at]
  <2>1. i \in Instr /\ WellFormed(i)
    BY <1>2 DEF ValidBody, Owned
  <2>2. m.at \in DOMAIN bs[m.blk]
    BY <1>2 DEF ValidBody
  <2>3. ~ (i.op \in {"Div", "Mod"} /\ i.srcs[2] = Const(0))
    BY <1>2, <2>2 DEF DividesByZero
  <2>4. fs[m.blk][m.at] = FoldInstr(i)
    BY <1>1, <1>2
  <2> HIDE DEF i
  <2>5. Execute(m, FoldInstr(i)) = Execute(m, i)
    BY <2>1, <2>3, FoldedInstrExecutes
  <2>6. (\A k \in 1 .. Len(FoldInstr(i).srcs) : Defined(m, FoldInstr(i).srcs[k]))
        <=> (\A k \in 1 .. Len(i.srcs) : Defined(m, i.srcs[k]))
    BY <2>1, FoldedInstrReads
  <2>7. Step(fs, m) = Step(bs, m)
    <3>1. fs[m.blk][m.at] = FoldInstr(i) /\ bs[m.blk][m.at] = i
      BY <2>4 DEF i
    <3>2. m.blk \in DOMAIN fs /\ m.at \in 1 .. Len(fs[m.blk])
      BY <1>1, <1>2
    <3> QED BY <1>2, <3>1, <3>2, <2>5, <2>6 DEF Step
  <2> QED BY <2>7 DEF fs
<1>3. CASE ~ (m.blk \in DOMAIN bs /\ m.at \in 1 .. Len(bs[m.blk]))
  <2>1. Step(fs, m) = Step(bs, m)
    <3>1. ~ (m.blk \in DOMAIN fs /\ m.at \in 1 .. Len(fs[m.blk]))
      BY <1>1, <1>3
    <3> QED BY <1>3, <3>1 DEF Step
  <2> QED BY <2>1 DEF fs
<1> QED BY <1>2, <1>3

(* Bodies that step alike and are of one size run alike.                   *)
LEMMA RunsAlike ==
  ASSUME NEW bs, NEW cs, NEW mem, Size(bs) = Size(cs),
         \A m : Step(bs, m) = Step(cs, m)
  PROVE  Run(bs, mem) = Run(cs, mem)
BY ZenonT(60) DEF Run

(* Folding keeps the size.                                                 *)
LEMMA FoldedSize ==
  ASSUME NEW bs, NEW t, ValidBody(bs, t)
  PROVE  Size(OnEach(FoldInstr, bs)) = Size(bs)
<1> DEFINE fs == OnEach(FoldInstr, bs)
<1>1. DOMAIN fs = DOMAIN bs /\ \A b \in DOMAIN bs : DOMAIN fs[b] = DOMAIN bs[b]
  BY DEF OnEach
<1> HIDE DEF fs
<1>2. Places(fs) = Places(bs)
  BY <1>1 DEF Places
<1>3. Size(fs) = Size(bs)
  BY <1>2 DEF Size
<1> QED BY <1>3 DEF fs

(* A body that does not divide by a constant 0 can do nothing that its     *)
(* folded form does not do.                                                *)
THEOREM FoldedBehaves ==
  ASSUME NEW bs, NEW t, ValidBody(bs, t), ~ DividesByZero(bs)
  PROVE  Behaviour(OnEach(FoldInstr, bs)) = Behaviour(bs)
<1> DEFINE fs == OnEach(FoldInstr, bs)
<1>1. \A m : Step(fs, m) = Step(bs, m)
  BY FoldedStep
<1>2. Size(fs) = Size(bs)
  BY FoldedSize
<1> HIDE DEF fs
<1>3. ASSUME NEW a \in Inputs
      PROVE  Run(fs, X :> a) = Run(bs, X :> a)
  BY <1>1, <1>2, RunsAlike
<1>4. Behaviour(fs) = Behaviour(bs)
  BY <1>3 DEF Behaviour
<1> QED BY <1>4 DEF fs

(***************************************************************************)
(* Part 2.  Lowering produces typed bodies.  While it is under way a body  *)
(* is a sequence of blocks, and what visitors still keep - the current     *)
(* block, values, the blocks of active IFs - belongs to it.                *)
(***************************************************************************)

(* A value that belongs to a body with t temporaries.                      *)
OwnedValue(v, t) == v \in Operand /\ (IsTemp(v) => v.val \in 1 .. t)

Body(bs, t) ==
  /\ bs \in Seq(Seq(Instr))
  /\ \A b \in 1 .. Len(bs) : \A k \in 1 .. Len(bs[b]) : Owned(bs[b][k], t)

Frame == [at : {"cond", "then", "else"}, merge : Nat, else : Nat]

FrameIn(f, n) == f.merge \in 1 .. n /\ (f.at # "cond" => f.else \in 1 .. n)

Values(vs, t) == vs \in Seq(Operand) /\ \A k \in 1 .. Len(vs) : OwnedValue(vs[k], t)

Frames(fs, n) == fs \in Seq(Frame) /\ \A k \in 1 .. Len(fs) : FrameIn(fs[k], n)

Building ==
  /\ Body(blocks, temps)
  /\ cur \in 1 .. Len(blocks)
  /\ Values(vals, temps)
  /\ Frames(merges, Len(blocks))

IInv ==
  /\ phase \in {"building", "built", "folded", "propagated", "done"}
  /\ nodes \in 0 .. MaxNodes /\ temps \in Nat
  /\ phase = "building" => Building
  /\ phase # "building" => ValidBody(blocks, temps)

(* A body under construction is a valid one.                               *)
LEMMA BodyIsValid ==
  ASSUME NEW bs, NEW t, Body(bs, t)
  PROVE  ValidBody(bs, t) /\ DOMAIN bs = 1 .. Len(bs)
BY DEF Body, ValidBody

(* More temporaries do no harm.                                            *)
LEMMA BodyGrows ==
  ASSUME NEW bs, NEW t \in Nat, NEW u \in Nat, t <= u, Body(bs, t)
  PROVE  Body(bs, u)
<1>1. \A i : Owned(i, t) => Owned(i, u)
  BY DEF Owned
<1> QED BY <1>1 DEF Body

(* More temporaries do no harm to the values either.                       *)
LEMMA ValuesGrow ==
  ASSUME NEW vs, NEW t \in Nat, NEW u \in Nat, t <= u, Values(vs, t)
  PROVE  Values(vs, u)
BY DEF Values, OwnedValue, Operand

(* More blocks do no harm to the frames.                                   *)
LEMMA FramesGrow ==
  ASSUME NEW fs, NEW n \in Nat, NEW o \in Nat, n <= o, Frames(fs, n)
  PROVE  Frames(fs, o)
BY DEF Frames, FrameIn, Frame

(* emit, finishBlock and createBlock keep a body what it is.               *)
LEMMA EmitOK ==
  ASSUME NEW bs, NEW t, Body(bs, t), NEW b \in 1 .. Len(bs), NEW i, Owned(i, t)
  PROVE  Body(Emit(bs, b, i), t) /\ Len(Emit(bs, b, i)) = Len(bs)
<1>1. i \in Instr /\ bs \in Seq(Seq(Instr)) /\ bs[b] \in Seq(Instr)
  BY DEF Owned, Body
<1>a. \A k \in 1 .. Len(bs[b]) : Owned(bs[b][k], t)
  BY DEF Body
<1>b. /\ Append(bs[b], i) \in Seq(Instr) /\ Len(Append(bs[b], i)) = Len(bs[b]) + 1
      /\ \A k \in 1 .. Len(bs[b]) : Append(bs[b], i)[k] = bs[b][k]
      /\ Append(bs[b], i)[Len(bs[b]) + 1] = i
  BY <1>1
<1>c. Len(bs[b]) \in Nat
  BY <1>1
<1>d. \A k \in 1 .. Len(bs[b]) + 1 : k \in 1 .. Len(bs[b]) \/ k = Len(bs[b]) + 1
  BY <1>c
<1>2. /\ Append(bs[b], i) \in Seq(Instr)
      /\ \A k \in 1 .. Len(Append(bs[b], i)) : Owned(Append(bs[b], i)[k], t)
  BY <1>a, <1>b, <1>d
<1>3. /\ Emit(bs, b, i) \in Seq(Seq(Instr))
      /\ Len(Emit(bs, b, i)) = Len(bs)
      /\ \A c \in 1 .. Len(bs) :
           Emit(bs, b, i)[c] = IF c = b THEN Append(bs[b], i) ELSE bs[c]
  BY <1>1, <1>2 DEF Emit
<1> QED BY <1>2, <1>3 DEF Body

(* finishBlock either emits or leaves the block.                           *)
LEMMA FinishOK ==
  ASSUME NEW bs, NEW t, Body(bs, t), NEW b \in 1 .. Len(bs), NEW i, Owned(i, t)
  PROVE  Body(Finish(bs, b, i), t) /\ Len(Finish(bs, b, i)) = Len(bs)
BY EmitOK DEF Finish

(* createBlock, with what is then put into the block.                      *)
LEMMA CreateOK ==
  ASSUME NEW bs, NEW t, Body(bs, t), NEW s \in Seq(Instr),
         \A k \in 1 .. Len(s) : Owned(s[k], t)
  PROVE  Body(Append(bs, s), t) /\ Len(Append(bs, s)) = Len(bs) + 1
<1>1. bs \in Seq(Seq(Instr)) /\ Len(bs) \in Nat
  BY DEF Body
<1>2. /\ Append(bs, s) \in Seq(Seq(Instr)) /\ Len(Append(bs, s)) = Len(bs) + 1
      /\ \A b \in 1 .. Len(bs) : Append(bs, s)[b] = bs[b]
      /\ Append(bs, s)[Len(bs) + 1] = s
  BY <1>1
<1>3. ASSUME NEW b \in 1 .. Len(Append(bs, s))
      PROVE  \A k \in 1 .. Len(Append(bs, s)[b]) : Owned(Append(bs, s)[b][k], t)
  <2>1. CASE b \in 1 .. Len(bs)
    BY <1>2, <2>1 DEF Body
  <2>2. CASE b \notin 1 .. Len(bs)
    <3>1. b = Len(bs) + 1
      BY <1>1, <1>2, <2>2
    <3> QED BY <1>2, <3>1
  <2> QED BY <2>1, <2>2
<1> QED BY <1>2, <1>3 DEF Body

(* The values on the stack after an operation on the last n of them.       *)
LEMMA ResultOK ==
  ASSUME NEW t, Values(vals, t), NEW n \in 0 .. Len(vals), NEW v, OwnedValue(v, t)
  PROVE  Values(Result(n, v), t)
<1>1. v \in Operand /\ vals \in Seq(Operand) /\ Len(vals) \in Nat
  BY DEF OwnedValue, Values
<1> DEFINE s == SubSeq(vals, 1, Len(vals) - n)
<1>2. /\ s \in Seq(Operand) /\ Len(s) = Len(vals) - n
      /\ \A k \in 1 .. Len(s) : s[k] = vals[k]
  BY <1>1
<1>3. \A k \in 1 .. Len(s) : OwnedValue(s[k], t)
  BY <1>1, <1>2 DEF Values
<1> HIDE DEF s
<1>4. Values(Append(s, v), t)
  BY <1>1, <1>2, <1>3 DEF Values
<1> QED BY <1>4 DEF Result, s

(* The instructions of the visitors.                                       *)
Ops == Binary \cup Unary \cup Terminators \cup {"Load", "Store", "Write"}

(* An instruction belongs to a body when its operands do and their number  *)
(* is right.                                                               *)
LEMMA OwnedCode ==
  ASSUME NEW t \in Nat, NEW op \in Ops, NEW d \in 0 .. t, NEW ss, Values(ss, t),
         d # NoDst <=> op \in Binary \cup Unary \cup {"Load"},
         op \in Binary => Len(ss) = 2,
         op \in Unary \cup {"Store", "Write", "Branch"} => Len(ss) = 1,
         op = "Load" => ss = <<>>,
         NEW x \in {X, NoName}, NEW to \in Seq(Nat)
  PROVE  Owned(Code(op, d, ss, x, to), t)
<1> DEFINE i == Code(op, d, ss, x, to)
<1>1. i.op = op /\ i.dst = d /\ i.srcs = ss
  BY DEF Code
<1>2. d \in Nat /\ ss \in Seq(Operand)
  BY DEF Values
<1>3. i \in Instr
  BY <1>2, Zenon DEF Code, Instr, Ops
<1> HIDE DEF i
<1>4. WellFormed(i)
  BY <1>1, Zenon DEF WellFormed, Unary, Binary, Comparisons
<1>5. ASSUME NEW u \in OperandTemps(i)
      PROVE  u \in 0 .. t
  <2>1. PICK k \in 1 .. Len(i.srcs) : IsTemp(i.srcs[k]) /\ u = i.srcs[k].val
    BY <1>5 DEF OperandTemps
  <2>2. OwnedValue(i.srcs[k], t)
    BY <1>1 DEF Values
  <2> QED BY <2>1, <2>2 DEF OwnedValue
<1>6. Owned(i, t)
  BY <1>1, <1>3, <1>4, <1>5 DEF Owned
<1> QED BY <1>6 DEF i

(* The operands of an instruction with one.                                *)
LEMMA OneValue ==
  ASSUME NEW t, NEW v, OwnedValue(v, t)
  PROVE  Values(<<v>>, t) /\ Len(<<v>>) = 1
BY DEF Values, OwnedValue

(* No value is left behind a statement.                                    *)
LEMMA NoValues ==
  ASSUME NEW t
  PROVE  Values(<<>>, t) /\ Len(<<>>) = 0
BY DEF Values

(* The instructions the visitors emit, one lemma for each form.            *)
LEMMA OwnedOne ==
  ASSUME NEW t \in Nat, NEW op \in Unary, NEW d \in 1 .. t, NEW v, OwnedValue(v, t)
  PROVE  Owned(Compute(op, d, <<v>>), t)
<1> DEFINE ss == <<v>>
           to == <<>>
<1>1. Values(ss, t) /\ Len(ss) = 1
  BY OneValue, NoValues DEF Values, OwnedValue
<1>2. to \in Seq(Nat) /\ NoName \in {X, NoName}
  OBVIOUS
<1>3. op \in Ops /\ d \in 0 .. t
  BY DEF Ops, Terminators, NoDst
<1>4. d # NoDst <=> op \in Binary \cup Unary \cup {"Load"}
  BY DEF NoDst, Binary, Unary, Comparisons
<1> HIDE DEF ss, to
<1>5. Owned(Code(op, d, ss, NoName, to), t)
  BY <1>1, <1>2, <1>3, <1>4, OwnedCode DEF Binary, Unary, Comparisons
<1> QED BY <1>5 DEF ss, to, Compute

(* visit(BinaryExpr).                                                      *)
LEMMA OwnedTwo ==
  ASSUME NEW t \in Nat, NEW op \in Binary, NEW d \in 1 .. t,
         NEW v, OwnedValue(v, t), NEW w, OwnedValue(w, t)
  PROVE  Owned(Compute(op, d, <<v, w>>), t)
<1> DEFINE ss == <<v, w>>
           to == <<>>
<1>1. Values(ss, t) /\ Len(ss) = 2
  BY OneValue, NoValues DEF Values, OwnedValue
<1>2. to \in Seq(Nat) /\ NoName \in {X, NoName}
  OBVIOUS
<1>3. op \in Ops /\ d \in 0 .. t
  BY DEF Ops, Terminators, NoDst
<1>4. d # NoDst <=> op \in Binary \cup Unary \cup {"Load"}
  BY DEF NoDst, Binary, Unary, Comparisons
<1> HIDE DEF ss, to
<1>5. Owned(Code(op, d, ss, NoName, to), t)
  BY <1>1, <1>2, <1>3, <1>4, OwnedCode DEF Binary, Unary, Comparisons
<1> QED BY <1>5 DEF ss, to, Compute

(* emitLoad.                                                               *)
LEMMA OwnedLoad ==
  ASSUME NEW t \in Nat, NEW d \in 1 .. t
  PROVE  Owned(LoadFrom(d, X), t)
<1> DEFINE ss == <<>>
           to == <<>>
<1>1. Values(ss, t) /\ ss = <<>>
  BY OneValue, NoValues DEF Values, OwnedValue
<1>2. to \in Seq(Nat) /\ X \in {X, NoName}
  OBVIOUS
<1>3. "Load" \in Ops /\ d \in 0 .. t
  BY DEF Ops, Terminators, NoDst
<1>4. d # NoDst <=> "Load" \in Binary \cup Unary \cup {"Load"}
  BY DEF NoDst, Binary, Unary, Comparisons
<1> HIDE DEF ss, to
<1>5. Owned(Code("Load", d, ss, X, to), t)
  BY <1>1, <1>2, <1>3, <1>4, OwnedCode DEF Binary, Unary, Comparisons
<1> QED BY <1>5 DEF ss, to, LoadFrom

(* emitStore.                                                              *)
LEMMA OwnedStore ==
  ASSUME NEW t \in Nat, NEW v, OwnedValue(v, t)
  PROVE  Owned(StoreTo(X, v), t)
<1> DEFINE ss == <<v>>
           to == <<>>
<1>1. Values(ss, t) /\ Len(ss) = 1
  BY OneValue, NoValues DEF Values, OwnedValue
<1>2. to \in Seq(Nat) /\ X \in {X, NoName}
  OBVIOUS
<1>3. "Store" \in Ops /\ NoDst \in 0 .. t
  BY DEF Ops, Terminators, NoDst
<1>4. NoDst # NoDst <=> "Store" \in Binary \cup Unary \cup {"Load"}
  BY DEF NoDst, Binary, Unary, Comparisons
<1> HIDE DEF ss, to
<1>5. Owned(Code("Store", NoDst, ss, X, to), t)
  BY <1>1, <1>2, <1>3, <1>4, OwnedCode DEF Binary, Unary, Comparisons
<1> QED BY <1>5 DEF ss, to, StoreTo

(* Out.Int.                                                                *)
LEMMA OwnedWrite ==
  ASSUME NEW t \in Nat, NEW v, OwnedValue(v, t)
  PROVE  Owned(WriteOut(v), t)
<1> DEFINE ss == <<v>>
           to == <<>>
<1>1. Values(ss, t) /\ Len(ss) = 1
  BY OneValue, NoValues DEF Values, OwnedValue
<1>2. to \in Seq(Nat) /\ NoName \in {X, NoName}
  OBVIOUS
<1>3. "Write" \in Ops /\ NoDst \in 0 .. t
  BY DEF Ops, Terminators, NoDst
<1>4. NoDst # NoDst <=> "Write" \in Binary \cup Unary \cup {"Load"}
  BY DEF NoDst, Binary, Unary, Comparisons
<1> HIDE DEF ss, to
<1>5. Owned(Code("Write", NoDst, ss, NoName, to), t)
  BY <1>1, <1>2, <1>3, <1>4, OwnedCode DEF Binary, Unary, Comparisons
<1> QED BY <1>5 DEF ss, to, WriteOut

(* Jumps name a block.                                                     *)
LEMMA OwnedJump ==
  ASSUME NEW t \in Nat, NEW b \in Nat
  PROVE  Owned(JumpTo(b), t)
<1> DEFINE ss == <<>>
           to == <<b>>
<1>1. Values(ss, t) /\ ss = <<>>
  BY OneValue, NoValues DEF Values, OwnedValue
<1>2. to \in Seq(Nat) /\ NoName \in {X, NoName}
  OBVIOUS
<1>3. "Jump" \in Ops /\ NoDst \in 0 .. t
  BY DEF Ops, Terminators, NoDst
<1>4. NoDst # NoDst <=> "Jump" \in Binary \cup Unary \cup {"Load"}
  BY DEF NoDst, Binary, Unary, Comparisons
<1> HIDE DEF ss, to
<1>5. Owned(Code("Jump", NoDst, ss, NoName, to), t)
  BY <1>1, <1>2, <1>3, <1>4, OwnedCode DEF Binary, Unary, Comparisons
<1> QED BY <1>5 DEF ss, to, JumpTo

(* Branches test a value and name two blocks.                              *)
LEMMA OwnedBranch ==
  ASSUME NEW t \in Nat, NEW v, OwnedValue(v, t), NEW b \in Nat, NEW c \in Nat
  PROVE  Owned(BranchOn(v, b, c), t)
<1> DEFINE ss == <<v>>
           to == <<b, c>>
<1>1. Values(ss, t) /\ Len(ss) = 1
  BY OneValue, NoValues DEF Values, OwnedValue
<1>2. to \in Seq(Nat) /\ NoName \in {X, NoName}
  OBVIOUS
<1>3. "Branch" \in Ops /\ NoDst \in 0 .. t
  BY DEF Ops, Terminators, NoDst
<1>4. NoDst # NoDst <=> "Branch" \in Binary \cup Unary \cup {"Load"}
  BY DEF NoDst, Binary, Unary, Comparisons
<1> HIDE DEF ss, to
<1>5. Owned(Code("Branch", NoDst, ss, NoName, to), t)
  BY <1>1, <1>2, <1>3, <1>4, OwnedCode DEF Binary, Unary, Comparisons
<1> QED BY <1>5 DEF ss, to, BranchOn

(* A return has the values there are.                                      *)
LEMMA OwnedReturn ==
  ASSUME NEW t \in Nat, NEW vs, Values(vs, t)
  PROVE  Owned(Return(vs), t)
<1> DEFINE ss == vs
           to == <<>>
<1>1. Values(ss, t) /\ ss = vs
  BY OneValue, NoValues DEF Values, OwnedValue
<1>2. to \in Seq(Nat) /\ NoName \in {X, NoName}
  OBVIOUS
<1>3. "Ret" \in Ops /\ NoDst \in 0 .. t
  BY DEF Ops, Terminators, NoDst
<1>4. NoDst # NoDst <=> "Ret" \in Binary \cup Unary \cup {"Load"}
  BY DEF NoDst, Binary, Unary, Comparisons
<1> HIDE DEF ss, to
<1>5. Owned(Code("Ret", NoDst, ss, NoName, to), t)
  BY <1>1, <1>2, <1>3, <1>4, OwnedCode DEF Binary, Unary, Comparisons
<1> QED BY <1>5 DEF ss, to, Return

(***************************************************************************)
(* Part 3.  Every action keeps the invariant.                              *)
(***************************************************************************)

(* What an action of lowering has to establish.                            *)
LEMMA KeepsBuilding ==
  ASSUME phase' = "building", nodes' \in 0 .. MaxNodes, temps' \in Nat,
         Body(blocks', temps'), cur' \in 1 .. Len(blocks'),
         Values(vals', temps'), Frames(merges', Len(blocks'))
  PROVE  IInv'
BY DEF IInv, Building

(* What it may assume.                                                     *)
LEMMA WhileBuilding ==
  ASSUME IInv, phase = "building"
  PROVE  /\ nodes \in 0 .. MaxNodes /\ temps \in Nat
         /\ Body(blocks, temps) /\ cur \in 1 .. Len(blocks)
         /\ Values(vals, temps) /\ Frames(merges, Len(blocks))
         /\ Len(blocks) \in Nat /\ Len(vals) \in Nat /\ Len(merges) \in Nat
BY SMTT(60) DEF IInv, Building, Body, Values, Frames

(* An empty block is added behind a finished one.                          *)
LEMMA CreateEmpty ==
  ASSUME NEW bs, NEW t, Body(bs, t)
  PROVE  Body(Append(bs, <<>>), t) /\ Len(Append(bs, <<>>)) = Len(bs) + 1
<1>1. <<>> \in Seq(Instr) /\ \A k \in 1 .. Len(<<>>) : Owned(<<>>[k], t)
  OBVIOUS
<1> QED BY <1>1, CreateOK

(* A value on the stack belongs to the body; the last one is on it.        *)
LEMMA LastValue ==
  ASSUME NEW t, Values(vals, t), NEW k \in 1 .. Len(vals)
  PROVE  OwnedValue(vals[k], t)
BY DEF Values

(* Last picks the last value of the stack.                                 *)
LEMMA LastIsLast ==
  ASSUME NEW S, NEW s \in Seq(S), s # <<>>
  PROVE  Last(s) = s[Len(s)] /\ Len(s) \in 1 .. Len(s)
BY DEF Last

(* The actions of lowering, one lemma for each: the instruction emitted is *)
(* owned, the new value is, and the blocks that frames name stay.          *)
LEMMA LiteralKeeps ==
  ASSUME IInv, Literal
  PROVE  IInv'
<1>1. phase = "building" /\ nodes + (Len(vals) + 1) <= MaxNodes /\ nodes' = nodes + 1
      /\ phase' = phase
  BY DEF Literal, Visit
<1>2. PICK c \in Literals : vals' = Append(vals, Const(c))
  BY DEF Literal
<1>3. OwnedValue(Const(c), temps)
  BY PassesAssumption DEF OwnedValue, Operand, Const, IsTemp
<1>4. Values(vals', temps)
  BY <1>1, <1>2, <1>3, WhileBuilding DEF Values, OwnedValue
<1>5. nodes' \in 0 .. MaxNodes
  BY <1>1, WhileBuilding, PassesAssumption
<1> QED BY <1>1, <1>4, <1>5, WhileBuilding, KeepsBuilding DEF Literal

(* A load into a new temporary, which is the value.                        *)
LEMMA VariableKeeps ==
  ASSUME IInv, Variable
  PROVE  IInv'
<1> DEFINE t == temps + 1
           i == LoadFrom(t, X)
<1>1. /\ phase = "building" /\ nodes + (Len(vals) + 1) <= MaxNodes /\ nodes' = nodes + 1
      /\ phase' = phase /\ temps' = t /\ cur' = cur /\ merges' = merges
      /\ blocks' = Emit(blocks, cur, i) /\ vals' = Append(vals, Temp(t))
  BY DEF Variable, Visit
<1>2. t \in Nat /\ temps <= t /\ t \in 1 .. t
  BY <1>1, WhileBuilding
<1>3. Body(blocks, t) /\ Values(vals, t)
  BY <1>1, <1>2, WhileBuilding, BodyGrows, ValuesGrow
<1>4. Owned(i, t)
  BY <1>2, OwnedLoad
<1>5. OwnedValue(Temp(t), t)
  BY <1>2 DEF OwnedValue, Operand, Temp, IsTemp
<1> HIDE DEF t, i
<1>6. Body(blocks', t) /\ Len(blocks') = Len(blocks)
  BY <1>1, <1>3, <1>4, WhileBuilding, EmitOK
<1>7. Values(vals', t)
  BY <1>1, <1>3, <1>5 DEF Values, OwnedValue
<1>8. nodes' \in 0 .. MaxNodes
  BY <1>1, WhileBuilding, PassesAssumption
<1> QED BY <1>1, <1>2, <1>6, <1>7, <1>8, WhileBuilding, KeepsBuilding

(* Operators take the last values off the stack and leave one.             *)
LEMMA OperateOneKeeps ==
  ASSUME IInv, OperateOne
  PROVE  IInv'
<1> DEFINE t == temps + 1
<1>1. /\ phase = "building" /\ nodes + Len(vals) <= MaxNodes /\ nodes' = nodes + 1
      /\ phase' = phase /\ temps' = t /\ cur' = cur /\ merges' = merges
      /\ vals # <<>> /\ vals' = Result(1, Temp(t))
  BY DEF OperateOne, Visit
<1>2. PICK op \in UnaryOps : blocks' = Emit(blocks, cur, Compute(op, t, <<Last(vals)>>))
  BY DEF OperateOne
<1>3. t \in Nat /\ temps <= t /\ t \in 1 .. t
  BY <1>1, WhileBuilding
<1>4. Body(blocks, t) /\ Values(vals, t)
  BY <1>1, <1>3, WhileBuilding, BodyGrows, ValuesGrow
<1>5. OwnedValue(Last(vals), t) /\ 1 \in 0 .. Len(vals)
  <2>1. Last(vals) = vals[Len(vals)] /\ Len(vals) \in 1 .. Len(vals)
    BY <1>1, <1>4, LastIsLast DEF Values
  <2> QED BY <2>1, <1>4, LastValue
<1>6. op \in Unary
  BY PassesAssumption
<1>7. OwnedValue(Temp(t), t)
  BY <1>3 DEF OwnedValue, Operand, Temp, IsTemp
<1> HIDE DEF t
<1>8. Owned(Compute(op, t, <<Last(vals)>>), t)
  BY <1>3, <1>5, <1>6, OwnedOne
<1>9. Body(blocks', t) /\ Len(blocks') = Len(blocks)
  BY <1>1, <1>2, <1>4, <1>8, WhileBuilding, EmitOK
<1>10. Values(vals', t)
  BY <1>1, <1>4, <1>5, <1>7, ResultOK
<1>11. nodes' \in 0 .. MaxNodes
  BY <1>1, <1>5, WhileBuilding, PassesAssumption
<1> QED BY <1>1, <1>3, <1>9, <1>10, <1>11, WhileBuilding, KeepsBuilding

(* The same with two operands.                                             *)
LEMMA OperateTwoKeeps ==
  ASSUME IInv, OperateTwo
  PROVE  IInv'
<1> DEFINE t == temps + 1
           v == vals[Len(vals) - 1]
<1>1. /\ phase = "building" /\ nodes + (Len(vals) - 1) <= MaxNodes /\ nodes' = nodes + 1
      /\ phase' = phase /\ temps' = t /\ cur' = cur /\ merges' = merges
      /\ Len(vals) >= 2 /\ vals' = Result(2, Temp(t))
  BY DEF OperateTwo, Visit
<1>2. PICK op \in BinaryOps : blocks' = Emit(blocks, cur, Compute(op, t, <<v, Last(vals)>>))
  BY DEF OperateTwo
<1>3. t \in Nat /\ temps <= t /\ t \in 1 .. t
  BY <1>1, WhileBuilding
<1>4. Body(blocks, t) /\ Values(vals, t)
  BY <1>1, <1>3, WhileBuilding, BodyGrows, ValuesGrow
<1>5. OwnedValue(Last(vals), t) /\ OwnedValue(v, t) /\ 2 \in 0 .. Len(vals)
  <2>1. Len(vals) \in Nat
    BY <1>1, WhileBuilding
  <2>2. Last(vals) = vals[Len(vals)]
    BY DEF Last
  <2>3. Len(vals) \in 1 .. Len(vals) /\ Len(vals) - 1 \in 1 .. Len(vals)
    BY <1>1, <2>1
  <2> QED BY <1>4, <2>1, <2>2, <2>3, LastValue
<1>6. op \in Binary
  BY PassesAssumption
<1>7. OwnedValue(Temp(t), t)
  BY <1>3 DEF OwnedValue, Operand, Temp, IsTemp
<1> HIDE DEF t, v
<1>8. Owned(Compute(op, t, <<v, Last(vals)>>), t)
  BY <1>3, <1>5, <1>6, OwnedTwo
<1>9. Body(blocks', t) /\ Len(blocks') = Len(blocks)
  BY <1>1, <1>2, <1>4, <1>8, WhileBuilding, EmitOK
<1>10. Values(vals', t)
  BY <1>1, <1>4, <1>5, <1>7, ResultOK
<1>11. nodes' \in 0 .. MaxNodes
  BY <1>1, <1>5, WhileBuilding, PassesAssumption
<1> QED BY <1>1, <1>3, <1>9, <1>10, <1>11, WhileBuilding, KeepsBuilding

(* ABS: one block is finished, three are made.                             *)
LEMMA AbsKeeps ==
  ASSUME IInv, Abs
  PROVE  IInv'
<1> DEFINE v == Last(vals)
           neg == temps + 1
           cmp == temps + 2
           t == temps + 3
           n == Len(blocks)
           i1 == Compute("Neg", neg, <<v>>)
           i2 == Compute("Lt", cmp, <<v, Const(0)>>)
           i3 == BranchOn(Temp(cmp), n + 1, n + 2)
           c1 == <<Compute("Copy", t, <<Temp(neg)>>), JumpTo(n + 3)>>
           c2 == <<Compute("Copy", t, <<v>>), JumpTo(n + 3)>>
           e1 == Emit(blocks, cur, i1)
           e2 == Emit(e1, cur, i2)
           e3 == Finish(e2, cur, i3)
<1>1. /\ phase = "building" /\ nodes + Len(vals) <= MaxNodes /\ nodes' = nodes + 1
      /\ phase' = phase /\ temps' = t /\ cur' = n + 3 /\ merges' = merges
      /\ vals # <<>> /\ vals' = Result(1, Temp(t))
      /\ blocks' = e3 \o <<c1, c2, <<>>>>
  BY DEF Abs, Visit
<1>2. /\ n \in Nat /\ temps \in Nat /\ t \in Nat /\ temps <= t
      /\ neg \in 1 .. t /\ cmp \in 1 .. t /\ t \in 1 .. t
  <2>1. n \in Nat /\ temps \in Nat
    BY <1>1, WhileBuilding
  <2> HIDE DEF n
  <2> QED BY <2>1
<1>3. Body(blocks, t) /\ Values(vals, t)
  BY <1>1, <1>2, WhileBuilding, BodyGrows, ValuesGrow
<1>4. OwnedValue(v, t) /\ 1 \in 0 .. Len(vals)
  <2>1. Last(vals) = vals[Len(vals)] /\ Len(vals) \in 1 .. Len(vals)
    BY <1>1, <1>3, LastIsLast DEF Values
  <2> QED BY <2>1, <1>3, LastValue
<1>5. OwnedValue(Temp(neg), t) /\ OwnedValue(Temp(cmp), t) /\ OwnedValue(Temp(t), t)
  BY <1>2 DEF OwnedValue, Operand, Temp, IsTemp
<1>6. OwnedValue(Const(0), t)
  BY DEF OwnedValue, Operand, Const, IsTemp
<1>7. "Neg" \in Unary /\ "Copy" \in Unary /\ "Lt" \in Binary
  BY DEF Unary, Binary, Comparisons
<1>8. n + 1 \in Nat /\ n + 2 \in Nat /\ n + 3 \in Nat
  BY <1>2
<1> HIDE DEF v, neg, cmp, t
<1>9. Owned(i1, t) /\ Owned(i2, t) /\ Owned(i3, t)
  BY <1>2, <1>4, <1>5, <1>6, <1>7, <1>8, OwnedOne, OwnedTwo, OwnedBranch
<1>10. /\ Owned(Compute("Copy", t, <<Temp(neg)>>), t) /\ Owned(Compute("Copy", t, <<v>>), t)
       /\ Owned(JumpTo(n + 3), t)
  BY <1>2, <1>4, <1>5, <1>7, <1>8, OwnedOne, OwnedJump
<1>11. /\ c1 \in Seq(Instr) /\ \A k \in 1 .. Len(c1) : Owned(c1[k], t)
       /\ c2 \in Seq(Instr) /\ \A k \in 1 .. Len(c2) : Owned(c2[k], t)
  BY <1>10 DEF Owned
<1>12. (n + 1) + 1 = n + 2 /\ (n + 2) + 1 = n + 3
  BY <1>2
<1>13. cur \in 1 .. n
  BY <1>1, WhileBuilding
<1> HIDE DEF i1, i2, i3, c1, c2
<1>14. Body(e1, t) /\ Len(e1) = n
  BY <1>3, <1>9, <1>13, EmitOK
<1> HIDE DEF e1
<1>15. Body(e2, t) /\ Len(e2) = n
  BY <1>9, <1>13, <1>14, EmitOK
<1> HIDE DEF e2
<1>16. Body(e3, t) /\ Len(e3) = n
  BY <1>9, <1>13, <1>15, FinishOK
<1> HIDE DEF e3
<1>17. Body(Append(e3, c1), t) /\ Len(Append(e3, c1)) = n + 1
  BY <1>11, <1>16, CreateOK
<1>18. Body(Append(Append(e3, c1), c2), t) /\ Len(Append(Append(e3, c1), c2)) = n + 2
  BY <1>11, <1>12, <1>17, CreateOK
<1>19. /\ Body(Append(Append(Append(e3, c1), c2), <<>>), t)
       /\ Len(Append(Append(Append(e3, c1), c2), <<>>)) = n + 3
  BY <1>12, <1>18, CreateEmpty
<1>20. e3 \o <<c1, c2, <<>>>> = Append(Append(Append(e3, c1), c2), <<>>)
  BY <1>11, <1>16 DEF Body
<1>21. Body(blocks', t) /\ Len(blocks') = n + 3
  BY <1>1, <1>19, <1>20
<1>22. Values(vals', t)
  BY <1>1, <1>3, <1>4, <1>5, ResultOK
<1>23. nodes' \in 0 .. MaxNodes
  BY SMTT(60), <1>1, <1>4, WhileBuilding, PassesAssumption
<1>24. Frames(merges', n + 3)
  BY SMTT(60), <1>1, <1>2, <1>8, WhileBuilding, FramesGrow
<1>25. cur' \in 1 .. n + 3
  BY <1>1, <1>2
<1> QED BY <1>1, <1>2, <1>21, <1>22, <1>23, <1>24, <1>25, KeepsBuilding

(* A statement uses up the only value there is.                            *)
LEMMA OnlyValue ==
  ASSUME NEW t, Values(vals, t), Len(vals) = 1
  PROVE  OwnedValue(vals[1], t)
BY DEF Values

(* Statements use up the value there is.                                   *)
LEMMA AssignKeeps ==
  ASSUME IInv, Assign
  PROVE  IInv'
<1>1. /\ phase = "building" /\ Len(vals) = 1 /\ vals' = <<>>
      /\ blocks' = Emit(blocks, cur, StoreTo(X, vals[1]))
      /\ phase' = phase /\ nodes' = nodes /\ temps' = temps /\ cur' = cur /\ merges' = merges
  BY DEF Assign, AtStatement
<1>2. Owned(StoreTo(X, vals[1]), temps)
  BY <1>1, WhileBuilding, OnlyValue, OwnedStore
<1>3. Body(blocks', temps) /\ Len(blocks') = Len(blocks)
  BY <1>1, <1>2, WhileBuilding, EmitOK
<1> QED BY <1>1, <1>3, WhileBuilding, NoValues, KeepsBuilding

(* Out.Int writes the only value.                                          *)
LEMMA WriteKeeps ==
  ASSUME IInv, Write
  PROVE  IInv'
<1>1. /\ phase = "building" /\ Len(vals) = 1 /\ vals' = <<>>
      /\ blocks' = Emit(blocks, cur, WriteOut(vals[1]))
      /\ phase' = phase /\ nodes' = nodes /\ temps' = temps /\ cur' = cur /\ merges' = merges
  BY DEF Write, AtStatement
<1>2. Owned(WriteOut(vals[1]), temps)
  BY <1>1, WhileBuilding, OnlyValue, OwnedWrite
<1>3. Body(blocks', temps) /\ Len(blocks') = Len(blocks)
  BY <1>1, <1>2, WhileBuilding, EmitOK
<1> QED BY <1>1, <1>3, WhileBuilding, NoValues, KeepsBuilding

(* A finished block, and one that nothing jumps to.                        *)
LEMMA ReturnKeeps ==
  ASSUME IInv, ReturnValue
  PROVE  IInv'
<1> DEFINE f == Finish(blocks, cur, Return(vals))
<1>1. /\ phase = "building" /\ vals' = <<>> /\ blocks' = Append(f, <<>>) /\ cur' = Len(blocks')
      /\ phase' = phase /\ nodes' = nodes /\ temps' = temps /\ merges' = merges
  BY DEF ReturnValue, AtStatement
<1>2. Body(f, temps) /\ Len(f) = Len(blocks)
  BY <1>1, WhileBuilding, OwnedReturn, FinishOK
<1> HIDE DEF f
<1>3. Body(blocks', temps) /\ Len(blocks') = Len(blocks) + 1
  BY <1>1, <1>2, CreateEmpty
<1>4. Len(blocks) \in Nat /\ Len(blocks) + 1 \in Nat /\ Len(blocks) <= Len(blocks) + 1
  BY <1>1, WhileBuilding
<1>5. Frames(merges, Len(blocks) + 1)
  BY <1>1, <1>4, WhileBuilding, FramesGrow
<1>6. cur' \in 1 .. Len(blocks')
  BY <1>1, <1>3, <1>4
<1> QED BY <1>1, <1>3, <1>5, <1>6, WhileBuilding, NoValues, KeepsBuilding

(* The visitor of an IF: its merge block, then two blocks for each branch. *)
LEMMA BeginIfKeeps ==
  ASSUME IInv, BeginIf
  PROVE  IInv'
<1> DEFINE n == Len(blocks)
           f == [at |-> "cond", merge |-> n + 1, else |-> 0]
<1>1. /\ phase = "building" /\ nodes + 2 <= MaxNodes /\ nodes' = nodes + 1
      /\ blocks' = Append(blocks, <<>>)
      /\ merges' = Append(merges, [at |-> "cond", merge |-> Len(blocks'), else |-> 0])
      /\ phase' = phase /\ temps' = temps /\ cur' = cur /\ vals' = vals
  BY DEF BeginIf, Visit
<1>2. n \in Nat /\ n + 1 \in Nat /\ n <= n + 1 /\ cur \in 1 .. n + 1
  <2>1. n \in Nat /\ cur \in 1 .. n
    BY <1>1, WhileBuilding
  <2> HIDE DEF n
  <2> QED BY <2>1
<1>3. Body(blocks', temps) /\ Len(blocks') = n + 1
  BY <1>1, WhileBuilding, CreateEmpty
<1>4. Frames(merges, n + 1)
  BY <1>1, <1>2, WhileBuilding, FramesGrow
<1>5. f \in Frame /\ FrameIn(f, n + 1)
  BY <1>2 DEF Frame, FrameIn
<1>6. merges' = Append(merges, f)
  BY <1>1, <1>3
<1> HIDE DEF n, f
<1>7. Frames(merges', n + 1)
  BY <1>4, <1>5, <1>6 DEF Frames
<1>8. nodes' \in 0 .. MaxNodes
  BY <1>1, WhileBuilding, PassesAssumption
<1> QED BY <1>1, <1>2, <1>3, <1>7, <1>8, WhileBuilding, KeepsBuilding

(* Two blocks behind a condition; the frame names the second.              *)
LEMMA IfBranchKeeps ==
  ASSUME IInv, IfBranch
  PROVE  IInv'
<1> DEFINE n == Len(blocks)
           i == BranchOn(vals[1], n + 1, n + 2)
           e == Finish(blocks, cur, i)
<1>1. /\ phase = "building" /\ merges # <<>> /\ Len(vals) = 1
      /\ blocks' = e \o <<<<>>, <<>>>> /\ cur' = n + 1
      /\ merges' = [merges EXCEPT ![Len(merges)].at = "then",
                                  ![Len(merges)].else = n + 2]
      /\ vals' = <<>> /\ phase' = phase /\ temps' = temps /\ nodes' = nodes
  BY DEF IfBranch
<1>2. /\ n \in Nat /\ n + 1 \in Nat /\ n + 2 \in Nat /\ n <= n + 2
      /\ (n + 1) + 1 = n + 2 /\ n + 1 \in 1 .. n + 2 /\ n + 2 \in 1 .. n + 2
      /\ cur \in 1 .. n
  <2>1. n \in Nat /\ cur \in 1 .. n
    BY <1>1, WhileBuilding
  <2> HIDE DEF n
  <2> QED BY <2>1
<1>3. Owned(i, temps)
  BY <1>1, <1>2, WhileBuilding, OnlyValue, OwnedBranch
<1> HIDE DEF i
<1>4. Body(e, temps) /\ Len(e) = n
  BY <1>1, <1>3, WhileBuilding, FinishOK
<1> HIDE DEF e
<1>5. Body(Append(e, <<>>), temps) /\ Len(Append(e, <<>>)) = n + 1
  BY <1>4, CreateEmpty
<1>6. Body(Append(Append(e, <<>>), <<>>), temps) /\ Len(Append(Append(e, <<>>), <<>>)) = n + 2
  BY <1>2, <1>5, CreateEmpty
<1>7. e \o <<<<>>, <<>>>> = Append(Append(e, <<>>), <<>>)
  BY <1>4 DEF Body
<1>8. Body(blocks', temps) /\ Len(blocks') = n + 2
  BY <1>1, <1>6, <1>7
<1>9. Frames(merges, n + 2)
  BY <1>1, <1>2, WhileBuilding, FramesGrow
<1> HIDE DEF n
<1>10. Frames(merges', n + 2)
  <2>1. /\ merges \in Seq(Frame) /\ Len(merges) \in 1 .. Len(merges)
    BY <1>1, <1>9 DEF Frames
  <2> DEFINE l == Len(merges)
             f == [merges[l] EXCEPT !.at = "then", !.else = n + 2]
  <2>2. merges[l] \in Frame /\ FrameIn(merges[l], n + 2)
    BY <2>1, <1>9 DEF Frames
  <2>3. f \in Frame /\ FrameIn(f, n + 2)
    BY <1>2, <2>2 DEF Frame, FrameIn
  <2>4. merges' = [merges EXCEPT ![l] = f]
    BY <1>1, <2>1, <2>2 DEF Frame
  <2> HIDE DEF f
  <2> QED BY <1>9, <2>1, <2>3, <2>4 DEF Frames
<1> QED BY <1>1, <1>2, <1>8, <1>10, WhileBuilding, NoValues, KeepsBuilding

(* The innermost IF.                                                       *)
LEMMA LastFrame ==
  ASSUME NEW n, Frames(merges, n), merges # <<>>
  PROVE  Last(merges) \in Frame /\ FrameIn(Last(merges), n) /\ Len(merges) \in 1 .. Len(merges)
BY LastIsLast DEF Frames

(* The block of the next branch was made with the condition.               *)
LEMMA EndThenKeeps ==
  ASSUME IInv, EndThen
  PROVE  IInv'
<1> DEFINE n == Len(blocks)
           l == Len(merges)
           b == Last(merges).merge
<1>1. /\ phase = "building" /\ merges # <<>> /\ Last(merges).at = "then" /\ vals = <<>>
      /\ blocks' = Finish(blocks, cur, JumpTo(b)) /\ cur' = Last(merges).else
      /\ phase' = phase /\ temps' = temps /\ nodes' = nodes /\ vals' = vals
  BY DEF EndThen, AtStatement
<1>2. PICK at \in {"else", "cond"} : merges' = [merges EXCEPT ![Len(merges)].at = at]
  BY DEF EndThen
<1>3. /\ Last(merges) \in Frame /\ FrameIn(Last(merges), n) /\ Len(merges) \in 1 .. Len(merges)
  BY <1>1, WhileBuilding, LastFrame
<1>4. b \in Nat /\ cur' \in 1 .. n
  BY <1>1, <1>3 DEF Frame, FrameIn
<1> HIDE DEF b
<1>5. Body(blocks', temps) /\ Len(blocks') = n
  BY <1>1, <1>4, WhileBuilding, OwnedJump, FinishOK
<1>6. Frames(merges', n)
  <2> DEFINE f == [merges[l] EXCEPT !.at = at]
  <2>1. merges \in Seq(Frame) /\ Frames(merges, n)
    BY <1>1, WhileBuilding DEF Frames
  <2>2. merges[l] = Last(merges)
    BY DEF Last
  <2>3. f \in Frame /\ FrameIn(f, n)
    BY <1>1, <1>3, <2>2 DEF Frame, FrameIn
  <2>4. merges' = [merges EXCEPT ![l] = f]
    BY <1>2
  <2> HIDE DEF f
  <2> QED BY <1>3, <2>1, <2>3, <2>4 DEF Frames
<1> QED BY <1>1, <1>4, <1>5, <1>6, WhileBuilding, KeepsBuilding

(* At its end the frame goes.                                              *)
LEMMA EndIfKeeps ==
  ASSUME IInv, EndIf
  PROVE  IInv'
<1> DEFINE n == Len(blocks)
           b == Last(merges).merge
<1>1. /\ phase = "building" /\ merges # <<>> /\ vals = <<>>
      /\ blocks' = Finish(blocks, cur, JumpTo(b)) /\ cur' = b /\ merges' = Front(merges)
      /\ phase' = phase /\ temps' = temps /\ nodes' = nodes /\ vals' = vals
  BY DEF EndIf, AtStatement
<1>2. FrameIn(Last(merges), n) /\ Last(merges) \in Frame
  BY <1>1, WhileBuilding, LastFrame
<1>3. b \in Nat /\ b \in 1 .. n
  BY <1>2 DEF Frame, FrameIn
<1> HIDE DEF b
<1>4. Body(blocks', temps) /\ Len(blocks') = n
  BY <1>1, <1>3, WhileBuilding, OwnedJump, FinishOK
<1>5. Frames(merges', n)
  <2>1. merges \in Seq(Frame) /\ Frames(merges, n)
    BY <1>1, WhileBuilding DEF Frames
  <2> QED BY <1>1, <2>1 DEF Frames, Front
<1> QED BY <1>1, <1>3, <1>4, <1>5, WhileBuilding, KeepsBuilding

(* The body is complete: from here on only its validity is claimed.        *)
LEMMA EndBodyKeeps ==
  ASSUME IInv, EndBody
  PROVE  IInv'
<1>1. /\ phase = "building" /\ blocks' = Finish(blocks, cur, Return(vals))
      /\ phase' = "built" /\ temps' = temps /\ nodes' = nodes
  BY DEF EndBody, AtStatement, building
<1>2. Body(blocks', temps)
  BY <1>1, WhileBuilding, OwnedReturn, FinishOK
<1>3. ValidBody(blocks', temps)
  BY <1>2, BodyIsValid
<1> QED BY <1>1, <1>3, WhileBuilding DEF IInv

(* The operators stay within the integers, for any operands.               *)
LEMMA QuotientIsInt ==
  ASSUME NEW a \in Int, NEW b \in Int, b # 0
  PROVE  Quotient(a, b) \in Int
<1>1. AbsValue(a) \in Nat /\ AbsValue(b) \in Nat \ {0}
  BY DEF AbsValue
<1>2. AbsValue(a) \div AbsValue(b) \in Int
  BY <1>1
<1> QED BY <1>2 DEF Quotient

(* Binary operators give integers, for a zero divisor too.                 *)
LEMMA Compute2IsInt ==
  ASSUME NEW op \in Binary, NEW a \in Int, NEW b \in Int
  PROVE  Compute2(op, a, b) \in Int
<1>1. CASE op = "Add" \/ op = "Sub"
  BY <1>1 DEF Compute2
<1>2. CASE op = "Mul"
  BY <1>2 DEF Compute2
<1>3. CASE op = "Div"
  BY <1>3, QuotientIsInt DEF Compute2
<1>4. CASE op = "Mod"
  <2>1. CASE b = 0
    BY <1>4, <2>1 DEF Compute2
  <2>2. CASE b # 0
    <3> DEFINE q == Quotient(a, b)
    <3>1. q \in Int
      BY <2>2, QuotientIsInt
    <3>2. Compute2(op, a, b) = a - b * q
      BY <1>4, <2>2 DEF Compute2
    <3> HIDE DEF q
    <3> QED BY <3>1, <3>2
  <2> QED BY <2>1, <2>2
<1>5. CASE op \in Comparisons
  <2>1. Compute2(op, a, b) = Compare(op, a, b)
    BY <1>5 DEF Compute2, Comparisons
  <2>2. \A p \in BOOLEAN : Bit(p) \in Int
    BY DEF Bit
  <2> QED BY <1>5, <2>1 DEF Compare, Comparisons, Bit
<1> QED BY <1>1, <1>2, <1>3, <1>4, <1>5 DEF Binary

(* Folding leaves an instruction with one operand, a constant.             *)
LEMMA FoldInstrOwned ==
  ASSUME NEW t \in Nat, NEW i, Owned(i, t)
  PROVE  Owned(FoldInstr(i), t)
<1>1. ASSUME NEW c \in Int, i.op \in Binary \cup Unary
      PROVE  Owned(Compute("Copy", i.dst, <<Const(c)>>), t)
  <2>1. OwnedValue(Const(c), t)
    BY DEF OwnedValue, Operand, Const, IsTemp
  <2>2. i.dst \in 1 .. t
    <3>1. i.dst # NoDst /\ i.dst \in 0 .. t
      BY <1>1 DEF Owned, WellFormed
    <3> QED BY <3>1 DEF NoDst
  <2>3. "Copy" \in Unary
    BY DEF Unary
  <2> QED BY <2>1, <2>2, <2>3, OwnedOne
<1>2. CASE i.op \in Binary /\ \A k \in DOMAIN i.srcs : IsConst(i.srcs[k])
  <2> DEFINE a == i.srcs[1].val
             b == i.srcs[2].val
             c == Folded(i.op, a, b)
  <2>1. a \in Int /\ b \in Int
    <3>1. i.srcs \in Seq(Operand) /\ Len(i.srcs) = 2
      BY <1>2 DEF Owned, WellFormed, Instr
    <3>2. i.srcs[1] \in Operand /\ i.srcs[2] \in Operand
      BY <3>1
    <3> QED BY <3>2 DEF Operand
  <2>2. c \in Int
    BY <1>2, <2>1, Compute2IsInt DEF Folded
  <2>3. FoldInstr(i) = Compute("Copy", i.dst, <<Const(c)>>)
    BY <1>2 DEF FoldInstr
  <2> HIDE DEF c
  <2> QED BY <1>1, <1>2, <2>2, <2>3
<1>3. CASE /\ ~ (i.op \in Binary /\ \A k \in DOMAIN i.srcs : IsConst(i.srcs[k]))
           /\ i.op \in {"Neg", "Not"} /\ IsConst(i.srcs[1])
  <2> DEFINE a == i.srcs[1].val
             c == Compute1(i.op, a)
  <2>1. i.op \in Unary /\ a \in Int
    <3>1. i.op \in Unary
      BY <1>3 DEF Unary
    <3>2. i.srcs \in Seq(Operand) /\ Len(i.srcs) = 1
      BY <3>1 DEF Owned, WellFormed, Instr
    <3>3. i.srcs[1] \in Operand
      BY <3>2
    <3> QED BY <3>1, <3>3 DEF Operand
  <2>2. c \in Int
    BY <1>3, <2>1 DEF Compute1, Bit
  <2>3. FoldInstr(i) = Compute("Copy", i.dst, <<Const(c)>>)
    BY <1>3 DEF FoldInstr
  <2> HIDE DEF c
  <2> QED BY <1>1, <2>1, <2>2, <2>3
<1>4. CASE /\ ~ (i.op \in Binary /\ \A k \in DOMAIN i.srcs : IsConst(i.srcs[k]))
           /\ ~ (i.op \in {"Neg", "Not"} /\ IsConst(i.srcs[1]))
  BY <1>4 DEF FoldInstr
<1> QED BY <1>2, <1>3, <1>4

(* Folding keeps a body valid.                                             *)
LEMMA FoldKeeps ==
  ASSUME IInv, FoldPass
  PROVE  IInv'
<1>1. /\ phase = "built" /\ phase' = "folded" /\ blocks' = OnEach(FoldInstr, blocks)
      /\ temps' = temps /\ nodes' = nodes
  BY DEF FoldPass, building
<1>2. ValidBody(blocks, temps) /\ temps \in Nat /\ nodes \in 0 .. MaxNodes
  BY <1>1 DEF IInv
<1> DEFINE fs == OnEach(FoldInstr, blocks)
<1>3. /\ DOMAIN fs = DOMAIN blocks
      /\ \A b \in DOMAIN blocks :
           /\ fs[b] = [k \in 1 .. Len(blocks[b]) |-> FoldInstr(blocks[b][k])]
           /\ Len(blocks[b]) \in Nat
  BY <1>2 DEF OnEach, ValidBody
<1> HIDE DEF fs
<1>4. ASSUME NEW b \in DOMAIN blocks
      PROVE  fs[b] \in Seq(Instr) /\ \A k \in 1 .. Len(fs[b]) : Owned(fs[b][k], temps)
  <2>1. \A k \in 1 .. Len(blocks[b]) : Owned(FoldInstr(blocks[b][k]), temps)
    BY <1>2, FoldInstrOwned DEF ValidBody
  <2>2. \A k \in 1 .. Len(blocks[b]) : FoldInstr(blocks[b][k]) \in Instr
    BY <2>1 DEF Owned
  <2> QED BY <1>3, <2>1, <2>2
<1>5. ValidBody(fs, temps)
  BY <1>2, <1>3, <1>4 DEF ValidBody
<1> QED BY <1>1, <1>2, <1>5 DEF IInv, fs

(* What CopyPropagation puts in place of an operand is one of the body's.  *)
LEMMA ReplacementOwned ==
  ASSUME NEW bs, NEW t \in Nat, ValidBody(bs, t),
         NEW v \in Operand, IsTemp(v) => v.val \in 0 .. t
  PROVE  /\ Replacement(bs, v) \in Operand
         /\ IsTemp(Replacement(bs, v)) => Replacement(bs, v).val \in 0 .. t
<1>1. CASE IsTemp(v) /\ LastCopies(bs, v.val) # {}
  <2> DEFINE p == CHOOSE q \in LastCopies(bs, v.val) : TRUE
             i == At(bs, p)
  <2>1. p \in LastCopies(bs, v.val)
    BY <1>1
  <2>2. Replacement(bs, v) = i.srcs[1]
    BY <1>1 DEF Replacement
  <2> HIDE DEF p
  <2>3. p \in Places(bs) /\ i.op = "Copy"
    BY <2>1 DEF LastCopies, CopiesInto
  <2>4. p[1] \in DOMAIN bs /\ p[2] \in DOMAIN bs[p[1]]
    BY <2>3 DEF Places
  <2>5. Owned(i, t)
    BY <2>4 DEF ValidBody, At
  <2> HIDE DEF i
  <2>6. i.srcs \in Seq(Operand) /\ Len(i.srcs) = 1
    BY <2>3, <2>5 DEF Owned, WellFormed, Unary, Instr
  <2>7. i.srcs[1] \in Operand
    BY <2>6
  <2>8. IsTemp(i.srcs[1]) => i.srcs[1].val \in OperandTemps(i)
    BY <2>6 DEF OperandTemps
  <2> QED BY <2>2, <2>5, <2>7, <2>8 DEF Owned
<1>2. CASE ~ (IsTemp(v) /\ LastCopies(bs, v.val) # {})
  BY <1>2 DEF Replacement
<1> QED BY <1>1, <1>2

(* An instruction keeps its operation, and the number of its operands.     *)
LEMMA PropagatedOwned ==
  ASSUME NEW bs, NEW t \in Nat, ValidBody(bs, t), NEW i, Owned(i, t)
  PROVE  Owned(Propagated(bs, i), t)
<1> DEFINE j == Propagated(bs, i)
           n == Len(i.srcs)
<1>1. /\ i \in Instr /\ WellFormed(i) /\ OperandTemps(i) \subseteq 0 .. t /\ i.dst \in 0 .. t
      /\ i.srcs \in Seq(Operand) /\ n \in Nat /\ DOMAIN i.srcs = 1 .. n
  BY DEF Owned, Instr
<1>2. /\ j.op = i.op /\ j.dst = i.dst /\ j.name = i.name /\ j.to = i.to
      /\ j.srcs = [k \in 1 .. n |-> Replacement(bs, i.srcs[k])]
      /\ j = [i EXCEPT !.srcs = j.srcs]
  BY <1>1 DEF Propagated, Instr
<1> HIDE DEF j, n
<1>3. ASSUME NEW k \in 1 .. n
      PROVE  /\ Replacement(bs, i.srcs[k]) \in Operand
             /\ IsTemp(Replacement(bs, i.srcs[k])) => Replacement(bs, i.srcs[k]).val \in 0 .. t
  <2>1. i.srcs[k] \in Operand
    BY <1>1 DEF n
  <2>2. IsTemp(i.srcs[k]) => i.srcs[k].val \in 0 .. t
    BY <1>1 DEF OperandTemps, n
  <2> QED BY <2>1, <2>2, ReplacementOwned
<1>4. j.srcs \in Seq(Operand) /\ Len(j.srcs) = n
  BY <1>1, <1>2, <1>3
<1>5. j \in Instr
  BY <1>1, <1>2, <1>4 DEF Instr
<1>6. WellFormed(j)
  <2>1. n = 0 => j.srcs = <<>>
    BY <1>4
  <2> QED BY <1>1, <1>2, <1>4, <2>1 DEF WellFormed, n
<1>7. ASSUME NEW u \in OperandTemps(j)
      PROVE  u \in 0 .. t
  <2>1. PICK k \in 1 .. n : IsTemp(j.srcs[k]) /\ u = j.srcs[k].val
    BY <1>4, <1>7 DEF OperandTemps
  <2>2. j.srcs[k] = Replacement(bs, i.srcs[k])
    BY <1>2
  <2> QED BY <1>3, <2>1, <2>2
<1>8. Owned(j, t)
  BY <1>1, <1>2, <1>5, <1>6, <1>7 DEF Owned
<1> QED BY <1>8 DEF j

(* CopyPropagation keeps a body valid.                                     *)
LEMMA PropagateKeeps ==
  ASSUME IInv, PropagatePass
  PROVE  IInv'
<1> DEFINE ps == OnEach(LAMBDA i : Propagated(blocks, i), blocks)
<1>1. /\ phase = "folded" /\ phase' = "propagated" /\ blocks' = ps
      /\ temps' = temps /\ nodes' = nodes
  BY DEF PropagatePass, building
<1>2. ValidBody(blocks, temps) /\ temps \in Nat /\ nodes \in 0 .. MaxNodes
  BY <1>1 DEF IInv
<1>3. /\ DOMAIN ps = DOMAIN blocks
      /\ \A b \in DOMAIN blocks :
           /\ ps[b] = [k \in 1 .. Len(blocks[b]) |-> Propagated(blocks, blocks[b][k])]
           /\ Len(blocks[b]) \in Nat
  BY <1>2 DEF OnEach, ValidBody
<1> HIDE DEF ps
<1>4. ASSUME NEW b \in DOMAIN blocks
      PROVE  ps[b] \in Seq(Instr) /\ \A k \in 1 .. Len(ps[b]) : Owned(ps[b][k], temps)
  <2>1. \A k \in 1 .. Len(blocks[b]) : Owned(Propagated(blocks, blocks[b][k]), temps)
    BY <1>2, PropagatedOwned DEF ValidBody
  <2>2. \A k \in 1 .. Len(blocks[b]) : Propagated(blocks, blocks[b][k]) \in Instr
    BY <2>1 DEF Owned
  <2> QED BY <1>3, <2>1, <2>2
<1>5. ValidBody(ps, temps)
  BY <1>2, <1>3, <1>4 DEF ValidBody
<1> QED BY <1>1, <1>2, <1>5 DEF IInv

(***************************************************************************)
(* Part 4.  Runs, step by step.                                            *)
(***************************************************************************)

(* Induction, for sets of numbers.                                         *)
LEMMA AllNumbers ==
  ASSUME NEW S, 0 \in S, \A n \in Nat : n \in S => n + 1 \in S
  PROVE  Nat \subseteq S
<1> DEFINE R == OpToRel(<, Nat)
           T == {n \in Nat : n \notin S}
<1> HIDE DEF R
<1>0. R = {ss \in Nat \X Nat : ss[1] < ss[2]}
  BY DEF R, OpToRel
<1>1. \A a, b \in Nat : a < b => <<a, b>> \in R
  BY <1>0
<1>2. IsWellFoundedOn(R, Nat)
  BY NatLessThanWellFounded, Zenon DEF R
<1>3. ASSUME T # {}
      PROVE  FALSE
  <2>1. T \subseteq Nat
    OBVIOUS
  <2>2. PICK x \in T : \A y \in T : ~ (<<y, x>> \in R)
    BY <1>2, <1>3, <2>1, WFMin, Zenon
  <2>3. x \in Nat /\ x # 0
    OBVIOUS
  <2>4. x - 1 \in Nat /\ x - 1 < x
    BY <2>3
  <2>5. x - 1 \in S
    BY <1>1, <2>2, <2>3, <2>4
  <2>6. (x - 1) + 1 \in S
    BY <2>4, <2>5
  <2> QED BY <2>3, <2>6
<1> QED BY <1>3

(* The states a body goes through, up to the kth.                          *)
Trace(bs, m, g, k) == g[0] = m /\ \A n \in 1 .. k : g[n] = Step(bs, g[n - 1])

(* Every number of steps can be made.                                      *)
LEMMA TraceExists ==
  ASSUME NEW bs, NEW m
  PROVE  \A k \in Nat : \E g : Trace(bs, m, g, k)
<1> DEFINE S == {k \in Nat : \E g : Trace(bs, m, g, k)}
<1>1. 0 \in S
  <2>1. Trace(bs, m, [n \in {0} |-> m], 0)
    BY DEF Trace
  <2> QED BY <2>1
<1>2. ASSUME NEW k \in Nat, k \in S
      PROVE  k + 1 \in S
  <2>1. PICK g : Trace(bs, m, g, k)
    BY <1>2
  <2> DEFINE h == [n \in 0 .. k + 1 |-> IF n = k + 1 THEN Step(bs, g[k]) ELSE g[n]]
  <2>2. h[0] = m
    BY <2>1 DEF Trace
  <2>3. ASSUME NEW n \in 1 .. k + 1
        PROVE  h[n] = Step(bs, h[n - 1])
    <3>1. CASE n = k + 1
      <4>1. h[n] = Step(bs, g[k]) /\ h[n - 1] = g[k]
        BY <3>1
      <4> QED BY <4>1
    <3>2. CASE n # k + 1
      <4>1. n \in 1 .. k
        BY <3>2
      <4>2. h[n] = g[n] /\ h[n - 1] = g[n - 1]
        BY <4>1
      <4> QED BY <2>1, <4>1, <4>2 DEF Trace
    <3> QED BY <3>1, <3>2
  <2> HIDE DEF h
  <2>4. Trace(bs, m, h, k + 1)
    BY <2>2, <2>3 DEF Trace
  <2> QED BY <2>4
<1> HIDE DEF S
<1>3. Nat \subseteq S
  BY <1>1, <1>2, AllNumbers
<1> QED BY <1>3 DEF S

(* And in one way only.                                                    *)
LEMMA TracesAgree ==
  ASSUME NEW bs, NEW m, NEW g, NEW h, NEW j \in Nat, NEW k \in Nat,
         Trace(bs, m, g, j), Trace(bs, m, h, k)
  PROVE  \A n \in Nat : n <= j /\ n <= k => g[n] = h[n]
<1> DEFINE S == {n \in Nat : n <= j /\ n <= k => g[n] = h[n]}
<1>1. 0 \in S
  BY DEF Trace
<1>2. ASSUME NEW n \in Nat, n \in S
      PROVE  n + 1 \in S
  <2>1. CASE n + 1 <= j /\ n + 1 <= k
    <3>1. n + 1 \in 1 .. j /\ n + 1 \in 1 .. k /\ n <= j /\ n <= k /\ (n + 1) - 1 = n
      BY <2>1
    <3>2. g[n + 1] = Step(bs, g[n]) /\ h[n + 1] = Step(bs, h[n])
      BY <3>1 DEF Trace
    <3>3. g[n] = h[n]
      BY <1>2, <3>1
    <3> QED BY <3>2, <3>3
  <2> QED BY <2>1
<1> HIDE DEF S
<1>3. Nat \subseteq S
  BY <1>1, <1>2, AllNumbers
<1> QED BY <1>3 DEF S

(* The state after n steps.                                                *)
State(bs, mem, n) == (CHOOSE g : Trace(bs, Start(mem), g, n))[n]

(* State begins at the start of a run and goes on by Step.                 *)
LEMMA StateIs ==
  ASSUME NEW bs, NEW mem
  PROVE  /\ State(bs, mem, 0) = Start(mem)
         /\ \A n \in Nat : State(bs, mem, n + 1) = Step(bs, State(bs, mem, n))
<1> DEFINE G(n) == CHOOSE g : Trace(bs, Start(mem), g, n)
<1>1. ASSUME NEW n \in Nat
      PROVE  Trace(bs, Start(mem), G(n), n) /\ State(bs, mem, n) = G(n)[n]
  <2>1. \E g : Trace(bs, Start(mem), g, n)
    BY TraceExists
  <2>2. Trace(bs, Start(mem), G(n), n)
    BY <2>1
  <2> QED BY <2>2 DEF State
<1> HIDE DEF G
<1>2. State(bs, mem, 0) = Start(mem)
  BY <1>1 DEF Trace
<1>3. ASSUME NEW n \in Nat
      PROVE  State(bs, mem, n + 1) = Step(bs, State(bs, mem, n))
  <2>1. n + 1 \in Nat /\ n + 1 \in 1 .. n + 1 /\ (n + 1) - 1 = n /\ n <= n + 1 /\ n <= n
    OBVIOUS
  <2>2. Trace(bs, Start(mem), G(n + 1), n + 1) /\ State(bs, mem, n + 1) = G(n + 1)[n + 1]
    BY <1>1, <2>1
  <2>3. G(n + 1)[n + 1] = Step(bs, G(n + 1)[n])
    BY <2>1, <2>2 DEF Trace
  <2>4. G(n + 1)[n] = G(n)[n]
    BY <1>1, <2>1, <2>2, TracesAgree
  <2> QED BY <1>1, <2>2, <2>3, <2>4
<1> QED BY <1>2, <1>3

(* Run stops after as many steps as the body has instructions.             *)
LEMMA RunIsState ==
  ASSUME NEW bs, NEW mem, Size(bs) \in Nat
  PROVE  Run(bs, mem) = State(bs, mem, Size(bs))
<1> DEFINE after == CHOOSE g : g = [n \in Nat |-> IF n = 0 THEN Start(mem) ELSE Step(bs, g[n - 1])]
           f == [n \in Nat |-> State(bs, mem, n)]
<1>1. Run(bs, mem) = after[Size(bs)]
  BY DEF Run
<1>2. f = [n \in Nat |-> IF n = 0 THEN Start(mem) ELSE Step(bs, f[n - 1])]
  <2>1. ASSUME NEW n \in Nat
        PROVE  f[n] = IF n = 0 THEN Start(mem) ELSE Step(bs, f[n - 1])
    <3>1. CASE n = 0
      BY <3>1, StateIs
    <3>2. CASE n # 0
      <4>1. n - 1 \in Nat /\ (n - 1) + 1 = n
        BY <3>2
      <4>2. State(bs, mem, n) = Step(bs, State(bs, mem, n - 1))
        BY <4>1, StateIs
      <4> QED BY <3>2, <4>1, <4>2
    <3> QED BY <3>1, <3>2
  <2> QED BY <2>1
<1> HIDE DEF f
<1>3. after = [n \in Nat |-> IF n = 0 THEN Start(mem) ELSE Step(bs, after[n - 1])]
  BY <1>2
<1> HIDE DEF after
<1> DEFINE S == {n \in Nat : after[n] = State(bs, mem, n)}
<1>4. 0 \in S
  BY <1>3, StateIs
<1>5. ASSUME NEW n \in Nat, n \in S
      PROVE  n + 1 \in S
  <2>1. n + 1 \in Nat /\ n + 1 # 0 /\ (n + 1) - 1 = n
    OBVIOUS
  <2>2. after[n + 1] = Step(bs, after[n])
    BY <1>3, <2>1
  <2> QED BY <1>5, <2>1, <2>2, StateIs
<1> HIDE DEF S
<1>6. Nat \subseteq S
  BY <1>4, <1>5, AllNumbers
<1> QED BY <1>1, <1>6 DEF S

(***************************************************************************)
(* Part 5.  Instructions that stay when others go.                         *)
(***************************************************************************)

(* Sets of small numbers are finite, and so are their parts.               *)
LEMMA SmallSet ==
  ASSUME NEW n \in Nat, NEW K \in SUBSET (1 .. n)
  PROVE  IsFiniteSet(K) /\ Cardinality(K) \in Nat
<1>1. IsFiniteSet(1 .. n)
  BY FS_Interval
<1>2. IsFiniteSet(K)
  BY <1>1, FS_Subset
<1> QED BY <1>2, FS_CardinalityType

(* A part of a finite set is finite and no larger.                         *)
LEMMA PartOfFinite ==
  ASSUME NEW S, IsFiniteSet(S), NEW T \in SUBSET S
  PROVE  IsFiniteSet(T) /\ Cardinality(T) \in Nat /\ Cardinality(T) <= Cardinality(S)
<1>1. IsFiniteSet(T) /\ Cardinality(T) <= Cardinality(S)
  BY FS_Subset
<1> QED BY <1>1, FS_CardinalityType

(* The members of a finite set of numbers are counted from the lowest.     *)
LEMMA Counted ==
  ASSUME NEW n \in Nat, NEW K \in SUBSET (1 .. n)
  PROVE  \A j \in 1 .. Cardinality(K) : \E k \in K : Below(K, k) = j - 1
<1> DEFINE All(L) == \A j \in 1 .. Cardinality(L) : \E k \in L : Below(L, k) = j - 1
           S == {m \in Nat : \A L \in SUBSET (1 .. m) : All(L)}
<1>1. 0 \in S
  <2>1. ASSUME NEW L \in SUBSET (1 .. 0)
        PROVE  All(L)
    <3>1. L = {}
      OBVIOUS
    <3>2. Cardinality(L) = 0
      BY <3>1, FS_EmptySet
    <3> QED BY <3>2
  <2> HIDE DEF All
  <2> QED BY <2>1
<1>2. ASSUME NEW m \in Nat, m \in S
      PROVE  m + 1 \in S
  <2>1. ASSUME NEW L \in SUBSET (1 .. m + 1)
        PROVE  All(L)
    <3>1. CASE m + 1 \notin L
      <4>1. L \in SUBSET (1 .. m)
        BY <3>1
      <4> QED BY <1>2, <4>1
    <3>2. CASE m + 1 \in L
      <4> DEFINE M == L \ {m + 1}
      <4>1. M \in SUBSET (1 .. m) /\ L = M \cup {m + 1} /\ m + 1 \notin M
        BY <3>2
      <4>2. All(M)
        BY <1>2, <4>1
      <4>3. IsFiniteSet(M) /\ Cardinality(M) \in Nat
        BY <4>1, SmallSet
      <4>4. Cardinality(L) = Cardinality(M) + 1
        BY <4>1, <4>3, FS_AddElement
      <4>5. \A k \in M : {h \in L : h < k} = {h \in M : h < k}
        BY <4>1
      <4>6. {h \in L : h < m + 1} = M
        <5>1. \A h \in M : h < m + 1 /\ h \in L
          BY <4>1
        <5>2. \A h \in L : h < m + 1 => h \in M
          OBVIOUS
        <5>3. M \subseteq L
          OBVIOUS
        <5> HIDE DEF M
        <5> QED BY <5>1, <5>2, <5>3
      <4> HIDE DEF M
      <4>7. ASSUME NEW j \in 1 .. Cardinality(L)
            PROVE  \E k \in L : Below(L, k) = j - 1
        <5>1. CASE j = Cardinality(M) + 1
          <6>1. Below(L, m + 1) = Cardinality(M)
            BY <4>6 DEF Below
          <6>2. Cardinality(M) = j - 1
            BY <4>3, <5>1
          <6> QED BY <3>2, <6>1, <6>2
        <5>2. CASE j # Cardinality(M) + 1
          <6>1. j \in 1 .. Cardinality(M)
            BY <4>3, <4>4, <5>2
          <6>2. PICK k \in M : Below(M, k) = j - 1
            BY <4>2, <6>1
          <6>3. Below(L, k) = j - 1
            BY <4>5, <6>2 DEF Below
          <6> QED BY <4>1, <6>2, <6>3
        <5> QED BY <5>1, <5>2
      <4> QED BY <4>7
    <3> QED BY <3>1, <3>2
  <2> HIDE DEF All
  <2> QED BY <2>1
<1> HIDE DEF All, S
<1>3. n \in S
  BY <1>1, <1>2, AllNumbers
<1>4. \A L \in SUBSET (1 .. n) : All(L)
  BY <1>3 DEF S
<1> QED BY <1>4 DEF All

(* Each has a number of its own.                                           *)
LEMMA CountedOnce ==
  ASSUME NEW n \in Nat, NEW K \in SUBSET (1 .. n), NEW k \in K
  PROVE  /\ Below(K, k) \in Nat /\ Cardinality(K) \in Nat
         /\ Below(K, k) < Cardinality(K)
         /\ \A l \in K : k < l => Below(K, k) < Below(K, l)
<1>1. IsFiniteSet(K) /\ Cardinality(K) \in Nat
  BY SmallSet
<1>2. ASSUME NEW L \in SUBSET K, k \in L, \A h \in K : h < k => h \in L
      PROVE  Below(K, k) \in Nat /\ Cardinality(L) \in Nat /\ Below(K, k) < Cardinality(L)
  <2> DEFINE M == {h \in K : h < k}
  <2>1. M \subseteq L \ {k}
    <3>1. ~ (k < k)
      OBVIOUS
    <3> QED BY <1>2, <3>1
  <2>2. IsFiniteSet(L) /\ Cardinality(L) \in Nat
    BY <1>1, PartOfFinite
  <2>3. IsFiniteSet(L \ {k}) /\ Cardinality(L \ {k}) = Cardinality(L) - 1
    BY <1>2, <2>2, FS_RemoveElement
  <2> HIDE DEF M
  <2>4. Cardinality(M) \in Nat /\ Cardinality(M) <= Cardinality(L \ {k})
    BY <2>1, <2>3, PartOfFinite
  <2>5. Below(K, k) = Cardinality(M)
    BY DEF Below, M
  <2> QED BY <2>2, <2>3, <2>4, <2>5
<1>3. Below(K, k) \in Nat /\ Below(K, k) < Cardinality(K)
  BY <1>2
<1>4. ASSUME NEW l \in K, k < l
      PROVE  Below(K, k) < Below(K, l)
  <2> DEFINE L == {h \in K : h < l}
  <2>1. L \in SUBSET K /\ k \in L /\ \A h \in K : h < k => h \in L
    BY <1>4
  <2> HIDE DEF L
  <2>2. Below(K, k) < Cardinality(L)
    BY <1>2, <2>1
  <2> QED BY <2>2 DEF Below, L
<1> QED BY <1>1, <1>3, <1>4

(* The jth of them.                                                        *)
LEMMA NthIs ==
  ASSUME NEW n \in Nat, NEW K \in SUBSET (1 .. n)
  PROVE  /\ \A j \in 1 .. Cardinality(K) : Nth(K, j) \in K /\ Below(K, Nth(K, j)) = j - 1
         /\ \A k \in K : Nth(K, Below(K, k) + 1) = k
<1>1. \A j \in 1 .. Cardinality(K) : Nth(K, j) \in K /\ Below(K, Nth(K, j)) = j - 1
  BY Counted DEF Nth
<1>2. ASSUME NEW k \in K
      PROVE  Nth(K, Below(K, k) + 1) = k
  <2> DEFINE b == Below(K, k)
             l == Nth(K, b + 1)
  <2>1. b \in Nat /\ Cardinality(K) \in Nat /\ b < Cardinality(K)
    BY CountedOnce
  <2> HIDE DEF b
  <2>2. b + 1 \in 1 .. Cardinality(K) /\ (b + 1) - 1 = b
    BY <2>1
  <2>3. l \in K /\ Below(K, l) = b
    BY <1>1, <2>2
  <2> HIDE DEF l
  <2>4. Below(K, k) = b
    BY DEF b
  <2>5. k \in Nat /\ l \in Nat
    BY <2>3
  <2>6. k < l => Below(K, k) < Below(K, l)
    BY <2>3, CountedOnce
  <2>7. l < k => Below(K, l) < Below(K, k)
    BY <2>3, CountedOnce
  <2>8. ~ (k < l) /\ ~ (l < k)
    BY <2>1, <2>3, <2>4, <2>6, <2>7
  <2> QED BY <2>5, <2>8 DEF l, b
<1> QED BY <1>1, <1>2

(* How the numbers go on.                                                  *)
LEMMA CountsOn ==
  ASSUME NEW n \in Nat, NEW K \in SUBSET (1 .. n), NEW k \in Nat
  PROVE  /\ k \in K => Below(K, k + 1) = Below(K, k) + 1
         /\ k \notin K => Below(K, k + 1) = Below(K, k)
         /\ Below(K, 1) = 0
         /\ Below(K, k) \in Nat
<1>1. IsFiniteSet(K)
  BY SmallSet
<1> DEFINE M == {h \in K : h < k}
           N == {h \in K : h < k + 1}
<1>a. ASSUME NEW h \in K
      PROVE  /\ h < k + 1 <=> (h < k \/ h = k)
             /\ ~ (h < 1)
  <2>1. h \in 1 .. n
    OBVIOUS
  <2> QED BY <2>1
<1>b. ~ (k < k) /\ k < k + 1
  OBVIOUS
<1>2. M \subseteq K /\ k \notin M
  BY <1>b
<1>c. \A h : h \in N <=> h \in M \/ (h \in K /\ h = k)
  BY <1>a, Zenon
<1>d. \A h : h \notin {g \in K : g < 1}
  BY <1>a, Zenon
<1> HIDE DEF M, N
<1>3. k \in K => N = M \cup {k}
  BY <1>c
<1>4. k \notin K => N = M
  BY <1>c
<1>5. {h \in K : h < 1} = {}
  BY <1>d, Zenon
<1>6. Below(K, k) = Cardinality(M) /\ Below(K, k + 1) = Cardinality(N)
  BY DEF Below, M, N
<1>7. IsFiniteSet(M) /\ Cardinality(M) \in Nat
  BY <1>1, <1>2, PartOfFinite
<1>8. Cardinality(M \cup {k}) = Cardinality(M) + 1
  BY <1>2, <1>7, FS_AddElement
<1>9. Below(K, 1) = 0
  BY <1>5, FS_EmptySet DEF Below
<1> QED BY <1>3, <1>4, <1>6, <1>7, <1>8, <1>9

(* The new list of a block: its instructions are instructions of the old.  *)
LEMMA NewList ==
  ASSUME NEW s, s \in Seq(Instr), NEW used
  PROVE  LET K == Survivors(s, used)
         IN  /\ K \in SUBSET (1 .. Len(s)) /\ Len(s) \in Nat /\ Cardinality(K) \in Nat
             /\ NewInstrs(s, used) \in Seq(Instr)
             /\ Len(NewInstrs(s, used)) = Cardinality(K)
             /\ \A j \in 1 .. Cardinality(K) :
                  Nth(K, j) \in K /\ NewInstrs(s, used)[j] = s[Nth(K, j)]
<1> DEFINE K == Survivors(s, used)
           c == Cardinality(K)
<1>1. K \in SUBSET (1 .. Len(s)) /\ Len(s) \in Nat
  BY DEF Survivors
<1>2. NewInstrs(s, used) = [j \in 1 .. Cardinality(K) |-> s[Nth(K, j)]]
  BY DEF NewInstrs
<1> HIDE DEF K
<1>3. c \in Nat
  BY <1>1, SmallSet
<1>4. \A j \in 1 .. c : Nth(K, j) \in K
  BY <1>1, NthIs
<1>5. \A j \in 1 .. c : s[Nth(K, j)] \in Instr
  <2>1. \A k \in K : s[k] \in Instr
    BY <1>1
  <2> QED BY <1>4, <2>1
<1>6. NewInstrs(s, used) \in Seq(Instr) /\ Len(NewInstrs(s, used)) = c
  BY <1>2, <1>3, <1>5
<1> QED BY <1>1, <1>2, <1>3, <1>4, <1>6 DEF K

(* DeadCodeElim keeps a body valid.                                        *)
LEMMA EliminatedValid ==
  ASSUME NEW bs, NEW t, ValidBody(bs, t)
  PROVE  ValidBody(Eliminated(bs), t)
<1> DEFINE used == UsedTemps(bs)
           es == Eliminated(bs)
<1>1. /\ DOMAIN es \subseteq DOMAIN bs
      /\ \A b \in DOMAIN es : es[b] = NewInstrs(bs[b], used)
  BY DEF Eliminated
<1> HIDE DEF es, used
<1>2. ASSUME NEW b \in DOMAIN es
      PROVE  es[b] \in Seq(Instr) /\ \A k \in 1 .. Len(es[b]) : Owned(es[b][k], t)
  <2>1. bs[b] \in Seq(Instr) /\ \A k \in 1 .. Len(bs[b]) : Owned(bs[b][k], t)
    BY <1>1 DEF ValidBody
  <2> QED BY <1>1, <2>1, NewList
<1> QED BY <1>1, <1>2 DEF ValidBody, es

(***************************************************************************)
(* Part 6.  What a step does, and that runs end.                           *)
(***************************************************************************)

(* What a run has: a block, a place in it, temporaries, variables, output  *)
(* and result.                                                             *)
Machine(m) ==
  m = [blk |-> m.blk, at |-> m.at, env |-> m.env, mem |-> m.mem, out |-> m.out,
       answer |-> m.answer, stands |-> m.stands]

(* The blocks an instruction jumps to.                                     *)
Targets(i) ==
  IF i.op = "Jump" THEN {i.to[1]} ELSE IF i.op = "Branch" THEN {i.to[1], i.to[2]} ELSE {}

(* Operations that write a temporary.                                      *)
Results == Binary \cup Unary \cup {"Load"}

(* All operations, by what they do.                                        *)
LEMMA Operations ==
  ASSUME NEW i \in Instr
  PROVE  i.op \in Results \/ i.op \in {"Store", "Write"} \/ i.op \in {"Jump", "Branch"}
         \/ i.op = "Ret"
BY DEF Instr, Results, Terminators

(* A result is written.                                                    *)
LEMMA WrittenIs ==
  ASSUME NEW m, Machine(m), NEW t, NEW a
  PROVE  LET w == Written(m, t, a)
         IN  /\ Machine(w)
             /\ w.blk = m.blk /\ w.at = m.at + 1 /\ w.mem = m.mem /\ w.out = m.out
             /\ w.answer = m.answer /\ w.stands = m.stands
             /\ DOMAIN w.env = DOMAIN m.env \cup {t}
             /\ \A u \in DOMAIN m.env \cup {t} : w.env[u] = IF u = t THEN a ELSE m.env[u]
<1> DEFINE e == [u \in DOMAIN m.env \cup {t} |-> IF u = t THEN a ELSE m.env[u]]
           v == [m EXCEPT !.env = e]
           w == [blk |-> m.blk, at |-> m.at + 1, env |-> e, mem |-> m.mem, out |-> m.out,
                 answer |-> m.answer, stands |-> m.stands]
<1>1. Written(m, t, a) = [v EXCEPT !.at = m.at + 1]
  BY DEF Written
<1>2. /\ DOMAIN e = DOMAIN m.env \cup {t}
      /\ \A u \in DOMAIN m.env \cup {t} : e[u] = IF u = t THEN a ELSE m.env[u]
  OBVIOUS
<1> HIDE DEF e
<1>3. v = [blk |-> m.blk, at |-> m.at, env |-> e, mem |-> m.mem, out |-> m.out,
           answer |-> m.answer, stands |-> m.stands]
  BY DEF Machine
<1> HIDE DEF v
<1>4. [v EXCEPT !.at = m.at + 1] = w
  BY <1>3
<1>5. Written(m, t, a) = w
  BY <1>1, <1>4
<1>6. /\ Machine(w) /\ w.blk = m.blk /\ w.at = m.at + 1 /\ w.mem = m.mem /\ w.out = m.out
      /\ w.answer = m.answer /\ w.stands = m.stands /\ w.env = e
  BY DEF Machine
<1> HIDE DEF w
<1> QED BY <1>2, <1>5, <1>6

(* What follows a jump.                                                    *)
LEMMA GotoIs ==
  ASSUME NEW m, Machine(m), NEW b
  PROVE  LET g == Goto(m, b)
         IN  /\ Machine(g)
             /\ g.blk = b /\ g.at = 1 /\ g.env = m.env /\ g.mem = m.mem /\ g.out = m.out
             /\ g.answer = m.answer /\ g.stands = m.stands
<1> DEFINE v == [m EXCEPT !.blk = b]
           w == [blk |-> b, at |-> 1, env |-> m.env, mem |-> m.mem, out |-> m.out,
                 answer |-> m.answer, stands |-> m.stands]
<1>1. Goto(m, b) = [v EXCEPT !.at = 1]
  BY DEF Goto
<1>2. v = [blk |-> b, at |-> m.at, env |-> m.env, mem |-> m.mem, out |-> m.out,
           answer |-> m.answer, stands |-> m.stands]
  BY DEF Machine
<1> HIDE DEF v
<1>3. [v EXCEPT !.at = 1] = w
  BY <1>2
<1>4. Goto(m, b) = w
  BY <1>1, <1>3
<1>5. /\ Machine(w) /\ w.blk = b /\ w.at = 1 /\ w.env = m.env /\ w.mem = m.mem
      /\ w.out = m.out /\ w.answer = m.answer /\ w.stands = m.stands
  BY DEF Machine
<1> HIDE DEF w
<1> QED BY <1>4, <1>5

(* The effect of an instruction, as far as the place of the run goes.      *)
LEMMA ExecuteIs ==
  ASSUME NEW m, Machine(m), NEW i
  PROVE  LET x == Execute(m, i)
         IN  /\ i.op \in Results => \E a : x = Written(m, i.dst, a)
             /\ i.op \in {"Store", "Write"} =>
                  /\ Machine(x) /\ x.blk = m.blk /\ x.at = m.at + 1 /\ x.env = m.env
                  /\ x.stands = m.stands
             /\ i.op \in {"Jump", "Branch"} => \E b \in Targets(i) : x = Goto(m, b)
             /\ i.op = "Ret" => Machine(x) /\ x.stands = "returned"
<1> DEFINE x == Execute(m, i)
<1>1. ASSUME i.op \in Results
      PROVE  \E a : x = Written(m, i.dst, a)
  <2>1. CASE i.op \in Binary
    BY <2>1, ExecuteBinary
  <2>2. CASE i.op \in Unary
    BY <2>2, ExecuteUnary
  <2>3. CASE i.op = "Load"
    BY <2>3 DEF Execute, Binary, Comparisons, Unary
  <2> QED BY <1>1, <2>1, <2>2, <2>3 DEF Results
<1>2. ASSUME i.op \in {"Store", "Write"}
      PROVE  /\ Machine(x) /\ x.blk = m.blk /\ x.at = m.at + 1 /\ x.env = m.env
             /\ x.stands = m.stands
  <2>1. CASE i.op = "Store"
    <3>1. x = [m EXCEPT !.mem[i.name] = ValueOf(m, i.srcs[1]), !.at = @ + 1]
      BY <2>1 DEF Execute, Binary, Comparisons, Unary
    <3> QED BY <3>1 DEF Machine
  <2>2. CASE i.op = "Write"
    <3>1. x = [m EXCEPT !.out = Append(@, ValueOf(m, i.srcs[1])), !.at = @ + 1]
      BY <2>2 DEF Execute, Binary, Comparisons, Unary
    <3> QED BY <3>1 DEF Machine
  <2> QED BY <1>2, <2>1, <2>2
<1>3. ASSUME i.op \in {"Jump", "Branch"}
      PROVE  \E b \in Targets(i) : x = Goto(m, b)
  <2>1. CASE i.op = "Jump"
    <3>1. x = Goto(m, i.to[1])
      BY <2>1 DEF Execute, Binary, Comparisons, Unary
    <3> QED BY <2>1, <3>1 DEF Targets
  <2>2. CASE i.op = "Branch"
    <3>1. x = Goto(m, IF ValueOf(m, i.srcs[1]) # 0 THEN i.to[1] ELSE i.to[2])
      BY <2>2 DEF Execute, Binary, Comparisons, Unary
    <3> QED BY <2>2, <3>1 DEF Targets
  <2> QED BY <1>3, <2>1, <2>2
<1>4. ASSUME i.op = "Ret"
      PROVE  Machine(x) /\ x.stands = "returned"
  <2>1. x = [m EXCEPT !.answer = [k \in 1 .. Len(i.srcs) |-> ValueOf(m, i.srcs[k])],
                      !.stands = "returned"]
    BY <1>4 DEF Execute, Binary, Comparisons, Unary
  <2> QED BY <2>1 DEF Machine
<1> QED BY <1>1, <1>2, <1>3, <1>4

(* The instruction a run is at, and that it can be executed.               *)
Current(bs, m) == bs[m.blk][m.at]

(* All that it reads has been written.                                     *)
Ready(bs, m) ==
  /\ m.blk \in DOMAIN bs /\ m.at \in 1 .. Len(bs[m.blk])
  /\ \A k \in 1 .. Len(Current(bs, m).srcs) : Defined(m, Current(bs, m).srcs[k])

(* Step: a run that has ended stays, one that is ready executes its        *)
(* instruction, any other gets stuck.                                      *)
LEMMA StepIs ==
  ASSUME NEW bs, NEW m, Machine(m)
  PROVE  /\ m.stands # "running" => Step(bs, m) = m
         /\ m.stands = "running" /\ Ready(bs, m) => Step(bs, m) = Execute(m, Current(bs, m))
         /\ m.stands = "running" /\ ~ Ready(bs, m) =>
              Machine(Step(bs, m)) /\ Step(bs, m).stands = "stuck"
BY DEF Step, Ready, Current, Machine

(* Jumps go to blocks of the body, and to higher ones.                     *)
Forward(bs, rank) ==
  \A b \in DOMAIN bs :
    /\ rank[b] \in Nat
    /\ \A k \in 1 .. Len(bs[b]) : \A c \in Targets(bs[b][k]) :
         c \in DOMAIN bs /\ rank[b] < rank[c]

(* The places that are still ahead.                                        *)
Ahead(bs, rank, m) ==
  {p \in Places(bs) : rank[m.blk] < rank[p[1]] \/ (p[1] = m.blk /\ m.at <= p[2])}

(* A run that is at a place of the body, or has ended.                     *)
InBody(bs, m) ==
  Machine(m) /\ (m.stands = "running" => m.blk \in DOMAIN bs /\ m.at \in Nat \ {0})

(* With every step there are fewer.                                        *)
LEMMA AheadShrinks ==
  ASSUME NEW bs, NEW t, ValidBody(bs, t), NEW rank, Forward(bs, rank),
         NEW m, InBody(bs, m)
  PROVE  LET x == Step(bs, m)
         IN  /\ InBody(bs, x)
             /\ x.stands = "running" =>
                  /\ m.stands = "running"
                  /\ <<m.blk, m.at>> \in Ahead(bs, rank, m)
                  /\ Ahead(bs, rank, x) \subseteq Ahead(bs, rank, m) \ {<<m.blk, m.at>>}
<1> DEFINE x == Step(bs, m)
           i == Current(bs, m)
           p == <<m.blk, m.at>>
<1>1. Machine(m)
  BY DEF InBody
<1>2. CASE m.stands # "running"
  <2>1. x = m
    BY <1>1, <1>2, StepIs
  <2> QED BY <1>2, <2>1
<1>3. CASE m.stands = "running" /\ ~ Ready(bs, m)
  <2>1. Machine(x) /\ x.stands = "stuck"
    BY <1>1, <1>3, StepIs
  <2> QED BY <2>1 DEF InBody
<1>4. CASE m.stands = "running" /\ Ready(bs, m)
  <2>1. /\ m.blk \in DOMAIN bs /\ m.at \in 1 .. Len(bs[m.blk]) /\ m.at \in Nat
        /\ bs[m.blk] \in Seq(Instr)
    BY <1>4 DEF Ready, ValidBody
  <2>2. x = Execute(m, i)
    BY <1>1, <1>4, StepIs
  <2>3. i \in Instr
    BY <2>1 DEF Current
  <2>4. p \in Places(bs)
    BY <2>1 DEF Places
  <2>5. p \in Ahead(bs, rank, m)
    BY <2>1, <2>4 DEF Ahead
  <2>6. \A q \in Places(bs) : q[1] \in DOMAIN bs /\ q[2] \in Nat /\ q = <<q[1], q[2]>>
    BY DEF Places, ValidBody
  <2>7. \A b \in DOMAIN bs : rank[b] \in Nat
    BY DEF Forward
  <2> HIDE DEF x
  <2>8. ASSUME Machine(x), x.stands = m.stands, x.blk = m.blk, x.at = m.at + 1
        PROVE  InBody(bs, x) /\ Ahead(bs, rank, x) \subseteq Ahead(bs, rank, m) \ {p}
    <3>1. InBody(bs, x)
      BY <2>1, <2>8 DEF InBody
    <3>2. ASSUME NEW q \in Ahead(bs, rank, x)
          PROVE  q \in Ahead(bs, rank, m) /\ q # p
      <4>1. q \in Places(bs) /\ (rank[m.blk] < rank[q[1]] \/ (q[1] = m.blk /\ m.at + 1 <= q[2]))
        BY <2>8 DEF Ahead
      <4>2. q[1] \in DOMAIN bs /\ q[2] \in Nat
        BY <2>6, <4>1
      <4>3. m.at + 1 <= q[2] => m.at <= q[2] /\ q[2] # m.at
        BY <2>1, <4>2
      <4>4. ~ (rank[m.blk] < rank[m.blk])
        BY <2>1, <2>7
      <4> QED BY <4>1, <4>3, <4>4 DEF Ahead
    <3> QED BY <3>1, <3>2
  <2>9. ASSUME NEW b \in Targets(i), x = Goto(m, b)
        PROVE  InBody(bs, x) /\ Ahead(bs, rank, x) \subseteq Ahead(bs, rank, m) \ {p}
    <3>1. b \in DOMAIN bs /\ rank[m.blk] < rank[b]
      BY <2>1, <2>9 DEF Forward, Current
    <3>2. Machine(x) /\ x.blk = b /\ x.at = 1
      BY <1>1, <2>9, GotoIs
    <3>3. InBody(bs, x)
      BY <3>1, <3>2 DEF InBody
    <3>4. ASSUME NEW q \in Ahead(bs, rank, x)
          PROVE  q \in Ahead(bs, rank, m) /\ q # p
      <4>1. q \in Places(bs) /\ (rank[b] < rank[q[1]] \/ q[1] = b)
        BY <3>2, <3>4 DEF Ahead
      <4>2. q[1] \in DOMAIN bs
        BY <2>6, <4>1
      <4>3. rank[m.blk] < rank[q[1]]
        BY <2>1, <2>7, <3>1, <4>1, <4>2
      <4>4. ~ (rank[m.blk] < rank[m.blk])
        BY <2>1, <2>7
      <4> QED BY <4>1, <4>3, <4>4 DEF Ahead
    <3> QED BY <3>3, <3>4
  <2>10. CASE i.op \in Results
    <3>1. PICK a : x = Written(m, i.dst, a)
      BY <1>1, <2>2, <2>10, ExecuteIs
    <3>2. Machine(x) /\ x.stands = m.stands /\ x.blk = m.blk /\ x.at = m.at + 1
      BY <1>1, <3>1, WrittenIs
    <3> QED BY <1>4, <2>5, <2>8, <3>2 DEF x
  <2>11. CASE i.op \in {"Store", "Write"}
    <3>1. Machine(x) /\ x.stands = m.stands /\ x.blk = m.blk /\ x.at = m.at + 1
      BY <1>1, <2>2, <2>11, ExecuteIs
    <3> QED BY <1>4, <2>5, <2>8, <3>1 DEF x
  <2>12. CASE i.op \in {"Jump", "Branch"}
    <3>1. PICK b \in Targets(i) : x = Goto(m, b)
      BY <1>1, <2>2, <2>12, ExecuteIs
    <3> QED BY <1>4, <2>5, <2>9, <3>1 DEF x
  <2>13. CASE i.op = "Ret"
    <3>1. Machine(x) /\ x.stands = "returned"
      BY <1>1, <2>2, <2>13, ExecuteIs
    <3> QED BY <3>1 DEF InBody, x
  <2> HIDE DEF i
  <2> QED BY <2>3, <2>10, <2>11, <2>12, <2>13, Operations
<1> QED BY <1>2, <1>3, <1>4

(* A body has a number of places.                                          *)
LEMMA PlacesCounted ==
  ASSUME NEW bs, NEW t, ValidBody(bs, t), NEW n \in Nat, DOMAIN bs = 1 .. n
  PROVE  IsFiniteSet(Places(bs)) /\ Size(bs) \in Nat
<1> DEFINE F == {{b} \X DOMAIN bs[b] : b \in DOMAIN bs}
           S == {m \in Nat : m <= n => IsFiniteSet({{b} \X DOMAIN bs[b] : b \in 1 .. m})}
<1>1. 0 \in S
  <2>1. {{b} \X DOMAIN bs[b] : b \in 1 .. 0} = {}
    OBVIOUS
  <2> QED BY <2>1, FS_EmptySet
<1>2. ASSUME NEW m \in Nat, m \in S
      PROVE  m + 1 \in S
  <2>1. CASE m + 1 <= n
    <3> DEFINE G(k) == {{b} \X DOMAIN bs[b] : b \in 1 .. k}
               new == {m + 1} \X DOMAIN bs[m + 1]
    <3>1. IsFiniteSet(G(m))
      BY <1>2, <2>1
    <3>2. 1 .. m + 1 = (1 .. m) \cup {m + 1}
      OBVIOUS
    <3>3. G(m + 1) = G(m) \cup {new}
      BY <3>2
    <3> HIDE DEF G, new
    <3>4. IsFiniteSet(G(m + 1))
      BY <3>1, <3>3, FS_AddElement
    <3> QED BY <3>4 DEF G
  <2> QED BY <2>1
<1> HIDE DEF S
<1>3. n \in S
  BY <1>1, <1>2, AllNumbers
<1>4. IsFiniteSet(F)
  <2> DEFINE G == {{b} \X DOMAIN bs[b] : b \in 1 .. n}
  <2>1. IsFiniteSet(G)
    BY <1>3 DEF S
  <2>2. F = G
    OBVIOUS
  <2> HIDE DEF F, G
  <2> QED BY <2>1, <2>2
<1>5. ASSUME NEW T \in F
      PROVE  IsFiniteSet(T)
  <2>1. PICK b \in DOMAIN bs : T = {b} \X DOMAIN bs[b]
    OBVIOUS
  <2>2. DOMAIN bs[b] = 1 .. Len(bs[b]) /\ Len(bs[b]) \in Nat
    BY DEF ValidBody
  <2>3. IsFiniteSet(DOMAIN bs[b])
    BY <2>2, FS_Interval
  <2>4. IsFiniteSet({b})
    <3>1. IsFiniteSet({} \cup {b})
      BY FS_EmptySet, FS_AddElement
    <3>2. {} \cup {b} = {b}
      OBVIOUS
    <3> QED BY <3>1, <3>2
  <2> QED BY <2>1, <2>3, <2>4, FS_Product
<1>6. Places(bs) = UNION F
  BY DEF Places
<1> HIDE DEF F
<1>7. IsFiniteSet(Places(bs))
  BY <1>4, <1>5, <1>6, FS_UNION
<1> QED BY <1>7, FS_CardinalityType DEF Size

(* A run that has ended stays as it is.                                    *)
LEMMA EndedStays ==
  ASSUME NEW bs, NEW mem, NEW n \in Nat, State(bs, mem, n).stands # "running"
  PROVE  \A k \in Nat : n <= k => State(bs, mem, k) = State(bs, mem, n)
<1> DEFINE S == {j \in Nat : State(bs, mem, n + j) = State(bs, mem, n)}
<1>1. 0 \in S
  OBVIOUS
<1>2. ASSUME NEW j \in Nat, j \in S
      PROVE  j + 1 \in S
  <2>1. n + j \in Nat /\ n + (j + 1) = (n + j) + 1
    OBVIOUS
  <2>2. State(bs, mem, n + (j + 1)) = Step(bs, State(bs, mem, n + j))
    BY <2>1, StateIs
  <2>3. State(bs, mem, n + j) = State(bs, mem, n)
    BY <1>2
  <2>4. Step(bs, State(bs, mem, n)) = State(bs, mem, n)
    BY DEF Step
  <2> QED BY <2>2, <2>3, <2>4
<1> HIDE DEF S
<1>3. Nat \subseteq S
  BY <1>1, <1>2, AllNumbers
<1>4. ASSUME NEW k \in Nat, n <= k
      PROVE  State(bs, mem, k) = State(bs, mem, n)
  <2>1. k - n \in Nat /\ n + (k - n) = k
    BY <1>4
  <2>2. k - n \in S
    BY <1>3, <2>1
  <2>3. State(bs, mem, n + (k - n)) = State(bs, mem, n)
    BY <2>2 DEF S
  <2> QED BY <2>1, <2>3
<1> QED BY <1>4

(* While a body that jumps forward runs, what is ahead and what has been   *)
(* done are together no more than it has.                                  *)
LEMMA StillAhead ==
  ASSUME NEW bs, NEW t, ValidBody(bs, t), NEW rank, Forward(bs, rank),
         IsFiniteSet(Places(bs)), 1 \in DOMAIN bs, NEW mem
  PROVE  \A n \in Nat :
           LET m == State(bs, mem, n)
           IN  /\ InBody(bs, m)
               /\ m.stands = "running"
                  => Cardinality(Ahead(bs, rank, m)) + n <= Size(bs)
<1> DEFINE Good(n) ==
             LET m == State(bs, mem, n)
             IN  /\ InBody(bs, m)
                 /\ m.stands = "running"
                    => Cardinality(Ahead(bs, rank, m)) + n <= Size(bs)
           S == {n \in Nat : Good(n)}
<1>a. \A m : /\ Ahead(bs, rank, m) \in SUBSET Places(bs)
             /\ IsFiniteSet(Ahead(bs, rank, m))
             /\ Cardinality(Ahead(bs, rank, m)) \in Nat
             /\ Cardinality(Ahead(bs, rank, m)) <= Size(bs)
  <2> TAKE m
  <2>1. Ahead(bs, rank, m) \in SUBSET Places(bs)
    BY DEF Ahead
  <2> QED BY <2>1, PartOfFinite DEF Size
<1>b. Size(bs) \in Nat
  BY FS_CardinalityType DEF Size
<1>1. 0 \in S
  <2>1. State(bs, mem, 0) = Start(mem)
    BY StateIs
  <2>2. InBody(bs, Start(mem))
    BY DEF InBody, Machine, Start
  <2>3. Cardinality(Ahead(bs, rank, Start(mem))) + 0 <= Size(bs)
    BY <1>a, <1>b
  <2> QED BY <2>1, <2>2, <2>3
<1>2. ASSUME NEW n \in Nat, n \in S
      PROVE  n + 1 \in S
  <2> DEFINE m == State(bs, mem, n)
             x == State(bs, mem, n + 1)
             p == <<m.blk, m.at>>
             A == Ahead(bs, rank, m)
             B == Ahead(bs, rank, x)
  <2>1. x = Step(bs, m)
    BY StateIs
  <2>2. InBody(bs, m) /\ (m.stands = "running" => Cardinality(A) + n <= Size(bs))
    BY <1>2
  <2> HIDE DEF x, m, p
  <2>3. /\ InBody(bs, x)
        /\ x.stands = "running" => m.stands = "running" /\ p \in A /\ B \subseteq A \ {p}
    BY <2>1, <2>2, AheadShrinks DEF p
  <2>4. ASSUME x.stands = "running"
        PROVE  Cardinality(B) + (n + 1) <= Size(bs)
    <3>1. IsFiniteSet(A) /\ Cardinality(A) \in Nat /\ Cardinality(B) \in Nat
      BY <1>a
    <3>2. IsFiniteSet(A \ {p}) /\ Cardinality(A \ {p}) = Cardinality(A) - 1
      BY <2>3, <2>4, <3>1, FS_RemoveElement
    <3>3. Cardinality(B) <= Cardinality(A \ {p})
      BY <2>3, <2>4, <3>2, PartOfFinite
    <3>4. Cardinality(A) + n <= Size(bs)
      BY <2>2, <2>3, <2>4
    <3> HIDE DEF A, B
    <3> QED BY <1>b, <3>1, <3>2, <3>3, <3>4
  <2> QED BY <2>3, <2>4 DEF x
<1> HIDE DEF S, Good
<1>3. Nat \subseteq S
  BY <1>1, <1>2, AllNumbers
<1>4. \A n \in Nat : Good(n)
  BY <1>3 DEF S
<1> QED BY <1>4 DEF Good

(* So Run is what a run comes to, if it returns at all.                    *)
LEMMA ReturnsInTime ==
  ASSUME NEW bs, NEW t, ValidBody(bs, t), NEW rank, Forward(bs, rank),
         IsFiniteSet(Places(bs)), 1 \in DOMAIN bs, NEW mem,
         NEW n \in Nat, State(bs, mem, n).stands = "returned"
  PROVE  Run(bs, mem) = State(bs, mem, n)
<1> DEFINE z == Size(bs)
           m == State(bs, mem, z)
<1>1. z \in Nat
  BY FS_CardinalityType DEF Size
<1>2. Run(bs, mem) = m
  BY <1>1, RunIsState
<1>3. CASE n <= z
  BY <1>1, <1>2, <1>3, EndedStays
<1>4. CASE ~ (n <= z)
  <2>1. z <= n
    BY <1>1, <1>4
  <2>2. CASE m.stands # "running"
    BY <1>1, <1>2, <2>1, <2>2, EndedStays
  <2>3. CASE m.stands = "running"
    <3>1. InBody(bs, m) /\ Cardinality(Ahead(bs, rank, m)) + z <= z
      BY <1>1, <2>3, StillAhead
    <3>2. Ahead(bs, rank, m) \in SUBSET Places(bs)
      BY DEF Ahead
    <3>3. IsFiniteSet(Ahead(bs, rank, m)) /\ Cardinality(Ahead(bs, rank, m)) \in Nat
      BY <3>2, PartOfFinite
    <3> HIDE DEF z, m
    <3>4. Cardinality(Ahead(bs, rank, m)) = 0
      BY <1>1, <3>1, <3>3
    <3>5. Ahead(bs, rank, m) = {}
      BY <3>3, <3>4, FS_EmptySet
    <3> DEFINE x == Step(bs, m)
    <3>6. x.stands # "running"
      BY <3>1, <3>5, AheadShrinks
    <3>7. ~ Ready(bs, m)
      <4>1. ASSUME Ready(bs, m)
            PROVE  <<m.blk, m.at>> \in Ahead(bs, rank, m)
        <5>1. m.blk \in DOMAIN bs /\ m.at \in DOMAIN bs[m.blk] /\ m.at \in Nat
          BY <4>1 DEF Ready, ValidBody
        <5>2. <<m.blk, m.at>> \in Places(bs)
          BY <5>1 DEF Places
        <5> QED BY <5>1, <5>2 DEF Ahead
      <4> QED BY <3>5, <4>1
    <3>8. x.stands = "stuck"
      BY <2>3, <3>1, <3>7, StepIs DEF InBody
    <3> HIDE DEF x
    <3>9. State(bs, mem, z + 1) = x
      BY <1>1, StateIs DEF x, m
    <3>10. z + 1 <= n /\ z + 1 \in Nat
      BY <1>1, <1>4
    <3>11. State(bs, mem, n) = State(bs, mem, z + 1)
      BY <3>8, <3>9, <3>10, EndedStays
    <3> QED BY <3>8, <3>9, <3>11
  <2> QED BY <2>2, <2>3
<1> QED BY <1>3, <1>4

(***************************************************************************)
(* Part 7.  Bodies that never get stuck.                                   *)
(***************************************************************************)

(* The temporaries the first k instructions of a list write, and those     *)
(* that are written when k instructions of block b have been executed: av  *)
(* says which ones are when it is entered.                                 *)
Defs(s, k) == {s[h].dst : h \in 1 .. k} \ {NoDst}

(* Those, and the ones that are written when the block is entered.         *)
Avail(bs, av, b, k) == av[b] \cup Defs(bs[b], k)

(* A block that ends with a terminator.                                    *)
Closed(s) == s # <<>> /\ IsTerminator(s[Len(s)])

(* All that an instruction reads has been written on every path to it, and *)
(* all that the blocks it leads to count on.                               *)
Flow(bs, av, rank) ==
  /\ 1 \in DOMAIN bs /\ av[1] = {}
  /\ Forward(bs, rank)
  /\ \A b \in DOMAIN bs :
       /\ Closed(bs[b])
       /\ \A k \in 1 .. Len(bs[b]) :
            /\ OperandTemps(bs[b][k]) \subseteq Avail(bs, av, b, k - 1)
            /\ \A c \in Targets(bs[b][k]) : av[c] \subseteq Avail(bs, av, b, k - 1)

(* A run that is not stuck, and has written all that it counts on.         *)
RunsOn(bs, av, m) ==
  /\ Machine(m)
  /\ m.stands \in {"running", "returned"}
  /\ m.stands = "running" =>
       /\ m.blk \in DOMAIN bs /\ m.at \in 1 .. Len(bs[m.blk])
       /\ Avail(bs, av, m.blk, m.at - 1) \subseteq DOMAIN m.env

(* One instruction more.                                                   *)
LEMMA DefsGrow ==
  ASSUME NEW s, NEW k \in Nat
  PROVE  /\ Defs(s, k + 1) = Defs(s, k) \cup ({s[k + 1].dst} \ {NoDst})
         /\ Defs(s, 0) = {}
<1>1. 1 .. k + 1 = (1 .. k) \cup {k + 1} /\ 1 .. 0 = {}
  OBVIOUS
<1> QED BY <1>1 DEF Defs

(* What k instructions write is what k - 1 of them write, and the          *)
(* destination of the last.                                                *)
LEMMA DefsBefore ==
  ASSUME NEW s, NEW k \in Nat, k # 0
  PROVE  Defs(s, k) = Defs(s, k - 1) \cup ({s[k].dst} \ {NoDst})
<1> DEFINE j == k - 1
<1>1. j \in Nat /\ k = j + 1
  OBVIOUS
<1> HIDE DEF j
<1>2. Defs(s, j + 1) = Defs(s, j) \cup ({s[j + 1].dst} \ {NoDst})
  BY <1>1, DefsGrow
<1>3. Defs(s, k) = Defs(s, j) \cup ({s[k].dst} \ {NoDst})
  BY <1>1, <1>2
<1> QED BY <1>3 DEF j

(* The operands of an instruction are read from what has been written.     *)
LEMMA OperandsReady ==
  ASSUME NEW i \in Instr, NEW m, OperandTemps(i) \subseteq DOMAIN m.env
  PROVE  \A k \in 1 .. Len(i.srcs) : Defined(m, i.srcs[k])
BY DEF OperandTemps, Defined

(* Such a body runs on.                                                    *)
LEMMA FlowStep ==
  ASSUME NEW bs, NEW t, ValidBody(bs, t), NEW av, NEW rank, Flow(bs, av, rank),
         NEW m, RunsOn(bs, av, m)
  PROVE  /\ RunsOn(bs, av, Step(bs, m))
         /\ m.stands = "running" => Ready(bs, m)
<1> DEFINE x == Step(bs, m)
           i == Current(bs, m)
           b == m.blk
           k == m.at
           s == bs[b]
<1>1. Machine(m)
  BY DEF RunsOn
<1>2. CASE m.stands # "running"
  <2>1. x = m
    BY <1>1, <1>2, StepIs
  <2> QED BY <1>2, <2>1
<1>3. CASE m.stands = "running"
  <2>1. /\ b \in DOMAIN bs /\ k \in 1 .. Len(s) /\ k \in Nat /\ s \in Seq(Instr)
        /\ k - 1 \in Nat /\ (k - 1) + 1 = k /\ (k + 1) - 1 = k /\ Len(s) \in Nat
        /\ Avail(bs, av, b, k - 1) \subseteq DOMAIN m.env
    BY <1>3 DEF RunsOn, ValidBody
  <2>2. i = s[k] /\ i \in Instr /\ WellFormed(i)
    BY <2>1 DEF Current, ValidBody, Owned
  <2>3. /\ OperandTemps(i) \subseteq Avail(bs, av, b, k - 1)
        /\ \A c \in Targets(i) : av[c] \subseteq Avail(bs, av, b, k - 1) /\ c \in DOMAIN bs
        /\ s # <<>> /\ IsTerminator(s[Len(s)])
        /\ \A c \in DOMAIN bs : Closed(bs[c])
    BY <2>1, <2>2 DEF Flow, Forward, Closed
  <2>4. Ready(bs, m)
    <3>1. OperandTemps(i) \subseteq DOMAIN m.env
      BY <2>1, <2>3
    <3> HIDE DEF i
    <3>2. \A h \in 1 .. Len(i.srcs) : Defined(m, i.srcs[h])
      BY <2>2, <3>1, OperandsReady
    <3> QED BY <2>1, <3>2 DEF Ready, i
  <2>5. x = Execute(m, i)
    BY <1>1, <1>3, <2>4, StepIs
  <2>6. Avail(bs, av, b, k) = Avail(bs, av, b, k - 1) \cup ({i.dst} \ {NoDst})
    <3>1. Defs(s, k) = Defs(s, k - 1) \cup ({s[k].dst} \ {NoDst})
      <4>1. k \in Nat /\ k # 0
        BY <2>1
      <4> HIDE DEF k, s
      <4> QED BY <4>1, DefsBefore
    <3> HIDE DEF i, k, b, s
    <3> QED BY <2>2, <3>1 DEF Avail, s
  <2> HIDE DEF x
  <2>7. ASSUME Machine(x), x.stands = m.stands, x.blk = b, x.at = k + 1,
               DOMAIN m.env \cup ({i.dst} \ {NoDst}) \subseteq DOMAIN x.env,
               ~ IsTerminator(i)
        PROVE  RunsOn(bs, av, x)
    <3>1. k # Len(s)
      BY <2>2, <2>3, <2>7
    <3>2. x.at \in 1 .. Len(s)
      BY <2>1, <2>7, <3>1
    <3>3. Avail(bs, av, b, k) \subseteq DOMAIN x.env
      BY <2>1, <2>6, <2>7
    <3>4. Avail(bs, av, x.blk, x.at - 1) \subseteq DOMAIN x.env
      BY <2>1, <2>7, <3>3
    <3> QED BY <1>3, <2>1, <2>7, <3>2, <3>4 DEF RunsOn
  <2>8. CASE i.op \in Results
    <3>1. PICK a : x = Written(m, i.dst, a)
      BY <1>1, <2>5, <2>8, ExecuteIs
    <3>2. /\ Machine(x) /\ x.stands = m.stands /\ x.blk = b /\ x.at = k + 1
          /\ DOMAIN x.env = DOMAIN m.env \cup {i.dst}
      BY <1>1, <3>1, WrittenIs
    <3>3. ~ IsTerminator(i)
      BY <2>8 DEF IsTerminator, Terminators, Results, Binary, Comparisons, Unary
    <3> QED BY <2>4, <2>7, <3>2, <3>3 DEF x
  <2>9. CASE i.op \in {"Store", "Write"}
    <3>1. /\ Machine(x) /\ x.stands = m.stands /\ x.blk = b /\ x.at = k + 1
          /\ x.env = m.env
      BY <1>1, <2>5, <2>9, ExecuteIs
    <3>2. i.dst = NoDst
      BY <2>2, <2>9 DEF WellFormed
    <3>3. ~ IsTerminator(i)
      BY <2>9 DEF IsTerminator, Terminators
    <3> QED BY <2>4, <2>7, <3>1, <3>2, <3>3 DEF x
  <2>10. CASE i.op \in {"Jump", "Branch"}
    <3>1. PICK c \in Targets(i) : x = Goto(m, c)
      BY <1>1, <2>5, <2>10, ExecuteIs
    <3>2. /\ Machine(x) /\ x.stands = m.stands /\ x.blk = c /\ x.at = 1 /\ x.env = m.env
      BY <1>1, <3>1, GotoIs
    <3>3. c \in DOMAIN bs /\ Closed(bs[c]) /\ av[c] \subseteq DOMAIN m.env
      BY <2>1, <2>3
    <3>4. 1 \in 1 .. Len(bs[c])
      BY <3>3 DEF Closed, ValidBody
    <3>5. Avail(bs, av, c, 0) = av[c]
      BY DefsGrow DEF Avail
    <3>6. x.at - 1 = 0
      BY <3>2
    <3>7. RunsOn(bs, av, x)
      BY <1>3, <3>2, <3>3, <3>4, <3>5, <3>6 DEF RunsOn
    <3> QED BY <2>4, <3>7 DEF x
  <2>11. CASE i.op = "Ret"
    <3>1. Machine(x) /\ x.stands = "returned"
      BY <1>1, <2>5, <2>11, ExecuteIs
    <3> QED BY <2>4, <3>1 DEF RunsOn, x
  <2> HIDE DEF i
  <2> QED BY <2>2, <2>8, <2>9, <2>10, <2>11, Operations
<1> QED BY <1>2, <1>3

(* So it returns.                                                          *)
LEMMA FlowReturns ==
  ASSUME NEW bs, NEW t, ValidBody(bs, t), NEW av, NEW rank, Flow(bs, av, rank),
         IsFiniteSet(Places(bs)), NEW mem
  PROVE  /\ \A n \in Nat : RunsOn(bs, av, State(bs, mem, n))
         /\ Size(bs) \in Nat
         /\ Run(bs, mem) = State(bs, mem, Size(bs))
         /\ Run(bs, mem).stands = "returned"
<1> DEFINE S == {n \in Nat : RunsOn(bs, av, State(bs, mem, n))}
           z == Size(bs)
           m == State(bs, mem, z)
<1>1. 0 \in S
  <2>1. State(bs, mem, 0) = Start(mem)
    BY StateIs
  <2>2. 1 \in DOMAIN bs /\ Closed(bs[1]) /\ av[1] = {} /\ bs[1] \in Seq(Instr)
    BY DEF Flow, ValidBody
  <2>3. 1 \in 1 .. Len(bs[1]) /\ Avail(bs, av, 1, 0) = {}
    BY <2>2, DefsGrow DEF Closed, Avail
  <2>4. RunsOn(bs, av, Start(mem))
    BY <2>2, <2>3 DEF RunsOn, Machine, Start
  <2> QED BY <2>1, <2>4
<1>2. ASSUME NEW n \in Nat, n \in S
      PROVE  n + 1 \in S
  <2>1. RunsOn(bs, av, State(bs, mem, n))
    BY <1>2
  <2>2. RunsOn(bs, av, Step(bs, State(bs, mem, n)))
    BY <2>1, FlowStep
  <2>3. State(bs, mem, n + 1) = Step(bs, State(bs, mem, n))
    BY StateIs
  <2> QED BY <2>2, <2>3
<1> HIDE DEF S
<1>3. Nat \subseteq S
  BY <1>1, <1>2, AllNumbers
<1>4. \A n \in Nat : RunsOn(bs, av, State(bs, mem, n))
  BY <1>3 DEF S
<1>5. z \in Nat
  BY FS_CardinalityType DEF Size
<1>6. Run(bs, mem) = m
  BY <1>5, RunIsState
<1>7. RunsOn(bs, av, m)
  BY <1>4, <1>5
<1>8. ASSUME m.stands = "running"
      PROVE  FALSE
  <2>1. Forward(bs, rank) /\ 1 \in DOMAIN bs
    BY DEF Flow
  <2>2. Cardinality(Ahead(bs, rank, m)) + z <= z
    BY <1>5, <1>8, <2>1, StillAhead
  <2> HIDE DEF m, z
  <2>3. Ahead(bs, rank, m) \in SUBSET Places(bs)
    BY DEF Ahead
  <2>4. IsFiniteSet(Ahead(bs, rank, m)) /\ Cardinality(Ahead(bs, rank, m)) \in Nat
    BY <2>3, PartOfFinite
  <2>5. Cardinality(Ahead(bs, rank, m)) = 0
    BY <1>5, <2>2, <2>4
  <2>6. Ahead(bs, rank, m) = {}
    BY <2>4, <2>5, FS_EmptySet
  <2>7. m.blk \in DOMAIN bs /\ m.at \in DOMAIN bs[m.blk] /\ m.at \in Nat
    BY <1>7, <1>8 DEF RunsOn, ValidBody
  <2>8. <<m.blk, m.at>> \in Places(bs)
    BY <2>7 DEF Places
  <2>9. <<m.blk, m.at>> \in Ahead(bs, rank, m)
    BY <2>7, <2>8 DEF Ahead
  <2> QED BY <2>6, <2>9
<1>9. m.stands = "returned"
  BY <1>7, <1>8 DEF RunsOn
<1> QED BY <1>4, <1>5, <1>6, <1>9

(***************************************************************************)
(* Part 8.  Folding and propagation leave a body that never gets stuck.    *)
(***************************************************************************)

(* Bodies of one shape: they write and jump alike.                         *)
Alike(bs, cs) ==
  /\ DOMAIN cs = DOMAIN bs
  /\ \A b \in DOMAIN bs :
       /\ Len(cs[b]) = Len(bs[b])
       /\ bs[b] = <<>> <=> cs[b] = <<>>
       /\ \A k \in 1 .. Len(bs[b]) :
            /\ cs[b][k].dst = bs[b][k].dst
            /\ Targets(cs[b][k]) = Targets(bs[b][k])
            /\ IsTerminator(cs[b][k]) <=> IsTerminator(bs[b][k])

(* Where copies take their values from: need[t] is written wherever t is.  *)
Sourced(bs, av, need) ==
  \A b \in DOMAIN bs :
    /\ \A k \in 1 .. Len(bs[b]) :
         bs[b][k].op = "Copy" => OperandTemps(bs[b][k]) \subseteq need[bs[b][k].dst]
    /\ \A k \in 0 .. Len(bs[b]) :
         \A u \in Avail(bs, av, b, k) : need[u] \subseteq Avail(bs, av, b, k)

(* In alike bodies the same temporaries are available.                     *)
LEMMA AlikeDefs ==
  ASSUME NEW bs, NEW cs, NEW t, ValidBody(bs, t), Alike(bs, cs),
         NEW b \in DOMAIN bs, NEW k \in 0 .. Len(bs[b]), NEW av
  PROVE  Avail(cs, av, b, k) = Avail(bs, av, b, k)
<1>1. Len(bs[b]) \in Nat
  BY DEF ValidBody
<1>2. \A h \in 1 .. k : h \in 1 .. Len(bs[b])
  BY <1>1
<1>3. \A h \in 1 .. k : cs[b][h].dst = bs[b][h].dst
  BY <1>2 DEF Alike
<1>4. {cs[b][h].dst : h \in 1 .. k} = {bs[b][h].dst : h \in 1 .. k}
  BY <1>3
<1> QED BY <1>4 DEF Avail, Defs

(* What matters is that operands are still read from what is written.      *)
LEMMA FlowAlike ==
  ASSUME NEW bs, NEW cs, NEW t, ValidBody(bs, t), Alike(bs, cs),
         NEW av, NEW rank, Flow(bs, av, rank),
         \A b \in DOMAIN bs : \A k \in 1 .. Len(bs[b]) :
           OperandTemps(cs[b][k]) \subseteq Avail(bs, av, b, k - 1)
  PROVE  Flow(cs, av, rank)
<1>1. 1 \in DOMAIN cs /\ av[1] = {}
  BY DEF Flow, Alike
<1>2. Forward(cs, rank)
  BY DEF Flow, Forward, Alike
<1>3. ASSUME NEW b \in DOMAIN cs
      PROVE  /\ Closed(cs[b])
             /\ \A k \in 1 .. Len(cs[b]) :
                  /\ OperandTemps(cs[b][k]) \subseteq Avail(cs, av, b, k - 1)
                  /\ \A c \in Targets(cs[b][k]) : av[c] \subseteq Avail(cs, av, b, k - 1)
  <2>1. b \in DOMAIN bs /\ Len(cs[b]) = Len(bs[b]) /\ Len(bs[b]) \in Nat /\ Closed(bs[b])
        /\ bs[b] \in Seq(Instr)
    BY DEF Alike, ValidBody, Flow
  <2>2. Closed(cs[b])
    <3>1. Len(bs[b]) \in 1 .. Len(bs[b])
      BY <2>1 DEF Closed
    <3> QED BY <2>1, <3>1 DEF Closed, Alike
  <2>3. ASSUME NEW k \in 1 .. Len(cs[b])
        PROVE  /\ OperandTemps(cs[b][k]) \subseteq Avail(cs, av, b, k - 1)
               /\ \A c \in Targets(cs[b][k]) : av[c] \subseteq Avail(cs, av, b, k - 1)
    <3>1. k \in 1 .. Len(bs[b]) /\ k - 1 \in 0 .. Len(bs[b])
      BY <2>1
    <3>2. Avail(cs, av, b, k - 1) = Avail(bs, av, b, k - 1)
      BY <2>1, <3>1, AlikeDefs
    <3>3. /\ OperandTemps(cs[b][k]) \subseteq Avail(bs, av, b, k - 1)
          /\ \A c \in Targets(bs[b][k]) : av[c] \subseteq Avail(bs, av, b, k - 1)
          /\ Targets(cs[b][k]) = Targets(bs[b][k])
      BY <2>1, <3>1 DEF Flow, Alike
    <3> QED BY <3>2, <3>3
  <2> QED BY <2>2, <2>3
<1> QED BY <1>1, <1>2, <1>3 DEF Flow

(* A folded instruction writes what it did, and reads nothing new.         *)
LEMMA FoldedAlike ==
  ASSUME NEW i \in Instr, WellFormed(i)
  PROVE  LET j == FoldInstr(i)
         IN  /\ j.dst = i.dst /\ Targets(j) = Targets(i)
             /\ IsTerminator(j) <=> IsTerminator(i)
             /\ OperandTemps(j) \subseteq OperandTemps(i)
             /\ j.op = "Copy" => j = i \/ (IsConst(j.srcs[1]) /\ OperandTemps(j) = {})
             /\ i.op = "Copy" => j = i
<1> DEFINE j == FoldInstr(i)
<1>1. ASSUME NEW c, j = Compute("Copy", i.dst, <<Const(c)>>),
             i.op \in Binary \cup {"Neg", "Not"}
      PROVE  /\ j.dst = i.dst /\ Targets(j) = Targets(i)
             /\ IsTerminator(j) <=> IsTerminator(i)
             /\ IsConst(j.srcs[1]) /\ OperandTemps(j) = {} /\ i.op # "Copy"
  <2> DEFINE w == Compute("Copy", i.dst, <<Const(c)>>)
  <2>1. w.op = "Copy" /\ w.dst = i.dst /\ w.srcs = <<Const(c)>>
    BY DEF Compute, Code
  <2>2. IsConst(Const(c)) /\ ~ IsTemp(Const(c))
    BY DEF Const, IsConst, IsTemp
  <2> HIDE DEF w
  <2>3. Len(w.srcs) = 1 /\ w.srcs[1] = Const(c)
    BY <2>1
  <2>4. OperandTemps(w) = {}
    BY <2>2, <2>3 DEF OperandTemps
  <2>5. Targets(w) = {} /\ ~ IsTerminator(w)
    BY <2>1 DEF Targets, IsTerminator, Terminators
  <2>6. Targets(i) = {} /\ ~ IsTerminator(i) /\ i.op # "Copy"
    BY <1>1 DEF Targets, IsTerminator, Terminators, Binary, Comparisons
  <2>7. j = w
    BY <1>1 DEF w
  <2> HIDE DEF j
  <2> QED BY <2>1, <2>2, <2>3, <2>4, <2>5, <2>6, <2>7
<1>2. CASE i.op \in Binary /\ \A k \in DOMAIN i.srcs : IsConst(i.srcs[k])
  <2>1. \E c : j = Compute("Copy", i.dst, <<Const(c)>>)
    BY <1>2 DEF FoldInstr
  <2> HIDE DEF j
  <2> QED BY <1>1, <1>2, <2>1 DEF j
<1>3. CASE /\ ~ (i.op \in Binary /\ \A k \in DOMAIN i.srcs : IsConst(i.srcs[k]))
           /\ i.op \in {"Neg", "Not"} /\ IsConst(i.srcs[1])
  <2>1. \E c : j = Compute("Copy", i.dst, <<Const(c)>>)
    BY <1>3 DEF FoldInstr
  <2> HIDE DEF j
  <2> QED BY <1>1, <1>3, <2>1 DEF j
<1>4. CASE /\ ~ (i.op \in Binary /\ \A k \in DOMAIN i.srcs : IsConst(i.srcs[k]))
           /\ ~ (i.op \in {"Neg", "Not"} /\ IsConst(i.srcs[1]))
  <2>1. j = i
    BY <1>4 DEF FoldInstr
  <2> QED BY <2>1
<1> QED BY <1>2, <1>3, <1>4

(* A folded body never gets stuck, and its copies still have their sources. *)
LEMMA FoldedFlow ==
  ASSUME NEW bs, NEW t, ValidBody(bs, t), NEW av, NEW rank, NEW need,
         Flow(bs, av, rank), Sourced(bs, av, need)
  PROVE  LET fs == OnEach(FoldInstr, bs)
         IN  Flow(fs, av, rank) /\ Sourced(fs, av, need)
<1> DEFINE fs == OnEach(FoldInstr, bs)
<1>1. /\ DOMAIN fs = DOMAIN bs
      /\ \A b \in DOMAIN bs :
           /\ Len(fs[b]) = Len(bs[b])
           /\ \A k \in 1 .. Len(bs[b]) : fs[b][k] = FoldInstr(bs[b][k])
  BY FoldedBody
<1>2. \A b \in DOMAIN bs : bs[b] = <<>> <=> fs[b] = <<>>
  BY DEF OnEach, ValidBody
<1>3. \A b \in DOMAIN bs : \A k \in 1 .. Len(bs[b]) :
        bs[b][k] \in Instr /\ WellFormed(bs[b][k])
  BY DEF ValidBody, Owned
<1> HIDE DEF fs
<1>4. Alike(bs, fs)
  BY <1>1, <1>2, <1>3, FoldedAlike DEF Alike
<1>5. \A b \in DOMAIN bs : \A k \in 1 .. Len(bs[b]) :
        OperandTemps(fs[b][k]) \subseteq OperandTemps(bs[b][k])
  BY <1>1, <1>3, FoldedAlike
<1>6. \A b \in DOMAIN bs : \A k \in 1 .. Len(bs[b]) :
        OperandTemps(bs[b][k]) \subseteq Avail(bs, av, b, k - 1)
  BY DEF Flow
<1>7. \A b \in DOMAIN bs : \A k \in 1 .. Len(bs[b]) :
        OperandTemps(fs[b][k]) \subseteq Avail(bs, av, b, k - 1)
  BY <1>5, <1>6
<1>8. Flow(fs, av, rank)
  BY <1>4, <1>7, FlowAlike
<1>9. ASSUME NEW b \in DOMAIN fs, NEW k \in 1 .. Len(fs[b]), fs[b][k].op = "Copy"
      PROVE  OperandTemps(fs[b][k]) \subseteq need[fs[b][k].dst]
  <2>1. b \in DOMAIN bs /\ k \in 1 .. Len(bs[b]) /\ fs[b][k] = FoldInstr(bs[b][k])
    BY <1>1
  <2>2. fs[b][k] = bs[b][k] \/ OperandTemps(fs[b][k]) = {}
    BY <1>3, <1>9, <2>1, FoldedAlike
  <2> QED BY <1>9, <2>1, <2>2 DEF Sourced
<1>10. ASSUME NEW b \in DOMAIN fs, NEW k \in 0 .. Len(fs[b])
       PROVE  \A u \in Avail(fs, av, b, k) : need[u] \subseteq Avail(fs, av, b, k)
  <2>1. b \in DOMAIN bs /\ k \in 0 .. Len(bs[b])
    BY <1>1
  <2>2. Avail(fs, av, b, k) = Avail(bs, av, b, k)
    BY <1>4, <2>1, AlikeDefs
  <2> QED BY <2>1, <2>2 DEF Sourced
<1>11. Sourced(fs, av, need)
  BY <1>9, <1>10 DEF Sourced
<1> QED BY <1>8, <1>11 DEF fs

(* What stands for an operand has been written where the operand has.      *)
LEMMA ReplacementRead ==
  ASSUME NEW bs, NEW t, ValidBody(bs, t), NEW av, NEW need, Sourced(bs, av, need),
         NEW b \in DOMAIN bs, NEW k \in 0 .. Len(bs[b]), NEW v,
         IsTemp(v) => v.val \in Avail(bs, av, b, k)
  PROVE  IsTemp(Replacement(bs, v)) => Replacement(bs, v).val \in Avail(bs, av, b, k)
<1>1. CASE IsTemp(v) /\ LastCopies(bs, v.val) # {}
  <2> DEFINE p == CHOOSE q \in LastCopies(bs, v.val) : TRUE
             i == At(bs, p)
  <2>1. p \in LastCopies(bs, v.val)
    BY <1>1
  <2>2. Replacement(bs, v) = i.srcs[1]
    BY <1>1 DEF Replacement
  <2> HIDE DEF p
  <2>3. p \in Places(bs) /\ i.op = "Copy" /\ i.dst = v.val
    BY <2>1 DEF LastCopies, CopiesInto
  <2>4. p[1] \in DOMAIN bs /\ p[2] \in DOMAIN bs[p[1]] /\ bs[p[1]] \in Seq(Instr)
    BY <2>3 DEF Places, ValidBody
  <2>5. Owned(i, t) /\ p[2] \in 1 .. Len(bs[p[1]])
    BY <2>4 DEF ValidBody, At
  <2>6. OperandTemps(i) \subseteq need[i.dst]
    BY <2>3, <2>4, <2>5 DEF Sourced, At
  <2> HIDE DEF i
  <2>7. i.srcs \in Seq(Operand) /\ Len(i.srcs) = 1
    BY <2>3, <2>5 DEF Owned, WellFormed, Unary, Instr
  <2>8. IsTemp(i.srcs[1]) => i.srcs[1].val \in OperandTemps(i)
    BY <2>7 DEF OperandTemps
  <2>9. need[v.val] \subseteq Avail(bs, av, b, k)
    BY <1>1 DEF Sourced
  <2> QED BY <2>2, <2>3, <2>6, <2>8, <2>9
<1>2. CASE ~ (IsTemp(v) /\ LastCopies(bs, v.val) # {})
  BY <1>2 DEF Replacement
<1> QED BY <1>1, <1>2

(* What CopyPropagation makes of a body.                                   *)
PropagatedBody(bs) == OnEach(LAMBDA i : Propagated(bs, i), bs)

(* CopyPropagation keeps blocks and places, and replaces each instruction. *)
LEMMA PropagatedIs ==
  ASSUME NEW bs, NEW t, ValidBody(bs, t)
  PROVE  LET ps == PropagatedBody(bs)
         IN  /\ DOMAIN ps = DOMAIN bs
             /\ \A b \in DOMAIN bs :
                  /\ Len(ps[b]) = Len(bs[b]) /\ DOMAIN ps[b] = DOMAIN bs[b]
                  /\ bs[b] = <<>> <=> ps[b] = <<>>
                  /\ \A k \in 1 .. Len(bs[b]) : ps[b][k] = Propagated(bs, bs[b][k])
BY DEF OnEach, PropagatedBody, ValidBody

(* Only the operands of an instruction are replaced.                       *)
LEMMA PropagatedInstr ==
  ASSUME NEW bs, NEW i \in Instr
  PROVE  LET j == Propagated(bs, i)
         IN  /\ j.op = i.op /\ j.dst = i.dst /\ j.name = i.name /\ j.to = i.to
             /\ Len(j.srcs) = Len(i.srcs)
             /\ \A k \in 1 .. Len(i.srcs) : j.srcs[k] = Replacement(bs, i.srcs[k])
<1> DEFINE s == [k \in DOMAIN i.srcs |-> Replacement(bs, i.srcs[k])]
           j == [i EXCEPT !.srcs = s]
<1>1. Propagated(bs, i) = j
  BY DEF Propagated
<1>2. i.srcs \in Seq(Operand) /\ DOMAIN i.srcs = 1 .. Len(i.srcs) /\ Len(i.srcs) \in Nat
  BY DEF Instr
<1>3. Len(s) = Len(i.srcs) /\ \A k \in 1 .. Len(i.srcs) : s[k] = Replacement(bs, i.srcs[k])
  BY <1>2
<1> HIDE DEF s
<1>4. j.op = i.op /\ j.dst = i.dst /\ j.name = i.name /\ j.to = i.to /\ j.srcs = s
  BY DEF Instr
<1> HIDE DEF j
<1> QED BY <1>1, <1>3, <1>4

(* A propagated body writes and jumps where the body did.                  *)
LEMMA PropagatedAlike ==
  ASSUME NEW bs, NEW t, ValidBody(bs, t)
  PROVE  Alike(bs, PropagatedBody(bs))
<1> DEFINE ps == PropagatedBody(bs)
<1>1. ASSUME NEW b \in DOMAIN bs, NEW k \in 1 .. Len(bs[b])
      PROVE  /\ ps[b][k].dst = bs[b][k].dst
             /\ Targets(ps[b][k]) = Targets(bs[b][k])
             /\ IsTerminator(ps[b][k]) <=> IsTerminator(bs[b][k])
  <2>1. bs[b][k] \in Instr
    BY DEF ValidBody
  <2>2. ps[b][k] = Propagated(bs, bs[b][k])
    BY PropagatedIs
  <2>3. /\ ps[b][k].op = bs[b][k].op /\ ps[b][k].dst = bs[b][k].dst
        /\ ps[b][k].to = bs[b][k].to
    BY <2>1, <2>2, PropagatedInstr
  <2> HIDE DEF ps
  <2> QED BY <2>3 DEF Targets, IsTerminator
<1> HIDE DEF ps
<1> QED BY <1>1, PropagatedIs DEF Alike, ps

(* A propagated body never gets stuck either.                              *)
LEMMA PropagatedFlow ==
  ASSUME NEW bs, NEW t, ValidBody(bs, t), NEW av, NEW rank, NEW need,
         Flow(bs, av, rank), Sourced(bs, av, need)
  PROVE  Flow(PropagatedBody(bs), av, rank)
<1> DEFINE ps == PropagatedBody(bs)
<1>1. ASSUME NEW b \in DOMAIN bs, NEW k \in 1 .. Len(bs[b])
      PROVE  OperandTemps(ps[b][k]) \subseteq Avail(bs, av, b, k - 1)
  <2> DEFINE i == bs[b][k]
             j == ps[b][k]
  <2>1. i \in Instr /\ Len(bs[b]) \in Nat
    BY DEF ValidBody
  <2>2. j = Propagated(bs, i)
    BY PropagatedIs
  <2>3. OperandTemps(i) \subseteq Avail(bs, av, b, k - 1)
    BY DEF Flow
  <2>4. k - 1 \in 0 .. Len(bs[b])
    BY <2>1
  <2> HIDE DEF i, j
  <2>5. /\ Len(j.srcs) = Len(i.srcs)
        /\ \A h \in 1 .. Len(i.srcs) : j.srcs[h] = Replacement(bs, i.srcs[h])
    BY <2>1, <2>2, PropagatedInstr
  <2>6. ASSUME NEW h \in 1 .. Len(j.srcs), IsTemp(j.srcs[h])
        PROVE  j.srcs[h].val \in Avail(bs, av, b, k - 1)
    <3>1. IsTemp(i.srcs[h]) => i.srcs[h].val \in Avail(bs, av, b, k - 1)
      BY <2>3, <2>5 DEF OperandTemps
    <3>2. IsTemp(Replacement(bs, i.srcs[h]))
          => Replacement(bs, i.srcs[h]).val \in Avail(bs, av, b, k - 1)
      BY <2>4, <3>1, ReplacementRead
    <3> QED BY <2>5, <2>6, <3>2
  <2>7. OperandTemps(j) \subseteq Avail(bs, av, b, k - 1)
    BY <2>6 DEF OperandTemps
  <2> QED BY <2>7 DEF j
<1> HIDE DEF ps
<1>2. Flow(ps, av, rank)
  BY <1>1, PropagatedAlike, FlowAlike DEF ps
<1> QED BY <1>2 DEF ps

(***************************************************************************)
(* Part 9.  Without a temporary that is copied into twice, propagation     *)
(* cannot be seen.                                                         *)
(***************************************************************************)

(* A temporary is written at one place, or by copies only; a copy of a     *)
(* temporary has another copy into the same one beside it.                 *)
Once(bs) ==
  \A p, q \in Places(bs) :
    At(bs, p).dst = At(bs, q).dst /\ At(bs, p).dst # NoDst /\ p # q
    => At(bs, p).op = "Copy" /\ At(bs, q).op = "Copy"

(* Another copy is made into the same temporary.                           *)
Beside(bs, p) ==
  \E q \in Places(bs) : q # p /\ At(bs, q).op = "Copy" /\ At(bs, q).dst = At(bs, p).dst

(* What is copied is a constant, unless there are two copies into the      *)
(* temporary.                                                              *)
Paired(bs) ==
  \A p \in Places(bs) :
    At(bs, p).op = "Copy" => IsConst(At(bs, p).srcs[1]) \/ Beside(bs, p)

(* Every copy is of a number and all there is into its temporary.          *)
Plain(bs) ==
  \A p \in Places(bs) : At(bs, p).op = "Copy" =>
    /\ IsConst(At(bs, p).srcs[1])
    /\ \A q \in Places(bs) : At(bs, q).dst = At(bs, p).dst => q = p

(* A place and its instruction.                                            *)
LEMMA AtPlace ==
  ASSUME NEW bs, NEW t, ValidBody(bs, t), NEW p \in Places(bs)
  PROVE  /\ p[1] \in DOMAIN bs /\ p[2] \in 1 .. Len(bs[p[1]]) /\ p = <<p[1], p[2]>>
         /\ Owned(At(bs, p), t) /\ At(bs, p) \in Instr /\ WellFormed(At(bs, p))
<1>1. p[1] \in DOMAIN bs /\ p[2] \in DOMAIN bs[p[1]] /\ p = <<p[1], p[2]>>
  BY DEF Places
<1>2. DOMAIN bs[p[1]] = 1 .. Len(bs[p[1]])
  BY <1>1 DEF ValidBody
<1>3. Owned(At(bs, p), t)
  BY <1>1, <1>2 DEF ValidBody, At
<1> QED BY <1>1, <1>2, <1>3 DEF Owned

(* The place of an instruction.                                            *)
LEMMA PlaceIn ==
  ASSUME NEW bs, NEW t, ValidBody(bs, t), NEW b \in DOMAIN bs, NEW k \in 1 .. Len(bs[b])
  PROVE  <<b, k>> \in Places(bs) /\ At(bs, <<b, k>>) = bs[b][k]
<1>1. k \in DOMAIN bs[b]
  BY DEF ValidBody
<1> QED BY <1>1 DEF Places, At

(* Two copies into one temporary are copied twice.                         *)
LEMMA TwoCopies ==
  ASSUME NEW bs, IsFiniteSet(Places(bs)), NEW p \in Places(bs), NEW q \in Places(bs), p # q,
         At(bs, p).op = "Copy", At(bs, q).op = "Copy", At(bs, p).dst = At(bs, q).dst
  PROVE  Cardinality(CopiesInto(bs, At(bs, p).dst)) > 1
<1> DEFINE C == CopiesInto(bs, At(bs, p).dst)
<1>1. C \in SUBSET Places(bs) /\ p \in C /\ q \in C
  BY DEF CopiesInto
<1> HIDE DEF C
<1>2. IsFiniteSet(C) /\ Cardinality(C) \in Nat
  BY <1>1, PartOfFinite
<1>3. IsFiniteSet(C \ {p}) /\ Cardinality(C \ {p}) = Cardinality(C) - 1
  BY <1>1, <1>2, FS_RemoveElement
<1>4. Cardinality(C \ {p}) # 0 /\ Cardinality(C \ {p}) \in Nat
  <2>1. C \ {p} # {}
    BY <1>1
  <2> QED BY <1>3, <2>1, FS_EmptySet, FS_CardinalityType
<1>5. Cardinality(C) > 1
  BY <1>2, <1>3, <1>4
<1> QED BY <1>5 DEF C

(* When no temporary is copied into twice, the copies of a lowered body    *)
(* are all of constants, and nothing else writes where they do.            *)
LEMMA PlainWithoutTwice ==
  ASSUME NEW bs, NEW t \in Nat, ValidBody(bs, t), IsFiniteSet(Places(bs)), Once(bs), Paired(bs),
         \A u \in 1 .. t : ~ (Cardinality(CopiesInto(bs, u)) > 1)
  PROVE  Plain(bs)
<1>1. ASSUME NEW p \in Places(bs), At(bs, p).op = "Copy"
      PROVE  /\ IsConst(At(bs, p).srcs[1])
             /\ \A q \in Places(bs) : At(bs, q).dst = At(bs, p).dst => q = p
  <2> DEFINE u == At(bs, p).dst
  <2>1. u # NoDst /\ u \in 0 .. t
    BY <1>1, AtPlace DEF Owned, WellFormed, Unary
  <2>2. u \in 1 .. t
    BY <2>1 DEF NoDst
  <2>3. ~ (Cardinality(CopiesInto(bs, u)) > 1)
    BY <2>2
  <2>4. ASSUME NEW q \in Places(bs), q # p, At(bs, q).op = "Copy", At(bs, q).dst = u
        PROVE  FALSE
    BY <1>1, <2>3, <2>4, TwoCopies
  <2>5. ~ Beside(bs, p)
    BY <2>4 DEF Beside
  <2>6. IsConst(At(bs, p).srcs[1])
    BY <1>1, <2>5 DEF Paired
  <2>7. ASSUME NEW q \in Places(bs), At(bs, q).dst = u, q # p
        PROVE  FALSE
    <3>1. At(bs, q).op = "Copy"
      BY <2>1, <2>7 DEF Once
    <3> QED BY <2>4, <2>7, <3>1
  <2> QED BY <2>6, <2>7
<1> QED BY <1>1 DEF Plain

(* Folding adds copies of numbers only.                                    *)
LEMMA FoldedTidy ==
  ASSUME NEW bs, NEW t, ValidBody(bs, t), Once(bs), Paired(bs)
  PROVE  Once(OnEach(FoldInstr, bs)) /\ Paired(OnEach(FoldInstr, bs))
<1> DEFINE fs == OnEach(FoldInstr, bs)
<1>1. DOMAIN fs = DOMAIN bs /\ \A b \in DOMAIN bs : DOMAIN fs[b] = DOMAIN bs[b]
  BY DEF OnEach
<1>2. Places(fs) = Places(bs)
  <2> HIDE DEF fs
  <2> QED BY <1>1 DEF Places
<1>3. ASSUME NEW p \in Places(bs)
      PROVE  /\ At(fs, p).dst = At(bs, p).dst
             /\ At(bs, p).op = "Copy" => At(fs, p) = At(bs, p)
             /\ At(fs, p).op = "Copy" =>
                  At(fs, p) = At(bs, p) \/ IsConst(At(fs, p).srcs[1])
  <2>1. p[1] \in DOMAIN bs /\ p[2] \in 1 .. Len(bs[p[1]])
    BY AtPlace
  <2>2. At(fs, p) = FoldInstr(At(bs, p))
    BY <2>1, FoldedBody DEF At
  <2>3. At(bs, p) \in Instr /\ WellFormed(At(bs, p))
    BY AtPlace
  <2> HIDE DEF fs
  <2> QED BY <2>2, <2>3, FoldedAlike
<1> HIDE DEF fs
<1>4. Once(fs)
  BY <1>2, <1>3 DEF Once
<1>5. ASSUME NEW p \in Places(fs), At(fs, p).op = "Copy", ~ IsConst(At(fs, p).srcs[1])
      PROVE  Beside(fs, p)
  <2>1. p \in Places(bs) /\ At(fs, p) = At(bs, p)
    BY <1>2, <1>3, <1>5
  <2>2. Beside(bs, p)
    BY <1>5, <2>1 DEF Paired
  <2>3. PICK q \in Places(bs) : /\ q # p /\ At(bs, q).op = "Copy"
                                /\ At(bs, q).dst = At(bs, p).dst
    BY <2>2 DEF Beside
  <2>4. At(fs, q) = At(bs, q)
    BY <1>3, <2>3
  <2> QED BY <1>2, <2>1, <2>3, <2>4 DEF Beside
<1>6. Paired(fs)
  BY <1>5 DEF Paired
<1> QED BY <1>4, <1>6 DEF fs

(* On a run, the temporaries that numbers are copied into hold them.       *)
Holds(bs, m) ==
  \A p \in Places(bs) :
    At(bs, p).op = "Copy" /\ At(bs, p).dst \in DOMAIN m.env
    => m.env[At(bs, p).dst] = At(bs, p).srcs[1].val

(* Every step keeps the temporaries that constants were copied into at     *)
(* these constants.                                                        *)
LEMMA HoldsStep ==
  ASSUME NEW bs, NEW t, ValidBody(bs, t), Plain(bs),
         NEW m, Machine(m), m.stands = "running", Ready(bs, m), Holds(bs, m)
  PROVE  Holds(bs, Step(bs, m))
<1> DEFINE x == Step(bs, m)
           i == Current(bs, m)
           here == <<m.blk, m.at>>
<1>1. m.blk \in DOMAIN bs /\ m.at \in 1 .. Len(bs[m.blk])
  BY DEF Ready
<1>2. here \in Places(bs) /\ At(bs, here) = i
  BY <1>1, PlaceIn DEF Current
<1>3. i \in Instr /\ WellFormed(i)
  BY <1>2, AtPlace
<1>4. x = Execute(m, i)
  BY StepIs
<1> SUFFICES Holds(bs, x)
  OBVIOUS
<1> HIDE DEF x, i, here
<1>5. ASSUME x.env = m.env
      PROVE  Holds(bs, x)
  BY <1>5 DEF Holds
<1>6. CASE i.op \in Results
  <2>1. PICK a : x = Written(m, i.dst, a)
    BY <1>4, <1>6, ExecuteIs
  <2>2. /\ DOMAIN x.env = DOMAIN m.env \cup {i.dst}
        /\ \A u \in DOMAIN m.env \cup {i.dst} : x.env[u] = IF u = i.dst THEN a ELSE m.env[u]
    BY <2>1, WrittenIs
  <2>3. ASSUME NEW p \in Places(bs), At(bs, p).op = "Copy", At(bs, p).dst \in DOMAIN x.env
        PROVE  x.env[At(bs, p).dst] = At(bs, p).srcs[1].val
    <3> DEFINE u == At(bs, p).dst
    <3>1. CASE u # i.dst
      <4>1. u \in DOMAIN m.env /\ x.env[u] = m.env[u]
        BY <2>2, <2>3, <3>1
      <4> QED BY <2>3, <4>1 DEF Holds
    <3>2. CASE u = i.dst
      <4>1. here = p
        BY <1>2, <2>3, <3>2 DEF Plain
      <4>2. i = At(bs, p) /\ i.op = "Copy" /\ IsConst(i.srcs[1])
        BY <1>2, <2>3, <4>1 DEF Plain
      <4>3. x = Written(m, i.dst, Compute1(i.op, ValueOf(m, i.srcs[1])))
        BY <1>4, <4>2, ExecuteUnary DEF Unary
      <4>4. Compute1(i.op, ValueOf(m, i.srcs[1])) = i.srcs[1].val
        BY <4>2 DEF Compute1, ValueOf
      <4>5. x.env[i.dst] = i.srcs[1].val
        BY <4>3, <4>4, WrittenIs
      <4> QED BY <3>2, <4>2, <4>5
    <3> QED BY <3>1, <3>2
  <2> QED BY <2>3 DEF Holds
<1>7. CASE i.op \in {"Store", "Write"}
  BY <1>4, <1>5, <1>7, ExecuteIs
<1>8. CASE i.op \in {"Jump", "Branch"}
  <2>1. PICK b \in Targets(i) : x = Goto(m, b)
    BY <1>4, <1>8, ExecuteIs
  <2> QED BY <1>5, <2>1, GotoIs
<1>9. CASE i.op = "Ret"
  <2>1. x = [m EXCEPT !.answer = [k \in 1 .. Len(i.srcs) |-> ValueOf(m, i.srcs[k])],
                      !.stands = "returned"]
    BY <1>4, <1>9 DEF Execute, Binary, Comparisons, Unary
  <2>2. x.env = m.env
    BY <2>1 DEF Machine
  <2> QED BY <1>5, <2>2
<1> QED BY <1>3, <1>6, <1>7, <1>8, <1>9, Operations

(* Instructions that find the same values do the same.                     *)
LEMMA SameValues ==
  ASSUME NEW m, NEW i \in Instr, WellFormed(i), NEW j,
         j.op = i.op, j.dst = i.dst, j.name = i.name, j.to = i.to,
         Len(j.srcs) = Len(i.srcs),
         \A k \in 1 .. Len(i.srcs) : ValueOf(m, j.srcs[k]) = ValueOf(m, i.srcs[k])
  PROVE  Execute(m, j) = Execute(m, i)
<1>1. Len(i.srcs) \in Nat
  BY DEF Instr
<1>2. CASE i.op \in Binary
  <2>1. /\ ValueOf(m, j.srcs[1]) = ValueOf(m, i.srcs[1])
        /\ ValueOf(m, j.srcs[2]) = ValueOf(m, i.srcs[2])
    BY <1>2 DEF WellFormed
  <2> QED BY <1>2, <2>1, ExecuteBinary
<1>3. CASE i.op \in Unary
  <2>1. ValueOf(m, j.srcs[1]) = ValueOf(m, i.srcs[1])
    BY <1>3 DEF WellFormed
  <2> QED BY <1>3, <2>1, ExecuteUnary
<1>4. CASE i.op = "Load"
  BY <1>4 DEF Execute, Binary, Comparisons, Unary
<1>5. CASE i.op \in {"Store", "Write", "Branch"}
  <2>1. ValueOf(m, j.srcs[1]) = ValueOf(m, i.srcs[1])
    BY <1>5 DEF WellFormed
  <2> QED BY <1>5, <2>1 DEF Execute, Binary, Comparisons, Unary
<1>6. CASE i.op = "Jump"
  BY <1>6 DEF Execute, Binary, Comparisons, Unary
<1>7. CASE i.op = "Ret"
  <2>1. [k \in 1 .. Len(j.srcs) |-> ValueOf(m, j.srcs[k])]
        = [k \in 1 .. Len(i.srcs) |-> ValueOf(m, i.srcs[k])]
    OBVIOUS
  <2>2. /\ Execute(m, j) = [m EXCEPT !.answer = [k \in 1 .. Len(j.srcs) |-> ValueOf(m, j.srcs[k])],
                                     !.stands = "returned"]
        /\ Execute(m, i) = [m EXCEPT !.answer = [k \in 1 .. Len(i.srcs) |-> ValueOf(m, i.srcs[k])],
                                     !.stands = "returned"]
    BY <1>7 DEF Execute, Binary, Comparisons, Unary
  <2> QED BY <2>1, <2>2
<1> QED BY <1>2, <1>3, <1>4, <1>5, <1>6, <1>7 DEF Instr, Terminators

(* The value of what stands for an operand is the operand's.               *)
LEMMA ReplacementValue ==
  ASSUME NEW bs, Plain(bs), NEW m, Holds(bs, m), NEW v, Defined(m, v), IsTemp(v) \/ IsConst(v)
  PROVE  ValueOf(m, Replacement(bs, v)) = ValueOf(m, v)
<1>1. CASE IsTemp(v) /\ LastCopies(bs, v.val) # {}
  <2> DEFINE p == CHOOSE q \in LastCopies(bs, v.val) : TRUE
             i == At(bs, p)
  <2>1. p \in LastCopies(bs, v.val)
    BY <1>1
  <2>2. Replacement(bs, v) = i.srcs[1]
    BY <1>1 DEF Replacement
  <2> HIDE DEF p
  <2>3. p \in Places(bs) /\ i.op = "Copy" /\ i.dst = v.val
    BY <2>1 DEF LastCopies, CopiesInto
  <2>4. IsConst(i.srcs[1])
    BY <2>3 DEF Plain
  <2>5. v.val \in DOMAIN m.env
    BY <1>1 DEF Defined
  <2>6. m.env[v.val] = i.srcs[1].val
    BY <2>3, <2>5 DEF Holds
  <2>7. ~ IsConst(v)
    BY <1>1 DEF IsTemp, IsConst
  <2> QED BY <2>2, <2>4, <2>6, <2>7 DEF ValueOf
<1>2. CASE ~ (IsTemp(v) /\ LastCopies(bs, v.val) # {})
  BY <1>2 DEF Replacement
<1> QED BY <1>1, <1>2

(* Step by step the two bodies do the same.                                *)
LEMMA PropagatedStep ==
  ASSUME NEW bs, NEW t, ValidBody(bs, t), Plain(bs), NEW ps, ps = PropagatedBody(bs),
         NEW m, Machine(m), Holds(bs, m),
         m.stands = "running" => Ready(bs, m) /\ Ready(ps, m)
  PROVE  Step(ps, m) = Step(bs, m)
<1>1. CASE m.stands # "running"
  BY <1>1, StepIs
<1>2. CASE m.stands = "running"
  <2> DEFINE i == Current(bs, m)
             j == Current(ps, m)
  <2>1. Step(bs, m) = Execute(m, i) /\ Step(ps, m) = Execute(m, j)
    BY <1>2, StepIs
  <2>2. m.blk \in DOMAIN bs /\ m.at \in 1 .. Len(bs[m.blk])
    BY <1>2 DEF Ready
  <2>3. i \in Instr /\ WellFormed(i) /\ j = Propagated(bs, i)
    BY <2>2, PropagatedIs DEF Current, ValidBody, Owned
  <2>4. \A k \in 1 .. Len(i.srcs) : Defined(m, i.srcs[k])
    BY <1>2 DEF Ready
  <2> HIDE DEF i, j
  <2>5. /\ j.op = i.op /\ j.dst = i.dst /\ j.name = i.name /\ j.to = i.to
        /\ Len(j.srcs) = Len(i.srcs)
        /\ \A k \in 1 .. Len(i.srcs) : j.srcs[k] = Replacement(bs, i.srcs[k])
    BY <2>3, PropagatedInstr
  <2>6. ASSUME NEW k \in 1 .. Len(i.srcs)
        PROVE  ValueOf(m, j.srcs[k]) = ValueOf(m, i.srcs[k])
    <3>1. i.srcs[k] \in Operand
      BY <2>3 DEF Instr
    <3>2. IsTemp(i.srcs[k]) \/ IsConst(i.srcs[k])
      BY <3>1 DEF Operand, IsTemp, IsConst
    <3>3. ValueOf(m, Replacement(bs, i.srcs[k])) = ValueOf(m, i.srcs[k])
      BY <2>4, <3>2, ReplacementValue
    <3> QED BY <2>5, <3>3
  <2>7. Execute(m, j) = Execute(m, i)
    BY <2>3, <2>5, <2>6, SameValues
  <2> QED BY <2>1, <2>7
<1> QED BY <1>1, <1>2

(* And so they run alike.                                                  *)
LEMMA PropagatedRuns ==
  ASSUME NEW bs, NEW t, ValidBody(bs, t), IsFiniteSet(Places(bs)), Plain(bs),
         NEW av, NEW rank, NEW need, Flow(bs, av, rank), Sourced(bs, av, need),
         ValidBody(PropagatedBody(bs), t), NEW mem
  PROVE  Run(PropagatedBody(bs), mem) = Run(bs, mem)
<1> DEFINE ps == PropagatedBody(bs)
           Same(n) == State(ps, mem, n) = State(bs, mem, n) /\ Holds(bs, State(bs, mem, n))
           S == {n \in Nat : Same(n)}
<1>1. Flow(ps, av, rank)
  BY PropagatedFlow
<1>2. Places(ps) = Places(bs)
  <2>1. DOMAIN ps = DOMAIN bs /\ \A b \in DOMAIN bs : DOMAIN ps[b] = DOMAIN bs[b]
    BY PropagatedIs
  <2> HIDE DEF ps
  <2> QED BY <2>1 DEF Places
<1> HIDE DEF ps
<1>3. /\ \A n \in Nat : RunsOn(bs, av, State(bs, mem, n))
      /\ Size(bs) \in Nat /\ Run(bs, mem) = State(bs, mem, Size(bs))
  BY FlowReturns
<1>4. /\ \A n \in Nat : RunsOn(ps, av, State(ps, mem, n))
      /\ Run(ps, mem) = State(ps, mem, Size(ps))
  <2>1. ValidBody(ps, t) /\ IsFiniteSet(Places(ps))
    BY <1>2 DEF ps
  <2> QED BY <1>1, <2>1, FlowReturns
<1>5. Size(ps) = Size(bs)
  BY <1>2 DEF Size
<1>6. 0 \in S
  <2>1. State(ps, mem, 0) = Start(mem) /\ State(bs, mem, 0) = Start(mem)
    BY StateIs
  <2>2. DOMAIN Start(mem).env = {}
    BY DEF Start
  <2>3. Holds(bs, Start(mem))
    BY <2>2 DEF Holds
  <2> QED BY <2>1, <2>3
<1>7. ASSUME NEW n \in Nat, n \in S
      PROVE  n + 1 \in S
  <2> DEFINE m == State(bs, mem, n)
  <2>1. State(ps, mem, n) = m /\ Holds(bs, m)
    BY <1>7
  <2>2. RunsOn(bs, av, m) /\ RunsOn(ps, av, m)
    BY <1>3, <1>4, <2>1
  <2>3. State(bs, mem, n + 1) = Step(bs, m) /\ State(ps, mem, n + 1) = Step(ps, m)
    BY <2>1, StateIs
  <2> HIDE DEF m
  <2>4. m.stands = "running" => Ready(bs, m)
    BY <2>2, FlowStep
  <2>5. m.stands = "running" => Ready(ps, m)
    BY <1>1, <2>2, FlowStep DEF ps
  <2>6. Machine(m)
    BY <2>2 DEF RunsOn
  <2>7. Step(ps, m) = Step(bs, m)
    BY <2>1, <2>4, <2>5, <2>6, PropagatedStep DEF ps
  <2>8. Holds(bs, Step(bs, m))
    <3>1. CASE m.stands = "running"
      BY <2>1, <2>4, <2>6, <3>1, HoldsStep
    <3>2. CASE m.stands # "running"
      BY <2>1, <2>6, <3>2, StepIs
    <3> QED BY <3>1, <3>2
  <2> QED BY <2>3, <2>7, <2>8
<1> HIDE DEF S, Same
<1>8. Nat \subseteq S
  BY <1>6, <1>7, AllNumbers
<1>9. Same(Size(bs))
  BY <1>3, <1>8 DEF S
<1>10. Run(ps, mem) = Run(bs, mem)
  BY <1>3, <1>4, <1>5, <1>9 DEF Same
<1> QED BY <1>10 DEF ps

(***************************************************************************)
(* Part 10.  What DeadCodeElim drops cannot be seen.                       *)
(***************************************************************************)

(* DeadCodeElim keeps all blocks, since the terminator of each survives.   *)
LEMMA EliminatedIs ==
  ASSUME NEW bs, NEW t, ValidBody(bs, t), \A b \in DOMAIN bs : Closed(bs[b])
  PROVE  /\ DOMAIN Eliminated(bs) = DOMAIN bs
         /\ \A b \in DOMAIN bs : Eliminated(bs)[b] = NewInstrs(bs[b], UsedTemps(bs))
<1> DEFINE used == UsedTemps(bs)
<1>1. ASSUME NEW b \in DOMAIN bs
      PROVE  NewInstrs(bs[b], used) # <<>>
  <2> DEFINE K == Survivors(bs[b], used)
             l == Len(bs[b])
  <2>1. bs[b] \in Seq(Instr) /\ bs[b] # <<>> /\ IsTerminator(bs[b][l])
    BY DEF ValidBody, Closed
  <2>2. l \in K
    BY <2>1 DEF Survivors, Kept
  <2> HIDE DEF K
  <2>3. /\ K \in SUBSET (1 .. Len(bs[b])) /\ Len(bs[b]) \in Nat
        /\ Len(NewInstrs(bs[b], used)) = Cardinality(K) /\ Cardinality(K) \in Nat
    BY <2>1, NewList DEF K
  <2>4. Cardinality(K) # 0
    <3>1. IsFiniteSet(K) /\ K # {}
      BY <2>2, <2>3, SmallSet
    <3> QED BY <3>1, FS_EmptySet
  <2> QED BY <2>3, <2>4
<1> QED BY <1>1 DEF Eliminated

(* All that is read is used.                                               *)
LEMMA ReadIsUsed ==
  ASSUME NEW bs, NEW t, ValidBody(bs, t), NEW b \in DOMAIN bs, NEW k \in 1 .. Len(bs[b])
  PROVE  OperandTemps(bs[b][k]) \subseteq UsedTemps(bs)
<1>1. <<b, k>> \in Places(bs) /\ At(bs, <<b, k>>) = bs[b][k]
  BY PlaceIn
<1> QED BY <1>1 DEF UsedTemps

(* A run of the new body beside one of the old: what is used is the same,  *)
(* and as many instructions have been passed as are kept.                  *)
Shadows(bs, m, e) ==
  /\ Machine(m) /\ Machine(e)
  /\ e.stands = m.stands /\ e.blk = m.blk /\ e.mem = m.mem /\ e.out = m.out
  /\ e.answer = m.answer
  /\ e.at = Below(Survivors(bs[m.blk], UsedTemps(bs)), m.at) + 1
  /\ \A u \in UsedTemps(bs) :
       u \in DOMAIN m.env => u \in DOMAIN e.env /\ e.env[u] = m.env[u]

(* A kept instruction is the next one there.                               *)
LEMMA KeptIsNext ==
  ASSUME NEW bs, NEW t, ValidBody(bs, t), \A b \in DOMAIN bs : Closed(bs[b]),
         NEW m, NEW e, Shadows(bs, m, e), Ready(bs, m),
         Kept(Current(bs, m), UsedTemps(bs))
  PROVE  Ready(Eliminated(bs), e) /\ Current(Eliminated(bs), e) = Current(bs, m)
<1> DEFINE b == m.blk
           k == m.at
           s == bs[b]
           i == s[k]
           es == Eliminated(bs)
           K == Survivors(s, UsedTemps(bs))
           j == Below(K, k) + 1
<1>1. b \in DOMAIN bs /\ k \in 1 .. Len(s) /\ s \in Seq(Instr) /\ k \in DOMAIN s
  BY DEF Ready, ValidBody
<1>2. k \in K
  BY <1>1 DEF Survivors, Current
<1>3. b \in DOMAIN es /\ es[b] = NewInstrs(s, UsedTemps(bs))
  BY <1>1, EliminatedIs
<1> HIDE DEF K, es
<1>4. /\ K \in SUBSET (1 .. Len(s)) /\ Len(s) \in Nat /\ Cardinality(K) \in Nat
      /\ Len(es[b]) = Cardinality(K)
      /\ \A h \in 1 .. Cardinality(K) : es[b][h] = s[Nth(K, h)]
  BY <1>1, <1>3, NewList DEF K
<1>5. /\ Below(K, k) \in Nat /\ Below(K, k) < Cardinality(K)
      /\ Nth(K, Below(K, k) + 1) = k
  BY <1>2, <1>4, CountedOnce, NthIs
<1>6. j \in 1 .. Cardinality(K)
  BY <1>4, <1>5
<1>7. e.blk = b /\ e.at = j
  BY DEF Shadows, K
<1>8. es[b][j] = i
  BY <1>4, <1>5, <1>6
<1>9. Current(es, e) = i /\ Current(bs, m) = i
  BY <1>7, <1>8 DEF Current
<1>10. ASSUME NEW h \in 1 .. Len(i.srcs)
       PROVE  Defined(e, i.srcs[h])
  <2>1. Defined(m, i.srcs[h])
    BY <1>9 DEF Ready
  <2>2. IsTemp(i.srcs[h]) => i.srcs[h].val \in UsedTemps(bs)
    <3>1. OperandTemps(i) \subseteq UsedTemps(bs)
      BY <1>1, ReadIsUsed
    <3> HIDE DEF i
    <3> QED BY <3>1 DEF OperandTemps
  <2> HIDE DEF i
  <2> QED BY <2>1, <2>2 DEF Defined, Shadows
<1>11. Ready(es, e)
  <2> HIDE DEF i, j, b
  <2> QED BY <1>3, <1>4, <1>6, <1>7, <1>9, <1>10 DEF Ready
<1> QED BY <1>9, <1>11 DEF es

(* Both runs find the same values.                                         *)
LEMMA ShadowValues ==
  ASSUME NEW bs, NEW m, NEW e, Shadows(bs, m, e), NEW i \in Instr,
         OperandTemps(i) \subseteq UsedTemps(bs),
         \A h \in 1 .. Len(i.srcs) : Defined(m, i.srcs[h])
  PROVE  \A h \in 1 .. Len(i.srcs) : ValueOf(e, i.srcs[h]) = ValueOf(m, i.srcs[h])
<1>1. ASSUME NEW h \in 1 .. Len(i.srcs)
      PROVE  ValueOf(e, i.srcs[h]) = ValueOf(m, i.srcs[h])
  <2>1. i.srcs[h] \in Operand
    BY DEF Instr
  <2>2. CASE IsConst(i.srcs[h])
    BY <2>2 DEF ValueOf
  <2>3. CASE ~ IsConst(i.srcs[h])
    <3>1. IsTemp(i.srcs[h])
      BY <2>1, <2>3 DEF Operand, IsTemp, IsConst
    <3>2. i.srcs[h].val \in UsedTemps(bs) /\ i.srcs[h].val \in DOMAIN m.env
      BY <3>1 DEF OperandTemps, Defined
    <3>3. e.env[i.srcs[h].val] = m.env[i.srcs[h].val]
      BY <3>2 DEF Shadows
    <3> QED BY <2>3, <3>3 DEF ValueOf
  <2> QED BY <2>2, <2>3
<1> QED BY <1>1

(* Results are written on both sides.                                      *)
LEMMA ShadowResult ==
  ASSUME NEW m, NEW e, e.mem = m.mem, NEW i \in Instr, WellFormed(i), i.op \in Results,
         \A h \in 1 .. Len(i.srcs) : ValueOf(e, i.srcs[h]) = ValueOf(m, i.srcs[h])
  PROVE  \E a : Execute(m, i) = Written(m, i.dst, a) /\ Execute(e, i) = Written(e, i.dst, a)
<1>1. CASE i.op \in Binary
  <2>1. /\ ValueOf(e, i.srcs[1]) = ValueOf(m, i.srcs[1])
        /\ ValueOf(e, i.srcs[2]) = ValueOf(m, i.srcs[2])
    BY <1>1 DEF WellFormed
  <2>2. Execute(m, i) = Written(m, i.dst, Compute2(i.op, ValueOf(m, i.srcs[1]),
                                                   ValueOf(m, i.srcs[2])))
    BY <1>1, ExecuteBinary
  <2>3. Execute(e, i) = Written(e, i.dst, Compute2(i.op, ValueOf(e, i.srcs[1]),
                                                   ValueOf(e, i.srcs[2])))
    BY <1>1, ExecuteBinary
  <2> QED BY <2>1, <2>2, <2>3
<1>2. CASE i.op \in Unary
  <2>1. ValueOf(e, i.srcs[1]) = ValueOf(m, i.srcs[1])
    BY <1>2 DEF WellFormed
  <2>2. Execute(m, i) = Written(m, i.dst, Compute1(i.op, ValueOf(m, i.srcs[1])))
    BY <1>2, ExecuteUnary
  <2>3. Execute(e, i) = Written(e, i.dst, Compute1(i.op, ValueOf(e, i.srcs[1])))
    BY <1>2, ExecuteUnary
  <2> QED BY <2>1, <2>2, <2>3
<1>3. CASE i.op = "Load"
  <2>1. Execute(m, i) = Written(m, i.dst, m.mem[i.name])
    BY <1>3 DEF Execute, Binary, Comparisons, Unary
  <2>2. Execute(e, i) = Written(e, i.dst, e.mem[i.name])
    BY <1>3 DEF Execute, Binary, Comparisons, Unary
  <2> QED BY <2>1, <2>2
<1> QED BY <1>1, <1>2, <1>3 DEF Results

(* Effects are the same.                                                   *)
LEMMA ShadowEffect ==
  ASSUME NEW m, Machine(m), NEW e, Machine(e), e.mem = m.mem, e.out = m.out,
         e.answer = m.answer, e.stands = m.stands, e.blk = m.blk,
         NEW i \in Instr, WellFormed(i), i.op \notin Results,
         \A h \in 1 .. Len(i.srcs) : ValueOf(e, i.srcs[h]) = ValueOf(m, i.srcs[h])
  PROVE  LET x == Execute(m, i)
             y == Execute(e, i)
         IN  /\ Machine(x) /\ Machine(y)
             /\ y.stands = x.stands /\ y.blk = x.blk /\ y.mem = x.mem /\ y.out = x.out
             /\ y.answer = x.answer /\ x.env = m.env /\ y.env = e.env
             /\ i.op \in {"Store", "Write"} =>
                  x.at = m.at + 1 /\ y.at = e.at + 1 /\ x.blk = m.blk
             /\ i.op \in {"Jump", "Branch"} => x.at = 1 /\ y.at = 1 /\ x.blk \in Targets(i)
             /\ i.op = "Ret" => x.at = m.at /\ y.at = e.at /\ x.blk = m.blk
<1> DEFINE x == Execute(m, i)
           y == Execute(e, i)
<1>1. CASE i.op \in {"Store", "Write"}
  <2>1. ValueOf(e, i.srcs[1]) = ValueOf(m, i.srcs[1])
    BY <1>1 DEF WellFormed
  <2>2. CASE i.op = "Store"
    <3>1. /\ x = [m EXCEPT !.mem[i.name] = ValueOf(m, i.srcs[1]), !.at = @ + 1]
          /\ y = [e EXCEPT !.mem[i.name] = ValueOf(e, i.srcs[1]), !.at = @ + 1]
      BY <2>2 DEF Execute, Binary, Comparisons, Unary
    <3> DEFINE mm == [m.mem EXCEPT ![i.name] = ValueOf(m, i.srcs[1])]
    <3>2. x = [blk |-> m.blk, at |-> m.at + 1, env |-> m.env, mem |-> mm, out |-> m.out,
               answer |-> m.answer, stands |-> m.stands]
      BY <3>1 DEF Machine
    <3>3. y = [blk |-> e.blk, at |-> e.at + 1, env |-> e.env, mem |-> mm, out |-> e.out,
               answer |-> e.answer, stands |-> e.stands]
      BY <2>1, <3>1 DEF Machine
    <3> HIDE DEF x, y, mm
    <3> QED BY <2>2, <3>2, <3>3 DEF Machine, x, y
  <2>3. CASE i.op = "Write"
    <3>1. /\ x = [m EXCEPT !.out = Append(@, ValueOf(m, i.srcs[1])), !.at = @ + 1]
          /\ y = [e EXCEPT !.out = Append(@, ValueOf(e, i.srcs[1])), !.at = @ + 1]
      BY <2>3 DEF Execute, Binary, Comparisons, Unary
    <3> DEFINE oo == Append(m.out, ValueOf(m, i.srcs[1]))
    <3>2. x = [blk |-> m.blk, at |-> m.at + 1, env |-> m.env, mem |-> m.mem, out |-> oo,
               answer |-> m.answer, stands |-> m.stands]
      BY <3>1 DEF Machine
    <3>3. y = [blk |-> e.blk, at |-> e.at + 1, env |-> e.env, mem |-> e.mem, out |-> oo,
               answer |-> e.answer, stands |-> e.stands]
      BY <2>1, <3>1 DEF Machine
    <3> HIDE DEF x, y, oo
    <3> QED BY <2>3, <3>2, <3>3 DEF Machine, x, y
  <2> QED BY <1>1, <2>2, <2>3
<1>2. CASE i.op = "Jump"
  <2>1. x = Goto(m, i.to[1]) /\ y = Goto(e, i.to[1])
    BY <1>2 DEF Execute, Binary, Comparisons, Unary
  <2>2. i.to[1] \in Targets(i)
    BY <1>2 DEF Targets
  <2> HIDE DEF x, y
  <2> QED BY <1>2, <2>1, <2>2, GotoIs DEF x, y
<1>3. CASE i.op = "Branch"
  <2> DEFINE c == IF ValueOf(m, i.srcs[1]) # 0 THEN i.to[1] ELSE i.to[2]
  <2>1. ValueOf(e, i.srcs[1]) = ValueOf(m, i.srcs[1])
    BY <1>3 DEF WellFormed
  <2>2. x = Goto(m, c) /\ y = Goto(e, c)
    BY <1>3, <2>1 DEF Execute, Binary, Comparisons, Unary
  <2>3. c \in Targets(i)
    BY <1>3 DEF Targets
  <2> HIDE DEF x, y, c
  <2> QED BY <1>3, <2>2, <2>3, GotoIs DEF x, y
<1>4. CASE i.op = "Ret"
  <2> DEFINE aa == [k \in 1 .. Len(i.srcs) |-> ValueOf(m, i.srcs[k])]
  <2>1. /\ x = [m EXCEPT !.answer = aa, !.stands = "returned"]
        /\ y = [e EXCEPT !.answer = [k \in 1 .. Len(i.srcs) |-> ValueOf(e, i.srcs[k])],
                         !.stands = "returned"]
    BY <1>4 DEF Execute, Binary, Comparisons, Unary
  <2>2. [k \in 1 .. Len(i.srcs) |-> ValueOf(e, i.srcs[k])] = aa
    OBVIOUS
  <2> HIDE DEF x, y, aa
  <2>3. x = [blk |-> m.blk, at |-> m.at, env |-> m.env, mem |-> m.mem, out |-> m.out,
             answer |-> aa, stands |-> "returned"]
    BY <2>1 DEF Machine
  <2>4. y = [blk |-> e.blk, at |-> e.at, env |-> e.env, mem |-> e.mem, out |-> e.out,
             answer |-> aa, stands |-> "returned"]
    BY <2>1, <2>2 DEF Machine
  <2> QED BY <1>4, <2>3, <2>4 DEF Machine, x, y
<1> QED BY <1>1, <1>2, <1>3, <1>4, Operations

(* A step of the old body is a step of the new one, or none.               *)
LEMMA ShadowStep ==
  ASSUME NEW bs, NEW t, ValidBody(bs, t), \A b \in DOMAIN bs : Closed(bs[b]),
         NEW rank, Forward(bs, rank),
         NEW m, NEW e, Shadows(bs, m, e), m.stands = "running", Ready(bs, m)
  PROVE  Shadows(bs, Step(bs, m), Step(Eliminated(bs), e)) \/ Shadows(bs, Step(bs, m), e)
<1> DEFINE used == UsedTemps(bs)
           b == m.blk
           k == m.at
           K == Survivors(bs[b], used)
           i == Current(bs, m)
           x == Step(bs, m)
           y == Step(Eliminated(bs), e)
<1>1. /\ b \in DOMAIN bs /\ k \in 1 .. Len(bs[b]) /\ bs[b] \in Seq(Instr) /\ k \in Nat
      /\ i = bs[b][k] /\ i \in Instr /\ WellFormed(i) /\ k \in DOMAIN bs[b]
      /\ \A h \in 1 .. Len(i.srcs) : Defined(m, i.srcs[h])
  BY DEF Ready, ValidBody, Owned, Current
<1>2. x = Execute(m, i) /\ Machine(m) /\ Machine(e)
  BY StepIs DEF Shadows
<1>3. \A c \in DOMAIN bs : Survivors(bs[c], used) \in SUBSET (1 .. Len(bs[c])) /\ Len(bs[c]) \in Nat
  BY NewList DEF ValidBody
<1>4. /\ k \in K => Below(K, k + 1) = Below(K, k) + 1
      /\ k \notin K => Below(K, k + 1) = Below(K, k)
  BY <1>1, <1>3, CountsOn
<1>5. \A c \in DOMAIN bs : Below(Survivors(bs[c], used), 1) = 0
  BY <1>1, <1>3, CountsOn
<1>6. k \in K <=> Kept(i, used)
  BY <1>1 DEF Survivors
<1>7. OperandTemps(i) \subseteq used
  BY <1>1, ReadIsUsed
<1>8. \A c \in Targets(i) : c \in DOMAIN bs
  BY <1>1 DEF Forward
<1> SUFFICES Shadows(bs, x, y) \/ Shadows(bs, x, e)
  OBVIOUS
<1>9. CASE Kept(i, used)
  <2>1. Ready(Eliminated(bs), e) /\ Current(Eliminated(bs), e) = i
    BY <1>9, KeptIsNext
  <2>2. y = Execute(e, i)
    BY <1>2, <2>1, StepIs DEF Shadows
  <2>3. \A h \in 1 .. Len(i.srcs) : ValueOf(e, i.srcs[h]) = ValueOf(m, i.srcs[h])
    BY <1>1, <1>7, ShadowValues
  <2>4. /\ e.stands = m.stands /\ e.blk = b /\ e.mem = m.mem /\ e.out = m.out
        /\ e.answer = m.answer /\ e.at = Below(K, k) + 1
        /\ \A u \in used : u \in DOMAIN m.env => u \in DOMAIN e.env /\ e.env[u] = m.env[u]
    BY DEF Shadows
  <2>5. Below(K, k + 1) = Below(K, k) + 1
    BY <1>4, <1>6, <1>9
  <2> HIDE DEF i, x, y, K
  <2>6. CASE i.op \in Results
    <3>1. PICK a : Execute(m, i) = Written(m, i.dst, a) /\ Execute(e, i) = Written(e, i.dst, a)
      <4>1. i \in Instr /\ WellFormed(i) /\ e.mem = m.mem
        BY <1>1, <2>4
      <4>2. \E a : Execute(m, i) = Written(m, i.dst, a) /\ Execute(e, i) = Written(e, i.dst, a)
        BY <2>3, <2>6, <4>1, ShadowResult
      <4> QED BY <4>2
    <3>2. /\ Machine(x) /\ x.blk = b /\ x.at = k + 1 /\ x.mem = m.mem /\ x.out = m.out
          /\ x.answer = m.answer /\ x.stands = m.stands
          /\ DOMAIN x.env = DOMAIN m.env \cup {i.dst}
          /\ \A u \in DOMAIN m.env \cup {i.dst} : x.env[u] = IF u = i.dst THEN a ELSE m.env[u]
      BY <1>2, <3>1, WrittenIs
    <3>3. /\ Machine(y) /\ y.blk = e.blk /\ y.at = e.at + 1 /\ y.mem = e.mem /\ y.out = e.out
          /\ y.answer = e.answer /\ y.stands = e.stands
          /\ DOMAIN y.env = DOMAIN e.env \cup {i.dst}
          /\ \A u \in DOMAIN e.env \cup {i.dst} : y.env[u] = IF u = i.dst THEN a ELSE e.env[u]
      BY <1>2, <2>2, <3>1, WrittenIs
    <3>4. y.at = Below(K, x.at) + 1
      BY <2>4, <2>5, <3>2, <3>3
    <3>5. ASSUME NEW u \in used, u \in DOMAIN x.env
          PROVE  u \in DOMAIN y.env /\ y.env[u] = x.env[u]
      <4>1. CASE u = i.dst
        BY <3>2, <3>3, <4>1
      <4>2. CASE u # i.dst
        BY <2>4, <3>2, <3>3, <3>5, <4>2
      <4> QED BY <4>1, <4>2
    <3> QED BY <2>4, <3>2, <3>3, <3>4, <3>5 DEF Shadows, K
  <2>7. CASE i.op \notin Results
    <3>1. /\ Machine(x) /\ Machine(y)
          /\ y.stands = x.stands /\ y.blk = x.blk /\ y.mem = x.mem /\ y.out = x.out
          /\ y.answer = x.answer /\ x.env = m.env /\ y.env = e.env
          /\ i.op \in {"Store", "Write"} =>
               x.at = m.at + 1 /\ y.at = e.at + 1 /\ x.blk = m.blk
          /\ i.op \in {"Jump", "Branch"} => x.at = 1 /\ y.at = 1 /\ x.blk \in Targets(i)
          /\ i.op = "Ret" => x.at = m.at /\ y.at = e.at /\ x.blk = m.blk
      BY <1>1, <1>2, <2>2, <2>3, <2>4, <2>7, ShadowEffect
    <3>2. y.at = Below(Survivors(bs[x.blk], used), x.at) + 1
      <4>1. CASE i.op \in {"Store", "Write"}
        BY <2>4, <2>5, <3>1, <4>1 DEF K
      <4>2. CASE i.op \in {"Jump", "Branch"}
        <5>1. x.at = 1 /\ y.at = 1
          BY <3>1, <4>2
        <5>2. Below(Survivors(bs[x.blk], used), 1) = 0
          <6>1. x.blk \in DOMAIN bs
            BY <1>8, <3>1, <4>2
          <6> QED BY <1>5, <6>1
        <5> QED BY <5>1, <5>2
      <4>3. CASE i.op = "Ret"
        BY <2>4, <3>1, <4>3 DEF K
      <4> QED BY <1>1, <2>7, <4>1, <4>2, <4>3, Operations
    <3> QED BY <2>4, <3>1, <3>2 DEF Shadows
  <2> QED BY <2>6, <2>7
<1>10. CASE ~ Kept(i, used)
  <2>1. i.dst # NoDst /\ i.dst \notin used /\ i.op \notin Terminators
    BY <1>10 DEF Kept, IsTerminator
  <2>2. i.op \in Results
    <3>1. i.op \notin {"Store", "Write"}
      BY <1>1, <2>1 DEF WellFormed
    <3> QED BY <1>1, <2>1, <3>1, Operations DEF Terminators
  <2>3. /\ e.stands = m.stands /\ e.blk = b /\ e.mem = m.mem /\ e.out = m.out
        /\ e.answer = m.answer /\ e.at = Below(K, k) + 1
        /\ \A u \in used : u \in DOMAIN m.env => u \in DOMAIN e.env /\ e.env[u] = m.env[u]
    BY DEF Shadows
  <2>4. Below(K, k + 1) = Below(K, k)
    BY <1>4, <1>6, <1>10
  <2> HIDE DEF i, x, K
  <2>5. PICK a : x = Written(m, i.dst, a)
    BY <1>2, <2>2, ExecuteIs
  <2>6. /\ Machine(x) /\ x.blk = b /\ x.at = k + 1 /\ x.mem = m.mem /\ x.out = m.out
        /\ x.answer = m.answer /\ x.stands = m.stands
        /\ DOMAIN x.env = DOMAIN m.env \cup {i.dst}
        /\ \A u \in DOMAIN m.env \cup {i.dst} : x.env[u] = IF u = i.dst THEN a ELSE m.env[u]
    BY <1>2, <2>5, WrittenIs
  <2>7. e.at = Below(K, x.at) + 1
    BY <2>3, <2>4, <2>6
  <2>8. ASSUME NEW u \in used, u \in DOMAIN x.env
        PROVE  u \in DOMAIN e.env /\ e.env[u] = x.env[u]
    BY <2>1, <2>3, <2>6, <2>8
  <2> QED BY <1>2, <2>3, <2>6, <2>7, <2>8 DEF Shadows, K
<1> QED BY <1>9, <1>10

(* Jumps of the new body are jumps of the old.                             *)
LEMMA EliminatedForward ==
  ASSUME NEW bs, NEW t, ValidBody(bs, t), NEW av, NEW rank, Flow(bs, av, rank)
  PROVE  Forward(Eliminated(bs), rank)
<1> DEFINE es == Eliminated(bs)
           used == UsedTemps(bs)
<1>1. \A b \in DOMAIN bs : Closed(bs[b])
  BY DEF Flow
<1>2. DOMAIN es = DOMAIN bs /\ \A b \in DOMAIN bs : es[b] = NewInstrs(bs[b], used)
  BY <1>1, EliminatedIs
<1> HIDE DEF es, used
<1>3. ASSUME NEW b \in DOMAIN es, NEW k \in 1 .. Len(es[b]), NEW c \in Targets(es[b][k])
      PROVE  c \in DOMAIN es /\ rank[b] < rank[c]
  <2> DEFINE K == Survivors(bs[b], used)
  <2>1. b \in DOMAIN bs /\ bs[b] \in Seq(Instr)
    BY <1>2 DEF ValidBody
  <2>2. /\ K \in SUBSET (1 .. Len(bs[b])) /\ Len(es[b]) = Cardinality(K)
        /\ Nth(K, k) \in K /\ es[b][k] = bs[b][Nth(K, k)]
    BY <1>2, <2>1, NewList
  <2> HIDE DEF K
  <2>3. Nth(K, k) \in 1 .. Len(bs[b])
    BY <2>2
  <2> QED BY <1>2, <2>1, <2>2, <2>3 DEF Flow, Forward
<1>4. \A b \in DOMAIN es : rank[b] \in Nat
  BY <1>2 DEF Flow, Forward
<1>5. Forward(es, rank)
  BY <1>3, <1>4 DEF Forward
<1> QED BY <1>5 DEF es

(* A run of the old body comes to what a run of the new one comes to.      *)
LEMMA EliminatedRuns ==
  ASSUME NEW bs, NEW t, ValidBody(bs, t), NEW n \in Nat, DOMAIN bs = 1 .. n,
         NEW av, NEW rank, Flow(bs, av, rank), NEW mem
  PROVE  Seen(Run(Eliminated(bs), mem)) = Seen(Run(bs, mem))
<1> DEFINE es == Eliminated(bs)
           Followed(j) == \E k \in Nat : Shadows(bs, State(bs, mem, j), State(es, mem, k))
           S == {j \in Nat : Followed(j)}
           z == Size(bs)
<1>1. \A b \in DOMAIN bs : Closed(bs[b])
  BY DEF Flow
<1>2. IsFiniteSet(Places(bs))
  BY PlacesCounted
<1>3. /\ \A j \in Nat : RunsOn(bs, av, State(bs, mem, j))
      /\ z \in Nat /\ Run(bs, mem) = State(bs, mem, z) /\ Run(bs, mem).stands = "returned"
  BY <1>2, FlowReturns
<1>4. 0 \in S
  <2>1. State(bs, mem, 0) = Start(mem) /\ State(es, mem, 0) = Start(mem)
    BY StateIs
  <2>2. Below(Survivors(bs[1], UsedTemps(bs)), 1) = 0
    <3>1. bs[1] \in Seq(Instr)
      BY DEF Flow, ValidBody
    <3>2. {h \in Survivors(bs[1], UsedTemps(bs)) : h < 1} = {}
      BY <3>1 DEF Survivors
    <3> QED BY <3>2, FS_EmptySet DEF Below
  <2>3. Shadows(bs, Start(mem), Start(mem))
    <3>1. Machine(Start(mem))
      BY DEF Machine, Start
    <3>2. Start(mem).blk = 1 /\ Start(mem).at = 1
      BY DEF Start
    <3> QED BY <2>2, <3>1, <3>2 DEF Shadows
  <2> HIDE DEF es
  <2> QED BY <2>1, <2>3
<1> HIDE DEF z
<1>5. ASSUME NEW j \in Nat, j \in S
      PROVE  j + 1 \in S
  <2> DEFINE m == State(bs, mem, j)
             x == State(bs, mem, j + 1)
  <2>1. PICK k \in Nat : Shadows(bs, m, State(es, mem, k))
    BY <1>5
  <2> DEFINE e == State(es, mem, k)
             y == State(es, mem, k + 1)
  <2>2. x = Step(bs, m) /\ y = Step(es, e)
    BY StateIs
  <2>3. RunsOn(bs, av, m)
    BY <1>3
  <2> HIDE DEF m, x, e, y
  <2>4. Shadows(bs, x, y) \/ Shadows(bs, x, e)
    <3>1. CASE m.stands = "running"
      <4>1. Ready(bs, m)
        BY <2>3, <3>1, FlowStep
      <4>2. Shadows(bs, m, e)
        BY <2>1 DEF e
      <4> HIDE DEF es
      <4>3. Shadows(bs, Step(bs, m), Step(Eliminated(bs), e)) \/ Shadows(bs, Step(bs, m), e)
        BY <1>1, <3>1, <4>1, <4>2, ShadowStep DEF Flow
      <4> QED BY <2>2, <4>3 DEF es
    <3>2. CASE m.stands # "running"
      <4>1. x = m
        BY <2>2, <2>3, <3>2, StepIs DEF RunsOn
      <4> QED BY <2>1, <4>1 DEF e
    <3> QED BY <3>1, <3>2
  <2>5. Followed(j + 1)
    <3> HIDE DEF es
    <3> QED BY <2>4 DEF x, y, e
  <2> HIDE DEF Followed
  <2> QED BY <2>5
<1> HIDE DEF S
<1>6. Nat \subseteq S
  BY <1>4, <1>5, AllNumbers
<1>7. PICK k \in Nat : Shadows(bs, State(bs, mem, z), State(es, mem, k))
  BY <1>3, <1>6 DEF S
<1>8. State(es, mem, k).stands = "returned"
  BY <1>3, <1>7 DEF Shadows
<1>9. ValidBody(es, t) /\ DOMAIN es = 1 .. n /\ 1 \in DOMAIN es
  BY <1>1, EliminatedValid, EliminatedIs DEF Flow
<1>10. Forward(es, rank)
  BY EliminatedForward
<1> HIDE DEF es
<1>11. IsFiniteSet(Places(es))
  BY <1>9, PlacesCounted
<1>12. Run(es, mem) = State(es, mem, k)
  BY <1>8, <1>9, <1>10, <1>11, ReturnsInTime
<1>13. Seen(Run(es, mem)) = Seen(Run(bs, mem))
  BY <1>3, <1>7, <1>12 DEF Seen, Shadows
<1> QED BY <1>13 DEF es

(***************************************************************************)
(* Part 11.  Lowering builds bodies that never get stuck.  Beside the      *)
(* current block c there are pending ones, P: made, not begun, and jumped  *)
(* to.  All others are closed.  Blocks are ranked in the order they have   *)
(* become current.                                                         *)
(***************************************************************************)

(* What has been written at the end of block b.                            *)
Have(bs, av, b) == Avail(bs, av, b, Len(bs[b]))

(* An instruction in its place: it reads what is available, it jumps to    *)
(* blocks that count on no more, and what it copies is recorded as needed. *)
Placed(bs, n, P, av, rank, need, b, k) ==
  /\ OperandTemps(bs[b][k]) \subseteq Avail(bs, av, b, k - 1)
  /\ \A g \in Targets(bs[b][k]) :
       /\ g \in 1 .. n /\ av[g] \subseteq Avail(bs, av, b, k - 1)
       /\ g \in P \/ rank[b] < rank[g]
  /\ bs[b][k].op = "Copy" => OperandTemps(bs[b][k]) \subseteq need[bs[b][k].dst]

(* With a temporary that was copied into, what it was copied from is       *)
(* available too.                                                          *)
Fed(bs, av, need, b, k) ==
  \A u \in Avail(bs, av, b, k) : need[u] \subseteq Avail(bs, av, b, k)

(* Block c is the current one, those in P are pending and empty; all       *)
(* others end with a terminator and come before c.                         *)
Around(bs, c, P, av, rank, need, t) ==
  /\ c \in 1 .. Len(bs) /\ P \subseteq 1 .. Len(bs) /\ c \notin P
  /\ av[1] = {}
  /\ \A b \in 1 .. Len(bs) : av[b] \subseteq 1 .. t /\ rank[b] \in Nat
  /\ \A b \in P : bs[b] = <<>>
  /\ \A b \in (1 .. Len(bs)) \ (P \cup {c}) : Closed(bs[b]) /\ rank[b] < rank[c]
  /\ \A u \in Nat : u > t => need[u] = {}

(* All of that together, of a body with t temporaries.                     *)
Sound(bs, c, P, av, rank, need, t) ==
  /\ Body(bs, t)
  /\ Around(bs, c, P, av, rank, need, t)
  /\ \A b \in 1 .. Len(bs) : \A k \in 1 .. Len(bs[b]) :
       Placed(bs, Len(bs), P, av, rank, need, b, k)
  /\ \A b \in 1 .. Len(bs) : \A k \in 0 .. Len(bs[b]) : Fed(bs, av, need, b, k)

(* Lists of blocks.                                                        *)
LEMMA BodyIs ==
  ASSUME NEW bs, NEW t, Body(bs, t)
  PROVE  /\ bs \in Seq(Seq(Instr)) /\ Len(bs) \in Nat /\ DOMAIN bs = 1 .. Len(bs)
         /\ \A b \in 1 .. Len(bs) :
              /\ bs[b] \in Seq(Instr) /\ Len(bs[b]) \in Nat
              /\ \A k \in 1 .. Len(bs[b]) :
                   bs[b][k] \in Instr /\ WellFormed(bs[b][k]) /\ Owned(bs[b][k], t)
<1>1. /\ bs \in Seq(Seq(Instr))
      /\ \A b \in 1 .. Len(bs) : \A k \in 1 .. Len(bs[b]) : Owned(bs[b][k], t)
  BY DEF Body
<1>2. \A b \in 1 .. Len(bs) : bs[b] \in Seq(Instr)
  BY <1>1
<1> QED BY <1>1, <1>2 DEF Owned

(* emit: one more instruction at the end of a block.                       *)
LEMMA EmitIs ==
  ASSUME NEW bs, NEW t, Body(bs, t), NEW c \in 1 .. Len(bs), NEW i \in Instr
  PROVE  LET ns == Emit(bs, c, i)
         IN  /\ Len(ns) = Len(bs)
             /\ \A b \in 1 .. Len(bs) : b # c => ns[b] = bs[b]
             /\ ns[c] \in Seq(Instr) /\ ns[c] # <<>>
             /\ Len(bs[c]) \in Nat /\ Len(ns[c]) = Len(bs[c]) + 1
             /\ \A k \in 1 .. Len(bs[c]) : ns[c][k] = bs[c][k]
             /\ ns[c][Len(bs[c]) + 1] = i
<1> DEFINE s == Append(bs[c], i)
           ns == Emit(bs, c, i)
<1>1. bs \in Seq(Seq(Instr)) /\ bs[c] \in Seq(Instr) /\ Len(bs[c]) \in Nat
  BY BodyIs
<1>2. /\ s \in Seq(Instr) /\ s # <<>> /\ Len(s) = Len(bs[c]) + 1
      /\ \A k \in 1 .. Len(bs[c]) : s[k] = bs[c][k]
      /\ s[Len(bs[c]) + 1] = i
  <2> DEFINE r == bs[c]
  <2>1. r \in Seq(Instr) /\ Len(r) \in Nat
    BY <1>1
  <2> HIDE DEF r
  <2>2. /\ Append(r, i) \in Seq(Instr) /\ Len(Append(r, i)) = Len(r) + 1
        /\ \A k \in 1 .. Len(r) : Append(r, i)[k] = r[k]
        /\ Append(r, i)[Len(r) + 1] = i
    BY <2>1
  <2>3. Append(r, i) # <<>>
    <3>1. Len(Append(r, i)) # 0
      BY <2>1, <2>2
    <3>2. Len(<<>>) = 0
      OBVIOUS
    <3> QED BY <3>1, <3>2, Zenon
  <2> QED BY <2>2, <2>3 DEF r
<1>3. ns = [bs EXCEPT ![c] = s]
  BY DEF Emit
<1> HIDE DEF s, ns
<1>4. Len(ns) = Len(bs) /\ ns[c] = s /\ \A b \in 1 .. Len(bs) : b # c => ns[b] = bs[b]
  BY <1>1, <1>2, <1>3
<1> QED BY <1>1, <1>2, <1>4 DEF ns

(* What is available depends on the instructions before only.              *)
LEMMA AvailPrefix ==
  ASSUME NEW bs, NEW ns, NEW av, NEW bv, NEW b, NEW k, av[b] = bv[b],
         \A h \in 1 .. k : ns[b][h] = bs[b][h]
  PROVE  Avail(ns, bv, b, k) = Avail(bs, av, b, k)
<1>1. {ns[b][h].dst : h \in 1 .. k} = {bs[b][h].dst : h \in 1 .. k}
  OBVIOUS
<1> QED BY <1>1 DEF Avail, Defs

(* An instruction is emitted into the current block.                       *)
LEMMA EmitSound ==
  ASSUME NEW bs, NEW c, NEW P, NEW av, NEW rank, NEW need, NEW t,
         Sound(bs, c, P, av, rank, need, t), NEW i, Owned(i, t),
         OperandTemps(i) \subseteq Have(bs, av, c),
         \A g \in Targets(i) : g \in P /\ av[g] \subseteq Have(bs, av, c),
         i.op = "Copy" => OperandTemps(i) \subseteq need[i.dst],
         i.dst # NoDst => need[i.dst] \subseteq Have(bs, av, c)
  PROVE  LET ns == Emit(bs, c, i)
         IN  /\ Sound(ns, c, P, av, rank, need, t) /\ Len(ns) = Len(bs)
             /\ Have(ns, av, c) = Have(bs, av, c) \cup ({i.dst} \ {NoDst})
             /\ IsTerminator(i) => Closed(ns[c])
<1> DEFINE ns == Emit(bs, c, i)
           l == Len(bs[c])
           H == Have(bs, av, c)
<1>1. /\ Body(bs, t) /\ Around(bs, c, P, av, rank, need, t)
      /\ c \in 1 .. Len(bs) /\ i \in Instr /\ Len(bs) \in Nat
  BY BodyIs DEF Sound, Around, Owned
<1>2. Body(ns, t) /\ Len(ns) = Len(bs)
  BY <1>1, EmitOK
<1>3. /\ \A b \in 1 .. Len(bs) : b # c => ns[b] = bs[b]
      /\ ns[c] \in Seq(Instr) /\ ns[c] # <<>> /\ l \in Nat /\ Len(ns[c]) = l + 1
      /\ \A k \in 1 .. l : ns[c][k] = bs[c][k]
      /\ ns[c][l + 1] = i
  BY <1>1, EmitIs
<1> HIDE DEF ns
<1>4. ASSUME NEW b \in 1 .. Len(bs), NEW k \in 0 .. Len(bs[b])
      PROVE  Avail(ns, av, b, k) = Avail(bs, av, b, k)
  <2>1. \A h \in 1 .. k : ns[b][h] = bs[b][h]
    <3>1. CASE b = c
      BY <1>3, <3>1
    <3>2. CASE b # c
      BY <1>3, <3>2
    <3> QED BY <3>1, <3>2
  <2> QED BY <2>1, AvailPrefix
<1>5. Avail(ns, av, c, l + 1) = H \cup ({i.dst} \ {NoDst})
  <2>1. Defs(ns[c], l + 1) = Defs(ns[c], l) \cup ({i.dst} \ {NoDst})
    BY <1>3, DefsGrow
  <2>2. Avail(ns, av, c, l) = H
    <3>1. l \in 0 .. l
      BY <1>3
    <3> QED BY <1>1, <1>4, <3>1 DEF Have
  <2> QED BY <2>1, <2>2 DEF Avail
<1>6. Around(ns, c, P, av, rank, need, t)
  <2>1. \A b \in P : ns[b] = <<>>
    BY <1>1, <1>3 DEF Around
  <2>2. \A b \in (1 .. Len(bs)) \ (P \cup {c}) : ns[b] = bs[b]
    BY <1>3
  <2> QED BY <1>1, <1>2, <2>1, <2>2 DEF Around
<1> HIDE DEF H, l
<1>7. ASSUME NEW b \in 1 .. Len(ns), NEW k \in 1 .. Len(ns[b])
      PROVE  Placed(ns, Len(ns), P, av, rank, need, b, k)
  <2>1. CASE b = c /\ k = l + 1
    <3>1. Avail(ns, av, b, k - 1) = H
      <4>1. k - 1 = l /\ l \in 0 .. Len(bs[c]) /\ b \in 1 .. Len(bs)
        BY <1>1, <1>3, <2>1 DEF l
      <4> QED BY <1>4, <2>1, <4>1 DEF H, Have, l
    <3>2. ns[b][k] = i
      BY <1>3, <2>1
    <3>3. \A g \in P : g \in 1 .. Len(ns)
      BY <1>1, <1>2 DEF Around
    <3> QED BY <3>1, <3>2, <3>3 DEF Placed, H
  <2>2. CASE ~ (b = c /\ k = l + 1)
    <3>1. b \in 1 .. Len(bs) /\ k \in 1 .. Len(bs[b]) /\ Len(bs[b]) \in Nat
      <4>1. b \in 1 .. Len(bs)
        BY <1>2
      <4>2. CASE b = c
        BY <1>3, <2>2, <4>1, <4>2 DEF l
      <4>3. CASE b # c
        BY <1>1, <1>3, <4>1, <4>3, BodyIs
      <4> QED BY <4>1, <4>2, <4>3
    <3>2. ns[b][k] = bs[b][k]
      BY <1>3, <3>1 DEF l
    <3>3. Avail(ns, av, b, k - 1) = Avail(bs, av, b, k - 1)
      <4>1. k - 1 \in 0 .. Len(bs[b])
        BY <3>1
      <4> QED BY <1>4, <3>1, <4>1
    <3>4. Placed(bs, Len(bs), P, av, rank, need, b, k)
      BY <3>1 DEF Sound
    <3> QED BY <1>2, <3>2, <3>3, <3>4 DEF Placed
  <2> QED BY <2>1, <2>2
<1>8. ASSUME NEW b \in 1 .. Len(ns), NEW k \in 0 .. Len(ns[b])
      PROVE  Fed(ns, av, need, b, k)
  <2>1. CASE b = c /\ k = l + 1
    <3>1. Avail(ns, av, b, k) = H \cup ({i.dst} \ {NoDst})
      BY <1>5, <2>1
    <3>2. \A u \in H : need[u] \subseteq H
      <4>1. l \in 0 .. Len(bs[c])
        BY <1>3 DEF l
      <4>2. Fed(bs, av, need, c, l)
        BY <1>1, <4>1 DEF Sound
      <4> QED BY <4>2 DEF Fed, H, Have, l
    <3>3. i.dst # NoDst => need[i.dst] \subseteq H
      BY DEF H
    <3> QED BY <3>1, <3>2, <3>3 DEF Fed
  <2>2. CASE ~ (b = c /\ k = l + 1)
    <3>1. b \in 1 .. Len(bs) /\ k \in 0 .. Len(bs[b]) /\ Len(bs[b]) \in Nat
      <4>1. b \in 1 .. Len(bs)
        BY <1>2
      <4>2. CASE b = c
        BY <1>3, <2>2, <4>1, <4>2 DEF l
      <4>3. CASE b # c
        BY <1>1, <1>3, <4>1, <4>3, BodyIs
      <4> QED BY <4>1, <4>2, <4>3
    <3>2. Avail(ns, av, b, k) = Avail(bs, av, b, k)
      BY <1>4, <3>1
    <3>3. Fed(bs, av, need, b, k)
      BY <3>1 DEF Sound
    <3> QED BY <3>2, <3>3 DEF Fed
  <2> QED BY <2>1, <2>2
<1>9. Sound(ns, c, P, av, rank, need, t)
  BY <1>2, <1>6, <1>7, <1>8 DEF Sound
<1>10. Have(ns, av, c) = H \cup ({i.dst} \ {NoDst})
  BY <1>3, <1>5 DEF Have
<1>11. IsTerminator(i) => Closed(ns[c])
  BY <1>3 DEF Closed
<1> QED BY <1>2, <1>9, <1>10, <1>11 DEF ns, H

(* finishBlock: the current block is closed.                               *)
LEMMA FinishSound ==
  ASSUME NEW bs, NEW c, NEW P, NEW av, NEW rank, NEW need, NEW t,
         Sound(bs, c, P, av, rank, need, t), NEW i, Owned(i, t), IsTerminator(i),
         OperandTemps(i) \subseteq Have(bs, av, c), i.dst = NoDst,
         \A g \in Targets(i) : g \in P /\ av[g] \subseteq Have(bs, av, c)
  PROVE  LET ns == Finish(bs, c, i)
         IN  /\ Sound(ns, c, P, av, rank, need, t) /\ Len(ns) = Len(bs)
             /\ Closed(ns[c])
<1>1. CASE bs[c] # <<>> /\ IsTerminator(Last(bs[c]))
  <2>1. Finish(bs, c, i) = bs
    BY <1>1 DEF Finish
  <2>2. Closed(bs[c])
    BY <1>1 DEF Closed, Last
  <2> QED BY <2>1, <2>2
<1>2. CASE ~ (bs[c] # <<>> /\ IsTerminator(Last(bs[c])))
  <2>1. Finish(bs, c, i) = Emit(bs, c, i)
    BY <1>2 DEF Finish
  <2>2. i.op # "Copy"
    BY DEF IsTerminator, Terminators
  <2>3. /\ Sound(Emit(bs, c, i), c, P, av, rank, need, t) /\ Len(Emit(bs, c, i)) = Len(bs)
        /\ Closed(Emit(bs, c, i)[c])
    BY <2>2, EmitSound
  <2> QED BY <2>1, <2>3
<1> QED BY <1>1, <1>2

(* createBlock: one more pending block, that A is available in.            *)
Wider(f, n, a) == [b \in 1 .. n + 1 |-> IF b = n + 1 THEN a ELSE f[b]]

(* Wider at the new block and at the old ones.                             *)
LEMMA WiderIs ==
  ASSUME NEW f, NEW n \in Nat, NEW a
  PROVE  /\ Wider(f, n, a)[n + 1] = a
         /\ \A b \in 1 .. n : Wider(f, n, a)[b] = f[b]
<1>1. n + 1 \in 1 .. n + 1
  OBVIOUS
<1>2. \A b \in 1 .. n : b \in 1 .. n + 1 /\ b # n + 1
  OBVIOUS
<1> QED BY <1>1, <1>2 DEF Wider

(* A body with one more empty block.                                       *)
LEMMA AppendIs ==
  ASSUME NEW bs, NEW t, Body(bs, t)
  PROVE  LET ns == Append(bs, <<>>)
             n == Len(bs)
         IN  /\ Body(ns, t) /\ Len(ns) = n + 1 /\ n \in Nat
             /\ ns[n + 1] = <<>> /\ Len(ns[n + 1]) = 0
             /\ \A b \in 1 .. n : ns[b] = bs[b] /\ b # n + 1 /\ b \in 1 .. n + 1
             /\ \A b \in 1 .. n + 1 : b \in 1 .. n \/ b = n + 1
<1> DEFINE ns == Append(bs, <<>>)
           n == Len(bs)
<1>1. bs \in Seq(Seq(Instr)) /\ n \in Nat
  BY BodyIs
<1>2. Body(ns, t) /\ Len(ns) = n + 1
  BY CreateEmpty
<1>3. ns[n + 1] = <<>> /\ \A b \in 1 .. n : ns[b] = bs[b]
  BY <1>1
<1> HIDE DEF ns, n
<1>4. /\ \A b \in 1 .. n : b # n + 1 /\ b \in 1 .. n + 1
      /\ \A b \in 1 .. n + 1 : b \in 1 .. n \/ b = n + 1
  BY <1>1
<1>5. Len(<<>>) = 0
  OBVIOUS
<1> QED BY <1>1, <1>2, <1>3, <1>4, <1>5 DEF ns, n

(* What may be available in a block: with a temporary all that copies into *)
(* it were made from.                                                      *)
Fits(A, need, t) == A \subseteq 1 .. t /\ \A u \in A : need[u] \subseteq A

(* createBlock keeps a body sound when all that its block counts on fits.  *)
LEMMA AddSound ==
  ASSUME NEW bs, NEW c, NEW P, NEW av, NEW rank, NEW need, NEW t,
         Sound(bs, c, P, av, rank, need, t),
         NEW A, Fits(A, need, t)
  PROVE  LET n == Len(bs)
             ns == Append(bs, <<>>)
             bv == Wider(av, n, A)
         IN  /\ Sound(ns, c, P \cup {n + 1}, bv, Wider(rank, n, 0), need, t)
             /\ Len(ns) = n + 1
             /\ Have(ns, bv, c) = Have(bs, av, c)
<1> DEFINE n == Len(bs)
           ns == Append(bs, <<>>)
           bv == Wider(av, n, A)
           br == Wider(rank, n, 0)
           Q == P \cup {n + 1}
<1>1. /\ Body(bs, t) /\ Around(bs, c, P, av, rank, need, t) /\ c \in 1 .. n
  BY DEF Sound, Around
<1>2. /\ Body(ns, t) /\ Len(ns) = n + 1 /\ n \in Nat
      /\ ns[n + 1] = <<>> /\ Len(ns[n + 1]) = 0
      /\ \A b \in 1 .. n : ns[b] = bs[b] /\ b # n + 1 /\ b \in 1 .. n + 1
      /\ \A b \in 1 .. n + 1 : b \in 1 .. n \/ b = n + 1
  BY <1>1, AppendIs
<1>3. /\ bv[n + 1] = A /\ \A b \in 1 .. n : bv[b] = av[b]
      /\ br[n + 1] = 0 /\ \A b \in 1 .. n : br[b] = rank[b]
  <2>1. n \in Nat
    BY <1>2
  <2> HIDE DEF n, ns
  <2>2. bv[n + 1] = A /\ \A b \in 1 .. n : bv[b] = av[b]
    BY <2>1, WiderIs, SMT
  <2>3. br[n + 1] = 0 /\ \A b \in 1 .. n : br[b] = rank[b]
    BY <2>1, WiderIs, SMT
  <2> QED BY <2>2, <2>3
<1>4. 1 \in 1 .. n
  BY <1>1, <1>2
<1> HIDE DEF n, ns, bv, br
<1>5. ASSUME NEW b \in 1 .. n, NEW k
      PROVE  Avail(ns, bv, b, k) = Avail(bs, av, b, k)
  BY <1>2, <1>3, AvailPrefix
<1>6. Around(ns, c, Q, bv, br, need, t)
  <2>1. c \in 1 .. Len(ns) /\ Q \subseteq 1 .. Len(ns) /\ c \notin Q
    <3>1. P \subseteq 1 .. n /\ c \notin P
      BY <1>1 DEF Around, n
    <3>2. n + 1 \in 1 .. n + 1
      BY <1>2
    <3> QED BY <1>1, <1>2, <3>1, <3>2
  <2>2. bv[1] = {}
    BY <1>1, <1>3, <1>4 DEF Around
  <2>3. ASSUME NEW b \in 1 .. Len(ns)
        PROVE  bv[b] \subseteq 1 .. t /\ br[b] \in Nat
    <3>1. CASE b = n + 1
      <4>1. bv[b] = A /\ br[b] = 0
        BY <1>3, <3>1, Zenon
      <4> QED BY <4>1 DEF Fits
    <3>2. CASE b # n + 1
      <4>1. b \in 1 .. n
        BY <1>2, <3>2
      <4> QED BY <1>1, <1>3, <4>1 DEF Around, n
    <3> QED BY <3>1, <3>2
  <2>4. ASSUME NEW b \in Q
        PROVE  ns[b] = <<>>
    <3>1. CASE b = n + 1
      BY <1>2, <3>1
    <3>2. CASE b # n + 1
      <4>1. b \in P /\ b \in 1 .. n
        BY <1>1, <3>2 DEF Around, n
      <4> QED BY <1>1, <1>2, <4>1 DEF Around
    <3> QED BY <3>1, <3>2
  <2>5. ASSUME NEW b \in (1 .. Len(ns)) \ (Q \cup {c})
        PROVE  Closed(ns[b]) /\ br[b] < br[c]
    <3>1. b \in 1 .. n /\ b \in (1 .. n) \ (P \cup {c})
      BY <1>2
    <3>2. Closed(bs[b]) /\ rank[b] < rank[c]
      BY <1>1, <3>1 DEF Around, n
    <3> QED BY <1>1, <1>2, <1>3, <3>1, <3>2
  <2>6. \A u \in Nat : u > t => need[u] = {}
    BY <1>1 DEF Around
  <2> HIDE DEF Q
  <2> QED BY <2>1, <2>2, <2>3, <2>4, <2>5, <2>6 DEF Around
<1>7. ASSUME NEW b \in 1 .. Len(ns), NEW k \in 1 .. Len(ns[b])
      PROVE  Placed(ns, Len(ns), Q, bv, br, need, b, k)
  <2>1. b \in 1 .. n
    <3>1. b # n + 1
      BY <1>2
    <3> QED BY <1>2, <3>1
  <2>2. k \in 1 .. Len(bs[b]) /\ ns[b] = bs[b]
    BY <1>2, <2>1
  <2>3. Placed(bs, n, P, av, rank, need, b, k)
    BY <2>1, <2>2 DEF Sound, n
  <2>4. \A g \in Targets(bs[b][k]) : g \in 1 .. n
    BY <2>3 DEF Placed
  <2>5. \A g \in Targets(bs[b][k]) :
          /\ g \in 1 .. Len(ns) /\ bv[g] \subseteq Avail(ns, bv, b, k - 1)
          /\ g \in Q \/ br[b] < br[g]
    BY <1>2, <1>3, <1>5, <2>1, <2>3, <2>4 DEF Placed
  <2> QED BY <1>5, <2>1, <2>2, <2>3, <2>5 DEF Placed
<1>8. ASSUME NEW b \in 1 .. Len(ns), NEW k \in 0 .. Len(ns[b])
      PROVE  Fed(ns, bv, need, b, k)
  <2>1. CASE b = n + 1
    <3>1. k = 0
      BY <1>2, <2>1
    <3>2. Avail(ns, bv, b, k) = A
      BY <1>3, <2>1, <3>1, DefsGrow DEF Avail
    <3> QED BY <3>2 DEF Fed, Fits
  <2>2. CASE b # n + 1
    <3>1. b \in 1 .. n
      BY <1>2, <2>2
    <3>2. k \in 0 .. Len(bs[b])
      BY <1>2, <3>1
    <3>3. Fed(bs, av, need, b, k)
      BY <3>1, <3>2 DEF Sound, n
    <3> QED BY <1>5, <3>1, <3>3 DEF Fed
  <2> QED BY <2>1, <2>2
<1>9. Sound(ns, c, Q, bv, br, need, t)
  BY <1>2, <1>6, <1>7, <1>8 DEF Sound
<1>10. Have(ns, bv, c) = Have(bs, av, c)
  BY <1>1, <1>2, <1>5 DEF Have
<1> QED BY <1>2, <1>9, <1>10 DEF ns, bv, br, n

(* A pending block becomes the current one.                                *)
Begun(rank, n, c, p) == [b \in 1 .. n |-> IF b = p THEN rank[c] + 1 ELSE rank[b]]

(* setCurrentBlock: a body stays sound when a terminated block is left for *)
(* a pending one.                                                          *)
LEMMA MoveSound ==
  ASSUME NEW bs, NEW c, NEW P, NEW av, NEW rank, NEW need, NEW t,
         Sound(bs, c, P, av, rank, need, t), Closed(bs[c]), NEW p \in P
  PROVE  /\ Sound(bs, p, P \ {p}, av, Begun(rank, Len(bs), c, p), need, t)
         /\ Have(bs, av, p) = av[p]
<1> DEFINE n == Len(bs)
           br == Begun(rank, n, c, p)
<1>1. Body(bs, t) /\ Around(bs, c, P, av, rank, need, t) /\ c \in 1 .. n /\ p \in 1 .. n
  BY DEF Sound, Around
<1>2. c \notin P /\ bs[p] = <<>> /\ Len(bs[p]) = 0 /\ \A b \in P : bs[b] = <<>>
  BY <1>1 DEF Around
<1>3. br[p] = rank[c] + 1 /\ \A b \in 1 .. n : b # p => br[b] = rank[b]
  BY <1>1 DEF Begun
<1>4. \A b \in 1 .. n : rank[b] \in Nat
  BY <1>1 DEF Around
<1>5. \A b \in 1 .. n : b \notin P => rank[b] <= rank[c]
  <2> TAKE b \in 1 .. n
  <2>1. CASE b = c
    BY <1>4, <2>1
  <2>2. CASE b # c
    <3>1. b \notin P => rank[b] < rank[c]
      BY <1>1, <2>2 DEF Around
    <3> QED BY <1>1, <1>4, <3>1
  <2> QED BY <2>1, <2>2
<1> HIDE DEF n, br
<1>6. Around(bs, p, P \ {p}, av, br, need, t)
  <2>1. ASSUME NEW b \in 1 .. n
        PROVE  av[b] \subseteq 1 .. t /\ br[b] \in Nat
    <3>1. CASE b = p
      BY <1>1, <1>3, <1>4, <3>1 DEF Around, n
    <3>2. CASE b # p
      BY <1>1, <1>3, <1>4, <3>2 DEF Around, n
    <3> QED BY <3>1, <3>2
  <2>2. ASSUME NEW b \in (1 .. n) \ ((P \ {p}) \cup {p})
        PROVE  Closed(bs[b]) /\ br[b] < br[p]
    <3>1. b \notin P /\ b # p /\ b \in 1 .. n
      BY <2>2
    <3>2. Closed(bs[b])
      BY <1>1, <3>1 DEF Around, n
    <3>3. br[b] = rank[b] /\ br[p] = rank[c] + 1 /\ rank[b] <= rank[c]
      BY <1>3, <1>5, <3>1
    <3>4. rank[b] < rank[c] + 1
      BY <1>1, <1>4, <3>1, <3>3
    <3> QED BY <3>2, <3>3, <3>4
  <2>3. p \in 1 .. n /\ P \ {p} \subseteq 1 .. n /\ p \notin P \ {p} /\ av[1] = {}
        /\ \A u \in Nat : u > t => need[u] = {}
    BY <1>1 DEF Around, n
  <2> QED BY <1>2, <2>1, <2>2, <2>3 DEF Around, n
<1>7. ASSUME NEW b \in 1 .. n, NEW k \in 1 .. Len(bs[b])
      PROVE  Placed(bs, n, P \ {p}, av, br, need, b, k)
  <2>1. Placed(bs, n, P, av, rank, need, b, k)
    BY DEF Sound, n
  <2>2. b \notin P
    <3>1. bs[b] # <<>>
      OBVIOUS
    <3> QED BY <1>2, <3>1
  <2>3. br[b] = rank[b] /\ rank[b] <= rank[c] /\ rank[b] \in Nat /\ rank[c] \in Nat
    BY <1>1, <1>3, <1>4, <1>5, <2>2
  <2>4. ASSUME NEW g \in Targets(bs[b][k])
        PROVE  g \in P \ {p} \/ br[b] < br[g]
    <3>1. g \in 1 .. n /\ (g \in P \/ rank[b] < rank[g])
      BY <2>1 DEF Placed
    <3>2. CASE g = p
      BY <1>3, <2>3, <3>2
    <3>3. CASE g # p
      BY <1>3, <2>3, <3>1, <3>3
    <3> QED BY <3>2, <3>3
  <2> QED BY <2>1, <2>4 DEF Placed
<1>8. Sound(bs, p, P \ {p}, av, br, need, t)
  BY <1>1, <1>6, <1>7 DEF Sound, n
<1>9. Have(bs, av, p) = av[p]
  BY <1>2, DefsGrow DEF Have, Avail
<1> QED BY <1>8, <1>9 DEF br, n

(* More temporaries, one of which copies may be made into.                 *)
With(need, r, N) == [u \in Nat |-> IF u = r THEN N ELSE need[u]]

(* newTemp keeps a body sound, whatever the new temporary is copied from.  *)
LEMMA GrowSound ==
  ASSUME NEW bs, NEW c, NEW P, NEW av, NEW rank, NEW need, NEW t \in Nat,
         Sound(bs, c, P, av, rank, need, t),
         NEW v \in Nat, NEW r \in Nat, t < r, r <= v, NEW N
  PROVE  /\ Sound(bs, c, P, av, rank, With(need, r, N), v)
         /\ Have(bs, av, c) \subseteq 1 .. t
<1> DEFINE nn == With(need, r, N)
<1>1. Body(bs, t) /\ Around(bs, c, P, av, rank, need, t)
  BY DEF Sound
<1>2. nn[r] = N /\ \A u \in Nat : u # r => nn[u] = need[u]
  BY DEF With
<1>3. Body(bs, v)
  BY <1>1, BodyGrows
<1>4. \A b \in 1 .. Len(bs) : av[b] \subseteq 1 .. t
  BY <1>1 DEF Around
<1>5. ASSUME NEW b \in 1 .. Len(bs), NEW k \in 0 .. Len(bs[b])
      PROVE  Avail(bs, av, b, k) \subseteq 1 .. t
  <2>1. /\ Len(bs[b]) \in Nat
        /\ \A h \in 1 .. Len(bs[b]) : bs[b][h].dst \in 0 .. t
    BY <1>1, BodyIs DEF Owned
  <2>2. \A h \in 1 .. k : bs[b][h].dst \in 0 .. t
    BY <2>1
  <2>3. Defs(bs[b], k) \subseteq 1 .. t
    BY <2>2 DEF Defs, NoDst
  <2> QED BY <1>4, <2>3 DEF Avail
<1>6. \A u \in 1 .. t : u \in Nat /\ u # r
  OBVIOUS
<1> HIDE DEF nn
<1>7. Around(bs, c, P, av, rank, nn, v)
  <2>1. \A b \in 1 .. Len(bs) : av[b] \subseteq 1 .. v
    <3>1. 1 .. t \subseteq 1 .. v
      OBVIOUS
    <3> QED BY <1>4, <3>1
  <2>2. ASSUME NEW u \in Nat, u > v
        PROVE  nn[u] = {}
    <3>1. u # r /\ u > t
      BY <2>2
    <3> QED BY <1>1, <1>2, <3>1 DEF Around
  <2> QED BY <1>1, <2>1, <2>2 DEF Around
<1>8. ASSUME NEW b \in 1 .. Len(bs), NEW k \in 1 .. Len(bs[b])
      PROVE  Placed(bs, Len(bs), P, av, rank, nn, b, k)
  <2>1. Placed(bs, Len(bs), P, av, rank, need, b, k)
    BY DEF Sound
  <2>2. ASSUME bs[b][k].op = "Copy"
        PROVE  nn[bs[b][k].dst] = need[bs[b][k].dst]
    <3>1. bs[b][k].dst \in 0 .. t
      BY <1>1, BodyIs DEF Owned
    <3>2. bs[b][k].dst \in Nat /\ bs[b][k].dst # r
      BY <3>1
    <3> QED BY <1>2, <3>2
  <2> QED BY <2>1, <2>2 DEF Placed
<1>9. ASSUME NEW b \in 1 .. Len(bs), NEW k \in 0 .. Len(bs[b])
      PROVE  Fed(bs, av, nn, b, k)
  <2>1. \A u \in Avail(bs, av, b, k) : need[u] \subseteq Avail(bs, av, b, k)
    BY DEF Sound, Fed
  <2>2. \A u \in Avail(bs, av, b, k) : nn[u] = need[u]
    BY <1>2, <1>5, <1>6
  <2> QED BY <2>1, <2>2 DEF Fed
<1>10. Sound(bs, c, P, av, rank, nn, v)
  BY <1>3, <1>7, <1>8, <1>9 DEF Sound
<1>11. Have(bs, av, c) \subseteq 1 .. t
  <2>1. c \in 1 .. Len(bs) /\ Len(bs[c]) \in Nat
    BY <1>1, BodyIs DEF Around
  <2>2. Len(bs[c]) \in 0 .. Len(bs[c])
    BY <2>1
  <2> QED BY <1>5, <2>1, <2>2 DEF Have
<1> QED BY <1>10, <1>11 DEF nn

(* When nothing is pending the body is complete.                           *)
LEMMA EndSound ==
  ASSUME NEW bs, NEW c, NEW av, NEW rank, NEW need, NEW t,
         Sound(bs, c, {}, av, rank, need, t), Closed(bs[c])
  PROVE  Flow(bs, av, rank) /\ Sourced(bs, av, need)
<1>1. Body(bs, t) /\ Around(bs, c, {}, av, rank, need, t) /\ c \in 1 .. Len(bs)
  BY DEF Sound, Around
<1>2. DOMAIN bs = 1 .. Len(bs) /\ Len(bs) \in Nat
  BY <1>1, BodyIs
<1>3. 1 \in DOMAIN bs /\ av[1] = {}
  BY <1>1, <1>2 DEF Around
<1>4. \A b \in DOMAIN bs : \A k \in 1 .. Len(bs[b]) :
        Placed(bs, Len(bs), {}, av, rank, need, b, k)
  BY <1>2 DEF Sound
<1>5. Forward(bs, rank)
  BY <1>1, <1>2, <1>4 DEF Forward, Placed, Around
<1>6. \A b \in DOMAIN bs : Closed(bs[b])
  BY <1>1, <1>2 DEF Around
<1>7. Flow(bs, av, rank)
  BY <1>3, <1>4, <1>5, <1>6 DEF Flow, Placed
<1>8. \A b \in DOMAIN bs : \A k \in 0 .. Len(bs[b]) : Fed(bs, av, need, b, k)
  BY <1>2 DEF Sound
<1>9. Sourced(bs, av, need)
  BY <1>4, <1>8 DEF Sourced, Placed, Fed
<1> QED BY <1>7, <1>9

(* What visitors rely on while they lower: the temporaries H have been     *)
(* written where block c ends, nothing has to be where a block of P starts.*)
Lay(bs, c, P, H, t) ==
  \E av, rank, need :
    /\ Sound(bs, c, P, av, rank, need, t)
    /\ \A b \in P : av[b] = {}
    /\ H \subseteq Have(bs, av, c)

(* A terminator that jumps to pending blocks, which count on nothing.      *)
LEMMA LayFinish ==
  ASSUME NEW bs, NEW c, NEW P, NEW H, NEW t, Lay(bs, c, P, H, t),
         NEW i, Owned(i, t), IsTerminator(i), i.dst = NoDst,
         OperandTemps(i) \subseteq H, Targets(i) \subseteq P
  PROVE  LET ns == Finish(bs, c, i)
         IN  /\ Lay(ns, c, P, {}, t) /\ Len(ns) = Len(bs)
             /\ Closed(ns[c])
<1> DEFINE ns == Finish(bs, c, i)
<1>1. PICK av, rank, need :
        /\ Sound(bs, c, P, av, rank, need, t)
        /\ \A b \in P : av[b] = {}
        /\ H \subseteq Have(bs, av, c)
  BY DEF Lay
<1>2. \A g \in Targets(i) : g \in P /\ av[g] \subseteq Have(bs, av, c)
  BY <1>1
<1>3. OperandTemps(i) \subseteq Have(bs, av, c)
  BY <1>1
<1>4. Sound(ns, c, P, av, rank, need, t) /\ Len(ns) = Len(bs) /\ Closed(ns[c])
  BY <1>1, <1>2, <1>3, FinishSound
<1> HIDE DEF ns
<1>5. Lay(ns, c, P, {}, t)
  BY <1>1, <1>4 DEF Lay
<1> QED BY <1>4, <1>5 DEF ns

(* A statement's instruction.                                              *)
LEMMA LayEmit ==
  ASSUME NEW bs, NEW c, NEW P, NEW H, NEW t, Lay(bs, c, P, H, t),
         NEW i, Owned(i, t), i.dst = NoDst, i.op # "Copy",
         OperandTemps(i) \subseteq H, Targets(i) = {}
  PROVE  Lay(Emit(bs, c, i), c, P, H, t)
<1>1. PICK av, rank, need :
        /\ Sound(bs, c, P, av, rank, need, t)
        /\ \A b \in P : av[b] = {}
        /\ H \subseteq Have(bs, av, c)
  BY DEF Lay
<1>2. OperandTemps(i) \subseteq Have(bs, av, c)
  BY <1>1
<1>3. /\ Sound(Emit(bs, c, i), c, P, av, rank, need, t)
      /\ Have(Emit(bs, c, i), av, c) = Have(bs, av, c) \cup ({i.dst} \ {NoDst})
  BY <1>1, <1>2, EmitSound
<1> QED BY <1>1, <1>3 DEF Lay

(* An expression's instruction: one more temporary.                        *)
LEMMA LayCompute ==
  ASSUME NEW bs, NEW c, NEW P, NEW H, NEW t \in Nat, Lay(bs, c, P, H, t),
         NEW i, Owned(i, t + 1), i.dst = t + 1, i.op # "Copy",
         OperandTemps(i) \subseteq H, Targets(i) = {}
  PROVE  Lay(Emit(bs, c, i), c, P, H \cup {t + 1}, t + 1)
<1> DEFINE v == t + 1
<1>1. PICK av, rank, need :
        /\ Sound(bs, c, P, av, rank, need, t)
        /\ \A b \in P : av[b] = {}
        /\ H \subseteq Have(bs, av, c)
  BY DEF Lay
<1>2. v \in Nat /\ t < v /\ v <= v /\ v # NoDst
  BY DEF NoDst
<1> HIDE DEF v
<1> DEFINE nn == With(need, v, {})
<1>3. Sound(bs, c, P, av, rank, nn, v)
  BY <1>1, <1>2, GrowSound
<1>4. nn[v] = {}
  BY <1>2 DEF With
<1> HIDE DEF nn
<1>5. Owned(i, v) /\ i.dst = v
  BY DEF v
<1>6. OperandTemps(i) \subseteq Have(bs, av, c) /\ nn[i.dst] \subseteq Have(bs, av, c)
  BY <1>1, <1>4, <1>5
<1>7. /\ Sound(Emit(bs, c, i), c, P, av, rank, nn, v)
      /\ Have(Emit(bs, c, i), av, c) = Have(bs, av, c) \cup ({i.dst} \ {NoDst})
  BY <1>3, <1>5, <1>6, EmitSound
<1>8. Lay(Emit(bs, c, i), c, P, H \cup {v}, v)
  BY <1>1, <1>2, <1>5, <1>7 DEF Lay
<1> QED BY <1>8 DEF v

(* A new block.                                                            *)
LEMMA LayAdd ==
  ASSUME NEW bs, NEW c, NEW P, NEW H, NEW t, Lay(bs, c, P, H, t)
  PROVE  /\ Lay(Append(bs, <<>>), c, P \cup {Len(bs) + 1}, H, t)
         /\ Len(Append(bs, <<>>)) = Len(bs) + 1
<1> DEFINE n == Len(bs)
           ns == Append(bs, <<>>)
<1>1. PICK av, rank, need :
        /\ Sound(bs, c, P, av, rank, need, t)
        /\ \A b \in P : av[b] = {}
        /\ H \subseteq Have(bs, av, c)
  BY DEF Lay
<1>2. n \in Nat /\ P \subseteq 1 .. n
  BY <1>1, BodyIs DEF Sound, Around
<1> DEFINE bv == Wider(av, n, {})
           br == Wider(rank, n, 0)
<1>3. /\ Sound(ns, c, P \cup {n + 1}, bv, br, need, t) /\ Len(ns) = n + 1
      /\ Have(ns, bv, c) = Have(bs, av, c)
  <2>1. Fits({}, need, t)
    BY DEF Fits
  <2> QED BY <1>1, <2>1, AddSound
<1> HIDE DEF n, ns
<1>4. bv[n + 1] = {} /\ \A b \in 1 .. n : bv[b] = av[b]
  BY <1>2, WiderIs, SMT
<1> HIDE DEF bv, br
<1>5. \A b \in P \cup {n + 1} : bv[b] = {}
  BY <1>1, <1>2, <1>4
<1>6. Lay(ns, c, P \cup {n + 1}, H, t)
  BY <1>1, <1>3, <1>5 DEF Lay
<1> QED BY <1>3, <1>6 DEF n, ns

(* A pending block is begun.                                               *)
LEMMA LayMove ==
  ASSUME NEW bs, NEW c, NEW P, NEW H, NEW t, Lay(bs, c, P, H, t), Closed(bs[c]), NEW p \in P
  PROVE  Lay(bs, p, P \ {p}, {}, t)
<1>1. PICK av, rank, need :
        /\ Sound(bs, c, P, av, rank, need, t)
        /\ \A b \in P : av[b] = {}
        /\ H \subseteq Have(bs, av, c)
  BY DEF Lay
<1>2. Sound(bs, p, P \ {p}, av, Begun(rank, Len(bs), c, p), need, t)
  BY <1>1, MoveSound
<1>3. \A b \in P \ {p} : av[b] = {}
  BY <1>1
<1>4. {} \subseteq Have(bs, av, p)
  OBVIOUS
<1> HIDE DEF Have
<1> QED BY <1>2, <1>3, <1>4 DEF Lay

(* Less may be promised of what is available.                              *)
LEMMA LayLess ==
  ASSUME NEW bs, NEW c, NEW P, NEW H, NEW t, Lay(bs, c, P, H, t), NEW G, G \subseteq H
  PROVE  Lay(bs, c, P, G, t)
<1>1. PICK av, rank, need :
        /\ Sound(bs, c, P, av, rank, need, t)
        /\ \A b \in P : av[b] = {}
        /\ H \subseteq Have(bs, av, c)
  BY DEF Lay
<1>2. G \subseteq Have(bs, av, c)
  BY <1>1
<1> QED BY <1>1, <1>2 DEF Lay

(* A complete body.                                                        *)
LEMMA LayEnd ==
  ASSUME NEW bs, NEW c, NEW H, NEW t, Lay(bs, c, {}, H, t), Closed(bs[c])
  PROVE  \E av, rank, need : Flow(bs, av, rank) /\ Sourced(bs, av, need)
<1>1. PICK av, rank, need : Sound(bs, c, {}, av, rank, need, t)
  BY DEF Lay
<1>2. Flow(bs, av, rank) /\ Sourced(bs, av, need)
  BY <1>1, EndSound
<1> QED BY <1>2

(* Sequences of one length that agree everywhere.                          *)
LEMMA SameSequence ==
  ASSUME NEW S, NEW x \in Seq(S), NEW y \in Seq(S), Len(x) = Len(y),
         \A k \in 1 .. Len(x) : x[k] = y[k]
  PROVE  x = y
<1>1. x = [k \in 1 .. Len(x) |-> x[k]] /\ y = [k \in 1 .. Len(y) |-> y[k]]
  OBVIOUS
<1>2. [k \in 1 .. Len(x) |-> x[k]] = [k \in 1 .. Len(y) |-> y[k]]
  OBVIOUS
<1> QED BY <1>1, <1>2, Zenon

(* A block can be changed before or after another one is appended.         *)
LEMMA ExceptAppend ==
  ASSUME NEW S, NEW bs \in Seq(S), NEW c \in 1 .. Len(bs), NEW s \in S, NEW e \in S
  PROVE  [Append(bs, e) EXCEPT ![c] = s] = Append([bs EXCEPT ![c] = s], e)
<1> DEFINE n == Len(bs)
           x == [Append(bs, e) EXCEPT ![c] = s]
           b == [bs EXCEPT ![c] = s]
           y == Append(b, e)
<1>1. n \in Nat /\ c # n + 1 /\ c \in 1 .. n + 1
  OBVIOUS
<1>2. /\ Append(bs, e) \in Seq(S) /\ Len(Append(bs, e)) = n + 1
      /\ \A k \in 1 .. n : Append(bs, e)[k] = bs[k]
      /\ Append(bs, e)[n + 1] = e
  OBVIOUS
<1>3. b \in Seq(S) /\ Len(b) = n /\ \A k \in 1 .. n : b[k] = IF k = c THEN s ELSE bs[k]
  OBVIOUS
<1> HIDE DEF b
<1>4. y \in Seq(S) /\ Len(y) = n + 1 /\ y[n + 1] = e /\ \A k \in 1 .. n : y[k] = b[k]
  BY <1>3
<1> HIDE DEF n, y
<1>5. /\ x \in Seq(S) /\ Len(x) = n + 1
      /\ \A k \in 1 .. n + 1 : x[k] = IF k = c THEN s ELSE Append(bs, e)[k]
  <2> DEFINE a == Append(bs, e)
  <2>1. a \in Seq(S) /\ Len(a) = n + 1 /\ c \in 1 .. Len(a)
    BY <1>1, <1>2
  <2> HIDE DEF a
  <2>2. /\ [a EXCEPT ![c] = s] \in Seq(S) /\ Len([a EXCEPT ![c] = s]) = Len(a)
        /\ \A k \in 1 .. Len(a) : [a EXCEPT ![c] = s][k] = IF k = c THEN s ELSE a[k]
    BY <2>1
  <2> QED BY <2>1, <2>2 DEF a
<1> HIDE DEF x
<1>6. \A k \in 1 .. n + 1 : x[k] = y[k]
  <2> TAKE k \in 1 .. n + 1
  <2>1. CASE k = n + 1
    BY <1>1, <1>2, <1>4, <1>5, <2>1
  <2>2. CASE k \in 1 .. n
    BY <1>2, <1>3, <1>4, <1>5, <2>2
  <2> QED BY <1>1, <2>1, <2>2
<1>7. x = y
  BY <1>4, <1>5, <1>6, SameSequence
<1> QED BY <1>7 DEF x, y, b

(* finishBlock and createBlock, in either order.                           *)
LEMMA FinishAppend ==
  ASSUME NEW bs, NEW t, Body(bs, t), NEW c \in 1 .. Len(bs), NEW i \in Instr
  PROVE  Finish(Append(bs, <<>>), c, i) = Append(Finish(bs, c, i), <<>>)
<1> DEFINE as == Append(bs, <<>>)
           n == Len(bs)
<1>1. bs \in Seq(Seq(Instr)) /\ n \in Nat /\ bs[c] \in Seq(Instr)
  BY BodyIs
<1>2. as[c] = bs[c]
  BY <1>1
<1>3. CASE bs[c] # <<>> /\ IsTerminator(Last(bs[c]))
  BY <1>2, <1>3 DEF Finish
<1>4. CASE ~ (bs[c] # <<>> /\ IsTerminator(Last(bs[c])))
  <2> DEFINE s == Append(bs[c], i)
  <2>1. Finish(as, c, i) = [as EXCEPT ![c] = s] /\ Finish(bs, c, i) = [bs EXCEPT ![c] = s]
    BY <1>2, <1>4 DEF Finish, Emit
  <2>2. s \in Seq(Instr)
    BY <1>1
  <2> HIDE DEF s
  <2>3. [as EXCEPT ![c] = s] = Append([bs EXCEPT ![c] = s], <<>>)
    <3> DEFINE S == Seq(Instr)
               e == <<>>
    <3>1. e \in S /\ s \in S /\ bs \in Seq(S)
      BY <1>1, <2>2
    <3> HIDE DEF S, e
    <3>2. [Append(bs, e) EXCEPT ![c] = s] = Append([bs EXCEPT ![c] = s], e)
      BY <3>1, ExceptAppend
    <3> QED BY <3>2 DEF e
  <2> QED BY <2>1, <2>3
<1> QED BY <1>3, <1>4

(***************************************************************************)
(* Part 12.  Temporaries are written once while lowering, but by the two   *)
(* copies of ABS.                                                          *)
(***************************************************************************)

(* A body that has grown by the places N, where nothing but d is written.  *)
LEMMA TidyGrows ==
  ASSUME NEW bs, NEW ns, NEW N, NEW d, Once(bs), Paired(bs),
         Places(ns) = Places(bs) \cup N,
         \A p \in Places(bs) : At(ns, p) = At(bs, p) /\ At(bs, p).dst # d,
         \A p \in N : At(ns, p).dst \in {NoDst, d},
         \A p, q \in N : At(ns, p).dst = d /\ At(ns, q).dst = d /\ p # q
           => At(ns, p).op = "Copy" /\ At(ns, q).op = "Copy",
         \A p \in N : At(ns, p).op = "Copy" => Beside(ns, p)
  PROVE  Once(ns) /\ Paired(ns)
<1>1. ASSUME NEW p \in Places(ns), NEW q \in Places(ns),
             At(ns, p).dst = At(ns, q).dst, At(ns, p).dst # NoDst, p # q
      PROVE  At(ns, p).op = "Copy" /\ At(ns, q).op = "Copy"
  <2>1. CASE p \in Places(bs) /\ q \in Places(bs)
    <3>1. At(ns, p) = At(bs, p) /\ At(ns, q) = At(bs, q)
      BY <2>1
    <3> QED BY <1>1, <2>1, <3>1 DEF Once
  <2>2. CASE p \in N /\ q \in N
    BY <1>1, <2>2
  <2>3. CASE p \in Places(bs) /\ q \in N
    BY <1>1, <2>3
  <2>4. CASE q \in Places(bs) /\ p \in N
    BY <1>1, <2>4
  <2> QED BY <2>1, <2>2, <2>3, <2>4
<1>2. ASSUME NEW p \in Places(ns), At(ns, p).op = "Copy"
      PROVE  IsConst(At(ns, p).srcs[1]) \/ Beside(ns, p)
  <2>1. CASE p \in N
    BY <1>2, <2>1
  <2>2. CASE p \in Places(bs)
    <3>1. At(ns, p) = At(bs, p)
      BY <2>2
    <3>2. CASE IsConst(At(bs, p).srcs[1])
      BY <3>1, <3>2
    <3>3. CASE Beside(bs, p)
      <4>1. PICK q \in Places(bs) :
              q # p /\ At(bs, q).op = "Copy" /\ At(bs, q).dst = At(bs, p).dst
        BY <3>3 DEF Beside
      <4>2. At(ns, q) = At(bs, q) /\ q \in Places(ns)
        BY <4>1
      <4> QED BY <3>1, <4>1, <4>2 DEF Beside
    <3> QED BY <1>2, <2>2, <3>1, <3>2, <3>3 DEF Paired
  <2> QED BY <2>1, <2>2
<1> QED BY <1>1, <1>2 DEF Once, Paired

(* Places of a sequence of blocks.                                         *)
LEMMA PlacesOf ==
  ASSUME NEW bs, NEW t, Body(bs, t), NEW p
  PROVE  p \in Places(bs) <=> \E b \in 1 .. Len(bs) : \E k \in 1 .. Len(bs[b]) : p = <<b, k>>
<1>1. DOMAIN bs = 1 .. Len(bs) /\ \A b \in 1 .. Len(bs) : DOMAIN bs[b] = 1 .. Len(bs[b])
  BY BodyIs
<1> QED BY <1>1 DEF Places

(* A temporary that is not in use yet.                                     *)
LEMMA NotYet ==
  ASSUME NEW bs, NEW t \in Nat, Body(bs, t), NEW p \in Places(bs)
  PROVE  At(bs, p).dst \in 0 .. t
<1>1. PICK b \in 1 .. Len(bs) : \E k \in 1 .. Len(bs[b]) : p = <<b, k>>
  BY PlacesOf
<1>2. PICK k \in 1 .. Len(bs[b]) : p = <<b, k>>
  BY <1>1
<1>3. Owned(bs[b][k], t)
  BY BodyIs
<1> QED BY <1>2, <1>3 DEF At, Owned

(* emit adds one place.                                                    *)
LEMMA EmitPlaces ==
  ASSUME NEW bs, NEW t, Body(bs, t), NEW c \in 1 .. Len(bs), NEW i, Owned(i, t)
  PROVE  LET ns == Emit(bs, c, i)
             new == <<c, Len(bs[c]) + 1>>
         IN  /\ Places(ns) = Places(bs) \cup {new}
             /\ \A p \in Places(bs) : At(ns, p) = At(bs, p)
             /\ At(ns, new) = i
<1> DEFINE ns == Emit(bs, c, i)
           l == Len(bs[c])
           new == <<c, l + 1>>
<1>1. i \in Instr
  BY DEF Owned
<1>2. Body(ns, t) /\ Len(ns) = Len(bs)
  BY EmitOK
<1>3. /\ \A b \in 1 .. Len(bs) : b # c => ns[b] = bs[b]
      /\ l \in Nat /\ Len(ns[c]) = l + 1
      /\ \A k \in 1 .. l : ns[c][k] = bs[c][k]
      /\ ns[c][l + 1] = i
  BY <1>1, EmitIs
<1> HIDE DEF ns
<1>4. At(ns, new) = i
  BY <1>3 DEF At
<1>5. ASSUME NEW p
      PROVE  p \in Places(ns) <=> p \in Places(bs) \cup {new}
  <2>1. ASSUME NEW b \in 1 .. Len(bs)
        PROVE  (\E k \in 1 .. Len(ns[b]) : p = <<b, k>>)
               <=> (\E k \in 1 .. Len(bs[b]) : p = <<b, k>>) \/ (b = c /\ p = new)
    <3>1. CASE b # c
      BY <1>3, <3>1
    <3>2. CASE b = c
      <4>1. \A k : k \in 1 .. l + 1 <=> k \in 1 .. l \/ k = l + 1
        BY <1>3
      <4> QED BY <1>3, <3>2, <4>1
    <3> QED BY <3>1, <3>2
  <2>2. p \in Places(ns) <=> \E b \in 1 .. Len(bs) : \E k \in 1 .. Len(ns[b]) : p = <<b, k>>
    BY <1>2, PlacesOf
  <2>3. p \in Places(bs) <=> \E b \in 1 .. Len(bs) : \E k \in 1 .. Len(bs[b]) : p = <<b, k>>
    BY PlacesOf
  <2> HIDE DEF new
  <2> QED BY <2>1, <2>2, <2>3
<1>6. ASSUME NEW p \in Places(bs)
      PROVE  At(ns, p) = At(bs, p)
  <2>1. PICK b \in 1 .. Len(bs) : \E k \in 1 .. Len(bs[b]) : p = <<b, k>>
    BY PlacesOf
  <2>2. PICK k \in 1 .. Len(bs[b]) : p = <<b, k>>
    BY <2>1
  <2>3. ns[b][k] = bs[b][k]
    BY <1>3, <2>2
  <2> QED BY <2>2, <2>3 DEF At
<1>7. Places(ns) = Places(bs) \cup {new}
  BY <1>5
<1> QED BY <1>4, <1>6, <1>7 DEF ns

(* emit, of anything but a copy, with a new result or none.                *)
LEMMA EmitTidy ==
  ASSUME NEW bs, NEW t \in Nat, Body(bs, t), Once(bs), Paired(bs), NEW c \in 1 .. Len(bs),
         NEW i, NEW v \in Nat, t <= v, Owned(i, v), i.op # "Copy",
         i.dst # NoDst => i.dst = t + 1
  PROVE  Once(Emit(bs, c, i)) /\ Paired(Emit(bs, c, i))
<1> DEFINE ns == Emit(bs, c, i)
           new == <<c, Len(bs[c]) + 1>>
           d == t + 1
           N == {new}
<1>1. Body(bs, v)
  BY BodyGrows
<1>2. /\ Places(ns) = Places(bs) \cup {new}
      /\ \A p \in Places(bs) : At(ns, p) = At(bs, p)
      /\ At(ns, new) = i
  BY <1>1, EmitPlaces
<1>3. \A p \in Places(bs) : At(bs, p).dst # d
  <2> TAKE p \in Places(bs)
  <2>1. At(bs, p).dst \in 0 .. t
    BY NotYet
  <2> QED BY <2>1
<1>4. i.dst \in {NoDst, d}
  OBVIOUS
<1> HIDE DEF ns, new, d
<1>5. /\ \A p \in N : At(ns, p).dst \in {NoDst, d}
      /\ \A p, q \in N : At(ns, p).dst = d /\ At(ns, q).dst = d /\ p # q
           => At(ns, p).op = "Copy" /\ At(ns, q).op = "Copy"
      /\ \A p \in N : At(ns, p).op = "Copy" => Beside(ns, p)
  BY <1>2, <1>4
<1>6. Places(ns) = Places(bs) \cup N
  BY <1>2
<1>7. \A p \in Places(bs) : At(ns, p) = At(bs, p) /\ At(bs, p).dst # d
  BY <1>2, <1>3
<1> HIDE DEF N
<1>8. Once(ns) /\ Paired(ns)
  BY <1>5, <1>6, <1>7, TidyGrows
<1> QED BY <1>8 DEF ns

(* A terminator writes nothing, so the two conditions stay.                *)
LEMMA FinishTidy ==
  ASSUME NEW bs, NEW t \in Nat, Body(bs, t), Once(bs), Paired(bs), NEW c \in 1 .. Len(bs),
         NEW i, Owned(i, t), IsTerminator(i), i.dst = NoDst
  PROVE  Once(Finish(bs, c, i)) /\ Paired(Finish(bs, c, i))
<1>1. i.op # "Copy" /\ t <= t
  BY DEF IsTerminator, Terminators
<1>2. Once(Emit(bs, c, i)) /\ Paired(Emit(bs, c, i))
  BY <1>1, EmitTidy
<1> QED BY <1>2 DEF Finish

(* An empty block has no places.                                           *)
LEMMA AppendTidy ==
  ASSUME NEW bs, NEW t, Body(bs, t), Once(bs), Paired(bs)
  PROVE  Once(Append(bs, <<>>)) /\ Paired(Append(bs, <<>>))
<1> DEFINE ns == Append(bs, <<>>)
           n == Len(bs)
<1>1. /\ Body(ns, t) /\ Len(ns) = n + 1 /\ n \in Nat
      /\ ns[n + 1] = <<>> /\ Len(ns[n + 1]) = 0
      /\ \A b \in 1 .. n : ns[b] = bs[b] /\ b # n + 1 /\ b \in 1 .. n + 1
      /\ \A b \in 1 .. n + 1 : b \in 1 .. n \/ b = n + 1
  BY AppendIs
<1> HIDE DEF ns
<1>2. ASSUME NEW p
      PROVE  p \in Places(ns) <=> p \in Places(bs)
  <2>1. p \in Places(ns) <=> \E b \in 1 .. Len(ns) : \E k \in 1 .. Len(ns[b]) : p = <<b, k>>
    BY <1>1, PlacesOf
  <2>2. p \in Places(bs) <=> \E b \in 1 .. Len(bs) : \E k \in 1 .. Len(bs[b]) : p = <<b, k>>
    BY PlacesOf
  <2>3. ~ \E k \in 1 .. 0 : p = <<n + 1, k>>
    OBVIOUS
  <2> QED BY <1>1, <2>1, <2>2, <2>3
<1>3. Places(ns) = Places(bs)
  BY <1>2
<1>4. ASSUME NEW p \in Places(bs)
      PROVE  At(ns, p) = At(bs, p)
  <2>1. PICK b \in 1 .. Len(bs) : \E k \in 1 .. Len(bs[b]) : p = <<b, k>>
    BY PlacesOf
  <2> QED BY <1>1, <2>1 DEF At
<1>5. Once(ns) /\ Paired(ns)
  BY <1>3, <1>4 DEF Once, Paired, Beside
<1> QED BY <1>5 DEF ns

(***************************************************************************)
(* Part 13.  The blocks that active IFs still have to begin.               *)
(***************************************************************************)

(* Where frames go on: behind the IF, and before that in the branch made   *)
(* with the last condition.                                                *)
Pending(fs) ==
  {fs[k].merge : k \in 1 .. Len(fs)}
    \cup {fs[k].else : k \in {j \in 1 .. Len(fs) : fs[j].at = "then"}}

(* No block is waited for twice.                                           *)
Distinct(fs) ==
  \A j, k \in 1 .. Len(fs) :
    /\ j # k => fs[j].merge # fs[k].merge
    /\ fs[k].at = "then" => fs[k].else # fs[j].merge
    /\ j # k /\ fs[j].at = "then" /\ fs[k].at = "then" => fs[j].else # fs[k].else

(* What one frame is waiting for.                                          *)
Awaits(f) == {f.merge} \cup IF f.at = "then" THEN {f.else} ELSE {}

(* Pending gathers what the frames are waiting for, all of it blocks of    *)
(* the body.                                                               *)
LEMMA PendingIs ==
  ASSUME NEW fs, NEW n, Frames(fs, n)
  PROVE  /\ \A b : b \in Pending(fs) <=> \E k \in 1 .. Len(fs) : b \in Awaits(fs[k])
         /\ Pending(fs) \subseteq 1 .. n
<1>1. \A b : b \in Pending(fs) <=> \E k \in 1 .. Len(fs) : b \in Awaits(fs[k])
  BY DEF Pending, Awaits
<1>2. \A k \in 1 .. Len(fs) : fs[k] \in Frame /\ FrameIn(fs[k], n)
  BY DEF Frames
<1>3. \A k \in 1 .. Len(fs) : Awaits(fs[k]) \subseteq 1 .. n
  BY <1>2 DEF Awaits, FrameIn
<1> QED BY <1>1, <1>3

(* Frames wait for different blocks.                                       *)
LEMMA DistinctIs ==
  ASSUME NEW fs, Distinct(fs), NEW j \in 1 .. Len(fs), NEW k \in 1 .. Len(fs), j # k
  PROVE  Awaits(fs[j]) \cap Awaits(fs[k]) = {}
BY DEF Distinct, Awaits

(* A frame is added: visit(IfStmt) is entered.                             *)
LEMMA PendingAdd ==
  ASSUME NEW fs, NEW n \in Nat, Frames(fs, n), Distinct(fs),
         NEW f \in Frame, f.at = "cond", f.merge = n + 1
  PROVE  /\ Pending(Append(fs, f)) = Pending(fs) \cup {n + 1}
         /\ Distinct(Append(fs, f))
<1> DEFINE gs == Append(fs, f)
           l == Len(fs)
<1>1. fs \in Seq(Frame) /\ l \in Nat
  BY DEF Frames
<1>2. /\ Len(gs) = l + 1 /\ gs[l + 1] = f /\ \A k \in 1 .. l : gs[k] = fs[k]
      /\ \A k : k \in 1 .. l + 1 <=> k \in 1 .. l \/ k = l + 1
  BY <1>1
<1>3. \A k \in 1 .. l : /\ fs[k].merge # n + 1
                        /\ fs[k].at = "then" => fs[k].else # n + 1
  <2>1. \A b \in 1 .. n : b # n + 1
    OBVIOUS
  <2>2. \A k \in 1 .. l : FrameIn(fs[k], n)
    BY DEF Frames
  <2> HIDE DEF l
  <2> QED BY <2>1, <2>2 DEF FrameIn
<1> HIDE DEF gs, l
<1>4. Distinct(gs)
  BY <1>2, <1>3 DEF Distinct, l
<1>5. ASSUME NEW b
      PROVE  b \in Pending(gs) <=> b \in Pending(fs) \cup {n + 1}
  <2>1. b \in Pending(gs) <=> \E k \in 1 .. l + 1 : b \in Awaits(gs[k])
    BY <1>2 DEF Pending, Awaits
  <2>2. b \in Pending(fs) <=> \E k \in 1 .. l : b \in Awaits(fs[k])
    BY DEF Pending, Awaits, l
  <2>3. Awaits(f) = {n + 1}
    BY DEF Awaits
  <2> QED BY <1>2, <2>1, <2>2, <2>3
<1>6. Pending(gs) = Pending(fs) \cup {n + 1}
  BY <1>5
<1> QED BY <1>4, <1>6 DEF gs

(* The last frame changes, what it awaits changes with it.                 *)
LEMMA PendingChange ==
  ASSUME NEW fs, NEW n \in Nat, Frames(fs, n), Distinct(fs), fs # <<>>,
         NEW f, f.merge = fs[Len(fs)].merge,
         \A b \in Awaits(f) : b \in Awaits(fs[Len(fs)]) \/ b > n,
         f.at = "then" => f.else # f.merge
  PROVE  LET gs == [fs EXCEPT ![Len(fs)] = f]
         IN  /\ Pending(gs) = (Pending(fs) \ Awaits(fs[Len(fs)])) \cup Awaits(f)
             /\ Distinct(gs)
<1> DEFINE l == Len(fs)
           gs == [fs EXCEPT ![l] = f]
           old == fs[l]
<1>1. fs \in Seq(Frame) /\ l \in 1 .. l /\ l \in Nat
  BY LastIsLast DEF Frames
<1>2. Len(gs) = l /\ gs[l] = f /\ \A k \in 1 .. l : k # l => gs[k] = fs[k]
  BY <1>1
<1>3. Pending(fs) \subseteq 1 .. n
  BY PendingIs
<1>4. \A k \in 1 .. l : k # l => Awaits(fs[k]) \cap Awaits(old) = {}
  BY <1>1, DistinctIs
<1>5. \A b : b \in Pending(fs) <=> \E k \in 1 .. l : b \in Awaits(fs[k])
  BY DEF Pending, Awaits
<1>6. \A b : b \in Pending(gs) <=> \E k \in 1 .. l : b \in Awaits(gs[k])
  <2> HIDE DEF gs, l
  <2> QED BY <1>2 DEF Pending, Awaits
<1>7. \A b \in Awaits(f) : b \in Awaits(old) \/ b > n
  OBVIOUS
<1> HIDE DEF gs, l, old
<1>8. ASSUME NEW k \in 1 .. l, k # l
      PROVE  Awaits(fs[k]) \cap Awaits(f) = {}
  <2>1. Awaits(fs[k]) \subseteq 1 .. n
    BY <1>3, <1>5
  <2>2. \A b \in 1 .. n : ~ (b > n)
    OBVIOUS
  <2> QED BY <1>4, <1>7, <1>8, <2>1, <2>2
<1>9. Pending(gs) = (Pending(fs) \ Awaits(old)) \cup Awaits(f)
  <2>1. ASSUME NEW b
        PROVE  b \in Pending(gs) <=> b \in (Pending(fs) \ Awaits(old)) \cup Awaits(f)
    <3>1. CASE \E k \in 1 .. l : k # l /\ b \in Awaits(fs[k])
      <4>1. PICK k \in 1 .. l : k # l /\ b \in Awaits(fs[k])
        BY <3>1
      <4>2. b \notin Awaits(old) /\ b \in Pending(fs) /\ b \in Pending(gs)
        BY <1>2, <1>4, <1>5, <1>6, <4>1
      <4> QED BY <4>2
    <3>2. CASE ~ \E k \in 1 .. l : k # l /\ b \in Awaits(fs[k])
      <4>1. b \in Pending(gs) <=> b \in Awaits(f)
        BY <1>1, <1>2, <1>6, <3>2
      <4>2. b \in Pending(fs) <=> b \in Awaits(old)
        BY <1>1, <1>5, <3>2 DEF old
      <4> QED BY <4>1, <4>2
    <3> QED BY <3>1, <3>2
  <2> QED BY <2>1
<1>10. Distinct(gs)
  <2>1. ASSUME NEW j \in 1 .. l, NEW k \in 1 .. l
        PROVE  /\ j # k => gs[j].merge # gs[k].merge
               /\ gs[k].at = "then" => gs[k].else # gs[j].merge
               /\ j # k /\ gs[j].at = "then" /\ gs[k].at = "then" => gs[j].else # gs[k].else
    <3>1. CASE j # l /\ k # l
      BY <1>2, <3>1 DEF Distinct, l
    <3>2. CASE j = l /\ k = l
      BY <1>2, <3>2
    <3>3. CASE j = l /\ k # l
      <4>1. Awaits(gs[k]) \cap Awaits(gs[j]) = {}
        BY <1>2, <1>8, <3>3
      <4> QED BY <4>1 DEF Awaits
    <3>4. CASE j # l /\ k = l
      <4>1. Awaits(gs[k]) \cap Awaits(gs[j]) = {}
        BY <1>2, <1>8, <3>4
      <4> QED BY <4>1 DEF Awaits
    <3> QED BY <3>1, <3>2, <3>3, <3>4
  <2> QED BY <1>2, <2>1 DEF Distinct
<1> QED BY <1>9, <1>10 DEF gs, old, l

(* All but the last of a sequence.                                         *)
LEMMA FrontIs ==
  ASSUME NEW S, NEW s \in Seq(S), Len(s) \in 1 .. Len(s)
  PROVE  LET r == SubSeq(s, 1, Len(s) - 1)
         IN  Len(r) = Len(s) - 1 /\ \A k \in 1 .. Len(s) - 1 : r[k] = s[k]
OBVIOUS

(* The last frame goes.                                                    *)
LEMMA PendingDrop ==
  ASSUME NEW fs, NEW n \in Nat, Frames(fs, n), Distinct(fs), fs # <<>>
  PROVE  /\ Pending(Front(fs)) = Pending(fs) \ Awaits(fs[Len(fs)])
         /\ Distinct(Front(fs))
<1> DEFINE l == Len(fs)
           gs == Front(fs)
           old == fs[l]
<1>1. fs \in Seq(Frame) /\ l \in 1 .. l /\ l \in Nat
  BY LastIsLast DEF Frames
<1>2. /\ Len(gs) = l - 1 /\ \A k \in 1 .. l - 1 : gs[k] = fs[k]
      /\ \A k : k \in 1 .. l <=> k \in 1 .. l - 1 \/ k = l
      /\ \A k \in 1 .. l - 1 : k # l
  <2>1. Len(gs) = l - 1 /\ \A k \in 1 .. l - 1 : gs[k] = fs[k]
    BY <1>1, FrontIs DEF Front
  <2> HIDE DEF gs, l
  <2> QED BY <1>1, <2>1
<1>4. \A k \in 1 .. l : k # l => Awaits(fs[k]) \cap Awaits(old) = {}
  BY <1>1, DistinctIs
<1>5. \A b : b \in Pending(fs) <=> \E k \in 1 .. l : b \in Awaits(fs[k])
  BY DEF Pending, Awaits
<1>6. \A b : b \in Pending(gs) <=> \E k \in 1 .. l - 1 : b \in Awaits(gs[k])
  <2> HIDE DEF gs, l
  <2> QED BY <1>2 DEF Pending, Awaits
<1> HIDE DEF gs, l
<1>7. ASSUME NEW b
      PROVE  b \in Pending(gs) <=> b \in Pending(fs) \ Awaits(old)
  BY <1>1, <1>2, <1>4, <1>5, <1>6
<1>8. Pending(gs) = Pending(fs) \ Awaits(old)
  BY <1>7
<1>9. Distinct(gs)
  BY <1>2 DEF Distinct, l
<1> QED BY <1>8, <1>9 DEF gs, l

(***************************************************************************)
(* Part 14.  Every action of lowering keeps the shape of the body.         *)
(***************************************************************************)

(* The temporaries among values.                                           *)
ValueTemps(vs) == {vs[k].val : k \in {j \in 1 .. Len(vs) : IsTemp(vs[j])}}

(* What holds of a body while it is under construction.                    *)
Shape ==
  /\ Lay(blocks, cur, Pending(merges), ValueTemps(vals), temps)
  /\ Once(blocks) /\ Paired(blocks)
  /\ Distinct(merges)

(* The fields of an instruction, and the temporaries it reads.             *)
LEMMA CodeIs ==
  ASSUME NEW op, NEW d, NEW ss, NEW x, NEW to
  PROVE  LET i == Code(op, d, ss, x, to)
         IN  /\ i.op = op /\ i.dst = d /\ i.to = to
             /\ OperandTemps(i) = ValueTemps(ss)
BY DEF Code, OperandTemps, ValueTemps

(* The temporaries among no value, one and two.                            *)
LEMMA ValueTempsIs ==
  /\ ValueTemps(<<>>) = {}
  /\ \A v : ValueTemps(<<v>>) = IF IsTemp(v) THEN {v.val} ELSE {}
  /\ \A v, w : ValueTemps(<<v, w>>) = ValueTemps(<<v>>) \cup ValueTemps(<<w>>)
<1>1. ValueTemps(<<>>) = {}
  BY DEF ValueTemps
<1>2. ASSUME NEW v, NEW u
      PROVE  u \in ValueTemps(<<v>>) <=> IsTemp(v) /\ u = v.val
  <2>1. Len(<<v>>) = 1 /\ <<v>>[1] = v /\ \A k : k \in 1 .. 1 <=> k = 1
    OBVIOUS
  <2> DEFINE s == <<v>>
  <2>2. Len(s) = 1 /\ s[1] = v
    BY <2>1
  <2> HIDE DEF s
  <2>3. u \in ValueTemps(s) <=> IsTemp(v) /\ u = v.val
    BY <2>1, <2>2 DEF ValueTemps
  <2> QED BY <2>3 DEF s
<1>3. ASSUME NEW v, NEW w, NEW u
      PROVE  u \in ValueTemps(<<v, w>>)
             <=> (IsTemp(v) /\ u = v.val) \/ (IsTemp(w) /\ u = w.val)
  <2>1. /\ Len(<<v, w>>) = 2 /\ <<v, w>>[1] = v /\ <<v, w>>[2] = w
        /\ \A k : k \in 1 .. 2 <=> k = 1 \/ k = 2
    OBVIOUS
  <2> DEFINE s == <<v, w>>
  <2>2. Len(s) = 2 /\ s[1] = v /\ s[2] = w
    BY <2>1
  <2> HIDE DEF s
  <2>3. u \in ValueTemps(s) <=> (IsTemp(v) /\ u = v.val) \/ (IsTemp(w) /\ u = w.val)
    BY <2>1, <2>2 DEF ValueTemps
  <2> QED BY <2>3 DEF s
<1>4. \A v : ValueTemps(<<v>>) = IF IsTemp(v) THEN {v.val} ELSE {}
  BY <1>2
<1>5. ASSUME NEW v, NEW w
      PROVE  ValueTemps(<<v, w>>) = ValueTemps(<<v>>) \cup ValueTemps(<<w>>)
  BY <1>2, <1>3
<1> QED BY <1>1, <1>4, <1>5

(* One value of the stack.                                                 *)
LEMMA OneOfValues ==
  ASSUME NEW vs, NEW k \in 1 .. Len(vs)
  PROVE  ValueTemps(<<vs[k]>>) \subseteq ValueTemps(vs)
<1>1. IsTemp(vs[k]) => vs[k].val \in ValueTemps(vs)
  BY DEF ValueTemps
<1> QED BY <1>1, ValueTempsIs

(* The stack after an operation.                                           *)
LEMMA AppendTemps ==
  ASSUME NEW S, NEW vs \in Seq(S), NEW v
  PROVE  ValueTemps(Append(vs, v)) = ValueTemps(vs) \cup ValueTemps(<<v>>)
<1> DEFINE ws == Append(vs, v)
           l == Len(vs)
<1>1. /\ l \in Nat /\ Len(ws) = l + 1 /\ ws[l + 1] = v /\ \A k \in 1 .. l : ws[k] = vs[k]
  OBVIOUS
<1>2. \A k : k \in 1 .. l + 1 <=> k \in 1 .. l \/ k = l + 1
  BY <1>1
<1> HIDE DEF ws, l
<1>3. ASSUME NEW u
      PROVE  u \in ValueTemps(ws) <=> u \in ValueTemps(vs) \/ (IsTemp(v) /\ u = v.val)
  <2>1. u \in ValueTemps(ws) <=> \E k \in 1 .. l + 1 : IsTemp(ws[k]) /\ u = ws[k].val
    BY <1>1 DEF ValueTemps
  <2>2. u \in ValueTemps(vs) <=> \E k \in 1 .. l : IsTemp(vs[k]) /\ u = vs[k].val
    BY DEF ValueTemps, l
  <2> QED BY <1>1, <1>2, <2>1, <2>2
<1>4. ValueTemps(ws) = ValueTemps(vs) \cup ValueTemps(<<v>>)
  BY <1>3, ValueTempsIs
<1> QED BY <1>4 DEF ws

(* The values that remain after an operation, with its result.             *)
LEMMA ResultTemps ==
  ASSUME NEW t, Values(vals, t), NEW n \in 0 .. Len(vals), NEW u
  PROVE  ValueTemps(Result(n, Temp(u))) \subseteq ValueTemps(vals) \cup {u}
<1> DEFINE s == SubSeq(vals, 1, Len(vals) - n)
           v == Temp(u)
<1>1. vals \in Seq(Operand) /\ Len(vals) \in Nat
  BY DEF Values
<1>2. s \in Seq(Operand) /\ Len(s) = Len(vals) - n /\ \A k \in 1 .. Len(s) : s[k] = vals[k]
  BY <1>1
<1> HIDE DEF s
<1>3. \A k \in 1 .. Len(s) : k \in 1 .. Len(vals)
  BY <1>1, <1>2
<1>4. ValueTemps(s) \subseteq ValueTemps(vals)
  <2>1. \A k \in 1 .. Len(s) : IsTemp(s[k]) => s[k].val \in ValueTemps(vals)
    BY <1>2, <1>3 DEF ValueTemps
  <2> QED BY <2>1 DEF ValueTemps
<1>5. ValueTemps(<<v>>) = {u}
  <2>1. IsTemp(v) /\ v.val = u
    BY DEF Temp, IsTemp
  <2> QED BY <2>1, ValueTempsIs
<1> HIDE DEF v
<1>6. ValueTemps(Append(s, v)) = ValueTemps(s) \cup ValueTemps(<<v>>)
  BY <1>2, AppendTemps
<1>7. ValueTemps(Append(s, v)) \subseteq ValueTemps(vals) \cup {u}
  BY <1>4, <1>5, <1>6
<1> QED BY <1>7 DEF Result, s, v

(* An instruction with a new result.                                       *)
LEMMA ComputeShape ==
  ASSUME NEW bs, NEW c, NEW P, NEW H, NEW t \in Nat, Lay(bs, c, P, H, t), Once(bs), Paired(bs),
         Body(bs, t), c \in 1 .. Len(bs),
         NEW i, Owned(i, t + 1), i.dst = t + 1, i.op \notin {"Copy", "Jump", "Branch"},
         OperandTemps(i) \subseteq H
  PROVE  /\ Lay(Emit(bs, c, i), c, P, H \cup {t + 1}, t + 1)
         /\ Once(Emit(bs, c, i)) /\ Paired(Emit(bs, c, i))
<1>1. Targets(i) = {}
  BY DEF Targets
<1>2. t + 1 \in Nat /\ t <= t + 1
  OBVIOUS
<1>3. Lay(Emit(bs, c, i), c, P, H \cup {t + 1}, t + 1)
  BY <1>1, LayCompute
<1>4. Once(Emit(bs, c, i)) /\ Paired(Emit(bs, c, i))
  BY <1>2, EmitTidy
<1> QED BY <1>3, <1>4

(* A number is not in a temporary.                                         *)
LEMMA LiteralShape ==
  ASSUME IInv, Shape, Literal
  PROVE  Shape'
<1>1. PICK c \in Literals : vals' = Append(vals, Const(c))
  BY DEF Literal
<1>2. phase = "building" /\ UNCHANGED <<blocks, cur, merges, temps>>
  BY DEF Literal, Visit
<1>3. vals \in Seq(Operand)
  BY <1>2, WhileBuilding DEF Values
<1>4. ValueTemps(<<Const(c)>>) = {}
  <2>1. ~ IsTemp(Const(c))
    BY DEF Const, IsTemp
  <2> QED BY <2>1, ValueTempsIs
<1>5. ValueTemps(vals') = ValueTemps(vals)
  <2> DEFINE v == Const(c)
  <2> HIDE DEF v
  <2>1. ValueTemps(Append(vals, v)) = ValueTemps(vals) \cup ValueTemps(<<v>>)
    BY <1>3, AppendTemps
  <2> QED BY <1>1, <1>4, <2>1 DEF v
<1> QED BY <1>2, <1>5 DEF Shape

(* The visitor of a name loads it into a new temporary.                    *)
LEMMA VariableShape ==
  ASSUME IInv, Shape, Variable
  PROVE  Shape'
<1> DEFINE t == temps + 1
           i == LoadFrom(t, X)
<1>1. /\ phase = "building" /\ temps' = t /\ cur' = cur /\ merges' = merges
      /\ blocks' = Emit(blocks, cur, i) /\ vals' = Append(vals, Temp(t))
  BY DEF Variable, Visit
<1>2. temps \in Nat /\ t \in Nat /\ t \in 1 .. t /\ Body(blocks, temps) /\ cur \in 1 .. Len(blocks)
  BY <1>1, WhileBuilding
<1>3. Owned(i, t)
  BY <1>2, OwnedLoad
<1>4. i.dst = t /\ i.op = "Load" /\ OperandTemps(i) = {}
  BY CodeIs, ValueTempsIs DEF LoadFrom
<1> HIDE DEF i
<1>5. /\ Lay(blocks', cur, Pending(merges), ValueTemps(vals) \cup {t}, t)
      /\ Once(blocks') /\ Paired(blocks')
  BY <1>1, <1>2, <1>3, <1>4, ComputeShape DEF Shape
<1>6. ValueTemps(vals') = ValueTemps(vals) \cup {t}
  <2> DEFINE v == Temp(t)
  <2>1. IsTemp(v) /\ v.val = t
    BY DEF Temp, IsTemp
  <2>2. ValueTemps(<<v>>) = {t}
    BY <2>1, ValueTempsIs
  <2>3. vals \in Seq(Operand)
    BY <1>1, WhileBuilding DEF Values
  <2> HIDE DEF v
  <2>4. ValueTemps(Append(vals, v)) = ValueTemps(vals) \cup ValueTemps(<<v>>)
    BY <2>3, AppendTemps
  <2> QED BY <1>1, <2>2, <2>4 DEF v
<1> QED BY <1>1, <1>5, <1>6 DEF Shape

(* A unary operator.                                                       *)
LEMMA OperateOneShape ==
  ASSUME IInv, Shape, OperateOne
  PROVE  Shape'
<1> DEFINE t == temps + 1
           v == Last(vals)
<1>1. /\ phase = "building" /\ temps' = t /\ cur' = cur /\ merges' = merges
      /\ vals # <<>> /\ vals' = Result(1, Temp(t))
  BY DEF OperateOne, Visit
<1>2. PICK op \in UnaryOps : blocks' = Emit(blocks, cur, Compute(op, t, <<v>>))
  BY DEF OperateOne
<1>3. /\ temps \in Nat /\ t \in Nat /\ t \in 1 .. t /\ temps <= t
      /\ Body(blocks, temps) /\ cur \in 1 .. Len(blocks) /\ Values(vals, temps)
  BY <1>1, WhileBuilding
<1>4. Values(vals, t)
  BY <1>3, ValuesGrow
<1>5. OwnedValue(v, t) /\ 1 \in 0 .. Len(vals) /\ ValueTemps(<<v>>) \subseteq ValueTemps(vals)
  <2>1. v = vals[Len(vals)] /\ Len(vals) \in 1 .. Len(vals)
    BY <1>1, <1>4, LastIsLast DEF Values
  <2>2. ValueTemps(<<vals[Len(vals)]>>) \subseteq ValueTemps(vals)
    BY <2>1, OneOfValues
  <2> QED BY <1>4, <2>1, <2>2, LastValue
<1>6. op \in Unary /\ op \notin {"Copy", "Jump", "Branch"}
  BY PassesAssumption DEF Unary
<1> DEFINE i == Compute(op, t, <<v>>)
<1> HIDE DEF v
<1>7. Owned(i, t)
  BY <1>3, <1>5, <1>6, OwnedOne
<1>8. i.dst = t /\ i.op = op /\ OperandTemps(i) = ValueTemps(<<v>>)
  BY CodeIs DEF Compute
<1>9. blocks' = Emit(blocks, cur, i)
  BY <1>2
<1> HIDE DEF i
<1>10. /\ Lay(blocks', cur, Pending(merges), ValueTemps(vals) \cup {t}, t)
       /\ Once(blocks') /\ Paired(blocks')
  BY <1>3, <1>5, <1>6, <1>7, <1>8, <1>9, ComputeShape DEF Shape
<1>11. ValueTemps(vals') \subseteq ValueTemps(vals) \cup {t}
  BY <1>1, <1>4, <1>5, ResultTemps
<1>12. Lay(blocks', cur, Pending(merges), ValueTemps(vals'), t)
  BY <1>10, <1>11, LayLess
<1> QED BY <1>1, <1>10, <1>12 DEF Shape

(* A binary operator.                                                      *)
LEMMA OperateTwoShape ==
  ASSUME IInv, Shape, OperateTwo
  PROVE  Shape'
<1> DEFINE t == temps + 1
           v == vals[Len(vals) - 1]
           w == Last(vals)
<1>1. /\ phase = "building" /\ temps' = t /\ cur' = cur /\ merges' = merges
      /\ Len(vals) >= 2 /\ vals' = Result(2, Temp(t))
  BY DEF OperateTwo, Visit
<1>2. PICK op \in BinaryOps : blocks' = Emit(blocks, cur, Compute(op, t, <<v, w>>))
  BY DEF OperateTwo
<1>3. /\ temps \in Nat /\ t \in Nat /\ t \in 1 .. t /\ temps <= t
      /\ Body(blocks, temps) /\ cur \in 1 .. Len(blocks) /\ Values(vals, temps)
  BY <1>1, WhileBuilding
<1>4. Values(vals, t)
  BY <1>3, ValuesGrow
<1>5. /\ OwnedValue(v, t) /\ OwnedValue(w, t) /\ 2 \in 0 .. Len(vals)
      /\ ValueTemps(<<v>>) \subseteq ValueTemps(vals)
      /\ ValueTemps(<<w>>) \subseteq ValueTemps(vals)
  <2>1. Len(vals) \in Nat
    BY <1>1, WhileBuilding
  <2>2. w = vals[Len(vals)]
    BY DEF Last
  <2>3. Len(vals) \in 1 .. Len(vals) /\ Len(vals) - 1 \in 1 .. Len(vals) /\ 2 \in 0 .. Len(vals)
    BY <1>1, <2>1
  <2>4. /\ ValueTemps(<<vals[Len(vals)]>>) \subseteq ValueTemps(vals)
        /\ ValueTemps(<<vals[Len(vals) - 1]>>) \subseteq ValueTemps(vals)
    BY <2>3, OneOfValues
  <2> QED BY <1>4, <2>2, <2>3, <2>4, LastValue
<1>6. op \in Binary /\ op \notin {"Copy", "Jump", "Branch"}
  BY PassesAssumption DEF Binary, Comparisons
<1> DEFINE i == Compute(op, t, <<v, w>>)
<1> HIDE DEF v, w
<1>7. Owned(i, t)
  BY <1>3, <1>5, <1>6, OwnedTwo
<1>8. i.dst = t /\ i.op = op /\ OperandTemps(i) \subseteq ValueTemps(vals)
  <2>1. i.dst = t /\ i.op = op /\ OperandTemps(i) = ValueTemps(<<v, w>>)
    BY CodeIs DEF Compute
  <2>2. ValueTemps(<<v, w>>) = ValueTemps(<<v>>) \cup ValueTemps(<<w>>)
    BY ValueTempsIs, Zenon
  <2> HIDE DEF i
  <2> QED BY <1>5, <2>1, <2>2
<1>9. blocks' = Emit(blocks, cur, i)
  BY <1>2
<1> HIDE DEF i
<1>10. /\ Lay(blocks', cur, Pending(merges), ValueTemps(vals) \cup {t}, t)
       /\ Once(blocks') /\ Paired(blocks')
  BY <1>3, <1>6, <1>7, <1>8, <1>9, ComputeShape DEF Shape
<1>11. ValueTemps(vals') \subseteq ValueTemps(vals) \cup {t}
  BY <1>1, <1>4, <1>5, ResultTemps
<1>12. Lay(blocks', cur, Pending(merges), ValueTemps(vals'), t)
  BY <1>10, <1>11, LayLess
<1> QED BY <1>1, <1>10, <1>12 DEF Shape

(* A statement that uses up the value.                                     *)
LEMMA EffectShape ==
  ASSUME Shape, IInv, phase = "building", NEW i, Owned(i, temps),
         i.dst = NoDst, i.op \in {"Store", "Write"}, OperandTemps(i) \subseteq ValueTemps(vals),
         blocks' = Emit(blocks, cur, i), vals' = <<>>, UNCHANGED <<cur, merges, temps>>
  PROVE  Shape'
<1>1. temps \in Nat /\ temps <= temps /\ Body(blocks, temps) /\ cur \in 1 .. Len(blocks)
  BY WhileBuilding
<1>2. i.op # "Copy" /\ Targets(i) = {}
  BY DEF Targets
<1>3. Lay(blocks', cur, Pending(merges), ValueTemps(vals), temps)
  BY <1>2, LayEmit DEF Shape
<1>4. Once(blocks') /\ Paired(blocks')
  BY <1>1, <1>2, EmitTidy DEF Shape
<1>5. Lay(blocks', cur, Pending(merges), ValueTemps(vals'), temps)
  BY <1>3, LayLess, ValueTempsIs
<1> QED BY <1>4, <1>5 DEF Shape

(* An assignment.                                                          *)
LEMMA AssignShape ==
  ASSUME IInv, Shape, Assign
  PROVE  Shape'
<1> DEFINE i == StoreTo(X, vals[1])
<1>1. /\ phase = "building" /\ Len(vals) = 1 /\ vals' = <<>> /\ blocks' = Emit(blocks, cur, i)
      /\ UNCHANGED <<cur, merges, temps>>
  BY DEF Assign, AtStatement
<1>2. Owned(i, temps)
  BY <1>1, WhileBuilding, OnlyValue, OwnedStore
<1>3. i.dst = NoDst /\ i.op = "Store" /\ OperandTemps(i) = ValueTemps(<<vals[1]>>)
  BY CodeIs DEF StoreTo
<1>4. ValueTemps(<<vals[1]>>) \subseteq ValueTemps(vals)
  BY <1>1, OneOfValues
<1> HIDE DEF i
<1> QED BY <1>1, <1>2, <1>3, <1>4, EffectShape

(* A call of Write.                                                        *)
LEMMA WriteShape ==
  ASSUME IInv, Shape, Write
  PROVE  Shape'
<1> DEFINE i == WriteOut(vals[1])
<1>1. /\ phase = "building" /\ Len(vals) = 1 /\ vals' = <<>> /\ blocks' = Emit(blocks, cur, i)
      /\ UNCHANGED <<cur, merges, temps>>
  BY DEF Write, AtStatement
<1>2. Owned(i, temps)
  BY <1>1, WhileBuilding, OnlyValue, OwnedWrite
<1>3. i.dst = NoDst /\ i.op = "Write" /\ OperandTemps(i) = ValueTemps(<<vals[1]>>)
  BY CodeIs DEF WriteOut
<1>4. ValueTemps(<<vals[1]>>) \subseteq ValueTemps(vals)
  BY <1>1, OneOfValues
<1> HIDE DEF i
<1> QED BY <1>1, <1>2, <1>3, <1>4, EffectShape

(* What follows a RETURN goes into a block of its own.                     *)
LEMMA ReturnShape ==
  ASSUME IInv, Shape, ReturnValue
  PROVE  Shape'
<1> DEFINE i == Return(vals)
           f == Finish(blocks, cur, i)
           n == Len(blocks)
           P == Pending(merges)
           as == Append(blocks, <<>>)
<1>1. /\ phase = "building" /\ vals' = <<>> /\ blocks' = Append(f, <<>>) /\ cur' = Len(blocks')
      /\ temps' = temps /\ merges' = merges
  BY DEF ReturnValue, AtStatement
<1>2. temps \in Nat /\ Body(blocks, temps) /\ cur \in 1 .. n /\ Frames(merges, n) /\ n \in Nat
  BY <1>1, WhileBuilding
<1>3. Owned(i, temps)
  BY <1>1, WhileBuilding, OwnedReturn
<1>4. /\ i.dst = NoDst /\ IsTerminator(i) /\ OperandTemps(i) = ValueTemps(vals)
      /\ Targets(i) = {} /\ i \in Instr
  <2>1. i.op = "Ret"
    BY CodeIs DEF Return
  <2>2. i.dst = NoDst /\ OperandTemps(i) = ValueTemps(vals)
    BY CodeIs DEF Return
  <2> HIDE DEF i
  <2> QED BY <1>3, <2>1, <2>2 DEF Targets, IsTerminator, Terminators, Owned
<1> HIDE DEF i
<1>5. Lay(as, cur, P \cup {n + 1}, ValueTemps(vals), temps)
  BY LayAdd DEF Shape
<1>6. Targets(i) \subseteq P \cup {n + 1} /\ OperandTemps(i) \subseteq ValueTemps(vals)
  BY <1>4
<1>7. Finish(as, cur, i) = blocks'
  BY <1>1, <1>2, <1>4, FinishAppend
<1> DEFINE Q == P \cup {n + 1}
<1>8. Lay(blocks', cur, Q, {}, temps) /\ Closed(blocks'[cur])
  <2> HIDE DEF as, Q
  <2>1. Lay(as, cur, Q, ValueTemps(vals), temps)
    BY <1>5 DEF Q
  <2>2. Targets(i) \subseteq Q
    BY <1>6 DEF Q
  <2>3. Lay(Finish(as, cur, i), cur, Q, {}, temps) /\ Closed(Finish(as, cur, i)[cur])
    BY <1>3, <1>4, <1>6, <2>1, <2>2, LayFinish
  <2> QED BY <1>7, <2>3
<1>9. n + 1 \in Q
  OBVIOUS
<1>10. Lay(blocks', n + 1, Q \ {n + 1}, {}, temps)
  <2> HIDE DEF Q
  <2> QED BY <1>8, <1>9, LayMove
<1>11. Q \ {n + 1} = P
  <2>1. n + 1 \notin 1 .. n
    BY <1>2
  <2>2. P \subseteq 1 .. n
    BY <1>2, PendingIs
  <2> HIDE DEF P, n
  <2> QED BY <2>1, <2>2 DEF Q
<1>12. cur' = n + 1
  <2>1. Body(f, temps) /\ Len(f) = n
    BY <1>2, <1>3, FinishOK
  <2> HIDE DEF f, n
  <2>2. Len(Append(f, <<>>)) = n + 1
    BY <2>1, CreateEmpty
  <2> QED BY <1>1, <2>2
<1>13. Once(blocks') /\ Paired(blocks')
  <2>1. Once(f) /\ Paired(f) /\ Body(f, temps)
    BY <1>2, <1>3, <1>4, FinishTidy, FinishOK DEF Shape
  <2> HIDE DEF f
  <2> QED BY <1>1, <2>1, AppendTidy
<1>14. Lay(blocks', cur', P, ValueTemps(vals'), temps)
  BY <1>1, <1>10, <1>11, <1>12, ValueTempsIs
<1> QED BY <1>1, <1>13, <1>14 DEF Shape

(* The block behind an IF is made when the visitor is entered.             *)
LEMMA BeginIfShape ==
  ASSUME IInv, Shape, BeginIf
  PROVE  Shape'
<1> DEFINE n == Len(blocks)
           f == [at |-> "cond", merge |-> n + 1, else |-> 0]
<1>1. /\ phase = "building" /\ blocks' = Append(blocks, <<>>)
      /\ merges' = Append(merges, [at |-> "cond", merge |-> Len(blocks'), else |-> 0])
      /\ temps' = temps /\ cur' = cur /\ vals' = vals
  BY DEF BeginIf, Visit
<1>2. Body(blocks, temps) /\ Frames(merges, n) /\ n \in Nat
  BY <1>1, WhileBuilding
<1>3. Lay(blocks', cur, Pending(merges) \cup {n + 1}, ValueTemps(vals), temps)
  BY <1>1, LayAdd DEF Shape
<1>4. Len(blocks') = n + 1
  BY <1>1, <1>2, CreateEmpty
<1>5. merges' = Append(merges, f)
  BY <1>1, <1>4
<1>6. f \in Frame /\ f.at = "cond" /\ f.merge = n + 1
  BY <1>2 DEF Frame
<1> HIDE DEF n, f
<1>7. Pending(merges') = Pending(merges) \cup {n + 1} /\ Distinct(merges')
  BY <1>2, <1>5, <1>6, PendingAdd DEF Shape
<1>8. Once(blocks') /\ Paired(blocks')
  BY <1>1, <1>2, AppendTidy DEF Shape
<1> QED BY <1>1, <1>3, <1>7, <1>8 DEF Shape

(* A branch leads to two new blocks; the first is begun.                   *)
LEMMA IfBranchShape ==
  ASSUME IInv, Shape, IfBranch
  PROVE  Shape'
<1> DEFINE n == Len(blocks)
           i == BranchOn(vals[1], n + 1, n + 2)
           e == Finish(blocks, cur, i)
           P == Pending(merges)
           l == Len(merges)
           a1 == Append(blocks, <<>>)
           a2 == Append(a1, <<>>)
           Q == (P \cup {n + 1}) \cup {n + 2}
<1>1. /\ phase = "building" /\ merges # <<>> /\ Len(vals) = 1 /\ Last(merges).at = "cond"
      /\ blocks' = e \o <<<<>>, <<>>>> /\ cur' = n + 1
      /\ merges' = [merges EXCEPT ![Len(merges)].at = "then",
                                  ![Len(merges)].else = n + 2]
      /\ vals' = <<>> /\ temps' = temps
  BY DEF IfBranch
<1>2. /\ temps \in Nat /\ Body(blocks, temps) /\ Frames(merges, n) /\ Values(vals, temps)
      /\ n \in Nat /\ cur \in 1 .. n
  BY <1>1, WhileBuilding
<1>3. /\ n + 1 \in Nat /\ n + 2 \in Nat /\ (n + 1) + 1 = n + 2 /\ n + 1 # n + 2
      /\ cur \in 1 .. n + 1 /\ n + 1 \notin 1 .. n /\ n + 2 \notin 1 .. n /\ n + 2 > n
  <2> HIDE DEF n
  <2> QED BY <1>2
<1>4. Owned(i, temps)
  BY <1>1, <1>2, <1>3, OnlyValue, OwnedBranch
<1>5. /\ i.dst = NoDst /\ IsTerminator(i) /\ OperandTemps(i) \subseteq ValueTemps(vals)
      /\ Targets(i) = {n + 1, n + 2} /\ i \in Instr
  <2>1. i.op = "Branch" /\ i.to = <<n + 1, n + 2>>
    BY CodeIs DEF BranchOn
  <2>2. i.dst = NoDst /\ OperandTemps(i) = ValueTemps(<<vals[1]>>)
    BY CodeIs DEF BranchOn
  <2>3. ValueTemps(<<vals[1]>>) \subseteq ValueTemps(vals)
    <3>1. 1 \in 1 .. Len(vals)
      BY <1>1
    <3> QED BY <3>1, OneOfValues
  <2> HIDE DEF i
  <2> QED BY <1>4, <2>1, <2>2, <2>3 DEF Targets, IsTerminator, Terminators, Owned
<1> HIDE DEF i
<1>6. Body(a1, temps) /\ Len(a1) = n + 1 /\ Lay(a1, cur, P \cup {n + 1}, ValueTemps(vals), temps)
  BY <1>2, CreateEmpty, LayAdd DEF Shape
<1>7. Body(e, temps) /\ Len(e) = n /\ Once(e) /\ Paired(e)
  BY <1>2, <1>4, <1>5, FinishOK, FinishTidy DEF Shape
<1>8. Finish(a1, cur, i) = Append(e, <<>>)
  BY <1>2, <1>5, FinishAppend
<1> HIDE DEF a1, e
<1>9. Lay(a2, cur, Q, ValueTemps(vals), temps)
  <2>1. Lay(a2, cur, (P \cup {n + 1}) \cup {Len(a1) + 1}, ValueTemps(vals), temps)
    BY <1>6, LayAdd
  <2> QED BY <1>3, <1>6, <2>1
<1>10. blocks' = Append(Append(e, <<>>), <<>>)
  BY <1>1, <1>7 DEF Body
<1>11. Finish(a2, cur, i) = blocks'
  <2>1. Finish(a2, cur, i) = Append(Finish(a1, cur, i), <<>>)
    BY <1>3, <1>5, <1>6, FinishAppend
  <2> QED BY <1>8, <1>10, <2>1
<1> HIDE DEF a2
<1>12. Targets(i) \subseteq Q /\ n + 1 \in Q
  BY <1>5
<1> HIDE DEF Q
<1>13. Lay(blocks', cur, Q, {}, temps) /\ Closed(blocks'[cur])
  <2>1. Lay(Finish(a2, cur, i), cur, Q, {}, temps) /\ Closed(Finish(a2, cur, i)[cur])
    BY <1>4, <1>5, <1>9, <1>12, LayFinish
  <2> QED BY <1>11, <2>1
<1>14. Lay(blocks', n + 1, Q \ {n + 1}, {}, temps)
  BY <1>12, <1>13, LayMove
<1>15. Pending(merges') = P \cup {n + 2} /\ Distinct(merges')
  <2> DEFINE old == merges[l]
             f == [old EXCEPT !.at = "then", !.else = n + 2]
  <2>1. merges \in Seq(Frame) /\ l \in 1 .. l /\ old = Last(merges) /\ old \in Frame
        /\ FrameIn(old, n)
    BY <1>1, <1>2, LastFrame, LastIsLast DEF Frames, Last
  <2>2. merges' = [merges EXCEPT ![l] = f]
    BY <1>1, <2>1 DEF Frame
  <2>3. f.merge = old.merge /\ f.at = "then" /\ f.else = n + 2
    BY <2>1 DEF Frame
  <2>4. old.merge \in 1 .. n /\ Awaits(old) = {old.merge} /\ Awaits(old) \subseteq P
    <3>1. Awaits(old) = {old.merge} /\ old.merge \in 1 .. n
      BY <1>1, <2>1 DEF Awaits, FrameIn
    <3>2. \A b \in Awaits(old) : b \in P
      BY <1>2, <2>1, PendingIs
    <3> QED BY <3>1, <3>2
  <2> HIDE DEF f, old, P, n
  <2>5. Awaits(f) = {old.merge, n + 2}
    BY <2>3 DEF Awaits
  <2>6. f.else # f.merge /\ \A b \in Awaits(f) : b \in Awaits(old) \/ b > n
    BY <1>3, <2>3, <2>4, <2>5
  <2>7. /\ Pending(merges') = (Pending(merges) \ Awaits(old)) \cup Awaits(f)
        /\ Distinct(merges')
    <3>1. /\ f.merge = merges[Len(merges)].merge
          /\ \A b \in Awaits(f) : b \in Awaits(merges[Len(merges)]) \/ b > n
      BY <2>3, <2>6 DEF old
    <3>2. Distinct(merges) /\ Frames(merges, n) /\ n \in Nat /\ merges # <<>>
      BY <1>1, <1>2 DEF Shape
    <3> DEFINE gs == [merges EXCEPT ![Len(merges)] = f]
    <3>3. /\ Pending(gs) = (Pending(merges) \ Awaits(merges[Len(merges)])) \cup Awaits(f)
          /\ Distinct(gs)
      BY <2>6, <3>1, <3>2, PendingChange
    <3> QED BY <2>2, <3>3 DEF old
  <2> QED BY <2>4, <2>5, <2>7 DEF P
<1>16. Q \ {n + 1} = P \cup {n + 2}
  <2>1. P \subseteq 1 .. n
    BY <1>2, PendingIs
  <2> HIDE DEF P, n
  <2> QED BY <1>3, <2>1 DEF Q
<1>17. Once(blocks') /\ Paired(blocks')
  <2>1. Body(Append(e, <<>>), temps) /\ Once(Append(e, <<>>)) /\ Paired(Append(e, <<>>))
    BY <1>7, CreateEmpty, AppendTidy
  <2> QED BY <1>10, <2>1, AppendTidy
<1>18. Lay(blocks', cur', Pending(merges'), ValueTemps(vals'), temps)
  BY <1>1, <1>14, <1>15, <1>16, ValueTempsIs
<1> QED BY <1>1, <1>15, <1>17, <1>18 DEF Shape

(* The end of a branch jumps behind the IF, what is begun then is pending. *)
LEMMA JumpShape ==
  ASSUME IInv, Shape, phase = "building", NEW b \in Pending(merges), NEW p \in Pending(merges),
         blocks' = Finish(blocks, cur, JumpTo(b)), cur' = p, temps' = temps
  PROVE  /\ Lay(blocks', cur', Pending(merges) \ {p}, {}, temps')
         /\ Once(blocks') /\ Paired(blocks')
<1> DEFINE i == JumpTo(b)
           P == Pending(merges)
<1>1. /\ temps \in Nat /\ Body(blocks, temps) /\ Frames(merges, Len(blocks))
      /\ cur \in 1 .. Len(blocks) /\ Len(blocks) \in Nat
  BY WhileBuilding
<1>2. b \in Nat
  <2>1. P \subseteq 1 .. Len(blocks)
    BY <1>1, PendingIs
  <2> HIDE DEF P
  <2> QED BY <2>1 DEF P
<1>3. Owned(i, temps)
  BY <1>1, <1>2, OwnedJump
<1>4. i.op = "Jump" /\ i.to = <<b>> /\ i.dst = NoDst /\ OperandTemps(i) = {}
  BY CodeIs, ValueTempsIs DEF JumpTo
<1>5. blocks' = Finish(blocks, cur, i)
  OBVIOUS
<1> HIDE DEF i
<1>6. Targets(i) = {b} /\ IsTerminator(i)
  BY <1>4 DEF Targets, IsTerminator, Terminators
<1>7. Lay(blocks', cur, P, {}, temps) /\ Closed(blocks'[cur])
  <2>1. Targets(i) \subseteq P /\ OperandTemps(i) \subseteq ValueTemps(vals)
    BY <1>4, <1>6
  <2>2. Lay(blocks, cur, P, ValueTemps(vals), temps)
    BY DEF Shape
  <2> HIDE DEF P
  <2> QED BY <1>3, <1>4, <1>5, <1>6, <2>1, <2>2, LayFinish
<1>8. Lay(blocks', p, P \ {p}, {}, temps)
  BY <1>7, LayMove
<1>9. Once(blocks') /\ Paired(blocks')
  BY <1>1, <1>3, <1>4, <1>5, <1>6, FinishTidy DEF Shape
<1> QED BY <1>8, <1>9

(* The end of THEN: its block jumps to the merge block, ELSE is begun.     *)
LEMMA EndThenShape ==
  ASSUME IInv, Shape, EndThen
  PROVE  Shape'
<1> DEFINE n == Len(blocks)
           l == Len(merges)
           old == merges[l]
           P == Pending(merges)
<1>1. /\ phase = "building" /\ merges # <<>> /\ Last(merges).at = "then" /\ vals = <<>>
      /\ blocks' = Finish(blocks, cur, JumpTo(Last(merges).merge)) /\ cur' = Last(merges).else
      /\ temps' = temps /\ vals' = vals
  BY DEF EndThen, AtStatement
<1>2. PICK at \in {"else", "cond"} : merges' = [merges EXCEPT ![Len(merges)].at = at]
  BY DEF EndThen
<1>3. /\ old = Last(merges) /\ old \in Frame /\ FrameIn(old, n) /\ l \in 1 .. l /\ n \in Nat
      /\ Frames(merges, n) /\ merges \in Seq(Frame)
  BY <1>1, WhileBuilding, LastFrame DEF Last, Frames
<1> DEFINE f == [old EXCEPT !.at = at]
<1>4. /\ merges' = [merges EXCEPT ![l] = f]
      /\ f.merge = old.merge /\ f.at = at
  BY <1>2, <1>3 DEF Frame
<1> HIDE DEF n, f, old
<1>5. /\ Awaits(old) = {old.merge, old.else} /\ Awaits(f) = {old.merge}
      /\ old.merge \in P /\ old.else \in P /\ old.else # old.merge /\ f.at # "then"
  <2>1. old.at = "then"
    BY <1>1, <1>3
  <2>2. Awaits(old) = {old.merge, old.else} /\ Awaits(f) = {old.merge} /\ f.at # "then"
    BY <1>4, <2>1 DEF Awaits
  <2>3. \A b \in Awaits(old) : b \in P
    BY <1>3, PendingIs DEF old
  <2>4. old.else # old.merge
    BY <1>3, <2>1 DEF Shape, Distinct, old
  <2> QED BY <2>2, <2>3, <2>4
<1>6. Pending(merges') = P \ {old.else} /\ Distinct(merges')
  <2>1. /\ f.merge = merges[Len(merges)].merge
        /\ \A b \in Awaits(f) : b \in Awaits(merges[Len(merges)]) \/ b > n
    BY <1>4, <1>5 DEF old
  <2>2. Distinct(merges) /\ merges # <<>> /\ (f.at = "then" => f.else # f.merge)
    BY <1>1, <1>5 DEF Shape
  <2> DEFINE gs == [merges EXCEPT ![Len(merges)] = f]
  <2>3. /\ Pending(gs) = (Pending(merges) \ Awaits(merges[Len(merges)])) \cup Awaits(f)
        /\ Distinct(gs)
    BY <1>3, <2>1, <2>2, PendingChange
  <2>4. Pending(merges') = (P \ Awaits(old)) \cup Awaits(f) /\ Distinct(merges')
    BY <1>4, <2>3 DEF old
  <2> HIDE DEF P
  <2> QED BY <1>5, <2>4
<1>7. /\ Lay(blocks', cur', P \ {old.else}, {}, temps')
      /\ Once(blocks') /\ Paired(blocks')
  BY <1>1, <1>3, <1>5, JumpShape
<1>8. Lay(blocks', cur', Pending(merges'), ValueTemps(vals'), temps')
  BY <1>1, <1>6, <1>7, ValueTempsIs
<1> QED BY <1>6, <1>7, <1>8 DEF Shape

(* The end of IF: the last block jumps to the merge block, which is begun. *)
LEMMA EndIfShape ==
  ASSUME IInv, Shape, EndIf
  PROVE  Shape'
<1> DEFINE n == Len(blocks)
           l == Len(merges)
           old == merges[l]
           P == Pending(merges)
<1>1. /\ phase = "building" /\ merges # <<>> /\ Last(merges).at = "else" /\ vals = <<>>
      /\ blocks' = Finish(blocks, cur, JumpTo(Last(merges).merge)) /\ cur' = Last(merges).merge
      /\ temps' = temps /\ vals' = vals /\ merges' = Front(merges)
  BY DEF EndIf, AtStatement
<1>2. /\ old = Last(merges) /\ old \in Frame /\ FrameIn(old, n) /\ l \in 1 .. l /\ n \in Nat
      /\ Frames(merges, n) /\ merges \in Seq(Frame)
  BY <1>1, WhileBuilding, LastFrame DEF Last, Frames
<1> HIDE DEF n, old
<1>3. Awaits(old) = {old.merge} /\ old.merge \in P
  <2>1. Awaits(old) = {old.merge}
    BY <1>1, <1>2 DEF Awaits
  <2>2. \A b \in Awaits(old) : b \in P
    BY <1>2, PendingIs DEF old
  <2> QED BY <2>1, <2>2
<1>4. Pending(merges') = P \ {old.merge} /\ Distinct(merges')
  <2>1. Distinct(merges)
    BY DEF Shape
  <2>2. Pending(Front(merges)) = P \ Awaits(merges[Len(merges)]) /\ Distinct(Front(merges))
    BY <1>1, <1>2, <2>1, PendingDrop
  <2> QED BY <1>1, <1>3, <2>2 DEF old
<1>5. /\ Lay(blocks', cur', P \ {old.merge}, {}, temps')
      /\ Once(blocks') /\ Paired(blocks')
  BY <1>1, <1>2, <1>3, JumpShape
<1>6. Lay(blocks', cur', Pending(merges'), ValueTemps(vals'), temps')
  BY <1>1, <1>4, <1>5, ValueTempsIs
<1> QED BY <1>4, <1>5, <1>6 DEF Shape

(* A complete body.                                                        *)
Sourceful(bs) == \E av, rank, need : Flow(bs, av, rank) /\ Sourced(bs, av, need)

(* The end of the body: no IF is active, so no block is pending and the    *)
(* body is complete.                                                       *)
LEMMA EndBodyShape ==
  ASSUME IInv, Shape, EndBody
  PROVE  /\ Sourceful(blocks') /\ Once(blocks') /\ Paired(blocks')
         /\ DOMAIN blocks' = 1 .. Len(blocks') /\ Len(blocks') \in Nat
<1> DEFINE i == Return(vals)
<1>1. phase = "building" /\ blocks' = Finish(blocks, cur, i) /\ merges = <<>>
  BY DEF EndBody, AtStatement
<1>2. /\ temps \in Nat /\ Body(blocks, temps) /\ cur \in 1 .. Len(blocks)
  BY <1>1, WhileBuilding
<1>3. Owned(i, temps)
  BY <1>1, WhileBuilding, OwnedReturn
<1>4. i.op = "Ret" /\ i.dst = NoDst /\ OperandTemps(i) = ValueTemps(vals)
  BY CodeIs DEF Return
<1> HIDE DEF i
<1>5. Targets(i) = {} /\ IsTerminator(i)
  BY <1>4 DEF Targets, IsTerminator, Terminators
<1>6. Pending(merges) = {}
  <2>1. Len(merges) = 0 /\ 1 .. 0 = {}
    BY <1>1
  <2> QED BY <2>1 DEF Pending
<1>7. Lay(blocks', cur, {}, {}, temps) /\ Closed(blocks'[cur])
  <2>1. Targets(i) \subseteq {} /\ OperandTemps(i) \subseteq ValueTemps(vals)
    BY <1>4, <1>5
  <2>2. Lay(blocks, cur, {}, ValueTemps(vals), temps)
    BY <1>6 DEF Shape
  <2> QED BY <1>1, <1>3, <1>4, <1>5, <2>1, <2>2, LayFinish
<1>8. Sourceful(blocks')
  BY <1>7, LayEnd DEF Sourceful
<1>9. Once(blocks') /\ Paired(blocks')
  BY <1>1, <1>2, <1>3, <1>4, <1>5, FinishTidy DEF Shape
<1>10. Body(blocks', temps)
  BY <1>1, <1>2, <1>3, FinishOK
<1> QED BY <1>8, <1>9, <1>10, BodyIs

(***************************************************************************)
(* Part 15.  ABS: two blocks that copy into one temporary, and a third     *)
(* behind them.                                                            *)
(***************************************************************************)

(* What has been written in a block, and where it may be copied from.      *)
LEMMA HaveIs ==
  ASSUME NEW bs, NEW c, NEW P, NEW av, NEW rank, NEW need, NEW t \in Nat,
         Sound(bs, c, P, av, rank, need, t)
  PROVE  /\ Have(bs, av, c) \subseteq 1 .. t
         /\ \A u \in Have(bs, av, c) : need[u] \subseteq Have(bs, av, c)
<1> DEFINE l == Len(bs[c])
<1>1. Body(bs, t) /\ Around(bs, c, P, av, rank, need, t) /\ c \in 1 .. Len(bs)
  BY DEF Sound, Around
<1>2. l \in Nat /\ \A h \in 1 .. l : bs[c][h].dst \in 0 .. t
  BY <1>1, BodyIs DEF Owned
<1>3. Fed(bs, av, need, c, l)
  <2>1. l \in 0 .. l
    BY <1>2
  <2> QED BY <1>1, <2>1 DEF Sound
<1>4. av[c] \subseteq 1 .. t
  BY <1>1 DEF Around
<1>5. Defs(bs[c], l) \subseteq 1 .. t
  BY <1>2 DEF Defs, NoDst
<1>6. Have(bs, av, c) \subseteq 1 .. t
  BY <1>4, <1>5 DEF Have, Avail
<1>7. \A u \in Have(bs, av, c) : need[u] \subseteq Have(bs, av, c)
  BY <1>3 DEF Fed, Have
<1> QED BY <1>6, <1>7

(* A pending block is begun: it copies w into d and jumps to g.            *)
Copying(d, w) == Compute("Copy", d, <<w>>)
Copied(bs, p, g, d, w) == Emit(Emit(bs, p, Copying(d, w)), p, JumpTo(g))

(* In some order.                                                          *)
Ranked(bs, c, P, av, need, t) == \E rank : Sound(bs, c, P, av, rank, need, t)

(* What it copies is there, and what g relies on is.                       *)
Copies(bs, c, P, av, need, t, p, g, d, w) ==
  /\ t \in Nat /\ Ranked(bs, c, P, av, need, t) /\ Closed(bs[c])
  /\ p \in P /\ g \in P /\ p # g /\ d \in 1 .. t /\ OwnedValue(w, t)
  /\ ValueTemps(<<w>>) \subseteq need[d] /\ need[d] \subseteq av[p]
  /\ av[g] \subseteq av[p] \cup {d}

(* A block that copies and jumps is complete.                              *)
LEMMA CopyingSound ==
  ASSUME NEW bs, NEW c, NEW P, NEW av, NEW need, NEW t, NEW p, NEW g, NEW d, NEW w,
         Copies(bs, c, P, av, need, t, p, g, d, w)
  PROVE  /\ Ranked(Copied(bs, p, g, d, w), p, P \ {p}, av, need, t)
         /\ Closed(Copied(bs, p, g, d, w)[p]) /\ Len(Copied(bs, p, g, d, w)) = Len(bs)
<1> USE DEF Copies
<1> PICK rank : Sound(bs, c, P, av, rank, need, t)
  BY DEF Ranked
<1> DEFINE i == Copying(d, w)
           j == JumpTo(g)
           ms == Emit(bs, p, i)
           ns == Emit(ms, p, j)
           Q == P \ {p}
           br == Begun(rank, Len(bs), c, p)
<1>1. Sound(bs, p, Q, av, br, need, t) /\ Have(bs, av, p) = av[p]
  BY MoveSound
<1>2. Owned(i, t)
  BY OwnedOne DEF Copying, Unary
<1>3. g \in Nat
  <2>1. P \subseteq 1 .. Len(bs)
    BY DEF Sound, Around
  <2> QED BY <2>1
<1>4. Owned(j, t)
  BY <1>3, OwnedJump
<1>5. i.dst = d /\ i.op = "Copy" /\ OperandTemps(i) = ValueTemps(<<w>>)
  BY CodeIs DEF Compute, Copying
<1>6. j.op = "Jump" /\ j.to = <<g>> /\ j.dst = NoDst /\ OperandTemps(j) = {}
  BY CodeIs, ValueTempsIs DEF JumpTo
<1> HIDE DEF i, j, br
<1>7. Targets(i) = {} /\ Targets(j) = {g} /\ IsTerminator(j) /\ j.op # "Copy"
  BY <1>5, <1>6 DEF Targets, IsTerminator, Terminators
<1>8. d # NoDst /\ {d} \ {NoDst} = {d}
  BY DEF NoDst
<1>9. Sound(ms, p, Q, av, br, need, t) /\ Len(ms) = Len(bs) /\ Have(ms, av, p) = av[p] \cup {d}
  <2> HIDE DEF Q
  <2>1. /\ OperandTemps(i) \subseteq Have(bs, av, p)
        /\ \A h \in Targets(i) : h \in Q /\ av[h] \subseteq Have(bs, av, p)
        /\ OperandTemps(i) \subseteq need[i.dst] /\ need[i.dst] \subseteq Have(bs, av, p)
    BY <1>1, <1>5, <1>7
  <2>2. /\ Sound(ms, p, Q, av, br, need, t) /\ Len(ms) = Len(bs)
        /\ Have(ms, av, p) = Have(bs, av, p) \cup ({i.dst} \ {NoDst})
    BY <1>1, <1>2, <2>1, EmitSound
  <2> QED BY <1>1, <1>5, <1>8, <2>2
<1>10. g \in Q
  OBVIOUS
<1> HIDE DEF ms, Q
<1>11. Sound(ns, p, Q, av, br, need, t) /\ Len(ns) = Len(ms) /\ Closed(ns[p])
  <2>1. /\ OperandTemps(j) \subseteq Have(ms, av, p)
        /\ \A h \in Targets(j) : h \in Q /\ av[h] \subseteq Have(ms, av, p)
    BY <1>6, <1>7, <1>9, <1>10
  <2> QED BY <1>4, <1>6, <1>7, <1>9, <2>1, EmitSound
<1> HIDE DEF ns
<1>12. Ranked(ns, p, Q, av, need, t)
  BY <1>11 DEF Ranked
<1>13. ns = Copied(bs, p, g, d, w)
  BY DEF ns, ms, i, j, Copied
<1> HIDE DEF ms
<1> QED BY <1>9, <1>11, <1>12, <1>13 DEF Q

(* To n blocks one has been added, that A is available in.                 *)
Adds(ns, c, Q, av, n, A, need, t, H) ==
  \E bv, br :
    /\ Sound(ns, c, Q, bv, br, need, t)
    /\ Have(ns, bv, c) = H
    /\ bv[n + 1] = A
    /\ \A b \in 1 .. n : bv[b] = av[b]

(* One pending block more.                                                 *)
LEMMA AddOne ==
  ASSUME NEW bs, NEW c, NEW P, NEW av, NEW rank, NEW need, NEW t,
         Sound(bs, c, P, av, rank, need, t), NEW A, Fits(A, need, t)
  PROVE  /\ Adds(Append(bs, <<>>), c, P \cup {Len(bs) + 1}, av, Len(bs), A, need, t,
                 Have(bs, av, c))
         /\ Len(Append(bs, <<>>)) = Len(bs) + 1 /\ Len(bs) \in Nat
<1> DEFINE ns == Append(bs, <<>>)
           n == Len(bs)
           bv == Wider(av, n, A)
           br == Wider(rank, n, 0)
<1>1. n \in Nat
  BY BodyIs DEF Sound
<1>3. /\ Sound(ns, c, P \cup {n + 1}, bv, br, need, t) /\ Len(ns) = n + 1
      /\ Have(ns, bv, c) = Have(bs, av, c)
  BY AddSound
<1> HIDE DEF n
<1>4. bv[n + 1] = A /\ \A b \in 1 .. n : bv[b] = av[b]
  BY <1>1, WiderIs, SMT
<1> HIDE DEF ns, bv, br
<1>5. Adds(ns, c, P \cup {n + 1}, av, n, A, need, t, Have(bs, av, c))
  BY <1>3, <1>4 DEF Adds
<1> QED BY <1>1, <1>3, <1>5 DEF ns, n

(* Three blocks are made, two that the branch i leads to.                  *)
Three(bs) == Append(Append(Append(bs, <<>>), <<>>), <<>>)

(* They are pending, and the first two count on all that c has.            *)
Forks(ns, c, Q, av, n, A, B, need, t, H) ==
  \E bv, br :
    /\ Sound(ns, c, Q, bv, br, need, t)
    /\ Have(ns, bv, c) = H
    /\ bv[n + 1] = A /\ bv[n + 2] = A /\ bv[n + 3] = B
    /\ \A b \in 1 .. n : bv[b] = av[b]

(* Three pending blocks more: two for the copies and one that both lead    *)
(* to.                                                                     *)
LEMMA ThreeSound ==
  ASSUME NEW bs, NEW c, NEW P, NEW av, NEW rank, NEW need, NEW t \in Nat,
         Sound(bs, c, P, av, rank, need, t), NEW B, Fits(B, need, t)
  PROVE  LET n == Len(bs)
         IN  /\ Forks(Three(bs), c, P \cup {n + 1, n + 2, n + 3}, av, n, Have(bs, av, c), B,
                      need, t, Have(bs, av, c))
             /\ Len(Three(bs)) = n + 3
<1> DEFINE n == Len(bs)
           A == Have(bs, av, c)
           a1 == Append(bs, <<>>)
           a2 == Append(a1, <<>>)
           a3 == Append(a2, <<>>)
           P1 == P \cup {n + 1}
           P2 == P1 \cup {n + 2}
           P3 == P2 \cup {n + 3}
<1>1. Fits(A, need, t)
  BY HaveIs DEF Fits
<1>2. Adds(a1, c, P1, av, n, A, need, t, A) /\ Len(a1) = n + 1 /\ n \in Nat
  BY <1>1, AddOne
<1> HIDE DEF A, a1, P1
<1>3. PICK v1, r1 :
        /\ Sound(a1, c, P1, v1, r1, need, t)
        /\ Have(a1, v1, c) = A
        /\ v1[n + 1] = A
        /\ \A b \in 1 .. n : v1[b] = av[b]
  BY <1>2 DEF Adds
<1> HIDE DEF n
<1>4. /\ (n + 1) + 1 = n + 2 /\ (n + 2) + 1 = n + 3
      /\ n + 1 \in 1 .. n + 1 /\ n + 1 \in 1 .. n + 2 /\ n + 2 \in 1 .. n + 2
      /\ \A b \in 1 .. n : b \in 1 .. n + 1 /\ b \in 1 .. n + 2
  BY <1>2
<1>5. /\ Adds(a2, c, P1 \cup {Len(a1) + 1}, v1, Len(a1), A, need, t, Have(a1, v1, c))
      /\ Len(a2) = Len(a1) + 1
  BY <1>1, <1>3, AddOne
<1> HIDE DEF a2
<1>6. Adds(a2, c, P2, v1, n + 1, A, need, t, A) /\ Len(a2) = n + 2
  BY <1>2, <1>3, <1>4, <1>5
<1> HIDE DEF P2
<1>7. PICK v2, r2 :
        /\ Sound(a2, c, P2, v2, r2, need, t)
        /\ Have(a2, v2, c) = A
        /\ v2[(n + 1) + 1] = A
        /\ \A b \in 1 .. n + 1 : v2[b] = v1[b]
  BY <1>6 DEF Adds
<1>8. /\ Adds(a3, c, P2 \cup {Len(a2) + 1}, v2, Len(a2), B, need, t, Have(a2, v2, c))
      /\ Len(a3) = Len(a2) + 1
  BY <1>7, AddOne
<1> HIDE DEF a3
<1>9. Adds(a3, c, P3, v2, n + 2, B, need, t, A) /\ Len(a3) = n + 3
  BY <1>4, <1>6, <1>7, <1>8
<1>10. P3 = P \cup {n + 1, n + 2, n + 3}
  BY DEF P2, P1
<1> HIDE DEF P3
<1>11. PICK v3, r3 :
        /\ Sound(a3, c, P3, v3, r3, need, t)
        /\ Have(a3, v3, c) = A
        /\ v3[(n + 2) + 1] = B
        /\ \A b \in 1 .. n + 2 : v3[b] = v2[b]
  BY <1>9 DEF Adds
<1>12. /\ v3[n + 1] = A /\ v3[n + 2] = A /\ v3[n + 3] = B
       /\ \A b \in 1 .. n : v3[b] = av[b]
  BY <1>3, <1>4, <1>7, <1>11
<1>13. a3 = Three(bs)
  BY DEF a3, a2, a1, Three
<1>14. Forks(a3, c, P3, av, n, A, B, need, t, A)
  BY <1>11, <1>12 DEF Forks
<1> QED BY <1>9, <1>10, <1>13, <1>14 DEF A, n

(* In either order.                                                        *)
LEMMA FinishThree ==
  ASSUME NEW bs, NEW t, Body(bs, t), NEW c \in 1 .. Len(bs), NEW i, Owned(i, t)
  PROVE  Finish(Three(bs), c, i) = Three(Finish(bs, c, i))
<1> DEFINE a1 == Append(bs, <<>>)
           a2 == Append(a1, <<>>)
           a3 == Append(a2, <<>>)
<1>1. i \in Instr
  BY DEF Owned
<1>2. Body(a1, t) /\ c \in 1 .. Len(a1)
  BY AppendIs
<1>3. Finish(a1, c, i) = Append(Finish(bs, c, i), <<>>)
  BY <1>1, FinishAppend
<1> HIDE DEF a1
<1>4. Body(a2, t) /\ c \in 1 .. Len(a2)
  BY <1>2, AppendIs
<1>5. Finish(a2, c, i) = Append(Finish(a1, c, i), <<>>)
  BY <1>1, <1>2, FinishAppend
<1> HIDE DEF a2
<1>6. Finish(a3, c, i) = Append(Finish(a2, c, i), <<>>)
  BY <1>1, <1>4, FinishAppend
<1> QED BY <1>3, <1>5, <1>6 DEF Three, a1, a2

(* The three that come after n blocks.                                     *)
Plus(P, n) == P \cup {n + 1, n + 2, n + 3}

(* i ends block c, it leads to the first two.                              *)
Forking(i, bs, av, c, n, t) ==
  /\ Owned(i, t) /\ IsTerminator(i) /\ i.dst = NoDst
  /\ Targets(i) = {n + 1, n + 2} /\ OperandTemps(i) \subseteq Have(bs, av, c)

(* Then the branch is in place.                                            *)
Forked(bs, c, P, av, need, t, B, i, n) ==
  LET ns == Three(Finish(bs, c, i))
      A == Have(bs, av, c)
  IN  /\ \E bv, br :
           /\ Sound(ns, c, Plus(P, n), bv, br, need, t)
           /\ bv[n + 1] = A /\ bv[n + 2] = A /\ bv[n + 3] = B
           /\ \A b \in 1 .. n : bv[b] = av[b]
      /\ Closed(ns[c]) /\ Len(ns) = n + 3

(* The branch to the first two of the three.                               *)
LEMMA ForkSound ==
  ASSUME NEW bs, NEW c, NEW P, NEW av, NEW rank, NEW need, NEW t \in Nat,
         Sound(bs, c, P, av, rank, need, t), NEW n, Len(bs) = n, NEW B, Fits(B, need, t),
         NEW i, Forking(i, bs, av, c, n, t)
  PROVE  Forked(bs, c, P, av, need, t, B, i, n)
<1> USE DEF Forking
<1> DEFINE A == Have(bs, av, c)
           ts == Three(bs)
           ns == Finish(ts, c, i)
           Q == P \cup {n + 1, n + 2, n + 3}
<1>1. Forks(ts, c, Q, av, n, A, B, need, t, A) /\ Len(ts) = n + 3
  <2>1. LET m == Len(bs)
        IN  /\ Forks(ts, c, P \cup {m + 1, m + 2, m + 3}, av, m, A, B, need, t, A)
            /\ Len(ts) = m + 3
    BY ThreeSound
  <2> HIDE DEF A, ts
  <2> QED BY <2>1
<1> HIDE DEF A
<1>2. PICK bv, br :
        /\ Sound(ts, c, Q, bv, br, need, t)
        /\ Have(ts, bv, c) = A
        /\ bv[n + 1] = A /\ bv[n + 2] = A /\ bv[n + 3] = B
        /\ \A b \in 1 .. n : bv[b] = av[b]
  BY <1>1 DEF Forks
<1>3. ns = Three(Finish(bs, c, i))
  BY FinishThree DEF Sound, Around
<1> HIDE DEF ts
<1>4. \A g \in Targets(i) : g \in Q /\ bv[g] \subseteq Have(ts, bv, c)
  BY <1>2
<1>5. OperandTemps(i) \subseteq Have(ts, bv, c)
  BY <1>2 DEF A
<1> HIDE DEF Q
<1>6. Sound(ns, c, Q, bv, br, need, t) /\ Len(ns) = Len(ts) /\ Closed(ns[c])
  BY <1>2, <1>4, <1>5, FinishSound
<1> HIDE DEF ns
<1>7. \E w, r :
        /\ Sound(ns, c, Q, w, r, need, t)
        /\ w[n + 1] = A /\ w[n + 2] = A /\ w[n + 3] = B
        /\ \A b \in 1 .. n : w[b] = av[b]
  BY <1>2, <1>6
<1> QED BY <1>1, <1>3, <1>6, <1>7 DEF A, Q, Forked, Plus

(* The two instructions before the branch.                                 *)
Compared(bs, c, v, t) ==
  Emit(Emit(bs, c, Compute("Neg", t + 1, <<v>>)), c, Compute("Lt", t + 2, <<v, Const(0)>>))

(* What it reads has been written.                                         *)
Reads(bs, av, c, v) == ValueTemps(<<v>>) \subseteq Have(bs, av, c)

(* ABS may branch.                                                         *)
Prepared(bs, c, P, av, rank, need, t, v) ==
  LET nn == With(need, t + 3, {t + 1} \cup ValueTemps(<<v>>))
      ns == Compared(bs, c, v, t)
      A == Have(bs, av, c) \cup {t + 1, t + 2}
  IN  /\ Sound(ns, c, P, av, rank, nn, t + 3) /\ Have(ns, av, c) = A
      /\ Len(ns) = Len(bs)
      /\ nn[t + 3] = {t + 1} \cup ValueTemps(<<v>>)
      /\ Fits(A \cup {t + 3}, nn, t + 3)

(* The negation and the comparison of ABS, and the temporary of its        *)
(* result.                                                                 *)
LEMMA ComparedSound ==
  ASSUME NEW bs, NEW c, NEW P, NEW av, NEW rank, NEW need, NEW t \in Nat,
         Sound(bs, c, P, av, rank, need, t), NEW v, OwnedValue(v, t), Reads(bs, av, c, v)
  PROVE  Prepared(bs, c, P, av, rank, need, t, v)
<1> USE DEF Reads
<1> DEFINE neg == t + 1
           cmp == t + 2
           r == t + 3
           N == {neg} \cup ValueTemps(<<v>>)
           nn == With(need, r, N)
           H == Have(bs, av, c)
           i == Compute("Neg", neg, <<v>>)
           j == Compute("Lt", cmp, <<v, Const(0)>>)
           ms == Emit(bs, c, i)
           ns == Emit(ms, c, j)
           A == H \cup {neg, cmp}
<1>1. /\ neg \in Nat /\ cmp \in Nat /\ r \in Nat /\ neg > t /\ cmp > t /\ neg # r /\ cmp # r
      /\ t < r /\ r <= r /\ neg \in 1 .. r /\ cmp \in 1 .. r /\ r \in 1 .. r
      /\ neg # NoDst /\ cmp # NoDst /\ t <= r
  BY DEF NoDst
<1>2. OwnedValue(v, r)
  <2>1. IsTemp(v) => v.val \in 1 .. t
    BY DEF OwnedValue
  <2>2. \A u \in 1 .. t : u \in 1 .. r
    BY <1>1
  <2> QED BY <2>1, <2>2 DEF OwnedValue
<1>3. OwnedValue(Const(0), r) /\ "Neg" \in Unary /\ "Lt" \in Binary
  BY DEF OwnedValue, Operand, Const, IsTemp, Unary, Binary, Comparisons
<1>4. ValueTemps(<<v, Const(0)>>) = ValueTemps(<<v>>)
  <2>1. ~ IsTemp(Const(0))
    BY DEF Const, IsTemp
  <2> DEFINE z == Const(0)
  <2> HIDE DEF z
  <2>2. ValueTemps(<<z>>) = {}
    BY <2>1, ValueTempsIs DEF z
  <2>3. ValueTemps(<<v, z>>) = ValueTemps(<<v>>) \cup ValueTemps(<<z>>)
    BY ValueTempsIs
  <2> QED BY <2>2, <2>3 DEF z
<1> HIDE DEF neg, cmp, r
<1>5. Owned(i, r) /\ Owned(j, r)
  BY <1>1, <1>2, <1>3, OwnedOne, OwnedTwo
<1>6. /\ i.dst = neg /\ i.op = "Neg" /\ OperandTemps(i) = ValueTemps(<<v>>)
      /\ j.dst = cmp /\ j.op = "Lt" /\ OperandTemps(j) = ValueTemps(<<v>>)
  BY <1>4, CodeIs DEF Compute
<1> HIDE DEF i, j
<1>7. Targets(i) = {} /\ Targets(j) = {}
  BY <1>6 DEF Targets
<1>8. /\ nn[r] = N /\ nn[neg] = {} /\ nn[cmp] = {}
      /\ \A u \in 1 .. t : nn[u] = need[u]
  <2>1. need[neg] = {} /\ need[cmp] = {}
    BY <1>1 DEF Sound, Around
  <2>2. \A u \in 1 .. t : u \in Nat /\ u # r
    BY <1>1
  <2> QED BY <1>1, <2>1, <2>2 DEF With
<1>9. Sound(bs, c, P, av, rank, nn, r) /\ H \subseteq 1 .. t
  BY <1>1, GrowSound
<1>10. \A u \in H : need[u] \subseteq H
  BY HaveIs
<1> HIDE DEF nn, H
<1>11. /\ Sound(ms, c, P, av, rank, nn, r) /\ Len(ms) = Len(bs)
       /\ Have(ms, av, c) = H \cup {neg}
  <2>1. /\ OperandTemps(i) \subseteq Have(bs, av, c)
        /\ \A g \in Targets(i) : g \in P /\ av[g] \subseteq Have(bs, av, c)
        /\ i.op = "Copy" => OperandTemps(i) \subseteq nn[i.dst]
        /\ i.dst # NoDst => nn[i.dst] \subseteq Have(bs, av, c)
    BY <1>6, <1>7, <1>8
  <2>2. /\ Sound(ms, c, P, av, rank, nn, r) /\ Len(ms) = Len(bs)
        /\ Have(ms, av, c) = Have(bs, av, c) \cup ({i.dst} \ {NoDst})
    BY <1>5, <1>9, <2>1, EmitSound
  <2> HIDE DEF ms
  <2> QED BY <1>1, <1>6, <2>2 DEF H
<1> HIDE DEF ms
<1>12. /\ Sound(ns, c, P, av, rank, nn, r) /\ Len(ns) = Len(ms)
       /\ Have(ns, av, c) = A
  <2>1. /\ OperandTemps(j) \subseteq Have(ms, av, c)
        /\ \A g \in Targets(j) : g \in P /\ av[g] \subseteq Have(ms, av, c)
        /\ j.op = "Copy" => OperandTemps(j) \subseteq nn[j.dst]
        /\ j.dst # NoDst => nn[j.dst] \subseteq Have(ms, av, c)
    BY <1>6, <1>7, <1>8, <1>11 DEF H
  <2>2. /\ Sound(ns, c, P, av, rank, nn, r) /\ Len(ns) = Len(ms)
        /\ Have(ns, av, c) = Have(ms, av, c) \cup ({j.dst} \ {NoDst})
    BY <1>5, <1>11, <2>1, EmitSound
  <2> HIDE DEF ns
  <2> QED BY <1>1, <1>6, <1>11, <2>2
<1>13. Fits(A \cup {r}, nn, r)
  <2>1. A \cup {r} \subseteq 1 .. r
    <3>1. \A u \in 1 .. t : u \in 1 .. r
      BY <1>1
    <3> QED BY <1>1, <1>9, <3>1
  <2>2. N \subseteq A
    BY DEF H
  <2>3. ASSUME NEW u \in A \cup {r}
        PROVE  nn[u] \subseteq A \cup {r}
    <3>1. CASE u = r
      BY <1>8, <2>2, <3>1
    <3>2. CASE u \in {neg, cmp}
      BY <1>8, <3>2
    <3>3. CASE u \in H
      BY <1>8, <1>9, <1>10, <3>3
    <3> QED BY <3>1, <3>2, <3>3
  <2> QED BY <2>1, <2>3 DEF Fits
<1>14. ns = Compared(bs, c, v, t)
  BY DEF ns, ms, i, j, neg, cmp, Compared
<1> HIDE DEF ns
<1> QED BY <1>8, <1>11, <1>12, <1>13, <1>14 DEF nn, r, neg, cmp, H, Prepared

(* Two of three new blocks copy into d and jump to the last.               *)
Joined(bs, n, d, w, v) == Copied(Copied(bs, n + 1, n + 3, d, w), n + 2, n + 3, d, v)

(* What the three of them rely on.                                         *)
Joins(bs, c, P, av, need, t, n, A, d, w, v) ==
  /\ t \in Nat /\ n \in Nat /\ Ranked(bs, c, Plus(P, n), av, need, t) /\ Closed(bs[c])
  /\ P \subseteq 1 .. n /\ d \in 1 .. t /\ OwnedValue(w, t) /\ OwnedValue(v, t)
  /\ av[n + 1] = A /\ av[n + 2] = A /\ av[n + 3] = A \cup {d}
  /\ need[d] \subseteq A
  /\ ValueTemps(<<w>>) \subseteq need[d] /\ ValueTemps(<<v>>) \subseteq need[d]

(* The block behind is begun where all of ABS has been written.            *)
LEMMA JoinedSound ==
  ASSUME NEW bs, NEW c, NEW P, NEW av, NEW need, NEW t, NEW n, NEW A, NEW d, NEW w, NEW v,
         Joins(bs, c, P, av, need, t, n, A, d, w, v)
  PROVE  /\ Ranked(Joined(bs, n, d, w, v), n + 3, P, av, need, t)
         /\ Have(Joined(bs, n, d, w, v), av, n + 3) = A \cup {d}
         /\ Len(Joined(bs, n, d, w, v)) = Len(bs)
<1> DEFINE p == n + 1
           q == n + 2
           g == n + 3
           ms == Copied(bs, p, g, d, w)
           ns == Copied(ms, q, g, d, v)
           Q == P \cup {p, q, g}
           R == P \cup {q, g}
           S == P \cup {g}
<1>1. p # q /\ p # g /\ q # g /\ \A b \in P : b # p /\ b # q /\ b # g
  BY DEF Joins
<1>2. /\ Ranked(bs, c, Q, av, need, t)
      /\ av[p] = A /\ av[q] = A /\ av[g] = A \cup {d}
  BY DEF Plus, Joins
<1> HIDE DEF p, q, g
<1>3. Q \ {p} = R /\ R \ {q} = S /\ S \ {g} = P
  BY <1>1
<1>4. p \in Q /\ g \in Q /\ q \in R /\ g \in R /\ g \in S
  OBVIOUS
<1> HIDE DEF Q, R, S
<1>5. Copies(bs, c, Q, av, need, t, p, g, d, w)
  BY <1>1, <1>2, <1>4 DEF Copies, Joins
<1>6. Ranked(ms, p, Q \ {p}, av, need, t) /\ Closed(ms[p]) /\ Len(ms) = Len(bs)
  BY <1>5, CopyingSound
<1> HIDE DEF ms
<1>7. Copies(ms, p, R, av, need, t, q, g, d, v)
  BY <1>1, <1>2, <1>3, <1>4, <1>6 DEF Copies, Joins
<1>8. Ranked(ns, q, R \ {q}, av, need, t) /\ Closed(ns[q]) /\ Len(ns) = Len(ms)
  BY <1>7, CopyingSound
<1> HIDE DEF ns
<1>9. PICK rank : Sound(ns, q, S, av, rank, need, t)
  BY <1>3, <1>8 DEF Ranked
<1>10. /\ Sound(ns, g, S \ {g}, av, Begun(rank, Len(ns), q, g), need, t)
       /\ Have(ns, av, g) = av[g]
  BY <1>4, <1>8, <1>9, MoveSound
<1>11. Ranked(ns, g, P, av, need, t)
  BY <1>3, <1>10 DEF Ranked
<1>12. ns = Joined(bs, n, d, w, v)
  BY DEF ns, ms, p, q, g, Joined
<1> QED BY <1>2, <1>6, <1>8, <1>10, <1>11, <1>12 DEF g

(* All of ABS: the blocks that it ends with.                               *)
Entered(bs, c, v, t) ==
  Finish(Compared(bs, c, v, t), c, BranchOn(Temp(t + 2), Len(bs) + 1, Len(bs) + 2))

(* And the whole of ABS.                                                   *)
Absolute(bs, c, v, t) ==
  Joined(Three(Entered(bs, c, v, t)), Len(bs), t + 3, Temp(t + 1), v)

(* All of ABS leaves a body under construction, with the result available. *)
LEMMA AbsLays ==
  ASSUME NEW bs, NEW c, NEW P, NEW H, NEW t \in Nat, Lay(bs, c, P, H, t),
         NEW v, OwnedValue(v, t), ValueTemps(<<v>>) \subseteq H
  PROVE  Lay(Absolute(bs, c, v, t), Len(bs) + 3, P, H \cup {t + 3}, t + 3)
<1> DEFINE n == Len(bs)
           neg == t + 1
           cmp == t + 2
           r == t + 3
           i == BranchOn(Temp(cmp), n + 1, n + 2)
           cs == Compared(bs, c, v, t)
           ts == Three(Finish(cs, c, i))
           ns == Joined(ts, n, r, Temp(neg), v)
<1>1. PICK av, rank, need :
        /\ Sound(bs, c, P, av, rank, need, t)
        /\ \A b \in P : av[b] = {}
        /\ H \subseteq Have(bs, av, c)
  BY DEF Lay
<1>2. n \in Nat /\ P \subseteq 1 .. n
  BY <1>1, BodyIs DEF Sound, Around
<1> DEFINE nn == With(need, r, {neg} \cup ValueTemps(<<v>>))
           A == Have(bs, av, c) \cup {neg, cmp}
           N == {neg} \cup ValueTemps(<<v>>)
<1>3. /\ Sound(cs, c, P, av, rank, nn, r) /\ Have(cs, av, c) = A /\ Len(cs) = n
      /\ nn[r] = N /\ Fits(A \cup {r}, nn, r)
  <2>1. Reads(bs, av, c, v)
    BY <1>1 DEF Reads
  <2>2. Prepared(bs, c, P, av, rank, need, t, v)
    BY <1>1, <2>1, ComparedSound
  <2> QED BY <2>2 DEF Prepared
<1>4. N \subseteq A /\ H \subseteq A /\ cmp \in A
  BY <1>1
<1>5. /\ r \in Nat /\ neg \in 1 .. r /\ cmp \in 1 .. r /\ r \in 1 .. r /\ t <= r
      /\ n + 1 \in Nat /\ n + 2 \in Nat /\ n + 3 \in Nat
      /\ \A b \in 1 .. n : b # n + 1 /\ b # n + 2 /\ b # n + 3
  <2> HIDE DEF n
  <2> QED BY <1>2
<1> HIDE DEF nn, A, cs, n
<1>6. OwnedValue(v, r)
  <2>1. IsTemp(v) => v.val \in 1 .. t
    BY DEF OwnedValue
  <2>2. \A u \in 1 .. t : u \in 1 .. r
    BY <1>5
  <2> QED BY <2>1, <2>2 DEF OwnedValue
<1> HIDE DEF neg, cmp, r
<1>7. OwnedValue(Temp(neg), r) /\ OwnedValue(Temp(cmp), r)
  BY <1>5 DEF OwnedValue, Operand, Temp, IsTemp
<1>8. ValueTemps(<<Temp(neg)>>) = {neg} /\ ValueTemps(<<Temp(cmp)>>) = {cmp}
  <2>1. ASSUME NEW u
        PROVE  ValueTemps(<<Temp(u)>>) = {u}
    <3> DEFINE w == Temp(u)
    <3>1. IsTemp(w) /\ w.val = u
      BY DEF Temp, IsTemp
    <3> HIDE DEF w
    <3>2. ValueTemps(<<w>>) = {u}
      BY <3>1, ValueTempsIs
    <3> QED BY <3>2 DEF w
  <2> QED BY <2>1
<1>9. Owned(i, r)
  BY <1>5, <1>7, OwnedBranch
<1>10. i.op = "Branch" /\ i.to = <<n + 1, n + 2>> /\ i.dst = NoDst /\ OperandTemps(i) = {cmp}
  BY <1>8, CodeIs DEF BranchOn
<1> HIDE DEF i
<1>11. Targets(i) = {n + 1, n + 2} /\ IsTerminator(i)
  BY <1>10 DEF Targets, IsTerminator, Terminators
<1> DEFINE Q == Plus(P, n)
           B == A \cup {r}
<1>12. /\ \E bv, br :
            /\ Sound(ts, c, Q, bv, br, nn, r)
            /\ bv[n + 1] = A /\ bv[n + 2] = A /\ bv[n + 3] = B
            /\ \A b \in 1 .. n : bv[b] = av[b]
       /\ Closed(ts[c]) /\ Len(ts) = n + 3
  <2>1. Forking(i, cs, av, c, n, r)
    BY <1>3, <1>4, <1>9, <1>10, <1>11 DEF Forking
  <2>2. Fits(B, nn, r)
    BY <1>3
  <2>3. Have(cs, av, c) = A
    BY <1>3
  <2> HIDE DEF B, A
  <2>4. Forked(cs, c, P, av, nn, r, B, i, n)
    BY <1>3, <1>5, <2>1, <2>2, ForkSound
  <2> QED BY <2>3, <2>4 DEF Forked
<1>13. PICK bv, br :
         /\ Sound(ts, c, Q, bv, br, nn, r)
         /\ bv[n + 1] = A /\ bv[n + 2] = A /\ bv[n + 3] = B
         /\ \A b \in 1 .. n : bv[b] = av[b]
  BY <1>12
<1> HIDE DEF ts, N
<1>14. Ranked(ts, c, Q, bv, nn, r)
  BY <1>13 DEF Ranked
<1>15. Joins(ts, c, P, bv, nn, r, n, A, r, Temp(neg), v)
  BY <1>2, <1>3, <1>4, <1>5, <1>6, <1>7, <1>8, <1>12, <1>13, <1>14 DEF N, Joins
<1>16. Ranked(ns, n + 3, P, bv, nn, r) /\ Have(ns, bv, n + 3) = A \cup {r}
  BY <1>15, JoinedSound
<1> HIDE DEF ns
<1>17. PICK x : Sound(ns, n + 3, P, bv, x, nn, r)
  BY <1>16 DEF Ranked
<1>18. \A b \in P : bv[b] = {}
  BY <1>1, <1>2, <1>13
<1>19. H \cup {r} \subseteq Have(ns, bv, n + 3)
  BY <1>4, <1>16
<1>20. Lay(ns, n + 3, P, H \cup {r}, r)
  BY <1>17, <1>18, <1>19 DEF Lay
<1>21. ns = Absolute(bs, c, v, t)
  BY DEF ns, ts, cs, i, n, neg, cmp, r, Absolute, Entered
<1> QED BY <1>20, <1>21 DEF n, r

(* What the three blocks hold in the end.                                  *)
Copier(g, d, w) == <<Copying(d, w), JumpTo(g)>>

(* Block p has got the instructions s.                                     *)
Filled(ns, bs, p, s) ==
  /\ ns \in Seq(Seq(Instr)) /\ Len(ns) = Len(bs) /\ ns[p] = s
  /\ \A b \in 1 .. Len(bs) : b # p => ns[b] = bs[b]

(* Block p is to.                                                          *)
Blank(bs, p, g, d, w) ==
  /\ bs \in Seq(Seq(Instr)) /\ p \in 1 .. Len(bs) /\ bs[p] = <<>>
  /\ Copying(d, w) \in Instr /\ JumpTo(g) \in Instr

(* The elements of an appended sequence.                                   *)
LEMMA AppendElement ==
  ASSUME NEW S, NEW xs \in Seq(S), NEW e \in S
  PROVE  /\ Append(xs, e) \in Seq(S) /\ Len(Append(xs, e)) = Len(xs) + 1
         /\ Append(xs, e)[Len(xs) + 1] = e
         /\ \A b \in 1 .. Len(xs) : Append(xs, e)[b] = xs[b]
<1>1. Append(xs, e) \in Seq(S) /\ Len(Append(xs, e)) = Len(xs) + 1
  OBVIOUS
<1>2. Append(xs, e)[Len(xs) + 1] = e
  OBVIOUS
<1>3. ASSUME NEW b \in 1 .. Len(xs)
      PROVE  Append(xs, e)[b] = xs[b]
  OBVIOUS
<1> QED BY <1>1, <1>2, <1>3

(* Blocks of one and of two instructions.                                  *)
LEMMA TwoInstructions ==
  ASSUME NEW i \in Instr, NEW j \in Instr
  PROVE  /\ Append(<<>>, i) = <<i>> /\ <<i>> \in Seq(Instr)
         /\ Append(<<i>>, j) = <<i, j>> /\ <<i, j>> \in Seq(Instr)
<1>1. Append(<<>>, i) = <<i>>
  OBVIOUS
<1>2. <<i>> \in Seq(Instr)
  OBVIOUS
<1>4. <<i, j>> \in Seq(Instr) /\ Len(<<i, j>>) = 2 /\ <<i, j>>[1] = i /\ <<i, j>>[2] = j
  OBVIOUS
<1>3. Append(<<i>>, j) = <<i, j>>
  <2> DEFINE s == <<i>>
             y == <<i, j>>
  <2>1. s \in Seq(Instr) /\ Len(s) = 1 /\ s[1] = i
    OBVIOUS
  <2>2. y \in Seq(Instr) /\ Len(y) = 2 /\ y[1] = i /\ y[2] = j
    BY <1>4
  <2> HIDE DEF s, y
  <2>3. /\ Append(s, j) \in Seq(Instr) /\ Len(Append(s, j)) = 2
        /\ Append(s, j)[1] = i /\ Append(s, j)[2] = j
    <3>1. /\ Append(s, j) \in Seq(Instr) /\ Len(Append(s, j)) = Len(s) + 1
          /\ Append(s, j)[Len(s) + 1] = j
          /\ \A k \in 1 .. Len(s) : Append(s, j)[k] = s[k]
      BY <2>1, AppendElement
    <3> QED BY <2>1, <3>1
  <2>4. \A k \in 1 .. 2 : k = 1 \/ k = 2
    OBVIOUS
  <2>5. Append(s, j) = y
    BY <2>2, <2>3, <2>4, SameSequence
  <2> QED BY <2>5 DEF s, y
<1> QED BY <1>1, <1>2, <1>3, <1>4

(* A blank block that is filled.                                           *)
LEMMA CopiedIs ==
  ASSUME NEW bs, NEW p, NEW g, NEW d, NEW w, Blank(bs, p, g, d, w)
  PROVE  Filled(Copied(bs, p, g, d, w), bs, p, Copier(g, d, w))
<1> DEFINE i == Copying(d, w)
           j == JumpTo(g)
           ms == Emit(bs, p, i)
           ns == Emit(ms, p, j)
<1>0. bs \in Seq(Seq(Instr)) /\ p \in 1 .. Len(bs) /\ bs[p] = <<>>
  BY DEF Blank
<1>1. Copier(g, d, w) = <<i, j>> /\ ns = Copied(bs, p, g, d, w)
  BY DEF Copier, Copied
<1>2. i \in Instr /\ j \in Instr
  BY DEF Blank
<1> HIDE DEF i, j
<1>3. /\ Append(<<>>, i) = <<i>> /\ <<i>> \in Seq(Instr)
      /\ Append(<<i>>, j) = <<i, j>> /\ <<i, j>> \in Seq(Instr)
  BY <1>2, TwoInstructions
<1>4. ms = [bs EXCEPT ![p] = <<i>>]
  BY <1>0, <1>3 DEF Emit
<1>5. /\ ms \in Seq(Seq(Instr)) /\ Len(ms) = Len(bs) /\ ms[p] = <<i>>
      /\ \A b \in 1 .. Len(bs) : b # p => ms[b] = bs[b]
  <2> DEFINE s == <<i>>
  <2>1. s \in Seq(Instr) /\ ms = [bs EXCEPT ![p] = s]
    BY <1>3, <1>4
  <2> HIDE DEF s, ms
  <2>2. /\ ms \in Seq(Seq(Instr)) /\ Len(ms) = Len(bs) /\ ms[p] = s
        /\ \A b \in 1 .. Len(bs) : b # p => ms[b] = bs[b]
    BY <1>0, <2>1
  <2> QED BY <2>2 DEF s
<1> HIDE DEF ms
<1>6. ns = [ms EXCEPT ![p] = <<i, j>>]
  BY <1>3, <1>5 DEF Emit
<1>7. /\ ns \in Seq(Seq(Instr)) /\ Len(ns) = Len(ms) /\ ns[p] = <<i, j>>
      /\ \A b \in 1 .. Len(bs) : b # p => ns[b] = ms[b]
  <2> DEFINE s == <<i, j>>
  <2>1. s \in Seq(Instr) /\ ns = [ms EXCEPT ![p] = s]
    BY <1>3, <1>6
  <2> HIDE DEF s, ns
  <2>2. /\ ns \in Seq(Seq(Instr)) /\ Len(ns) = Len(ms) /\ ns[p] = s
        /\ \A b \in 1 .. Len(bs) : b # p => ns[b] = ms[b]
    BY <1>0, <1>5, <2>1
  <2> QED BY <2>2 DEF s
<1> HIDE DEF ns
<1> QED BY <1>1, <1>5, <1>7 DEF Filled

(* A body with three empty blocks more.                                    *)
LEMMA ThreeIs ==
  ASSUME NEW bs \in Seq(Seq(Instr)), NEW n \in Nat, Len(bs) = n
  PROVE  LET ts == Three(bs)
         IN  /\ ts \in Seq(Seq(Instr)) /\ Len(ts) = n + 3
             /\ ts[n + 1] = <<>> /\ ts[n + 2] = <<>> /\ ts[n + 3] = <<>>
             /\ \A b \in 1 .. n : ts[b] = bs[b]
<1>1. ASSUME NEW xs \in Seq(Seq(Instr))
      PROVE  /\ Append(xs, <<>>) \in Seq(Seq(Instr)) /\ Len(Append(xs, <<>>)) = Len(xs) + 1
             /\ Append(xs, <<>>)[Len(xs) + 1] = <<>>
             /\ \A b \in 1 .. Len(xs) : Append(xs, <<>>)[b] = xs[b]
  <2> DEFINE e == <<>>
             S == Seq(Instr)
  <2>1. e \in S /\ xs \in Seq(S)
    OBVIOUS
  <2> HIDE DEF e, S
  <2>2. /\ Append(xs, e) \in Seq(S) /\ Len(Append(xs, e)) = Len(xs) + 1
        /\ Append(xs, e)[Len(xs) + 1] = e
        /\ \A b \in 1 .. Len(xs) : Append(xs, e)[b] = xs[b]
    BY <2>1, AppendElement
  <2> QED BY <2>2 DEF e, S
<1> DEFINE a1 == Append(bs, <<>>)
           a2 == Append(a1, <<>>)
           a3 == Append(a2, <<>>)
<1>2. /\ a1 \in Seq(Seq(Instr)) /\ Len(a1) = n + 1 /\ a1[n + 1] = <<>>
      /\ \A b \in 1 .. n : a1[b] = bs[b]
  BY <1>1
<1> HIDE DEF a1
<1>3. /\ (n + 1) + 1 = n + 2 /\ (n + 2) + 1 = n + 3 /\ n + 1 \in 1 .. n + 1
      /\ n + 1 \in 1 .. n + 2 /\ n + 2 \in 1 .. n + 2
      /\ \A b \in 1 .. n : b \in 1 .. n + 1 /\ b \in 1 .. n + 2
  OBVIOUS
<1>4. /\ a2 \in Seq(Seq(Instr)) /\ Len(a2) = n + 2 /\ a2[n + 2] = <<>>
      /\ \A b \in 1 .. n + 1 : a2[b] = a1[b]
  <2>1. /\ a2 \in Seq(Seq(Instr)) /\ Len(a2) = Len(a1) + 1 /\ a2[Len(a1) + 1] = <<>>
        /\ \A b \in 1 .. Len(a1) : a2[b] = a1[b]
    BY <1>1, <1>2
  <2> HIDE DEF a2
  <2> QED BY <1>2, <1>3, <2>1
<1> HIDE DEF a2
<1>5. /\ a3 \in Seq(Seq(Instr)) /\ Len(a3) = n + 3 /\ a3[n + 3] = <<>>
      /\ \A b \in 1 .. n + 2 : a3[b] = a2[b]
  <2>1. /\ a3 \in Seq(Seq(Instr)) /\ Len(a3) = Len(a2) + 1 /\ a3[Len(a2) + 1] = <<>>
        /\ \A b \in 1 .. Len(a2) : a3[b] = a2[b]
    BY <1>1, <1>4
  <2> HIDE DEF a3
  <2> QED BY <1>3, <1>4, <2>1
<1>6. a3 = Three(bs)
  BY DEF a3, a2, a1, Three
<1> HIDE DEF a3
<1> QED BY <1>2, <1>3, <1>4, <1>5, <1>6

(* The three blocks ABS adds: two are filled, the third is begun.          *)
LEMMA JoinedIs ==
  ASSUME NEW bs \in Seq(Seq(Instr)), NEW n \in Nat, Len(bs) = n, NEW d, NEW w, NEW v,
         Copying(d, w) \in Instr, Copying(d, v) \in Instr, JumpTo(n + 3) \in Instr
  PROVE  LET ns == Joined(Three(bs), n, d, w, v)
         IN  /\ ns \in Seq(Seq(Instr)) /\ Len(ns) = n + 3
             /\ ns[n + 1] = Copier(n + 3, d, w) /\ ns[n + 2] = Copier(n + 3, d, v)
             /\ ns[n + 3] = <<>>
             /\ \A b \in 1 .. n : ns[b] = bs[b]
<1> DEFINE p == n + 1
           q == n + 2
           g == n + 3
           ts == Three(bs)
           ms == Copied(ts, p, g, d, w)
           ns == Copied(ms, q, g, d, v)
<1>1. /\ ts \in Seq(Seq(Instr)) /\ Len(ts) = g
      /\ ts[p] = <<>> /\ ts[q] = <<>> /\ ts[g] = <<>>
      /\ \A b \in 1 .. n : ts[b] = bs[b]
  BY ThreeIs
<1>2. /\ p # q /\ p # g /\ q # g /\ p \in 1 .. g /\ q \in 1 .. g /\ g \in 1 .. g
      /\ \A b \in 1 .. n : b # p /\ b # q /\ b # g /\ b \in 1 .. g
  OBVIOUS
<1>3. ns = Joined(Three(bs), n, d, w, v)
  BY DEF Joined
<1>4. JumpTo(g) \in Instr
  OBVIOUS
<1> HIDE DEF p, q, g, ts
<1>5. /\ ms \in Seq(Seq(Instr)) /\ Len(ms) = g /\ ms[p] = Copier(g, d, w)
      /\ \A b \in 1 .. g : b # p => ms[b] = ts[b]
  <2>1. Blank(ts, p, g, d, w)
    BY <1>1, <1>2, <1>4 DEF Blank
  <2>2. Filled(ms, ts, p, Copier(g, d, w))
    BY <2>1, CopiedIs
  <2> HIDE DEF ms
  <2> QED BY <1>1, <2>2 DEF Filled
<1> HIDE DEF ms
<1>6. ms[q] = <<>> /\ ms[g] = <<>> /\ \A b \in 1 .. n : ms[b] = bs[b]
  BY <1>1, <1>2, <1>5
<1>7. /\ ns \in Seq(Seq(Instr)) /\ Len(ns) = g /\ ns[q] = Copier(g, d, v)
      /\ \A b \in 1 .. g : b # q => ns[b] = ms[b]
  <2>1. Blank(ms, q, g, d, v)
    BY <1>2, <1>4, <1>5, <1>6 DEF Blank
  <2>2. Filled(ns, ms, q, Copier(g, d, v))
    BY <2>1, CopiedIs
  <2> HIDE DEF ns
  <2> QED BY <1>5, <2>2 DEF Filled
<1> HIDE DEF ns
<1>8. /\ ns \in Seq(Seq(Instr)) /\ Len(ns) = g
      /\ ns[p] = Copier(g, d, w) /\ ns[q] = Copier(g, d, v) /\ ns[g] = <<>>
      /\ \A b \in 1 .. n : ns[b] = bs[b]
  BY <1>2, <1>5, <1>6, <1>7
<1> QED BY <1>3, <1>8 DEF p, q, g

(* Elements of two sequences, one behind the other.                        *)
Spliced(z, S, x, y) ==
  /\ z \in Seq(S) /\ Len(z) = Len(x) + Len(y)
  /\ \A k \in 1 .. Len(x) : z[k] = x[k]
  /\ \A k \in 1 .. Len(y) : z[Len(x) + k] = y[k]

(* The elements of a concatenation.                                        *)
LEMMA ConcatIs ==
  ASSUME NEW S, NEW x \in Seq(S), NEW y \in Seq(S)
  PROVE  Spliced(x \o y, S, x, y)
<1>1. x \o y \in Seq(S) /\ Len(x \o y) = Len(x) + Len(y)
  OBVIOUS
<1>2. \A k \in 1 .. Len(x) : (x \o y)[k] = x[k]
  OBVIOUS
<1>3. \A k \in 1 .. Len(y) : (x \o y)[Len(x) + k] = y[k]
  OBVIOUS
<1> QED BY <1>1, <1>2, <1>3 DEF Spliced

(* Three blocks behind the others.                                         *)
Extended(ns, bs, n, S, x, y, z) ==
  /\ bs \in Seq(S) /\ ns \in Seq(S) /\ x \in S /\ y \in S /\ z \in S
  /\ n \in Nat /\ Len(bs) = n /\ Len(ns) = n + 3
  /\ ns[n + 1] = x /\ ns[n + 2] = y /\ ns[n + 3] = z
  /\ \A b \in 1 .. n : ns[b] = bs[b]

(* Three appended blocks are a concatenation.                              *)
LEMMA ThreeBehind ==
  ASSUME NEW ns, NEW bs, NEW n, NEW S, NEW x, NEW y, NEW z, Extended(ns, bs, n, S, x, y, z)
  PROVE  ns = bs \o <<x, y, z>>
<1> USE DEF Extended
<1> DEFINE s == <<x, y, z>>
           cs == bs \o s
<1>1. s \in Seq(S) /\ Len(s) = 3 /\ s[1] = x /\ s[2] = y /\ s[3] = z
  OBVIOUS
<1> HIDE DEF s
<1>2. Spliced(cs, S, bs, s)
  BY <1>1, ConcatIs, Zenon
<1> HIDE DEF cs
<1>3. cs \in Seq(S) /\ Len(cs) = n + 3 /\ \A b \in 1 .. n : cs[b] = bs[b]
  BY <1>1, <1>2 DEF Spliced
<1>4. 1 \in 1 .. 3 /\ 2 \in 1 .. 3 /\ 3 \in 1 .. 3
  OBVIOUS
<1>5. cs[n + 1] = x /\ cs[n + 2] = y /\ cs[n + 3] = z
  BY <1>1, <1>2, <1>4 DEF Spliced
<1>6. \A b \in 1 .. n + 3 : b \in 1 .. n \/ b = n + 1 \/ b = n + 2 \/ b = n + 3
  OBVIOUS
<1>7. \A b \in 1 .. n + 3 : ns[b] = cs[b]
  BY <1>3, <1>5, <1>6
<1>8. ns = cs
  BY <1>3, <1>7, SameSequence
<1> QED BY <1>8 DEF cs, s

(* One of the new blocks.                                                  *)
LEMMA CopierIs ==
  ASSUME NEW g, NEW d, NEW w, Copying(d, w) \in Instr, JumpTo(g) \in Instr
  PROVE  /\ Copier(g, d, w) \in Seq(Instr) /\ Len(Copier(g, d, w)) = 2
         /\ Copier(g, d, w)[1].dst = d /\ Copier(g, d, w)[1].op = "Copy"
         /\ Copier(g, d, w)[2].dst = NoDst /\ Copier(g, d, w)[2].op = "Jump"
<1> DEFINE i == Copying(d, w)
           j == JumpTo(g)
<1>1. i.dst = d /\ i.op = "Copy" /\ j.dst = NoDst /\ j.op = "Jump"
  BY CodeIs DEF Copying, Compute, JumpTo
<1>2. i \in Instr /\ j \in Instr
  OBVIOUS
<1>3. Copier(g, d, w) = <<i, j>>
  BY DEF Copier
<1> HIDE DEF i, j
<1>4. LET s == <<i, j>> IN s \in Seq(Instr) /\ Len(s) = 2 /\ s[1] = i /\ s[2] = j
  BY <1>2
<1> QED BY <1>1, <1>3, <1>4

(* Four places are added.                                                  *)
LEMMA JoinedTidy ==
  ASSUME NEW bs, NEW t \in Nat, Body(bs, t), Once(bs), Paired(bs), NEW n \in Nat, Len(bs) = n,
         NEW d \in Nat, d > t, NEW w, NEW v,
         Copying(d, w) \in Instr, Copying(d, v) \in Instr, JumpTo(n + 3) \in Instr
  PROVE  Once(Joined(Three(bs), n, d, w, v)) /\ Paired(Joined(Three(bs), n, d, w, v))
<1> DEFINE p == n + 1
           q == n + 2
           g == n + 3
           ns == Joined(Three(bs), n, d, w, v)
           N == {<<p, 1>>, <<p, 2>>, <<q, 1>>, <<q, 2>>}
<1>1. bs \in Seq(Seq(Instr))
  BY BodyIs
<1>2. /\ ns \in Seq(Seq(Instr)) /\ Len(ns) = g
      /\ ns[p] = Copier(g, d, w) /\ ns[q] = Copier(g, d, v)
      /\ ns[g] = <<>>
      /\ \A b \in 1 .. n : ns[b] = bs[b]
  BY <1>1, JoinedIs
<1>3. /\ Len(ns[p]) = 2 /\ ns[p][1].dst = d /\ ns[p][1].op = "Copy"
      /\ ns[p][2].dst = NoDst /\ ns[p][2].op = "Jump"
      /\ Len(ns[q]) = 2 /\ ns[q][1].dst = d /\ ns[q][1].op = "Copy"
      /\ ns[q][2].dst = NoDst /\ ns[q][2].op = "Jump"
      /\ Len(ns[g]) = 0
  BY <1>2, CopierIs
<1>4. /\ p # q /\ p # g /\ q # g /\ p \in 1 .. g /\ q \in 1 .. g
      /\ \A b \in 1 .. n : b # p /\ b # q /\ b \in 1 .. g
      /\ \A b \in 1 .. g : b \in 1 .. n \/ b = p \/ b = q \/ b = g
  OBVIOUS
<1> HIDE DEF p, q, g, ns
<1>5. ASSUME NEW x
      PROVE  x \in Places(ns) <=> x \in Places(bs) \cup N
  <2>1. x \in Places(bs) <=> \E b \in 1 .. n : \E k \in 1 .. Len(bs[b]) : x = <<b, k>>
    BY PlacesOf
  <2>2. x \in Places(ns) <=> \E b \in 1 .. g : \E k \in 1 .. Len(ns[b]) : x = <<b, k>>
    <3>1. DOMAIN ns = 1 .. g /\ \A b \in 1 .. g : DOMAIN ns[b] = 1 .. Len(ns[b])
      BY <1>2
    <3> QED BY <3>1 DEF Places
  <2>3. /\ (\E k \in 1 .. Len(ns[p]) : x = <<p, k>>) <=> x \in {<<p, 1>>, <<p, 2>>}
        /\ (\E k \in 1 .. Len(ns[q]) : x = <<q, k>>) <=> x \in {<<q, 1>>, <<q, 2>>}
        /\ ~ \E k \in 1 .. Len(ns[g]) : x = <<g, k>>
    <3>1. \A k : k \in 1 .. 2 <=> k = 1 \/ k = 2
      OBVIOUS
    <3>2. \A k : k \notin 1 .. 0
      OBVIOUS
    <3> QED BY <1>3, <3>1, <3>2
  <2> QED BY <1>2, <1>4, <2>1, <2>2, <2>3
<1>6. Places(ns) = Places(bs) \cup N
  BY <1>5
<1>7. ASSUME NEW x \in Places(bs)
      PROVE  At(ns, x) = At(bs, x) /\ At(bs, x).dst # d
  <2>1. PICK b \in 1 .. n : \E k \in 1 .. Len(bs[b]) : x = <<b, k>>
    BY PlacesOf
  <2>2. At(ns, x) = At(bs, x)
    BY <1>2, <2>1 DEF At
  <2>3. At(bs, x).dst \in 0 .. t
    BY NotYet
  <2>4. d \notin 0 .. t
    OBVIOUS
  <2> QED BY <2>2, <2>3, <2>4
<1>8. /\ At(ns, <<p, 1>>).dst = d /\ At(ns, <<p, 1>>).op = "Copy"
      /\ At(ns, <<q, 1>>).dst = d /\ At(ns, <<q, 1>>).op = "Copy"
      /\ At(ns, <<p, 2>>).dst = NoDst /\ At(ns, <<p, 2>>).op = "Jump"
      /\ At(ns, <<q, 2>>).dst = NoDst /\ At(ns, <<q, 2>>).op = "Jump"
  BY <1>3 DEF At
<1>9. /\ <<p, 1>> # <<q, 1>> /\ d # NoDst
      /\ <<p, 1>> \in Places(ns) /\ <<q, 1>> \in Places(ns)
  <2>1. <<p, 1>> # <<q, 1>>
    BY <1>4
  <2> QED BY <1>6, <2>1 DEF NoDst
<1>10. \A x \in N : At(ns, x).dst \in {NoDst, d}
  BY <1>8
<1>11. \A x \in N : At(ns, x).dst = d => At(ns, x).op = "Copy"
  BY <1>8, <1>9
<1>12. ASSUME NEW x \in N, At(ns, x).op = "Copy"
       PROVE  Beside(ns, x)
  <2>1. x \in {<<p, 1>>, <<q, 1>>}
    BY <1>8, <1>12
  <2> HIDE DEF N
  <2>2. CASE x = <<p, 1>>
    BY <1>8, <1>9, <2>2 DEF Beside
  <2>3. CASE x = <<q, 1>>
    BY <1>8, <1>9, <2>3 DEF Beside
  <2> QED BY <2>1, <2>2, <2>3
<1> HIDE DEF N
<1>13. \A x, y \in N : At(ns, x).dst = d /\ At(ns, y).dst = d /\ x # y
         => At(ns, x).op = "Copy" /\ At(ns, y).op = "Copy"
  BY <1>11
<1>14. \A x \in N : At(ns, x).op = "Copy" => Beside(ns, x)
  BY <1>12
<1>15. \A x \in Places(bs) : At(ns, x) = At(bs, x) /\ At(bs, x).dst # d
  BY <1>7
<1>16. Once(ns) /\ Paired(ns)
  BY <1>6, <1>10, <1>13, <1>14, <1>15, TidyGrows
<1> QED BY <1>16 DEF ns

(* The first three instructions of ABS write two new temporaries.          *)
LEMMA EnteredTidy ==
  ASSUME NEW bs, NEW t \in Nat, Body(bs, t), Once(bs), Paired(bs), NEW c \in 1 .. Len(bs),
         NEW v, OwnedValue(v, t)
  PROVE  LET e == Entered(bs, c, v, t)
         IN  Body(e, t + 2) /\ Len(e) = Len(bs) /\ Once(e) /\ Paired(e)
<1> DEFINE n == Len(bs)
           neg == t + 1
           cmp == t + 2
           i == Compute("Neg", neg, <<v>>)
           j == Compute("Lt", cmp, <<v, Const(0)>>)
           k == BranchOn(Temp(cmp), n + 1, n + 2)
           e1 == Emit(bs, c, i)
           e2 == Emit(e1, c, j)
           e3 == Finish(e2, c, k)
<1>1. /\ neg \in Nat /\ cmp \in Nat /\ t <= neg /\ neg <= cmp /\ cmp = neg + 1
      /\ neg \in 1 .. neg /\ cmp \in 1 .. cmp /\ \A u \in 1 .. t : u \in 1 .. neg /\ u \in 1 .. cmp
      /\ neg = t + 1
  OBVIOUS
<1>2. n + 1 \in Nat /\ n + 2 \in Nat
  <2>1. n \in Nat
    BY BodyIs
  <2> HIDE DEF n
  <2> QED BY <2>1
<1> HIDE DEF neg, cmp, n
<1>3. OwnedValue(v, neg) /\ OwnedValue(v, cmp)
  BY <1>1 DEF OwnedValue
<1>4. OwnedValue(Const(0), cmp) /\ OwnedValue(Temp(cmp), cmp)
  BY <1>1 DEF OwnedValue, Operand, Const, Temp, IsTemp
<1>5. "Neg" \in Unary /\ "Lt" \in Binary
  BY DEF Unary, Binary, Comparisons
<1>6. Owned(i, neg) /\ Owned(j, cmp) /\ Owned(k, cmp)
  BY <1>1, <1>2, <1>3, <1>4, <1>5, OwnedOne, OwnedTwo, OwnedBranch
<1>7. /\ i.dst = neg /\ i.op # "Copy" /\ j.dst = cmp /\ j.op # "Copy"
      /\ k.dst = NoDst /\ k.op = "Branch"
  BY CodeIs DEF Compute, BranchOn
<1>8. Entered(bs, c, v, t) = e3
  BY DEF Entered, Compared, neg, cmp, n
<1> HIDE DEF i, j, k
<1>9. IsTerminator(k)
  BY <1>7 DEF IsTerminator, Terminators
<1>10. Body(bs, neg)
  BY <1>1, BodyGrows
<1>11. Body(e1, neg) /\ Len(e1) = Len(bs)
  BY <1>6, <1>10, EmitOK
<1>12. Once(e1) /\ Paired(e1)
  BY <1>1, <1>6, <1>7, EmitTidy
<1> HIDE DEF e1
<1>13. Body(e1, cmp) /\ c \in 1 .. Len(e1)
  BY <1>1, <1>11, BodyGrows
<1>14. Body(e2, cmp) /\ Len(e2) = Len(e1)
  BY <1>6, <1>13, EmitOK
<1>15. Once(e2) /\ Paired(e2)
  BY <1>1, <1>6, <1>7, <1>11, <1>12, <1>13, EmitTidy
<1> HIDE DEF e2
<1>16. c \in 1 .. Len(e2)
  BY <1>13, <1>14
<1>17. Body(e3, cmp) /\ Len(e3) = Len(e2)
  BY <1>6, <1>14, <1>16, FinishOK
<1>18. Once(e3) /\ Paired(e3)
  BY <1>1, <1>6, <1>7, <1>9, <1>14, <1>15, <1>16, FinishTidy
<1> HIDE DEF e3
<1> QED BY <1>8, <1>11, <1>14, <1>17, <1>18 DEF cmp

(* The visitor of ABS does all that, in blocks that are numbered in order. *)
LEMMA AbsShape ==
  ASSUME IInv, Shape, Abs
  PROVE  Shape'
<1> DEFINE v == Last(vals)
           neg == temps + 1
           t == temps + 3
           n == Len(blocks)
           H == ValueTemps(vals)
           e == Entered(blocks, cur, v, temps)
           w == Temp(neg)
           ns == Joined(Three(e), n, t, w, v)
<1>1. /\ phase = "building" /\ temps' = t /\ cur' = n + 3 /\ merges' = merges
      /\ vals # <<>> /\ vals' = Result(1, Temp(t))
      /\ blocks' = e \o <<Copier(n + 3, t, w), Copier(n + 3, t, v), <<>>>>
  BY DEF Abs, Visit, Entered, Compared, Copier, Copying
<1>2. /\ n \in Nat /\ temps \in Nat /\ t \in Nat /\ temps <= t /\ t \in 1 .. t
      /\ neg \in 1 .. t /\ n + 3 \in Nat /\ temps + 2 \in Nat /\ t > temps + 2
      /\ \A u \in 1 .. temps : u \in 1 .. t
  <2>1. n \in Nat /\ temps \in Nat
    BY <1>1, WhileBuilding
  <2> HIDE DEF n
  <2> QED BY <2>1
<1>3. Body(blocks, temps) /\ Values(vals, temps) /\ cur \in 1 .. n
  BY <1>1, WhileBuilding
<1>4. /\ OwnedValue(v, temps) /\ 1 \in 0 .. Len(vals) /\ ValueTemps(<<v>>) \subseteq H
  <2>1. Last(vals) = vals[Len(vals)] /\ Len(vals) \in 1 .. Len(vals)
    BY <1>1, <1>3, LastIsLast DEF Values
  <2> QED BY <2>1, <1>3, LastValue, OneOfValues
<1>5. Once(blocks) /\ Paired(blocks) /\ Distinct(merges)
      /\ Lay(blocks, cur, Pending(merges), H, temps)
  BY DEF Shape
<1> HIDE DEF v, H
<1>6. Body(e, temps + 2) /\ Len(e) = n /\ Once(e) /\ Paired(e)
  BY <1>2, <1>3, <1>4, <1>5, EnteredTidy
<1>7. /\ Lay(Absolute(blocks, cur, v, temps), n + 3, Pending(merges), H \cup {t}, t)
      /\ Absolute(blocks, cur, v, temps) = ns
  <2>1. Absolute(blocks, cur, v, temps) = ns
    BY DEF Absolute
  <2> QED BY <1>2, <1>4, <1>5, <2>1, AbsLays
<1> HIDE DEF n, t, neg, e
<1>8. OwnedValue(v, t) /\ OwnedValue(w, t) /\ "Copy" \in Unary
  BY <1>2, <1>4 DEF OwnedValue, Operand, Temp, IsTemp, Unary
<1> HIDE DEF w
<1>9. Copying(t, w) \in Instr /\ Copying(t, v) \in Instr /\ JumpTo(n + 3) \in Instr
  BY <1>2, <1>8, OwnedOne, OwnedJump DEF Copying, Owned
<1>10. e \in Seq(Seq(Instr))
  BY <1>6, BodyIs
<1>11. /\ ns \in Seq(Seq(Instr)) /\ Len(ns) = n + 3
       /\ ns[n + 1] = Copier(n + 3, t, w) /\ ns[n + 2] = Copier(n + 3, t, v)
       /\ ns[n + 3] = <<>>
       /\ \A b \in 1 .. n : ns[b] = e[b]
  BY <1>2, <1>6, <1>9, <1>10, JoinedIs
<1>12. Once(ns) /\ Paired(ns)
  BY <1>2, <1>6, <1>9, JoinedTidy
<1> HIDE DEF ns
<1>13. ns = blocks'
  <2> DEFINE S == Seq(Instr)
             x == Copier(n + 3, t, w)
             y == Copier(n + 3, t, v)
             z == <<>>
  <2>1. x \in S /\ y \in S /\ z \in S
    BY <1>9, CopierIs
  <2>2. e \in Seq(S) /\ ns \in Seq(S) /\ ns[n + 1] = x /\ ns[n + 2] = y /\ ns[n + 3] = z
    BY <1>10, <1>11
  <2>3. blocks' = e \o <<x, y, z>>
    BY <1>1
  <2> HIDE DEF S, x, y, z
  <2>4. Extended(ns, e, n, S, x, y, z)
    BY <1>2, <1>6, <1>11, <2>1, <2>2 DEF Extended
  <2>6. ns = e \o <<x, y, z>>
    BY <2>4, ThreeBehind
  <2> QED BY <2>3, <2>6
<1>14. ValueTemps(vals') \subseteq H \cup {t}
  BY <1>1, <1>3, <1>4, ResultTemps DEF H
<1>15. Lay(blocks', cur', Pending(merges'), ValueTemps(vals'), temps')
  <2>1. Lay(ns, n + 3, Pending(merges), H \cup {t}, t)
    BY <1>7
  <2>2. Lay(ns, n + 3, Pending(merges), ValueTemps(vals'), t)
    BY <1>14, <2>1, LayLess
  <2> QED BY <1>1, <1>13, <2>2
<1> QED BY <1>1, <1>5, <1>12, <1>13, <1>15 DEF Shape

(***************************************************************************)
(* Part 16.  The theorems.                                                 *)
(***************************************************************************)

(* The empty body.                                                         *)
LEMMA Initially ==
  ASSUME Init
  PROVE  IInv
<1>1. Body(blocks, temps) /\ Len(blocks) = 1
  BY DEF Init, Body
<1>2. Values(vals, temps) /\ Frames(merges, 1)
  BY DEF Init, Values, Frames
<1> QED BY <1>1, <1>2, PassesAssumption DEF Init, IInv, Building

(* What is left of a body is as valid as it was.                           *)
LEMMA EliminateKeeps ==
  ASSUME IInv, EliminatePass
  PROVE  IInv'
<1>1. /\ phase = "propagated" /\ phase' = "done" /\ blocks' = Eliminated(blocks)
      /\ temps' = temps /\ nodes' = nodes
  BY DEF EliminatePass, building
<1>2. ValidBody(blocks, temps) /\ temps \in Nat /\ nodes \in 0 .. MaxNodes
  BY <1>1 DEF IInv
<1>3. ValidBody(Eliminated(blocks), temps)
  BY <1>2, EliminatedValid
<1> QED BY <1>1, <1>2, <1>3 DEF IInv

(* Every step keeps the invariant.                                         *)
LEMMA NextKeeps ==
  ASSUME IInv, [Next]_vars
  PROVE  IInv'
<1>1. CASE Lower
  BY <1>1, LiteralKeeps, VariableKeeps, OperateOneKeeps, OperateTwoKeeps, AbsKeeps,
     AssignKeeps, WriteKeeps, ReturnKeeps, BeginIfKeeps, IfBranchKeeps, EndThenKeeps,
     EndIfKeeps, EndBodyKeeps DEF Lower
<1>2. CASE UNCHANGED vars
  BY <1>2 DEF vars, IInv, Building
<1> QED BY <1>1, <1>2, FoldKeeps, PropagateKeeps, EliminateKeeps DEF Next, Finished

(* What each phase promises the next: a body under construction can be     *)
(* completed, a complete one never gets stuck and copies are where         *)
(* CopyPropagation may move them, a propagated one never gets stuck.       *)
Numbered(bs) == \E n \in Nat : DOMAIN bs = 1 .. n
Flowing(bs) == \E av, rank : Flow(bs, av, rank)

(* The promise of every phase.                                             *)
Promise ==
  /\ phase = "building" => Shape
  /\ phase \in {"built", "folded"} => Sourceful(blocks) /\ Once(blocks) /\ Paired(blocks)
  /\ phase \in {"built", "folded", "propagated"} => Numbered(blocks) /\ Flowing(blocks)
  /\ phase = "done" => \A a \in Inputs : Run(blocks, X :> a).stands = "returned"

(* The empty body is under construction.                                   *)
LEMMA ShapeAtFirst ==
  ASSUME Init
  PROVE  Shape
<1> DEFINE av == [b \in {1} |-> {}]
           rank == [b \in {1} |-> 0]
           need == [u \in Nat |-> {}]
<1>1. /\ Body(blocks, temps) /\ Len(blocks) = 1 /\ blocks[1] = <<>> /\ Len(blocks[1]) = 0
      /\ cur = 1 /\ temps = 0
  BY DEF Init, Body
<1>2. /\ \A b \in 1 .. Len(blocks) : b = 1
      /\ av[1] = {} /\ rank[1] = 0 /\ \A u \in Nat : need[u] = {}
  BY <1>1
<1> HIDE DEF av, rank, need
<1>3. Around(blocks, cur, {}, av, rank, need, temps)
  BY <1>1, <1>2 DEF Around
<1>4. Defs(blocks[1], 0) = {}
  BY DefsGrow
<1>5. \A b \in 1 .. Len(blocks) : \A k \in 0 .. Len(blocks[b]) :
        Fed(blocks, av, need, b, k)
  BY <1>1, <1>2, <1>4 DEF Fed, Avail
<1>6. \A b \in 1 .. Len(blocks) : \A k \in 1 .. Len(blocks[b]) :
        Placed(blocks, Len(blocks), {}, av, rank, need, b, k)
  BY <1>1, <1>2
<1>7. Sound(blocks, cur, {}, av, rank, need, temps)
  BY <1>1, <1>3, <1>5, <1>6 DEF Sound
<1>8. ValueTemps(vals) = {} /\ Pending(merges) = {} /\ Distinct(merges)
  BY ValueTempsIs DEF Init, Pending, Distinct
<1>9. Lay(blocks, cur, Pending(merges), ValueTemps(vals), temps)
  <2>1. \A b \in {} : av[b] = {}
    OBVIOUS
  <2>2. Lay(blocks, cur, {}, {}, temps)
    BY <1>7, <2>1 DEF Lay
  <2> QED BY <1>8, <2>2
<1>10. Places(blocks) = {}
  <2>1. \A p : p \notin Places(blocks)
    BY <1>1, <1>2, PlacesOf
  <2> QED BY <2>1
<1> QED BY <1>8, <1>9, <1>10 DEF Shape, Once, Paired

(* The body is completed.                                                  *)
LEMMA EndBodyPromises ==
  ASSUME IInv, Shape, EndBody
  PROVE  Promise'
<1>1. phase' = "built"
  BY DEF EndBody
<1>2. /\ Sourceful(blocks') /\ Once(blocks') /\ Paired(blocks')
      /\ DOMAIN blocks' = 1 .. Len(blocks') /\ Len(blocks') \in Nat
  BY EndBodyShape
<1>3. Numbered(blocks') /\ Flowing(blocks')
  BY <1>2 DEF Numbered, Flowing, Sourceful
<1> QED BY <1>1, <1>2, <1>3 DEF Promise

(* Visitors keep a body one that can be completed.                         *)
LEMMA LowerPromises ==
  ASSUME IInv, Promise, Lower
  PROVE  Promise'
<1>1. phase = "building"
  BY DEF Lower, Literal, Variable, OperateOne, OperateTwo, Abs, Assign, Write,
         ReturnValue, BeginIf, IfBranch, EndThen, EndIf, EndBody, Visit, AtStatement
<1>2. Shape
  BY <1>1 DEF Promise
<1>3. CASE EndBody
  BY <1>2, <1>3, EndBodyPromises
<1>4. CASE ~ EndBody
  <2>1. phase' = "building"
    BY <1>1, <1>4
       DEF Lower, Literal, Variable, OperateOne, OperateTwo, Abs, Assign, Write,
           ReturnValue, BeginIf, IfBranch, EndThen, EndIf, Visit, AtStatement
  <2>2. Shape'
    BY <1>2, <1>4, LiteralShape, VariableShape, OperateOneShape, OperateTwoShape, AbsShape,
       AssignShape, WriteShape, ReturnShape, BeginIfShape, IfBranchShape, EndThenShape,
       EndIfShape DEF Lower
  <2> QED BY <2>1, <2>2 DEF Promise
<1> QED BY <1>3, <1>4

(* ConstantFolding keeps both.                                             *)
LEMMA FoldPromises ==
  ASSUME IInv, Promise, FoldPass
  PROVE  Promise'
<1> DEFINE fs == OnEach(FoldInstr, blocks)
<1>1. phase = "built" /\ phase' = "folded" /\ blocks' = fs
  BY DEF FoldPass
<1>2. ValidBody(blocks, temps) /\ Sourceful(blocks) /\ Once(blocks) /\ Paired(blocks)
      /\ Numbered(blocks)
  BY <1>1 DEF IInv, Promise
<1>3. PICK av, rank, need : Flow(blocks, av, rank) /\ Sourced(blocks, av, need)
  BY <1>2 DEF Sourceful
<1>4. Flow(fs, av, rank) /\ Sourced(fs, av, need)
  BY <1>2, <1>3, FoldedFlow
<1>5. Once(fs) /\ Paired(fs)
  BY <1>2, FoldedTidy
<1>6. Numbered(fs)
  BY <1>2 DEF OnEach, Numbered
<1> HIDE DEF fs
<1>7. Sourceful(fs) /\ Flowing(fs)
  BY <1>4 DEF Sourceful, Flowing
<1> QED BY <1>1, <1>5, <1>6, <1>7 DEF Promise

(* CopyPropagation leaves a body that never gets stuck.                    *)
LEMMA PropagatePromises ==
  ASSUME IInv, Promise, PropagatePass
  PROVE  Promise'
<1> DEFINE ps == PropagatedBody(blocks)
<1>1. phase = "folded" /\ phase' = "propagated" /\ blocks' = ps
  BY DEF PropagatePass, PropagatedBody
<1>2. ValidBody(blocks, temps) /\ Sourceful(blocks) /\ Numbered(blocks)
  BY <1>1 DEF IInv, Promise
<1>3. PICK av, rank, need : Flow(blocks, av, rank) /\ Sourced(blocks, av, need)
  BY <1>2 DEF Sourceful
<1>4. Flow(ps, av, rank)
  BY <1>2, <1>3, PropagatedFlow
<1>5. Numbered(ps)
  BY <1>2, PropagatedIs DEF Numbered
<1> HIDE DEF ps
<1>6. Flowing(ps)
  BY <1>4 DEF Flowing
<1> QED BY <1>1, <1>5, <1>6 DEF Promise

(* A body of any of these phases returns.                                  *)
LEMMA FlowingReturns ==
  ASSUME NEW bs, NEW t, ValidBody(bs, t), Numbered(bs), Flowing(bs), NEW mem
  PROVE  Run(bs, mem).stands = "returned"
<1>1. PICK n \in Nat : DOMAIN bs = 1 .. n
  BY DEF Numbered
<1>2. PICK av, rank : Flow(bs, av, rank)
  BY DEF Flowing
<1>3. IsFiniteSet(Places(bs))
  BY <1>1, PlacesCounted
<1> QED BY <1>2, <1>3, FlowReturns

(* DeadCodeElim leaves what can be seen as it is, and so that it returns.  *)
LEMMA EliminatedBehaves ==
  ASSUME NEW bs, NEW t, ValidBody(bs, t), Numbered(bs), Flowing(bs), NEW mem
  PROVE  /\ Seen(Run(Eliminated(bs), mem)) = Seen(Run(bs, mem))
         /\ Run(Eliminated(bs), mem).stands = "returned"
<1>1. PICK n \in Nat : DOMAIN bs = 1 .. n
  BY DEF Numbered
<1>2. PICK av, rank : Flow(bs, av, rank)
  BY DEF Flowing
<1> DEFINE x == Run(Eliminated(bs), mem)
           y == Run(bs, mem)
<1>3. Seen(x) = Seen(y)
  BY <1>1, <1>2, EliminatedRuns
<1>4. y.stands = "returned"
  BY FlowingReturns
<1> HIDE DEF x, y
<1>5. x.stands = y.stands
  BY <1>3 DEF Seen
<1> QED BY <1>3, <1>4, <1>5 DEF x, y

(* DeadCodeElim keeps the promise: runs of what it leaves return.          *)
LEMMA EliminatePromises ==
  ASSUME IInv, Promise, EliminatePass
  PROVE  Promise'
<1>1. phase = "propagated" /\ phase' = "done" /\ blocks' = Eliminated(blocks)
  BY DEF EliminatePass
<1>2. ValidBody(blocks, temps) /\ Numbered(blocks) /\ Flowing(blocks)
  BY <1>1 DEF IInv, Promise
<1>3. \A a \in Inputs : Run(blocks', X :> a).stands = "returned"
  BY <1>1, <1>2, EliminatedBehaves
<1> QED BY <1>1, <1>3 DEF Promise

(* Every step keeps the promise.                                           *)
LEMMA NextPromises ==
  ASSUME IInv, Promise, [Next]_vars
  PROVE  Promise'
<1>1. CASE UNCHANGED vars
  BY <1>1 DEF vars, Promise, Shape
<1> QED BY <1>1, LowerPromises, FoldPromises, PropagatePromises, EliminatePromises
    DEF Next, Finished

(* The invariant behind the theorems below.                                *)
THEOREM Invariance == Spec => [](IInv /\ Promise)
<1>1. Init => IInv /\ Promise
  BY Initially, ShapeAtFirst DEF Init, Promise
<1>2. IInv /\ Promise /\ [Next]_vars => (IInv /\ Promise)'
  BY NextKeeps, NextPromises
<1> QED BY <1>1, <1>2, PTL DEF Spec

(* All bodies are well typed, whatever has been done to them: each         *)
(* operation finds the operands it reads, each operand is a temporary the  *)
(* function owns, also where CopyPropagation has put one, and what         *)
(* DeadCodeElim leaves of a block are instructions.                        *)
THEOREM WellTyped == Spec => []TypeOK
<1>1. IInv => TypeOK
  <2>1. CASE phase = "building" /\ IInv
    <3>1. ValidBody(blocks, temps) /\ DOMAIN blocks = 1 .. Len(blocks)
      BY <2>1, WhileBuilding, BodyIsValid
    <3> QED BY <2>1, <3>1, WhileBuilding DEF TypeOK
  <2>2. CASE phase # "building" /\ IInv
    BY <2>2 DEF IInv, TypeOK
  <2> QED BY <2>1, <2>2
<1> QED BY <1>1, Invariance, PTL

(* A body that has been lowered returns from every input, before and after *)
(* each pass, with and without ABS: it reads no temporary that has not     *)
(* been written, jumps to no block that has been erased, and ends.         *)
THEOREM NothingGetsStuck == Spec => []NeverStuck
<1>1. IInv /\ Promise => NeverStuck
  <2>1. ASSUME IInv, Promise, phase \in {"built", "folded", "propagated"}, NEW a \in Inputs
        PROVE  Run(blocks, X :> a).stands = "returned"
    <3>1. ValidBody(blocks, temps) /\ Numbered(blocks) /\ Flowing(blocks)
      BY <2>1 DEF IInv, Promise
    <3> QED BY <3>1, FlowingReturns
  <2>2. ASSUME IInv, Promise, phase = "done", NEW a \in Inputs
        PROVE  Run(blocks, X :> a).stands = "returned"
    BY <2>2 DEF Promise
  <2> QED BY <2>1, <2>2 DEF NeverStuck, Lowered, IInv
<1> QED BY <1>1, Invariance, PTL

(* Which pass a step is.                                                   *)
LEMMA PassSteps ==
  ASSUME [Next]_vars, ~ UNCHANGED vars
  PROVE  /\ phase' = "folded" => FoldPass
         /\ phase' = "propagated" => PropagatePass
         /\ phase' = "done" => EliminatePass
<1>1. Lower => (phase' = phase /\ phase = "building") \/ phase' = "built"
  BY DEF Lower, Literal, Variable, OperateOne, OperateTwo, Abs, Assign, Write,
         ReturnValue, BeginIf, IfBranch, EndThen, EndIf, EndBody, Visit, AtStatement
<1> QED BY <1>1 DEF Next, FoldPass, PropagatePass, EliminatePass, Finished

(* ConstantFolding cannot be seen, whatever the body.                      *)
THEOREM FoldingIsInvisible == Spec => FoldingPreserves
<1>1. ASSUME IInv, [Next]_vars, phase' = "folded", ~ DividesByZero(blocks),
             ~ UNCHANGED vars
      PROVE  Behaviour(blocks') = Behaviour(blocks)
  <2>1. FoldPass
    BY <1>1, PassSteps
  <2>2. ValidBody(blocks, temps)
    BY <1>1, <2>1 DEF IInv, FoldPass
  <2>3. Behaviour(OnEach(FoldInstr, blocks)) = Behaviour(blocks)
    BY <1>1, <2>2, FoldedBehaves
  <2> QED BY <2>1, <2>3 DEF FoldPass
<1>2. IInv /\ [Next]_vars
      => [phase' = "folded" /\ ~ DividesByZero(blocks)
          => Behaviour(blocks') = Behaviour(blocks)]_vars
  BY <1>1
<1> QED BY <1>2, Invariance, PTL DEF Spec, FoldingPreserves

(* The same instructions run.                                              *)
LEMMA SameRuns ==
  ASSUME NEW bs, NEW ns, \A mem : Seen(Run(ns, mem)) = Seen(Run(bs, mem))
  PROVE  Behaviour(ns) = Behaviour(bs)
BY DEF Behaviour

(* CopyPropagation cannot be seen in a body without ABS: what is copied    *)
(* then are numbers, each into a temporary that nothing else is written    *)
(* to, so that the place of the copy and the path it is on do not matter.  *)
THEOREM PropagationIsInvisible == Spec => PropagationPreserves
<1>1. ASSUME IInv, Promise, [Next]_vars, phase' = "propagated", ~ CopiedTwice(blocks),
             ~ UNCHANGED vars
      PROVE  Behaviour(blocks') = Behaviour(blocks)
  <2> DEFINE ps == PropagatedBody(blocks)
  <2>1. PropagatePass
    BY <1>1, PassSteps
  <2>2. phase = "folded" /\ blocks' = ps /\ temps' = temps
    BY <2>1 DEF PropagatePass, PropagatedBody, building
  <2>3. /\ ValidBody(blocks, temps) /\ temps \in Nat
        /\ Sourceful(blocks) /\ Once(blocks) /\ Paired(blocks) /\ Numbered(blocks)
    BY <1>1, <2>2 DEF IInv, Promise
  <2>4. ValidBody(ps, temps)
    <3>1. IInv'
      BY <1>1, NextKeeps
    <3> QED BY <1>1, <2>2, <3>1 DEF IInv
  <2>5. PICK n \in Nat : DOMAIN blocks = 1 .. n
    BY <2>3 DEF Numbered
  <2>6. IsFiniteSet(Places(blocks))
    BY <2>3, <2>5, PlacesCounted
  <2>7. Plain(blocks)
    BY <1>1, <2>3, <2>6, PlainWithoutTwice DEF CopiedTwice
  <2>8. PICK av, rank, need : Flow(blocks, av, rank) /\ Sourced(blocks, av, need)
    BY <2>3 DEF Sourceful
  <2>9. \A mem : Run(ps, mem) = Run(blocks, mem)
    BY <2>3, <2>4, <2>6, <2>7, <2>8, PropagatedRuns
  <2> HIDE DEF ps
  <2>10. \A mem : Seen(Run(ps, mem)) = Seen(Run(blocks, mem))
    BY <2>9
  <2> QED BY <2>2, <2>10, SameRuns
<1>2. IInv /\ Promise /\ [Next]_vars
      => [phase' = "propagated" /\ ~ CopiedTwice(blocks)
          => Behaviour(blocks') = Behaviour(blocks)]_vars
  BY <1>1
<1> QED BY <1>2, Invariance, PTL DEF Spec, PropagationPreserves

(* DeadCodeElim cannot be seen, with or without ABS: what it drops is read *)
(* on no path, what is left keeps its order, and an empty block that it    *)
(* erases is none that is jumped to.                                       *)
THEOREM EliminationIsInvisible == Spec => EliminationPreserves
<1>1. ASSUME IInv, Promise, [Next]_vars, phase' = "done", ~ UNCHANGED vars
      PROVE  Behaviour(blocks') = Behaviour(blocks)
  <2>1. EliminatePass
    BY <1>1, PassSteps
  <2>2. phase = "propagated" /\ blocks' = Eliminated(blocks)
    BY <2>1 DEF EliminatePass
  <2>3. ValidBody(blocks, temps) /\ Numbered(blocks) /\ Flowing(blocks)
    BY <1>1, <2>2 DEF IInv, Promise
  <2>4. \A mem : Seen(Run(Eliminated(blocks), mem)) = Seen(Run(blocks, mem))
    BY <2>3, EliminatedBehaves
  <2> QED BY <2>2, <2>4, SameRuns
<1>2. IInv /\ Promise /\ [Next]_vars
      => [phase' = "done" => Behaviour(blocks') = Behaviour(blocks)]_vars
  BY <1>1
<1> QED BY <1>2, Invariance, PTL DEF Spec, EliminationPreserves
=============================================================================

------------------------- MODULE RegisterUse_proofs -------------------------
(***************************************************************************)
(* What visitors keep survives, for expressions and statements of every    *)
(* size.  The words below sp are those of the waiting visitors, one visitor *)
(* after the other: base says where each one's begin.  A register that a   *)
(* visitor relies on holds its value until one of its spoilers has been    *)
(* visited inside, since every visitor that writes it is one of them.      *)
(***************************************************************************)
EXTENDS RegisterUse, TLAPS, SequenceTheorems

StatementUses == {"Test", "Assign", "Inc", "Read", "For", "Case"}
ExpressionUses == {"Binary", "Real", "Abs", "Index", "Call", "Single", "Range"}
Points == {"lhs", "rhs", "arg", "index", "value", "low", "high", "place", "by",
           "from", "to", "body", "label"}

FrameOver(m) ==
  [use : Constructs, at : Points, kept : Seq(1 .. m), inside : SUBSET Constructs]

(* How many values are kept, and where a visitor can wait in a body.       *)
Shape(f) ==
  /\ f.at = "body" => f.use \in {"For", "Case"}
  /\ f.use \in {"Binary", "Real"} =>
       (f.at = "lhs" /\ Len(f.kept) = 0) \/ (f.at = "rhs" /\ Len(f.kept) = 1)
  /\ f.use \in {"Index", "Single", "Read"} => Len(f.kept) = 1
  /\ f.use = "Call" => Len(f.kept) < ArgRegs /\ Len(f.kept) < MaxArgs
  /\ f.use = "Range" =>
       (f.at = "low" /\ Len(f.kept) = 1) \/ (f.at = "high" /\ Len(f.kept) = 2)
  /\ f.use = "Assign" =>
       (f.at = "rhs" /\ Len(f.kept) = 0) \/ (f.at = "lhs" /\ Len(f.kept) = 1)
  /\ f.use = "Inc" /\ f.at = "by" => Len(f.kept) = 2
  /\ f.use = "For" /\ f.at \in {"to", "by"} => Len(f.kept) = 1
  /\ f.use = "Case" /\ f.at = "label" => Len(f.kept) = 1

(* The words a visitor has on the stack: all it keeps, or all but the set. *)
Count(f) == IF f.use \in {"Binary", "Real", "Call", "Single", "Assign"} THEN Len(f.kept)
            ELSE IF f.use = "Range" THEN Len(f.kept) - 1 ELSE 0
Word(f, i) == IF f.use = "Range" THEN f.kept[i + 1] ELSE f.kept[i]

Laid(base, fs, ws) ==
  /\ base \in [1 .. Len(fs) + 1 -> Nat]
  /\ base[1] = 0 /\ base[Len(fs) + 1] = Len(ws)
  /\ \A j, k \in 1 .. Len(fs) + 1 : j <= k => base[j] <= base[k]
  /\ \A k \in 1 .. Len(fs) :
       /\ base[k + 1] = base[k] + Count(fs[k])
       /\ fs[k].use \in StatementUses => base[k] = 0
       /\ \A i \in 1 .. Count(fs[k]) : ws[base[k] + i] = Word(fs[k], i)

(* The registers the code of a visitor may write, besides a0.              *)
Writes(use) ==
  CASE use = "none"   -> {}
    [] use = "Binary" -> {"t0", "t1"}
    [] use = "Real"   -> {"t1", "t2"}
    [] use = "Abs"    -> {"t0"}
    [] use = "Index"  -> {"t3", "t4"}
    [] use = "Single" -> {"t5"}
    [] use = "Range"  -> {"t2", "t3", "t4", "t5"}
    [] OTHER          -> Registers

OnlyWrites(rs, ss, use) ==
  \A r \in Registers : ss[r] # rs[r] => r = "a0" \/ r \in Writes(use)

(* What f relies on is there, unless it contains a spoiler.                *)
Held(f, rs) ==
  f.inside \cap Spoilers(f.use, f.at) = {} =>
    /\ f.use = "Index" => rs["t3"] = f.kept[1]
    /\ f.use = "Inc" /\ f.at = "by" => rs["t0"] = f.kept[1] /\ rs["t2"] = f.kept[2]
    /\ f.use = "Read" => rs["t0"] = f.kept[1]
    /\ f.use = "For" /\ f.at = "to" => rs["t5"] = f.kept[1]
    /\ f.use = "For" /\ f.at = "by" => rs["t0"] = f.kept[1]
    /\ f.use = "Case" /\ f.at = "label" => rs["t6"] = f.kept[1]

Nested(fs) == \A j, k \in 1 .. Len(fs) : j < k => fs[k].use \in fs[j].inside

Ordered(fs) ==
  /\ fs # <<>> => fs[1].use \in StatementUses
  /\ \A j, k \in 1 .. Len(fs) : j < k /\ fs[k].use \in StatementUses => fs[j].at = "body"

StackOK(fs, ws, rs, m) ==
  /\ m \in Nat
  /\ fs \in Seq(FrameOver(m)) /\ ws \in Seq(1 .. m) /\ rs \in [Registers -> 0 .. m]
  /\ \A k \in 1 .. Len(fs) : Shape(fs[k]) /\ Held(fs[k], rs)
  /\ Nested(fs) /\ Ordered(fs)
  /\ \E base : Laid(base, fs, ws)

-----------------------------------------------------------------------------
(* Sequences and registers.                                                *)
LEMMA RegisterFacts ==
  /\ {"a0", "t0", "t1", "t2", "t3", "t4", "t5", "t6"} \subseteq Registers
  /\ \A i \in 1 .. ArgRegs : A[i] \in Registers
  /\ A[1] = "a0"
  BY RegisterAssumption DEF Registers, A

LEMMA SeqUpTo ==
  ASSUME NEW m \in Nat, NEW n \in Nat, m <= n
  PROVE  Seq(1 .. m) \subseteq Seq(1 .. n)
  <1>1. 1 .. m \subseteq 1 .. n
    OBVIOUS
  <1> QED BY <1>1, SeqMonotonic

LEMMA FramesUpTo ==
  ASSUME NEW m \in Nat, NEW n \in Nat, m <= n
  PROVE  /\ FrameOver(m) \subseteq FrameOver(n)
         /\ Seq(FrameOver(m)) \subseteq Seq(FrameOver(n))
  <1>1. FrameOver(m) \subseteq FrameOver(n)
    BY SeqUpTo DEF FrameOver
  <1> QED BY <1>1, SeqMonotonic

LEMMA FrontProperties ==
  ASSUME NEW S, NEW s \in Seq(S), s # <<>>
  PROVE  /\ Front(s) \in Seq(S) /\ Len(Front(s)) = Len(s) - 1 /\ Len(s) \in Nat \ {0}
         /\ \A i \in 1 .. Len(s) - 1 : Front(s)[i] = s[i]
         /\ Last(s) = s[Len(s)] /\ Last(s) \in S
  <1>1. Len(s) \in Nat \ {0} /\ \A i \in 1 .. Len(s) : s[i] \in S
    BY EmptySeq, ElementOfSeq
  <1> DEFINE n == Len(s) - 1
  <1>2. n \in Int /\ \A i \in 1 .. n : s[i] \in S
    BY <1>1
  <1>3. /\ SubSeq(s, 1, n) \in Seq(S) /\ Len(SubSeq(s, 1, n)) = IF 1 <= n THEN n - 1 + 1 ELSE 0
        /\ \A i \in 1 .. n - 1 + 1 : SubSeq(s, 1, n)[i] = s[1 + i - 1]
    BY <1>2, SubSeqProperties
  <1>4. Front(s) = SubSeq(s, 1, n) /\ Last(s) = s[Len(s)]
    BY DEF Front, Last
  <1>5. Len(s) \in 1 .. Len(s) /\ n \in Nat /\ n - 1 + 1 = n /\ (~(1 <= n) => n = 0)
    BY SMTT(60), <1>1
  <1>6. \A i \in 1 .. n : SubSeq(s, 1, n)[i] = s[i]
    BY <1>3, <1>5
  <1>7. Len(SubSeq(s, 1, n)) = n
    BY <1>3, <1>5
  <1> QED BY <1>1, <1>3, <1>4, <1>5, <1>6, <1>7

LEMMA AppendSeq ==
  ASSUME NEW S, NEW s \in Seq(S), NEW e \in S
  PROVE  /\ Append(s, e) \in Seq(S) /\ Len(Append(s, e)) = Len(s) + 1
         /\ \A i \in 1 .. Len(s) : Append(s, e)[i] = s[i]
         /\ Append(s, e)[Len(s) + 1] = e
  OBVIOUS

LEMMA SeqOfOne ==
  ASSUME NEW S, NEW s \in Seq(S), Len(s) = 1
  PROVE  s = <<s[1]>>
  <1>1. s[1] \in S
    BY ElementOfSeq
  <1> QED BY <1>1, SeqEqual

LEMMA SeqOfTwo ==
  ASSUME NEW S, NEW s \in Seq(S), Len(s) = 2
  PROVE  s = <<s[1], s[2]>>
  <1>1. s[1] \in S /\ s[2] \in S
    BY ElementOfSeq
  <1> QED BY <1>1, SeqEqual

LEMMA CountIsNat ==
  ASSUME NEW m \in Nat, NEW f \in FrameOver(m), Shape(f)
  PROVE  Count(f) \in Nat
  <1>1. f.kept \in Seq(1 .. m) /\ Len(f.kept) \in Nat
    BY LenProperties DEF FrameOver
  <1>2. f.use = "Range" => Len(f.kept) \in {1, 2}
    BY DEF Shape
  <1>3. CASE f.use = "Range"
    BY SMTT(60), <1>2, <1>3 DEF Count
  <1>4. CASE f.use # "Range"
    BY <1>1, <1>4 DEF Count
  <1> QED BY <1>3, <1>4

-----------------------------------------------------------------------------
(* A visitor finds in its registers what it relies on, if what has been    *)
(* visited inside writes other registers.                                  *)
LEMMA HeldStays ==
  ASSUME NEW m \in Nat, NEW f \in FrameOver(m), Shape(f),
         NEW rs, NEW ss, NEW use, Held(f, rs), OnlyWrites(rs, ss, use),
         f.at = "body" \/ use = "none" \/ (use \in ExpressionUses /\ use \in f.inside)
  PROVE  Held(f, ss)
  <1>1. CASE f.at = "body"
    BY <1>1 DEF Held, Shape
  <1>2. CASE f.at # "body"
    <2> SUFFICES ASSUME f.inside \cap Spoilers(f.use, f.at) = {}
                 PROVE  /\ f.use = "Index" => ss["t3"] = f.kept[1]
                        /\ f.use = "Inc" /\ f.at = "by" =>
                             ss["t0"] = f.kept[1] /\ ss["t2"] = f.kept[2]
                        /\ f.use = "Read" => ss["t0"] = f.kept[1]
                        /\ f.use = "For" /\ f.at = "to" => ss["t5"] = f.kept[1]
                        /\ f.use = "For" /\ f.at = "by" => ss["t0"] = f.kept[1]
                        /\ f.use = "Case" /\ f.at = "label" => ss["t6"] = f.kept[1]
      BY DEF Held
    <2>1. use = "none" \/ (use \in ExpressionUses /\ use \notin Spoilers(f.use, f.at))
      BY <1>2
    <2>2. \A r \in {"t0", "t2", "t3", "t5", "t6"} : r \notin Writes(use) => ss[r] = rs[r]
      BY RegisterFacts DEF OnlyWrites
    <2>3. f.use = "Index" => ss["t3"] = f.kept[1]
      BY <2>1, <2>2 DEF Held, Spoilers, Writes, ExpressionUses
    <2>4. f.use = "Inc" /\ f.at = "by" => ss["t0"] = f.kept[1] /\ ss["t2"] = f.kept[2]
      BY <2>1, <2>2 DEF Held, Spoilers, Writes, ExpressionUses
    <2>5. f.use = "Read" => ss["t0"] = f.kept[1]
      BY <2>1, <2>2 DEF Held, Spoilers, Writes, ExpressionUses
    <2>6. f.use = "For" /\ f.at = "to" => ss["t5"] = f.kept[1]
      BY <2>1, <2>2 DEF Held, Spoilers, Writes, ExpressionUses
    <2>7. f.use = "For" /\ f.at = "by" => ss["t0"] = f.kept[1]
      BY <2>1, <2>2 DEF Held, Spoilers, Writes, ExpressionUses
    <2>8. f.use = "Case" /\ f.at = "label" => ss["t6"] = f.kept[1]
      BY <2>1, <2>2 DEF Held, Spoilers, Writes, ExpressionUses
    <2> QED BY <2>3, <2>4, <2>5, <2>6, <2>7, <2>8
  <1> QED BY <1>1, <1>2

(* Nothing is pushed or popped, and no frame changes.                      *)
LEMMA KeepOK ==
  ASSUME NEW fs, NEW ws, NEW rs, NEW m, StackOK(fs, ws, rs, m),
         NEW n \in Nat, m <= n, NEW ss \in [Registers -> 0 .. n],
         NEW use, OnlyWrites(rs, ss, use),
         \/ use = "none"
         \/ use \in ExpressionUses /\ \A k \in 1 .. Len(fs) : use \in fs[k].inside
  PROVE  StackOK(fs, ws, ss, n)
  <1>1. m \in Nat /\ fs \in Seq(FrameOver(m)) /\ ws \in Seq(1 .. m)
    BY DEF StackOK
  <1>2. fs \in Seq(FrameOver(n)) /\ ws \in Seq(1 .. n)
    BY <1>1, FramesUpTo, SeqUpTo
  <1>3. \A k \in 1 .. Len(fs) : Held(fs[k], ss)
    BY <1>1, HeldStays, ElementOfSeq DEF StackOK
  <1> QED BY <1>2, <1>3 DEF StackOK

(* What is visited is noted in every frame.                                *)
NotedIn(fs, use) == [k \in DOMAIN fs |-> [fs[k] EXCEPT !.inside = @ \cup {use}]]

LEMMA NotedProperties ==
  ASSUME NEW m \in Nat, NEW fs \in Seq(FrameOver(m)), NEW use \in Constructs
  PROVE  /\ NotedIn(fs, use) \in Seq(FrameOver(m)) /\ Len(NotedIn(fs, use)) = Len(fs)
         /\ \A k \in 1 .. Len(fs) :
              /\ NotedIn(fs, use)[k].use = fs[k].use
              /\ NotedIn(fs, use)[k].at = fs[k].at
              /\ NotedIn(fs, use)[k].kept = fs[k].kept
              /\ NotedIn(fs, use)[k].inside = fs[k].inside \cup {use}
  <1>1. Len(fs) \in Nat /\ DOMAIN fs = 1 .. Len(fs)
    BY LenProperties
  <1>2. \A k \in 1 .. Len(fs) : fs[k] \in FrameOver(m)
    BY ElementOfSeq
  <1>3. \A k \in 1 .. Len(fs) : [fs[k] EXCEPT !.inside = @ \cup {use}] \in FrameOver(m)
    BY <1>2 DEF FrameOver
  <1>4. NotedIn(fs, use) = [k \in 1 .. Len(fs) |-> [fs[k] EXCEPT !.inside = @ \cup {use}]]
    BY <1>1 DEF NotedIn
  <1>5. NotedIn(fs, use) \in Seq(FrameOver(m)) /\ Len(NotedIn(fs, use)) = Len(fs)
    BY <1>1, <1>3, <1>4
  <1>6. ASSUME NEW k \in 1 .. Len(fs)
        PROVE  /\ NotedIn(fs, use)[k].use = fs[k].use
               /\ NotedIn(fs, use)[k].at = fs[k].at
               /\ NotedIn(fs, use)[k].kept = fs[k].kept
               /\ NotedIn(fs, use)[k].inside = fs[k].inside \cup {use}
    <2>1. NotedIn(fs, use)[k] = [fs[k] EXCEPT !.inside = @ \cup {use}]
      BY ONLY <1>4, k \in 1 .. Len(fs)
    <2>2. fs[k] \in FrameOver(m)
      BY <1>2
    <2> QED BY ONLY <2>1, <2>2 DEF FrameOver
  <1> QED BY <1>5, <1>6

LEMMA NoteOK ==
  ASSUME NEW fs, NEW ws, NEW rs, NEW m, StackOK(fs, ws, rs, m), NEW use \in Constructs
  PROVE  StackOK(NotedIn(fs, use), ws, rs, m)
  <1> DEFINE gs == NotedIn(fs, use)
  <1>1. m \in Nat /\ fs \in Seq(FrameOver(m)) /\ Len(fs) \in Nat
    BY LenProperties DEF StackOK
  <1>2. /\ gs \in Seq(FrameOver(m)) /\ Len(gs) = Len(fs)
        /\ \A k \in 1 .. Len(fs) :
             /\ gs[k].use = fs[k].use /\ gs[k].at = fs[k].at /\ gs[k].kept = fs[k].kept
             /\ gs[k].inside = fs[k].inside \cup {use}
    BY <1>1, NotedProperties
  <1> HIDE DEF gs
  <1>3. \A k \in 1 .. Len(gs) : Shape(gs[k]) /\ Held(gs[k], rs)
    <2> TAKE k \in 1 .. Len(gs)
    <2>1. Shape(fs[k]) /\ Held(fs[k], rs)
      BY <1>2 DEF StackOK
    <2>2. Shape(gs[k])
      BY <1>2, <2>1 DEF Shape
    <2>3. gs[k].inside \cap Spoilers(gs[k].use, gs[k].at) = {} =>
            fs[k].inside \cap Spoilers(fs[k].use, fs[k].at) = {}
      <3>1. gs[k].use = fs[k].use /\ gs[k].at = fs[k].at /\ fs[k].inside \subseteq gs[k].inside
        BY <1>2
      <3> QED BY <3>1
    <2> QED BY <1>2, <2>1, <2>2, <2>3 DEF Held
  <1>4. Nested(gs)
    BY <1>1, <1>2 DEF Nested, StackOK
  <1>5. Ordered(gs)
    <2>1. gs # <<>> => fs # <<>> /\ 1 \in 1 .. Len(fs)
      BY <1>1, <1>2, EmptySeq
    <2> QED BY <1>1, <1>2, <2>1 DEF Ordered, StackOK
  <1>6. \E base : Laid(base, gs, ws)
    <2>1. PICK base : Laid(base, fs, ws)
      BY DEF StackOK
    <2>2. \A k \in 1 .. Len(fs) :
            Count(gs[k]) = Count(fs[k]) /\ \A i \in 1 .. Count(fs[k]) : Word(gs[k], i) = Word(fs[k], i)
      BY <1>2 DEF Count, Word
    <2>3. Laid(base, gs, ws)
      BY <1>2, <2>1, <2>2 DEF Laid
    <2> QED BY <2>3
  <1> QED BY <1>2, <1>3, <1>4, <1>5, <1>6 DEF StackOK, gs

(* The parts of StackOK that say what things are.                          *)
LEMMA StackTypes ==
  ASSUME NEW fs, NEW ws, NEW rs, NEW m, StackOK(fs, ws, rs, m)
  PROVE  /\ m \in Nat /\ fs \in Seq(FrameOver(m)) /\ Len(fs) \in Nat
         /\ ws \in Seq(1 .. m) /\ Len(ws) \in Nat /\ rs \in [Registers -> 0 .. m]
         /\ \A k \in 1 .. Len(fs) : fs[k] \in FrameOver(m) /\ Shape(fs[k]) /\ Held(fs[k], rs)
  <1>1. m \in Nat /\ fs \in Seq(FrameOver(m)) /\ ws \in Seq(1 .. m) /\ rs \in [Registers -> 0 .. m]
    BY DEF StackOK
  <1>2. Len(fs) \in Nat /\ Len(ws) \in Nat
    BY <1>1, LenProperties
  <1>3. \A k \in 1 .. Len(fs) : Shape(fs[k]) /\ Held(fs[k], rs)
    BY DEF StackOK
  <1>4. \A k \in 1 .. Len(fs) : fs[k] \in FrameOver(m)
    BY <1>1, ElementOfSeq
  <1> QED BY <1>1, <1>2, <1>3, <1>4

(* base says where the words of each visitor begin.                        *)
LEMMA LaidParts ==
  ASSUME NEW base, NEW fs, NEW ws, Laid(base, fs, ws), Len(fs) \in Nat
  PROVE  /\ \A k \in 1 .. Len(fs) + 1 : base[k] \in Nat /\ base[k] <= Len(ws)
         /\ base[1] = 0 /\ base[Len(fs) + 1] = Len(ws)
         /\ \A j, k \in 1 .. Len(fs) + 1 : j <= k => base[j] <= base[k]
         /\ \A k \in 1 .. Len(fs) :
              /\ base[k + 1] = base[k] + Count(fs[k])
              /\ fs[k].use \in StatementUses => base[k] = 0
              /\ \A i \in 1 .. Count(fs[k]) : ws[base[k] + i] = Word(fs[k], i)
  <1>1. \A k \in 1 .. Len(fs) + 1 : k <= Len(fs) + 1 /\ Len(fs) + 1 \in 1 .. Len(fs) + 1
    OBVIOUS
  <1>2. /\ base \in [1 .. Len(fs) + 1 -> Nat]
        /\ base[Len(fs) + 1] = Len(ws)
        /\ \A j, k \in 1 .. Len(fs) + 1 : j <= k => base[j] <= base[k]
    BY DEF Laid
  <1>3. \A k \in 1 .. Len(fs) + 1 : base[k] \in Nat /\ base[k] <= Len(ws)
    BY <1>1, <1>2
  <1> QED BY <1>2, <1>3 DEF Laid

(* Where the words of the innermost visitor are.                           *)
LEMMA TopWords ==
  ASSUME NEW fs, NEW ws, NEW rs, NEW m, StackOK(fs, ws, rs, m), fs # <<>>
  PROVE  /\ Last(fs) \in FrameOver(m) /\ Shape(Last(fs)) /\ Held(Last(fs), rs)
         /\ Count(Last(fs)) \in 0 .. Len(ws) /\ Len(ws) \in Nat
         /\ \A i \in 1 .. Count(Last(fs)) :
              ws[Len(ws) - Count(Last(fs)) + i] = Word(Last(fs), i)
         /\ \A base : Laid(base, fs, ws) => base[Len(fs)] = Len(ws) - Count(Last(fs))
         /\ Last(fs).use \in StatementUses => Len(ws) = Count(Last(fs))
  <1>a. m \in Nat /\ fs \in Seq(FrameOver(m)) /\ Len(ws) \in Nat
    BY StackTypes
  <1>b. Len(fs) \in Nat \ {0} /\ Last(fs) = fs[Len(fs)] /\ Last(fs) \in FrameOver(m)
    BY <1>a, FrontProperties
  <1>1. /\ m \in Nat /\ fs \in Seq(FrameOver(m)) /\ Len(fs) \in Nat \ {0}
        /\ Last(fs) = fs[Len(fs)] /\ Last(fs) \in FrameOver(m) /\ Len(fs) \in 1 .. Len(fs)
        /\ Len(ws) \in Nat
    BY <1>a, <1>b
  <1>2. Shape(Last(fs)) /\ Held(Last(fs), rs)
    BY <1>1 DEF StackOK
  <1>3. Count(Last(fs)) \in Nat
    BY <1>1, <1>2, CountIsNat
  <1>4. ASSUME NEW base, Laid(base, fs, ws)
        PROVE  /\ base[Len(fs)] \in Nat /\ Len(ws) = base[Len(fs)] + Count(Last(fs))
               /\ \A i \in 1 .. Count(Last(fs)) : ws[base[Len(fs)] + i] = Word(Last(fs), i)
    BY <1>1, <1>4 DEF Laid
  <1>5. PICK base : Laid(base, fs, ws)
    BY DEF StackOK
  <1>6. \A b : Laid(b, fs, ws) => b[Len(fs)] = Len(ws) - Count(Last(fs))
    BY <1>3, <1>4
  <1>7. Count(Last(fs)) \in 0 .. Len(ws) /\ base[Len(fs)] = Len(ws) - Count(Last(fs))
    BY <1>1, <1>3, <1>4, <1>5
  <1>8. \A i \in 1 .. Count(Last(fs)) :
          ws[Len(ws) - Count(Last(fs)) + i] = Word(Last(fs), i)
    BY <1>4, <1>5, <1>7
  <1>9. Last(fs).use \in StatementUses => base[Len(fs)] = 0
    BY <1>1, <1>5 DEF Laid
  <1>10. Last(fs).use \in StatementUses => Len(ws) = Count(Last(fs))
    BY <1>3, <1>4, <1>5, <1>9
  <1> QED BY <1>1, <1>2, <1>6, <1>7, <1>8, <1>10

(* When statements are visited, every visitor waits in a body.             *)
LEMMA AllInBodies ==
  ASSUME NEW fs, NEW ws, NEW rs, NEW m, StackOK(fs, ws, rs, m),
         fs = <<>> \/ Last(fs).at = "body"
  PROVE  /\ \A k \in 1 .. Len(fs) : fs[k].at = "body"
         /\ Len(ws) = 0
  <1>1. CASE fs = <<>>
    <2>1. Len(fs) = 0
      BY <1>1
    <2> QED BY <2>1 DEF StackOK, Laid
  <1>2. CASE fs # <<>>
    <2>a. fs \in Seq(FrameOver(m)) /\ Len(fs) \in Nat
      BY StackTypes
    <2>b. Len(fs) \in Nat \ {0} /\ Last(fs) = fs[Len(fs)]
      BY <1>2, <2>a, FrontProperties
    <2>c. Shape(Last(fs)) /\ Last(fs).at = "body"
      BY <1>2, TopWords
    <2>1. /\ Len(fs) \in Nat \ {0} /\ Last(fs) = fs[Len(fs)] /\ Len(fs) \in 1 .. Len(fs)
          /\ Last(fs).at = "body" /\ Last(fs).use \in {"For", "Case"}
      BY <2>b, <2>c DEF Shape
    <2>2. \A k \in 1 .. Len(fs) : fs[k].at = "body"
      BY <2>1 DEF StackOK, Ordered, StatementUses
    <2>3. PICK base : Laid(base, fs, ws)
      BY DEF StackOK
    <2>4. base[Len(fs)] = 0 /\ base[Len(fs) + 1] = base[Len(fs)] + Count(fs[Len(fs)])
      BY <2>1, <2>3 DEF Laid, StatementUses
    <2>5. Count(fs[Len(fs)]) = 0
      BY <2>1 DEF Count
    <2> QED BY <2>2, <2>3, <2>4, <2>5 DEF Laid
  <1> QED BY <1>1, <1>2

(* An expression is inside something.                                      *)
LEMMA AroundExpression ==
  ASSUME NEW fs, NEW ws, NEW rs, NEW m, StackOK(fs, ws, rs, m), fs # <<>>,
         Last(fs).use \in ExpressionUses
  PROVE  Front(fs) # <<>>
  <1>1. fs \in Seq(FrameOver(m)) /\ fs # <<>>
    BY StackTypes
  <1>2. Len(Front(fs)) = Len(fs) - 1 /\ Len(fs) \in Nat \ {0} /\ Last(fs) = fs[Len(fs)]
    BY <1>1, FrontProperties
  <1>3. fs[1].use \in StatementUses
    BY DEF StackOK, Ordered
  <1>4. Len(fs) # 1
    BY <1>2, <1>3 DEF ExpressionUses, StatementUses
  <1> QED BY <1>2, <1>4, EmptySeq

(* A statement is inside nothing but bodies.                               *)
LEMMA AroundStatement ==
  ASSUME NEW fs, NEW ws, NEW rs, NEW m, StackOK(fs, ws, rs, m), Front(fs) # <<>>, fs # <<>>,
         Last(fs).use \in StatementUses
  PROVE  Last(Front(fs)).at = "body"
  <1>1. fs \in Seq(FrameOver(m)) /\ fs # <<>>
    BY StackTypes
  <1>2. /\ Front(fs) \in Seq(FrameOver(m)) /\ Last(fs) = fs[Len(fs)]
        /\ Len(Front(fs)) = Len(fs) - 1 /\ Len(fs) \in Nat \ {0}
        /\ \A i \in 1 .. Len(fs) - 1 : Front(fs)[i] = fs[i]
    BY <1>1, FrontProperties
  <1> DEFINE gs == Front(fs)
  <1> HIDE DEF gs
  <1>3. gs \in Seq(FrameOver(m)) /\ gs # <<>>
    BY <1>2 DEF gs
  <1>4. Len(gs) \in Nat \ {0} /\ Last(gs) = gs[Len(gs)]
    BY <1>3, FrontProperties
  <1>5. Len(gs) = Len(fs) - 1 /\ \A i \in 1 .. Len(fs) - 1 : gs[i] = fs[i]
    BY <1>2 DEF gs
  <1>6. /\ Last(gs) = fs[Len(gs)] /\ Len(gs) \in 1 .. Len(fs) /\ Len(fs) \in 1 .. Len(fs)
        /\ Len(gs) < Len(fs)
    BY <1>2, <1>4, <1>5
  <1>7. fs[Len(gs)].at = "body"
    BY <1>2, <1>6 DEF StackOK, Ordered
  <1> QED BY <1>6, <1>7 DEF gs

(* The innermost visitor takes back its words and returns.                 *)
LEMMA PopOK ==
  ASSUME NEW fs, NEW ws, NEW rs, NEW m, StackOK(fs, ws, rs, m), fs # <<>>,
         NEW n \in Nat, m <= n, NEW ss \in [Registers -> 0 .. n],
         OnlyWrites(rs, ss, Last(fs).use) \/ OnlyWrites(rs, ss, "none"),
         NEW vs \in Seq(1 .. n), Len(vs) = Len(ws) - Count(Last(fs)),
         \A i \in 1 .. Len(vs) : vs[i] = ws[i]
  PROVE  /\ StackOK(Front(fs), vs, ss, n)
         /\ \A k \in 1 .. Len(Front(fs)) :
              /\ Last(fs).use \in Front(fs)[k].inside
              /\ Last(fs).use \in StatementUses => Front(fs)[k].at = "body"
         /\ Last(fs).use \in ExpressionUses => Front(fs) # <<>>
         /\ Front(fs) # <<>> /\ Last(fs).use \in StatementUses => Last(Front(fs)).at = "body"
  <1> DEFINE gs == Front(fs)
             top == Last(fs)
  <1>a. m \in Nat /\ fs \in Seq(FrameOver(m)) /\ Len(fs) \in Nat
    BY StackTypes
  <1>b. /\ gs \in Seq(FrameOver(m)) /\ Len(gs) = Len(fs) - 1 /\ Len(fs) \in Nat \ {0}
        /\ \A i \in 1 .. Len(fs) - 1 : gs[i] = fs[i]
        /\ top = fs[Len(fs)]
    BY <1>a, FrontProperties
  <1>1. /\ m \in Nat /\ fs \in Seq(FrameOver(m)) /\ Len(fs) \in Nat \ {0}
        /\ gs \in Seq(FrameOver(m)) /\ Len(gs) = Len(fs) - 1 /\ Len(gs) \in Nat
        /\ \A k \in 1 .. Len(gs) : gs[k] = fs[k] /\ k \in 1 .. Len(fs) /\ k < Len(fs)
        /\ top = fs[Len(fs)] /\ Len(fs) \in 1 .. Len(fs)
    BY <1>a, <1>b
  <1>2. /\ top \in FrameOver(m) /\ Count(top) \in 0 .. Len(ws) /\ Len(ws) \in Nat
        /\ \A base : Laid(base, fs, ws) => base[Len(fs)] = Len(ws) - Count(top)
    BY TopWords
  <1> HIDE DEF gs, top
  <1>3. gs \in Seq(FrameOver(n))
    BY <1>1, FramesUpTo
  <1>4. \A k \in 1 .. Len(gs) :
          /\ top.use \in gs[k].inside
          /\ top.use \in StatementUses => gs[k].at = "body"
    BY <1>1 DEF StackOK, Nested, Ordered
  <1>5. top.use \in StatementUses \cup ExpressionUses
    BY <1>2 DEF FrameOver, Constructs, StatementUses, ExpressionUses
  <1>6. \A k \in 1 .. Len(gs) : Shape(gs[k]) /\ Held(gs[k], ss)
    <2> TAKE k \in 1 .. Len(gs)
    <2>1. gs[k] \in FrameOver(m) /\ Shape(gs[k]) /\ Held(gs[k], rs)
      BY <1>1, ElementOfSeq DEF StackOK
    <2>2. CASE OnlyWrites(rs, ss, "none")
      BY <1>1, <2>1, <2>2, HeldStays
    <2>3. CASE OnlyWrites(rs, ss, top.use)
      BY <1>1, <1>4, <1>5, <2>1, <2>3, HeldStays
    <2> QED BY <2>1, <2>2, <2>3 DEF top
  <1>7. Nested(gs)
    BY <1>1 DEF StackOK, Nested
  <1>8. Ordered(gs)
    <2>1. gs # <<>> => 1 \in 1 .. Len(gs) /\ fs # <<>>
      BY <1>1, EmptySeq
    <2> QED BY <1>1, <2>1 DEF StackOK, Ordered
  <1>9. \E base : Laid(base, gs, vs)
    <2>1. PICK base : Laid(base, fs, ws)
      BY DEF StackOK
    <2> DEFINE b == [k \in 1 .. Len(gs) + 1 |-> base[k]]
    <2>2. base[Len(fs)] = Len(vs) /\ Len(vs) \in Nat
      BY <1>2, <2>1, LenProperties DEF top
    <2>a. \A k \in 1 .. Len(gs) + 1 : k \in 1 .. Len(fs) + 1
      BY <1>1
    <2>b. /\ \A k \in 1 .. Len(fs) + 1 : base[k] \in Nat
          /\ base[1] = 0
          /\ \A j, k \in 1 .. Len(fs) + 1 : j <= k => base[j] <= base[k]
          /\ \A k \in 1 .. Len(fs) :
               /\ base[k + 1] = base[k] + Count(fs[k])
               /\ fs[k].use \in StatementUses => base[k] = 0
               /\ \A i \in 1 .. Count(fs[k]) : ws[base[k] + i] = Word(fs[k], i)
      BY <1>a, <2>1, LaidParts
    <2>3. \A k \in 1 .. Len(gs) + 1 : b[k] = base[k] /\ base[k] \in Nat /\ k \in 1 .. Len(fs) + 1
      BY <2>a, <2>b
    <2>c. Len(gs) + 1 = Len(fs) /\ Len(gs) + 1 \in 1 .. Len(gs) + 1 /\ 1 \in 1 .. Len(gs) + 1
      BY <1>1
    <2>4. b \in [1 .. Len(gs) + 1 -> Nat] /\ b[1] = 0 /\ b[Len(gs) + 1] = Len(vs)
      BY <2>2, <2>3, <2>b, <2>c
    <2>5. \A j, k \in 1 .. Len(gs) + 1 : j <= k => b[j] <= b[k]
      BY <2>b, <2>3
    <2> HIDE DEF b
    <2>6. ASSUME NEW k \in 1 .. Len(gs)
          PROVE  /\ b[k + 1] = b[k] + Count(gs[k])
                 /\ gs[k].use \in StatementUses => b[k] = 0
                 /\ \A i \in 1 .. Count(gs[k]) : vs[b[k] + i] = Word(gs[k], i)
      <3>1. /\ k \in 1 .. Len(gs) + 1 /\ k + 1 \in 1 .. Len(gs) + 1 /\ k \in 1 .. Len(fs)
            /\ gs[k] = fs[k] /\ Len(gs) + 1 \in 1 .. Len(gs) + 1
        BY <1>1
      <3>a. b[k] = base[k] /\ b[k + 1] = base[k + 1] /\ b[k] \in Nat /\ b[k + 1] \in Nat
        BY <2>3, <3>1
      <3>b. k + 1 <= Len(gs) + 1
        BY <1>1
      <3>c. b[k + 1] <= Len(vs)
        BY <2>4, <2>5, <3>1, <3>b
      <3>2. /\ b[k + 1] = b[k] + Count(gs[k]) /\ b[k] \in Nat /\ b[k + 1] \in Nat
            /\ b[k + 1] <= Len(vs)
            /\ gs[k].use \in StatementUses => b[k] = 0
        BY <2>b, <3>1, <3>a, <3>c
      <3>3. \A i \in 1 .. Count(gs[k]) : ws[b[k] + i] = Word(gs[k], i)
        BY <2>b, <3>1, <3>a
      <3>d. gs[k] \in FrameOver(m) /\ Shape(gs[k])
        BY <1>1, <1>6, ElementOfSeq
      <3>4. Count(gs[k]) \in Nat
        BY <1>1, <3>d, CountIsNat
      <3>5. \A i \in 1 .. Count(gs[k]) : b[k] + i \in 1 .. Len(vs)
        <4> DEFINE x == b[k]
                   c == Count(gs[k])
                   l == Len(vs)
        <4>1. x \in Nat /\ c \in Nat /\ l \in Nat /\ x + c <= l
          BY <2>2, <3>2, <3>4
        <4> HIDE DEF x, c, l
        <4>2. \A i \in 1 .. c : x + i \in 1 .. l
          BY <4>1
        <4> QED BY <4>2 DEF x, c, l
      <3> QED BY <3>2, <3>3, <3>5
    <2>7. Laid(b, gs, vs)
      BY <2>4, <2>5, <2>6 DEF Laid
    <2> QED BY <2>7
  <1>10. StackOK(gs, vs, ss, n)
    BY <1>3, <1>6, <1>7, <1>8, <1>9 DEF StackOK
  <1>11. top.use \in ExpressionUses => gs # <<>>
    BY AroundExpression DEF gs, top
  <1>12. gs # <<>> /\ top.use \in StatementUses => Last(gs).at = "body"
    BY AroundStatement DEF gs, top
  <1> QED BY <1>4, <1>10, <1>11, <1>12 DEF gs, top

(* A visitor puts aside its words and waits.                               *)
LEMMA PushOK ==
  ASSUME NEW fs, NEW ws, NEW rs, NEW m, StackOK(fs, ws, rs, m),
         NEW n \in Nat, m <= n, NEW ss \in [Registers -> 0 .. n],
         NEW f \in FrameOver(n), Shape(f), Held(f, ss),
         OnlyWrites(rs, ss, f.use) \/ OnlyWrites(rs, ss, "none"),
         \A k \in 1 .. Len(fs) : f.use \in fs[k].inside,
         f.use \in StatementUses => \A k \in 1 .. Len(fs) : fs[k].at = "body",
         f.use \in StatementUses => Len(ws) = 0,
         f.use \in ExpressionUses => fs # <<>>,
         NEW vs \in Seq(1 .. n), Len(vs) = Len(ws) + Count(f),
         \A i \in 1 .. Len(ws) : vs[i] = ws[i],
         \A i \in 1 .. Count(f) : vs[Len(ws) + i] = Word(f, i)
  PROVE  StackOK(Append(fs, f), vs, ss, n)
  <1> DEFINE gs == Append(fs, f)
  <1>1. m \in Nat /\ fs \in Seq(FrameOver(n)) /\ Len(fs) \in Nat /\ Len(ws) \in Nat
    BY FramesUpTo, LenProperties DEF StackOK
  <1>2. /\ gs \in Seq(FrameOver(n)) /\ Len(gs) = Len(fs) + 1
        /\ \A k \in 1 .. Len(fs) : gs[k] = fs[k]
        /\ gs[Len(fs) + 1] = f
    BY <1>1, AppendSeq
  <1> HIDE DEF gs
  <1>3. f.use \in StatementUses \cup ExpressionUses
    BY DEF FrameOver, Constructs, StatementUses, ExpressionUses
  <1>4. \A k \in 1 .. Len(fs) : fs[k] \in FrameOver(m) /\ Shape(fs[k]) /\ Held(fs[k], rs)
    BY ElementOfSeq DEF StackOK
  <1>5. \A k \in 1 .. Len(fs) : Held(fs[k], ss)
    <2>1. CASE OnlyWrites(rs, ss, "none")
      BY <1>1, <1>4, <2>1, HeldStays
    <2>2. CASE OnlyWrites(rs, ss, f.use)
      BY <1>1, <1>3, <1>4, <2>2, HeldStays
    <2> QED BY <2>1, <2>2
  <1>6. \A k \in 1 .. Len(gs) : k \in 1 .. Len(fs) \/ k = Len(fs) + 1
    BY <1>1, <1>2
  <1>7. \A k \in 1 .. Len(gs) : Shape(gs[k]) /\ Held(gs[k], ss)
    BY <1>2, <1>4, <1>5, <1>6
  <1>8. Nested(gs)
    <2> SUFFICES ASSUME NEW j \in 1 .. Len(gs), NEW k \in 1 .. Len(gs), j < k
                 PROVE  gs[k].use \in gs[j].inside
      BY DEF Nested
    <2>1. j \in 1 .. Len(fs)
      BY <1>1, <1>2
    <2> QED BY <1>2, <1>6, <2>1 DEF StackOK, Nested
  <1>9. Ordered(gs)
    <2>1. \A j, k \in 1 .. Len(gs) : j < k => j \in 1 .. Len(fs)
      BY <1>1, <1>2
    <2>2. \A j, k \in 1 .. Len(gs) :
            j < k /\ gs[k].use \in StatementUses => gs[j].at = "body"
      BY <1>2, <1>6, <2>1 DEF StackOK, Ordered
    <2>3. gs[1].use \in StatementUses
      <3>1. CASE fs = <<>>
        BY <1>1, <1>2, <1>3, <3>1
      <3>2. CASE fs # <<>>
        <4>1. 1 \in 1 .. Len(fs)
          BY <1>1, <3>2, EmptySeq
        <4> QED BY <1>2, <3>2, <4>1 DEF StackOK, Ordered
      <3> QED BY <3>1, <3>2
    <2> QED BY <2>2, <2>3 DEF Ordered
  <1>10. \E base : Laid(base, gs, vs)
    <2>1. PICK base : Laid(base, fs, ws)
      BY DEF StackOK
    <2> DEFINE last == Len(fs) + 2
               b == [k \in 1 .. last |-> IF k = last THEN Len(vs) ELSE base[k]]
    <2>2. Len(vs) \in Nat /\ Count(f) \in Nat
      BY LenProperties, CountIsNat
    <2>3. /\ \A k \in 1 .. last : k = last \/ k \in 1 .. Len(fs) + 1
          /\ \A k \in 1 .. Len(fs) + 1 : k \in 1 .. last /\ k # last
          /\ last \in 1 .. last /\ Len(fs) + 1 \in 1 .. Len(fs) + 1 /\ 1 \in 1 .. Len(fs) + 1
      BY <1>1
    <2>4. /\ b[last] = Len(vs)
          /\ \A k \in 1 .. Len(fs) + 1 : b[k] = base[k] /\ base[k] \in Nat
      BY <2>1, <2>3 DEF Laid
    <2>5. b \in [1 .. last -> Nat]
      BY <2>2, <2>3, <2>4
    <2> HIDE DEF b
    <2>6. b[1] = 0 /\ b[Len(fs) + 1] = Len(ws) /\ Len(gs) + 1 = last
      BY <1>1, <1>2, <2>1, <2>3, <2>4 DEF Laid
    <2>7. \A j, k \in 1 .. last : j <= k => b[j] <= b[k]
      <3> SUFFICES ASSUME NEW j \in 1 .. last, NEW k \in 1 .. last, j <= k
                   PROVE  b[j] <= b[k]
        OBVIOUS
      <3>1. CASE k = last
        <4>1. b[last] = Len(ws) + Count(f)
          BY <2>4
        <4>2. j \in 1 .. Len(fs) + 1 => b[j] <= Len(ws) /\ b[j] \in Nat
          BY <1>1, <2>1, <2>3, <2>4, <2>6 DEF Laid
        <4> QED BY <1>1, <2>2, <2>3, <3>1, <4>1, <4>2
      <3>2. CASE k # last
        <4>1. j \in 1 .. Len(fs) + 1 /\ k \in 1 .. Len(fs) + 1
          BY <1>1, <3>2
        <4> QED BY <2>1, <2>4, <4>1 DEF Laid
      <3> QED BY <3>1, <3>2
    <2>8. ASSUME NEW k \in 1 .. Len(gs)
          PROVE  /\ b[k + 1] = b[k] + Count(gs[k])
                 /\ gs[k].use \in StatementUses => b[k] = 0
                 /\ \A i \in 1 .. Count(gs[k]) : vs[b[k] + i] = Word(gs[k], i)
      <3>1. CASE k = Len(fs) + 1
        <4>1. k + 1 = last /\ gs[k] = f /\ b[k] = Len(ws)
          BY <1>1, <1>2, <2>6, <3>1
        <4> QED BY <2>4, <4>1
      <3>2. CASE k \in 1 .. Len(fs)
        <4>1. k \in 1 .. Len(fs) + 1 /\ k + 1 \in 1 .. Len(fs) + 1 /\ gs[k] = fs[k]
          BY <1>1, <1>2, <3>2
        <4>2. /\ b[k + 1] = b[k] + Count(gs[k]) /\ b[k] \in Nat
              /\ gs[k].use \in StatementUses => b[k] = 0
              /\ \A i \in 1 .. Count(gs[k]) : ws[b[k] + i] = Word(gs[k], i)
          BY SMTT(60), <2>1, <2>4, <3>2, <4>1 DEF Laid
        <4>3. b[k + 1] <= Len(ws) /\ b[k + 1] \in Nat
          BY <1>1, <2>1, <2>4, <4>1, LaidParts
        <4>4. Count(gs[k]) \in Nat
          BY <1>1, <1>4, <3>2, <4>1, CountIsNat DEF StackOK
        <4>5. \A i \in 1 .. Count(gs[k]) : b[k] + i \in 1 .. Len(ws)
          BY SMTT(60), <1>1, <4>2, <4>3, <4>4
        <4> QED BY <4>2, <4>5
      <3> QED BY <1>6, <3>1, <3>2
    <2>9. Laid(b, gs, vs)
      BY <2>4, <2>5, <2>6, <2>7, <2>8 DEF Laid
    <2> QED BY <2>9
  <1> QED BY <1>2, <1>7, <1>8, <1>9, <1>10 DEF StackOK, gs

(* Enter: a visitor is noted in those that wait, and waits as well.        *)
LEMMA EnterOK ==
  ASSUME NEW fs, NEW ws, NEW rs, NEW m, StackOK(fs, ws, rs, m),
         NEW n \in Nat, m <= n, NEW ss \in [Registers -> 0 .. n],
         NEW f \in FrameOver(n), Shape(f), Held(f, ss),
         OnlyWrites(rs, ss, f.use) \/ OnlyWrites(rs, ss, "none"),
         \/ f.use \in ExpressionUses /\ fs # <<>>
         \/ f.use \in StatementUses /\ (fs = <<>> \/ Last(fs).at = "body"),
         NEW vs \in Seq(1 .. n), Len(vs) = Len(ws) + Count(f),
         \A i \in 1 .. Len(ws) : vs[i] = ws[i],
         \A i \in 1 .. Count(f) : vs[Len(ws) + i] = Word(f, i)
  PROVE  StackOK(Append(NotedIn(fs, f.use), f), vs, ss, n)
  <1> DEFINE gs == NotedIn(fs, f.use)
  <1>1. f.use \in Constructs
    BY DEF FrameOver
  <1>2. m \in Nat /\ fs \in Seq(FrameOver(m)) /\ Len(fs) \in Nat
    BY StackTypes
  <1>3. /\ Len(gs) = Len(fs)
        /\ \A k \in 1 .. Len(fs) :
             gs[k].at = fs[k].at /\ gs[k].inside = fs[k].inside \cup {f.use}
    BY <1>1, <1>2, NotedProperties
  <1>4. StackOK(gs, ws, rs, m)
    BY <1>1, NoteOK
  <1> HIDE DEF gs
  <1>5. \A k \in 1 .. Len(gs) : f.use \in gs[k].inside
    BY <1>3
  <1>6. f.use \in StatementUses => Len(ws) = 0 /\ \A k \in 1 .. Len(gs) : gs[k].at = "body"
    <2>1. f.use \in StatementUses => fs = <<>> \/ Last(fs).at = "body"
      BY DEF StatementUses, ExpressionUses
    <2>2. f.use \in StatementUses => Len(ws) = 0 /\ \A k \in 1 .. Len(fs) : fs[k].at = "body"
      BY <2>1, AllInBodies
    <2>3. \A k \in 1 .. Len(gs) : k \in 1 .. Len(fs) /\ gs[k].at = fs[k].at
      BY <1>3
    <2> QED BY ONLY <2>2, <2>3
  <1>7. f.use \in ExpressionUses => gs # <<>>
    <2>1. f.use \in ExpressionUses => fs # <<>>
      BY DEF StatementUses, ExpressionUses
    <2>2. fs # <<>> => Len(fs) # 0
      BY <1>2, EmptySeq
    <2>3. gs = <<>> => Len(gs) = 0
      OBVIOUS
    <2> QED BY <1>3, <2>1, <2>2, <2>3
  <1>8. StackOK(Append(gs, f), vs, ss, n)
    BY <1>4, <1>5, <1>6, <1>7, PushOK
  <1> QED BY <1>8 DEF gs

LEMMA Unwritten == ASSUME NEW rs PROVE OnlyWrites(rs, rs, "none")
  BY DEF OnlyWrites

(* The words below those of the innermost visitor.                         *)
LEMMA Below ==
  ASSUME NEW m \in Nat, NEW ws \in Seq(1 .. m), NEW c \in 0 .. Len(ws)
  PROVE  /\ SubSeq(ws, 1, Len(ws) - c) \in Seq(1 .. m)
         /\ Len(SubSeq(ws, 1, Len(ws) - c)) = Len(ws) - c
         /\ \A i \in 1 .. Len(ws) - c : SubSeq(ws, 1, Len(ws) - c)[i] = ws[i]
  <1> DEFINE k == Len(ws) - c
  <1>1. Len(ws) \in Nat /\ k \in Nat /\ k <= Len(ws) /\ k \in Int
    BY LenProperties
  <1> HIDE DEF k
  <1>2. \A i \in 1 .. k : ws[i] \in 1 .. m
    BY <1>1, ElementOfSeq
  <1>3. /\ SubSeq(ws, 1, k) \in Seq(1 .. m) /\ Len(SubSeq(ws, 1, k)) = IF 1 <= k THEN k - 1 + 1 ELSE 0
        /\ \A i \in 1 .. k - 1 + 1 : SubSeq(ws, 1, k)[i] = ws[1 + i - 1]
    BY <1>1, <1>2, SubSeqProperties
  <1>4. Len(SubSeq(ws, 1, k)) = k
    BY <1>1, <1>3
  <1>5. \A i \in 1 .. k : SubSeq(ws, 1, k)[i] = ws[i]
    BY <1>1, <1>3
  <1> QED BY <1>3, <1>4, <1>5 DEF k

(* Wait: the innermost visitor goes on to another child.                   *)
LEMMA WaitOK ==
  ASSUME NEW fs, NEW ws, NEW rs, NEW m, StackOK(fs, ws, rs, m), fs # <<>>,
         NEW n \in Nat, m <= n, NEW ss \in [Registers -> 0 .. n],
         NEW f \in FrameOver(n), Shape(f), Held(f, ss), f.use = Last(fs).use,
         OnlyWrites(rs, ss, f.use) \/ OnlyWrites(rs, ss, "none"),
         NEW k \in Nat, k = Len(ws) - Count(Last(fs)),
         NEW vs \in Seq(1 .. n), Len(vs) = k + Count(f),
         \A i \in 1 .. k : vs[i] = ws[i],
         \A i \in 1 .. Count(f) : vs[k + i] = Word(f, i)
  PROVE  StackOK(Append(Front(fs), f), vs, ss, n)
  <1> DEFINE us == SubSeq(ws, 1, k)
             gs == Front(fs)
  <1>1. m \in Nat /\ ws \in Seq(1 .. m) /\ rs \in [Registers -> 0 .. m]
    BY StackTypes
  <1>2. /\ Count(Last(fs)) \in 0 .. Len(ws)
        /\ Last(fs).use \in StatementUses => Len(ws) = Count(Last(fs))
    BY TopWords
  <1>3. us \in Seq(1 .. m) /\ Len(us) = k /\ \A i \in 1 .. k : us[i] = ws[i]
    BY SMTT(60), <1>1, <1>2, Below
  <1> HIDE DEF us, gs
  <1>4. /\ StackOK(gs, us, rs, m)
        /\ \A j \in 1 .. Len(gs) :
             /\ Last(fs).use \in gs[j].inside
             /\ Last(fs).use \in StatementUses => gs[j].at = "body"
        /\ Last(fs).use \in ExpressionUses => gs # <<>>
    <2>1. Len(us) = Len(ws) - Count(Last(fs)) /\ \A i \in 1 .. Len(us) : us[i] = ws[i]
      BY <1>3
    <2>2. OnlyWrites(rs, rs, "none")
      BY Unwritten
    <2>3. m <= m
      BY <1>1
    <2> QED BY <1>1, <1>3, <2>1, <2>2, <2>3, PopOK DEF gs
  <1>5. f.use \in StatementUses => Len(us) = 0
    BY <1>1, <1>2, <1>3, LenProperties
  <1>6. StackOK(Append(gs, f), vs, ss, n)
    BY <1>3, <1>4, <1>5, PushOK
  <1> QED BY <1>6 DEF gs

(* Again: it has done with one part, and goes on with the next.            *)
LEMMA AgainOK ==
  ASSUME NEW fs, NEW ws, NEW rs, NEW m, StackOK(fs, ws, rs, m), fs # <<>>,
         Last(fs).use \in ExpressionUses,
         NEW n \in Nat, m <= n, NEW ss \in [Registers -> 0 .. n],
         NEW f \in FrameOver(n), Shape(f), Held(f, ss), f.use \in ExpressionUses,
         OnlyWrites(rs, ss, Last(fs).use),
         NEW k \in Nat, k = Len(ws) - Count(Last(fs)),
         NEW vs \in Seq(1 .. n), Len(vs) = k + Count(f),
         \A i \in 1 .. k : vs[i] = ws[i],
         \A i \in 1 .. Count(f) : vs[k + i] = Word(f, i)
  PROVE  StackOK(Append(Front(NotedIn(fs, f.use)), f), vs, ss, n)
  <1> DEFINE hs == NotedIn(fs, f.use)
             us == SubSeq(ws, 1, k)
             gs == Front(hs)
  <1>1. m \in Nat /\ fs \in Seq(FrameOver(m)) /\ Len(fs) \in Nat /\ ws \in Seq(1 .. m)
    BY StackTypes
  <1>2. f.use \in Constructs
    BY DEF FrameOver
  <1>3. /\ hs \in Seq(FrameOver(m)) /\ Len(hs) = Len(fs)
        /\ \A j \in 1 .. Len(fs) :
             /\ hs[j].use = fs[j].use /\ hs[j].at = fs[j].at /\ hs[j].kept = fs[j].kept
             /\ hs[j].inside = fs[j].inside \cup {f.use}
    BY <1>1, <1>2, NotedProperties
  <1>4. StackOK(hs, ws, rs, m)
    BY <1>2, NoteOK
  <1> HIDE DEF hs
  <1>5. Len(fs) \in Nat \ {0} /\ Last(fs) = fs[Len(fs)]
    BY <1>1, FrontProperties
  <1>6. hs # <<>>
    <2>1. hs = <<>> => Len(hs) = 0
      OBVIOUS
    <2> QED BY <1>3, <1>5, <2>1
  <1>7. /\ gs \in Seq(FrameOver(m)) /\ Len(gs) = Len(fs) - 1 /\ Last(hs) = hs[Len(hs)]
        /\ \A i \in 1 .. Len(fs) - 1 : gs[i] = hs[i]
    <2>1. /\ Front(hs) \in Seq(FrameOver(m)) /\ Len(Front(hs)) = Len(hs) - 1
          /\ Last(hs) = hs[Len(hs)]
          /\ \A i \in 1 .. Len(hs) - 1 : Front(hs)[i] = hs[i]
      <3>1. hs \in Seq(FrameOver(m)) /\ hs # <<>>
        BY <1>3, <1>6
      <3> QED BY <3>1, FrontProperties
    <2> QED BY <1>3, <2>1 DEF gs
  <1>8. Last(hs).use = Last(fs).use /\ Count(Last(hs)) = Count(Last(fs))
    <2>1. Len(fs) \in 1 .. Len(fs)
      BY <1>5
    <2>2. Last(hs).use = Last(fs).use /\ Last(hs).kept = Last(fs).kept
      BY <1>3, <1>5, <1>7, <2>1
    <2> QED BY <2>2 DEF Count
  <1>9. Count(Last(fs)) \in 0 .. Len(ws)
    BY TopWords
  <1>10. us \in Seq(1 .. m) /\ Len(us) = k /\ \A i \in 1 .. k : us[i] = ws[i]
    BY <1>1, <1>9, Below
  <1> HIDE DEF us, gs
  <1>11. StackOK(gs, us, ss, n) /\ gs # <<>>
    <2>1. /\ Len(us) = Len(ws) - Count(Last(hs)) /\ \A i \in 1 .. Len(us) : us[i] = ws[i]
          /\ OnlyWrites(rs, ss, Last(hs).use)
      BY <1>8, <1>10
    <2>2. us \in Seq(1 .. n)
      BY <1>1, <1>10, SeqUpTo
    <2>3. /\ StackOK(hs, ws, rs, m) /\ hs # <<>>
          /\ n \in Nat /\ m <= n /\ ss \in [Registers -> 0 .. n]
      BY <1>4, <1>6
    <2>4. StackOK(Front(hs), us, ss, n)
      BY ONLY ZenonT(60), <2>1, <2>2, <2>3, PopOK
    <2>5. Last(hs).use \in ExpressionUses
      BY <1>8
    <2>6. Front(hs) # <<>>
      BY ONLY Zenon, <2>3, <2>5, AroundExpression
    <2> QED BY <2>4, <2>6 DEF gs
  <1>12. \A j \in 1 .. Len(gs) : f.use \in gs[j].inside
    <2>1. \A j \in 1 .. Len(gs) : j \in 1 .. Len(fs) /\ j \in 1 .. Len(fs) - 1
      BY <1>5, <1>7
    <2> QED BY <1>3, <1>7, <2>1
  <1>13. f.use \notin StatementUses
    BY DEF ExpressionUses, StatementUses
  <1>14. StackOK(Append(gs, f), vs, ss, n)
    <2>1. n <= n /\ OnlyWrites(ss, ss, "none")
      BY Unwritten
    <2>2. /\ Len(vs) = Len(us) + Count(f)
          /\ \A i \in 1 .. Len(us) : vs[i] = us[i]
          /\ \A i \in 1 .. Count(f) : vs[Len(us) + i] = Word(f, i)
      BY <1>10
    <2> QED BY <1>11, <1>12, <1>13, <2>1, <2>2, PushOK
  <1> QED BY <1>14 DEF gs, hs

(* No words change hands.                                                  *)
LEMMA StillOK ==
  ASSUME NEW fs, NEW ws, NEW rs, NEW m, StackOK(fs, ws, rs, m), fs # <<>>,
         Count(Last(fs)) = 0,
         NEW n \in Nat, m <= n, NEW ss \in [Registers -> 0 .. n],
         NEW f \in FrameOver(n), Shape(f), Held(f, ss), f.use = Last(fs).use, Count(f) = 0,
         OnlyWrites(rs, ss, f.use) \/ OnlyWrites(rs, ss, "none")
  PROVE  StackOK(Append(Front(fs), f), ws, ss, n)
  <1>1. m \in Nat /\ ws \in Seq(1 .. m) /\ Len(ws) \in Nat
    BY StackTypes
  <1>2. ws \in Seq(1 .. n) /\ Len(ws) = Len(ws) - Count(Last(fs)) /\ Len(ws) = Len(ws) + Count(f)
    BY <1>1, SeqUpTo
  <1>3. \A i \in 1 .. Count(f) : ws[Len(ws) + i] = Word(f, i)
    OBVIOUS
  <1> QED BY <1>1, <1>2, <1>3, WaitOK

-----------------------------------------------------------------------------
(* The invariant.                                                          *)
Control ==
  /\ mode \in {"statement", "visit", "address", "return"}
  /\ mode # "statement" => frames # <<>>
  /\ mode = "statement" => frames = <<>> \/ Top.at = "body"
  /\ mode = "return" => regs["a0"] > 0
  /\ nodes \in 0 .. MaxNodes

Kept == KeptOnStack /\ KeptInRegister

IInv == StackOK(frames, words, regs, made) /\ Control /\ Kept

LEMMA InitOK == Init => IInv
  <1> SUFFICES ASSUME Init PROVE IInv
    OBVIOUS
  <1> USE DEF Init
  <1>1. frames \in Seq(FrameOver(0)) /\ words \in Seq(1 .. 0) /\ Len(frames) = 0 /\ Len(words) = 0
    OBVIOUS
  <1>2. \A k \in 1 .. Len(frames) : Shape(frames[k]) /\ Held(frames[k], regs)
    BY <1>1
  <1>3. Nested(frames) /\ Ordered(frames)
    BY <1>1 DEF Nested, Ordered
  <1>4. Laid([k \in 1 .. 1 |-> 0], frames, words)
    BY <1>1 DEF Laid
  <1>5. StackOK(frames, words, regs, made)
    BY <1>1, <1>2, <1>3, <1>4 DEF StackOK
  <1>6. Control
    BY RegisterAssumption DEF Control
  <1>7. Kept
    BY DEF Kept, KeptOnStack, KeptInRegister
  <1> QED BY <1>5, <1>6, <1>7 DEF IInv

LEMMA FreshFrame ==
  ASSUME NEW n \in Nat, NEW use \in Constructs, NEW at \in Points, NEW kept \in Seq(1 .. n)
  PROVE  /\ Frame(use, at, kept) \in FrameOver(n)
         /\ Frame(use, at, kept).use = use /\ Frame(use, at, kept).at = at
         /\ Frame(use, at, kept).kept = kept /\ Frame(use, at, kept).inside = {}
  BY DEF Frame, FrameOver

(* What is there when a child returns.                                     *)
LEMMA Returned ==
  ASSUME IInv, NEW use, NEW at, Back(use, at)
  PROVE  /\ frames # <<>> /\ Top.use = use /\ Top.at = at /\ mode = "return"
         /\ made \in Nat /\ regs \in [Registers -> 0 .. made] /\ regs["a0"] \in 1 .. made
         /\ words \in Seq(1 .. made) /\ Len(words) \in Nat
         /\ Top.kept \in Seq(1 .. made) /\ Len(Top.kept) \in Nat
         /\ Top.use \in Constructs /\ Shape(Top) /\ Held(Top, regs)
         /\ Count(Top) \in 0 .. Len(words)
         /\ \A i \in 1 .. Count(Top) : words[Len(words) - Count(Top) + i] = Word(Top, i)
         /\ nodes \in 0 .. MaxNodes
  <1>1. frames # <<>> /\ Top.use = use /\ Top.at = at /\ mode = "return"
    BY DEF Back
  <1>2. StackOK(frames, words, regs, made) /\ regs["a0"] > 0 /\ nodes \in 0 .. MaxNodes
    BY <1>1 DEF IInv, Control
  <1>3. /\ made \in Nat /\ regs \in [Registers -> 0 .. made]
        /\ words \in Seq(1 .. made) /\ Len(words) \in Nat
    BY <1>2, StackTypes
  <1>4. regs["a0"] \in 1 .. made
    BY <1>2, <1>3, RegisterFacts
  <1>5. /\ Top \in FrameOver(made) /\ Shape(Top) /\ Held(Top, regs)
        /\ Count(Top) \in 0 .. Len(words)
        /\ \A i \in 1 .. Count(Top) : words[Len(words) - Count(Top) + i] = Word(Top, i)
    BY <1>1, <1>2, TopWords DEF Top
  <1>6. Top.kept \in Seq(1 .. made) /\ Top.use \in Constructs
    BY <1>5 DEF FrameOver
  <1>7. Len(Top.kept) \in Nat
    BY <1>6, LenProperties
  <1> QED BY <1>1, <1>2, <1>3, <1>4, <1>5, <1>6, <1>7

LEMMA KeptStays == ASSUME IInv, UNCHANGED used PROVE Kept'
  BY DEF IInv, Kept, KeptOnStack, KeptInRegister

(* The frames are not empty when one has been added, and it is the last.   *)
LEMMA Pushed ==
  ASSUME NEW n \in Nat, NEW fs \in Seq(FrameOver(n)), NEW f \in FrameOver(n)
  PROVE  Append(fs, f) # <<>> /\ Last(Append(fs, f)) = f
  <1>1. Append(fs, f) \in Seq(FrameOver(n)) /\ Len(Append(fs, f)) = Len(fs) + 1
        /\ Append(fs, f)[Len(fs) + 1] = f
    BY AppendSeq
  <1>2. Len(fs) \in Nat
    BY LenProperties
  <1>3. Append(fs, f) # <<>>
    <2>1. Append(fs, f) = <<>> => Len(Append(fs, f)) = 0
      OBVIOUS
    <2> QED BY <1>1, <1>2, <2>1
  <1> QED BY <1>1, <1>3, FrontProperties

-----------------------------------------------------------------------------
(* The four ways of a step.  A visitor starts.                             *)
LEMMA Enters ==
  ASSUME IInv, made' \in Nat, made <= made',
         NEW f \in FrameOver(made'), Shape(f), Held(f, regs'), Enter(f),
         \/ f.use \in ExpressionUses /\ frames # <<>>
         \/ f.use \in StatementUses /\ Statement,
         mode' \in {"visit", "address"},
         regs' \in [Registers -> 0 .. made'],
         OnlyWrites(regs, regs', f.use) \/ OnlyWrites(regs, regs', "none"),
         words' \in Seq(1 .. made'), Len(words') = Len(words) + Count(f),
         \A i \in 1 .. Len(words) : words'[i] = words[i],
         \A i \in 1 .. Count(f) : words'[Len(words) + i] = Word(f, i)
  PROVE  StackOK(frames', words', regs', made') /\ Control'
  <1>1. StackOK(frames, words, regs, made) /\ nodes \in 0 .. MaxNodes
    BY DEF IInv, Control
  <1>2. made \in Nat /\ frames \in Seq(FrameOver(made)) /\ f.use \in Constructs
    BY <1>1, StackTypes DEF FrameOver
  <1>3. nodes' = nodes + 1 /\ nodes < MaxNodes /\ frames' = Append(Noted(f.use), f)
    BY DEF Enter, Node
  <1>4. Noted(f.use) = NotedIn(frames, f.use)
    BY DEF Noted, NotedIn
  <1>5. \/ f.use \in ExpressionUses /\ frames # <<>>
        \/ f.use \in StatementUses /\ (frames = <<>> \/ Last(frames).at = "body")
    BY DEF Statement, Top
  <1>6. StackOK(frames', words', regs', made')
    BY <1>1, <1>3, <1>4, <1>5, EnterOK
  <1>7. NotedIn(frames, f.use) \in Seq(FrameOver(made'))
    BY <1>2, NotedProperties, FramesUpTo
  <1>8. frames' # <<>>
    BY <1>3, <1>4, <1>7, Pushed
  <1>9. nodes' \in 0 .. MaxNodes
    BY <1>1, <1>3, RegisterAssumption
  <1>10. Control'
    BY <1>8, <1>9 DEF Control
  <1> QED BY <1>6, <1>10

(* A visitor goes on to another child, or to a body.                       *)
LEMMA Waits ==
  ASSUME IInv, frames # <<>>, made' \in Nat, made <= made',
         NEW f \in FrameOver(made'), Shape(f), Held(f, regs'),
         f.use = Top.use, frames' = Append(Front(frames), f),
         mode' \in {"visit", "address"} \/ (mode' = "statement" /\ f.at = "body"),
         UNCHANGED nodes,
         regs' \in [Registers -> 0 .. made'],
         OnlyWrites(regs, regs', f.use) \/ OnlyWrites(regs, regs', "none"),
         NEW k \in Nat, k = Len(words) - Count(Top),
         words' \in Seq(1 .. made'), Len(words') = k + Count(f),
         \A i \in 1 .. k : words'[i] = words[i],
         \A i \in 1 .. Count(f) : words'[k + i] = Word(f, i)
  PROVE  StackOK(frames', words', regs', made') /\ Control'
  <1>1. StackOK(frames, words, regs, made) /\ nodes \in 0 .. MaxNodes
    BY DEF IInv, Control
  <1>2. made \in Nat /\ frames \in Seq(FrameOver(made))
    BY <1>1, StackTypes
  <1>3. Front(frames) \in Seq(FrameOver(made'))
    BY <1>2, FrontProperties, FramesUpTo
  <1>4. frames' # <<>> /\ Last(frames') = f
    BY <1>3, Pushed
  <1>5. StackOK(frames', words', regs', made')
    BY <1>1, WaitOK DEF Top
  <1>6. Control'
    BY <1>1, <1>4 DEF Control, Top
  <1> QED BY <1>5, <1>6

(* It goes on with another part of its own kind.                           *)
LEMMA Agains ==
  ASSUME IInv, frames # <<>>, Top.use \in ExpressionUses, made' \in Nat, made <= made',
         NEW f \in FrameOver(made'), Shape(f), Held(f, regs'),
         f.use \in ExpressionUses, Again(f), mode' \in {"visit", "address"},
         regs' \in [Registers -> 0 .. made'], OnlyWrites(regs, regs', Top.use),
         NEW k \in Nat, k = Len(words) - Count(Top),
         words' \in Seq(1 .. made'), Len(words') = k + Count(f),
         \A i \in 1 .. k : words'[i] = words[i],
         \A i \in 1 .. Count(f) : words'[k + i] = Word(f, i)
  PROVE  StackOK(frames', words', regs', made') /\ Control'
  <1>1. StackOK(frames, words, regs, made) /\ nodes \in 0 .. MaxNodes
    BY DEF IInv, Control
  <1>2. /\ made \in Nat /\ frames \in Seq(FrameOver(made)) /\ Len(frames) \in Nat
        /\ f.use \in Constructs
    BY <1>1, StackTypes DEF FrameOver
  <1>3. nodes' = nodes + 1 /\ nodes < MaxNodes /\ frames' = Append(Front(Noted(f.use)), f)
    BY DEF Again, Node
  <1>4. Noted(f.use) = NotedIn(frames, f.use)
    BY DEF Noted, NotedIn
  <1>5. StackOK(frames', words', regs', made')
    BY <1>1, <1>3, <1>4, AgainOK DEF Top
  <1>6. /\ NotedIn(frames, f.use) \in Seq(FrameOver(made'))
        /\ Len(NotedIn(frames, f.use)) = Len(frames)
    BY <1>2, NotedProperties, FramesUpTo
  <1>7. NotedIn(frames, f.use) # <<>>
    <2>1. NotedIn(frames, f.use) = <<>> => Len(NotedIn(frames, f.use)) = 0
      OBVIOUS
    <2>2. Len(frames) # 0
      BY <1>2, EmptySeq
    <2> QED BY <1>6, <2>1, <2>2
  <1>8. Front(NotedIn(frames, f.use)) \in Seq(FrameOver(made'))
    BY <1>6, <1>7, FrontProperties
  <1>9. frames' # <<>>
    BY <1>3, <1>4, <1>8, Pushed
  <1>10. nodes' \in 0 .. MaxNodes
    BY <1>1, <1>3, RegisterAssumption
  <1>11. Control'
    BY <1>9, <1>10 DEF Control
  <1> QED BY <1>5, <1>11

(* It has done.                                                            *)
LEMMA Leaves ==
  ASSUME IInv, frames # <<>>, made' \in Nat, made <= made', Leave, UNCHANGED nodes,
         \/ Top.use \in ExpressionUses /\ mode' = "return" /\ regs'["a0"] > 0
         \/ Top.use \in StatementUses /\ mode' = "statement",
         regs' \in [Registers -> 0 .. made'],
         OnlyWrites(regs, regs', Top.use) \/ OnlyWrites(regs, regs', "none"),
         words' \in Seq(1 .. made'), Len(words') = Len(words) - Count(Top),
         \A i \in 1 .. Len(words') : words'[i] = words[i]
  PROVE  StackOK(frames', words', regs', made') /\ Control'
  <1>1. StackOK(frames, words, regs, made) /\ nodes \in 0 .. MaxNodes
    BY DEF IInv, Control
  <1>2. frames' = Front(frames)
    BY DEF Leave
  <1>3. /\ StackOK(Front(frames), words', regs', made')
        /\ Last(frames).use \in ExpressionUses => Front(frames) # <<>>
        /\ Front(frames) # <<>> /\ Last(frames).use \in StatementUses =>
             Last(Front(frames)).at = "body"
    <2>1. /\ StackOK(frames, words, regs, made) /\ frames # <<>> /\ made' \in Nat
          /\ made <= made' /\ regs' \in [Registers -> 0 .. made']
          /\ OnlyWrites(regs, regs', Last(frames).use) \/ OnlyWrites(regs, regs', "none")
          /\ words' \in Seq(1 .. made') /\ Len(words') = Len(words) - Count(Last(frames))
          /\ \A i \in 1 .. Len(words') : words'[i] = words[i]
      BY <1>1 DEF Top
    <2>2. StackOK(Front(frames), words', regs', made')
      BY ONLY ZenonT(60), <2>1, PopOK
    <2> QED BY <1>1, <2>2, AroundExpression, AroundStatement
  <1>4. Top.use \in ExpressionUses => mode' = "return" /\ regs'["a0"] > 0 /\ frames' # <<>>
    BY <1>2, <1>3 DEF ExpressionUses, StatementUses, Top
  <1>5. Top.use \in StatementUses =>
          mode' = "statement" /\ (frames' = <<>> \/ Last(frames').at = "body")
    BY <1>2, <1>3 DEF ExpressionUses, StatementUses, Top
  <1>6. Control'
    BY <1>1, <1>4, <1>5 DEF Control, Top
  <1> QED BY <1>2, <1>3, <1>6

-----------------------------------------------------------------------------
(* A visitor that keeps nothing starts.                                    *)
LEMMA BeginsOK ==
  ASSUME IInv, NEW use \in Constructs, NEW at \in Points, Shape(Frame(use, at, <<>>)),
         at \in {"lhs", "arg", "value", "rhs", "place", "from"},
         use \notin {"Index", "Single", "Range", "Read"},
         \/ use \in ExpressionUses /\ frames # <<>>
         \/ use \in StatementUses /\ Statement,
         Enter(Frame(use, at, <<>>)), mode' \in {"visit", "address"},
         UNCHANGED <<regs, words, made, used>>
  PROVE  IInv'
  <1> DEFINE f == Frame(use, at, <<>>)
  <1>a. made' = made /\ regs' = regs /\ words' = words
    OBVIOUS
  <1>b. /\ made \in Nat /\ Len(words) \in Nat
        /\ regs \in [Registers -> 0 .. made] /\ words \in Seq(1 .. made)
    BY StackTypes DEF IInv
  <1>1. /\ made' \in Nat /\ Len(words) \in Nat
        /\ regs' \in [Registers -> 0 .. made'] /\ words' \in Seq(1 .. made')
    BY <1>a, <1>b
  <1>2. <<>> \in Seq(1 .. made)
    OBVIOUS
  <1>c. f \in FrameOver(made) /\ f.use = use /\ f.at = at /\ f.kept = <<>> /\ f.inside = {}
    BY <1>b, <1>2 DEF Frame, FrameOver
  <1>3. f \in FrameOver(made') /\ f.use = use /\ f.at = at /\ f.kept = <<>> /\ f.inside = {}
    BY <1>a, <1>c
  <1>4. Shape(f) /\ Enter(f)
    OBVIOUS
  <1> HIDE DEF f
  <1>5. Count(f) = 0 /\ Held(f, regs')
    BY <1>3 DEF Count, Held
  <1>6. /\ OnlyWrites(regs, regs', "none") /\ made <= made' /\ made' \in Nat
        /\ Len(words') = Len(words) + Count(f)
    BY <1>a, <1>b, <1>5, Unwritten
  <1>7. /\ \A i \in 1 .. Len(words) : words'[i] = words[i]
        /\ \A i \in 1 .. Count(f) : words'[Len(words) + i] = Word(f, i)
    BY <1>a, <1>5
  <1>8. StackOK(frames', words', regs', made') /\ Control'
    BY <1>1, <1>3, <1>4, <1>5, <1>6, <1>7, Enters
  <1> QED BY <1>8, KeptStays DEF IInv

(* A register is written.                                                  *)
LEMMA Written ==
  ASSUME NEW m \in Nat, NEW n \in Nat, m <= n, NEW rs \in [Registers -> 0 .. m],
         NEW r \in Registers, NEW v \in 0 .. n
  PROVE  /\ [rs EXCEPT ![r] = v] \in [Registers -> 0 .. n]
         /\ [rs EXCEPT ![r] = v][r] = v
         /\ \A q \in Registers : q # r => [rs EXCEPT ![r] = v][q] = rs[q]
  <1>1. 0 .. m \subseteq 0 .. n
    OBVIOUS
  <1>2. \A q \in Registers : rs[q] \in 0 .. n
    BY <1>1
  <1>3. rs \in [Registers -> 0 .. n]
    BY <1>2
  <1> QED BY <1>3

(* A new value in a0.                                                      *)
LEMMA ResultOK ==
  ASSUME NEW m \in Nat, NEW rs \in [Registers -> 0 .. m], NEW ss \in [Registers -> 0 .. m],
         NEW use, OnlyWrites(rs, ss, use)
  PROVE  /\ m + 1 \in Nat /\ m <= m + 1
         /\ [ss EXCEPT !["a0"] = m + 1] \in [Registers -> 0 .. m + 1]
         /\ [ss EXCEPT !["a0"] = m + 1]["a0"] > 0
         /\ OnlyWrites(rs, [ss EXCEPT !["a0"] = m + 1], use)
  <1>1. /\ [ss EXCEPT !["a0"] = m + 1] \in [Registers -> 0 .. m + 1]
        /\ [ss EXCEPT !["a0"] = m + 1]["a0"] = m + 1
        /\ \A q \in Registers : q # "a0" => [ss EXCEPT !["a0"] = m + 1][q] = ss[q]
    <2>1. m + 1 \in Nat /\ m <= m + 1 /\ m + 1 \in 0 .. m + 1 /\ "a0" \in Registers
      BY RegisterFacts
    <2> QED BY <2>1, Written
  <1>2. OnlyWrites(rs, [ss EXCEPT !["a0"] = m + 1], use)
    BY <1>1 DEF OnlyWrites
  <1> QED BY <1>1, <1>2

LEMMA AllWritten ==
  ASSUME NEW rs, NEW ss, NEW use \in StatementUses \cup {"Call"}
  PROVE  OnlyWrites(rs, ss, use)
  <1>1. Writes(use) = Registers
    BY DEF Writes, StatementUses
  <1> QED BY <1>1 DEF OnlyWrites

(* A visitor starts whose address or result is in a0 and in another        *)
(* register, or not there.                                                 *)
LEMMA TwoWritten ==
  ASSUME NEW m \in Nat, NEW n \in Nat, m <= n, NEW rs \in [Registers -> 0 .. m],
         NEW r \in Registers, NEW v \in 0 .. n, NEW q \in Registers, NEW w \in 0 .. n
  PROVE  /\ [rs EXCEPT ![r] = v, ![q] = w] \in [Registers -> 0 .. n]
         /\ [rs EXCEPT ![r] = v, ![q] = w][q] = w
         /\ q # r => [rs EXCEPT ![r] = v, ![q] = w][r] = v
         /\ \A x \in Registers \ {q, r} : [rs EXCEPT ![r] = v, ![q] = w][x] = rs[x]
  <1> DEFINE ss == [rs EXCEPT ![r] = v]
             ts == [ss EXCEPT ![q] = w]
  <1>1. ss \in [Registers -> 0 .. n] /\ ss[r] = v /\ \A x \in Registers : x # r => ss[x] = rs[x]
    BY Written
  <1> HIDE DEF ss
  <1>2. /\ ts \in [Registers -> 0 .. n] /\ ts[q] = w
        /\ \A x \in Registers : x # q => ts[x] = ss[x]
    BY <1>1, Written
  <1> HIDE DEF ts
  <1>3. /\ ts \in [Registers -> 0 .. n] /\ ts[q] = w /\ (q # r => ts[r] = v)
        /\ \A x \in Registers \ {q, r} : ts[x] = rs[x]
    BY <1>1, <1>2
  <1>4. ts = [rs EXCEPT ![r] = v, ![q] = w]
    BY DEF ts, ss
  <1> QED BY <1>3, <1>4

-----------------------------------------------------------------------------
(* Binary expressions.                                                     *)
LEMMA BinaryLhsOK ==
  ASSUME IInv, BinaryLhs
  PROVE  IInv'
  <1> DEFINE f == Frame(Top.use, "rhs", <<regs["a0"]>>)
  <1>1. PICK use \in {"Binary", "Real"} : Back(use, "lhs")
    BY DEF BinaryLhs
  <1>2. /\ frames # <<>> /\ Top.use = use /\ Top.at = "lhs"
        /\ made \in Nat /\ regs \in [Registers -> 0 .. made] /\ regs["a0"] \in 1 .. made
        /\ words \in Seq(1 .. made) /\ Len(words) \in Nat /\ Shape(Top)
    BY <1>1, Returned
  <1>3. /\ words' = Append(words, regs["a0"]) /\ made' = made /\ nodes' = nodes
        /\ regs' = IF Top.use = "Real" THEN [regs EXCEPT !["t1"] = regs["a0"]] ELSE regs
        /\ frames' = Append(Front(frames), f) /\ mode' = "visit" /\ used' = used
    BY DEF BinaryLhs, Wait
  <1>4. <<regs["a0"]>> \in Seq(1 .. made) /\ Len(<<regs["a0"]>>) = 1
    BY <1>2
  <1>a. made \in Nat /\ Top.use \in Constructs /\ "rhs" \in Points
    BY <1>2 DEF Constructs, Points
  <1>5. /\ f \in FrameOver(made) /\ f.use = Top.use /\ f.at = "rhs"
        /\ f.kept = <<regs["a0"]>> /\ f.inside = {}
    BY <1>4, <1>a DEF Frame, FrameOver
  <1> HIDE DEF f
  <1>6. Shape(f) /\ Count(f) = 1 /\ Word(f, 1) = regs["a0"] /\ Held(f, regs') /\ Count(Top) = 0
    <2>1. Shape(f)
      BY <1>2, <1>4, <1>5 DEF Shape
    <2>2. Len(Top.kept) = 0
      BY <1>2 DEF Shape
    <2> QED BY <1>2, <1>4, <1>5, <2>1, <2>2 DEF Count, Word, Held
  <1>7. regs' \in [Registers -> 0 .. made] /\ OnlyWrites(regs, regs', f.use)
    <2>1. CASE Top.use = "Real"
      <3>1. Writes(f.use) = {"t1", "t2"} /\ "t1" \in Registers /\ regs["a0"] \in 0 .. made
        BY <1>2, <1>5, <2>1, RegisterFacts DEF Writes
      <3>2. /\ regs' \in [Registers -> 0 .. made]
            /\ \A q \in Registers : q # "t1" => regs'[q] = regs[q]
        BY <1>2, <1>3, <2>1, <3>1, Written
      <3> QED BY <3>1, <3>2 DEF OnlyWrites
    <2>2. CASE Top.use = "Binary"
      BY <1>2, <1>3, <2>2 DEF OnlyWrites
    <2> QED BY <1>2, <2>1, <2>2
  <1>8. /\ words' \in Seq(1 .. made) /\ Len(words') = Len(words) + Count(f)
        /\ \A i \in 1 .. Len(words) : words'[i] = words[i]
        /\ \A i \in 1 .. Count(f) : words'[Len(words) + i] = Word(f, i)
    BY <1>2, <1>3, <1>6, AppendSeq
  <1>9. StackOK(frames', words', regs', made') /\ Control'
    <2>1. made <= made /\ Len(words) = Len(words) - Count(Top)
      BY <1>2, <1>6
    <2> QED BY <1>2, <1>3, <1>5, <1>6, <1>7, <1>8, <2>1, Waits
  <1> QED BY <1>3, <1>9, KeptStays DEF IInv

LEMMA BinaryEndOK ==
  ASSUME IInv, BinaryEnd
  PROVE  IInv'
  <1> DEFINE rs == [regs EXCEPT ![Right(Top.use)] = regs["a0"],
                                ![Left(Top.use)] = Last(words)]
  <1>1. PICK use \in {"Binary", "Real"} : Back(use, "rhs")
    BY DEF BinaryEnd
  <1>2. /\ frames # <<>> /\ Top.use = use /\ Top.at = "rhs" /\ mode = "return"
        /\ made \in Nat /\ regs \in [Registers -> 0 .. made] /\ regs["a0"] \in 1 .. made
        /\ words \in Seq(1 .. made) /\ Len(words) \in Nat /\ Shape(Top)
        /\ Top.kept \in Seq(1 .. made) /\ Count(Top) \in 0 .. Len(words)
        /\ \A i \in 1 .. Count(Top) : words[Len(words) - Count(Top) + i] = Word(Top, i)
    BY <1>1, Returned
  <1>3. /\ words' = Front(words) /\ nodes' = nodes /\ mode' = mode /\ Leave
        /\ Uses(Top.kept, <<rs[Left(Top.use)]>>) /\ Result(rs)
    BY DEF BinaryEnd
  <1>4. Len(Top.kept) = 1 /\ Count(Top) = 1 /\ Word(Top, 1) = Top.kept[1]
    BY <1>2 DEF Shape, Count, Word
  <1>5. /\ words # <<>> /\ Last(words) = words[Len(words)] /\ Last(words) \in 1 .. made
        /\ Front(words) \in Seq(1 .. made) /\ Len(Front(words)) = Len(words) - 1
        /\ \A i \in 1 .. Len(words) - 1 : Front(words)[i] = words[i]
    <2>1. words # <<>>
      BY <1>2, <1>4, EmptySeq
    <2> QED BY <1>2, <2>1, FrontProperties
  <1>6. Last(words) = Top.kept[1]
    <2>1. Len(words) - 1 + 1 = Len(words)
      BY <1>2
    <2> QED BY <1>2, <1>4, <1>5, <2>1
  <1>7. /\ rs \in [Registers -> 0 .. made] /\ OnlyWrites(regs, rs, Top.use)
        /\ rs[Left(Top.use)] = Top.kept[1]
    <2>1. CASE Top.use = "Real"
      <3>1. Left(Top.use) = "t1" /\ Right(Top.use) = "t2" /\ Writes(Top.use) = {"t1", "t2"}
        BY <2>1 DEF Left, Right, Writes
      <3> DEFINE ss == [regs EXCEPT !["t2"] = regs["a0"]]
      <3>2. "t1" \in Registers /\ "t2" \in Registers /\ regs["a0"] \in 0 .. made
            /\ Last(words) \in 0 .. made
        BY SMTT(60), <1>2, <1>5, RegisterFacts
      <3>3. ss \in [Registers -> 0 .. made] /\ \A q \in Registers : q # "t2" => ss[q] = regs[q]
        BY <1>2, <3>2, Written
      <3>4. rs = [ss EXCEPT !["t1"] = Last(words)]
        BY <3>1
      <3> HIDE DEF ss, rs
      <3>5. /\ rs \in [Registers -> 0 .. made] /\ rs["t1"] = Last(words)
            /\ \A q \in Registers : q # "t1" => rs[q] = ss[q]
        BY <1>2, <3>2, <3>3, <3>4, Written
      <3>6. OnlyWrites(regs, rs, Top.use)
        BY <3>1, <3>3, <3>5 DEF OnlyWrites
      <3> QED BY <1>6, <3>1, <3>5, <3>6
    <2>2. CASE Top.use = "Binary"
      <3>1. Left(Top.use) = "t0" /\ Right(Top.use) = "t1" /\ Writes(Top.use) = {"t0", "t1"}
        BY <2>2 DEF Left, Right, Writes
      <3> DEFINE ss == [regs EXCEPT !["t1"] = regs["a0"]]
      <3>2. "t0" \in Registers /\ "t1" \in Registers /\ regs["a0"] \in 0 .. made
            /\ Last(words) \in 0 .. made
        BY SMTT(60), <1>2, <1>5, RegisterFacts
      <3>3. ss \in [Registers -> 0 .. made] /\ \A q \in Registers : q # "t1" => ss[q] = regs[q]
        BY <1>2, <3>2, Written
      <3>4. rs = [ss EXCEPT !["t0"] = Last(words)]
        BY <3>1
      <3> HIDE DEF ss, rs
      <3>5. /\ rs \in [Registers -> 0 .. made] /\ rs["t0"] = Last(words)
            /\ \A q \in Registers : q # "t0" => rs[q] = ss[q]
        BY <1>2, <3>2, <3>3, <3>4, Written
      <3>6. OnlyWrites(regs, rs, Top.use)
        BY <3>1, <3>3, <3>5 DEF OnlyWrites
      <3> QED BY <1>6, <3>1, <3>5, <3>6
    <2> QED BY <1>2, <2>1, <2>2
  <1> HIDE DEF rs
  <1>8. /\ made' = made + 1 /\ made' \in Nat /\ made <= made'
        /\ regs' \in [Registers -> 0 .. made'] /\ OnlyWrites(regs, regs', Top.use)
        /\ regs'["a0"] > 0
    <2>1. made' = made + 1 /\ regs' = [rs EXCEPT !["a0"] = made + 1]
      BY <1>3 DEF Result
    <2> QED BY <1>2, <1>7, <2>1, ResultOK
  <1>9. /\ words' \in Seq(1 .. made') /\ Len(words') = Len(words) - Count(Top)
        /\ \A i \in 1 .. Len(words') : words'[i] = words[i]
    BY <1>2, <1>3, <1>4, <1>5, <1>8, SeqUpTo
  <1>10. StackOK(frames', words', regs', made') /\ Control'
    BY <1>2, <1>3, <1>8, <1>9, Leaves DEF ExpressionUses
  <1>11. Kept'
    <2>1. Top.kept = <<Top.kept[1]>>
      BY <1>2, <1>4, SeqOfOne
    <2>2. used'.use = use /\ used'.found = used'.wanted
      BY <1>2, <1>3, <1>7, <2>1 DEF Uses
    <2> QED BY <2>2 DEF Kept, KeptOnStack, KeptInRegister
  <1> QED BY <1>10, <1>11 DEF IInv

LEMMA BeginBinaryOK ==
  ASSUME IInv, BeginBinary
  PROVE  IInv'
  <1>1. PICK use \in {"Binary", "Real"} : Enter(Frame(use, "lhs", <<>>))
    BY DEF BeginBinary
  <1>2. mode' = "visit" /\ frames # <<>> /\ UNCHANGED <<regs, words, made, used>>
    BY DEF BeginBinary, Expression, IInv, Control
  <1>3. Shape(Frame(use, "lhs", <<>>))
    BY DEF Shape, Frame
  <1>4. use \in Constructs /\ use \in ExpressionUses /\ "lhs" \in Points
    BY DEF Constructs, ExpressionUses, Points
  <1> QED BY <1>1, <1>2, <1>3, <1>4, BeginsOK

(* ABS.                                                                    *)
LEMMA BeginAbsOK ==
  ASSUME IInv, BeginAbs
  PROVE  IInv'
  <1>1. Enter(Frame("Abs", "arg", <<>>))
    BY DEF BeginAbs
  <1>2. mode' = "visit" /\ frames # <<>> /\ UNCHANGED <<regs, words, made, used>>
    BY DEF BeginAbs, Expression, IInv, Control
  <1>3. Shape(Frame("Abs", "arg", <<>>))
    BY DEF Shape, Frame
  <1>4. "Abs" \in Constructs /\ "Abs" \in ExpressionUses /\ "arg" \in Points
    BY DEF Constructs, ExpressionUses, Points
  <1> QED BY <1>1, <1>2, <1>3, <1>4, BeginsOK

LEMMA EndAbsOK ==
  ASSUME IInv, EndAbs
  PROVE  IInv'
  <1>1. /\ Back("Abs", "arg") /\ Result([regs EXCEPT !["t0"] = 0]) /\ Leave
        /\ mode' = mode /\ UNCHANGED <<words, nodes, used>>
    BY DEF EndAbs
  <1>2. /\ frames # <<>> /\ Top.use = "Abs" /\ mode = "return"
        /\ made \in Nat /\ regs \in [Registers -> 0 .. made]
        /\ words \in Seq(1 .. made) /\ Len(words) \in Nat
    BY <1>1, Returned
  <1>3. /\ made' = made + 1 /\ made' \in Nat /\ made <= made' /\ regs'["a0"] > 0
        /\ regs' \in [Registers -> 0 .. made'] /\ OnlyWrites(regs, regs', Top.use)
    BY SMTT(60), <1>1, <1>2, RegisterFacts DEF Result, OnlyWrites, Writes
  <1>4. Count(Top) = 0
    BY <1>2 DEF Count
  <1>5. /\ words' \in Seq(1 .. made') /\ Len(words') = Len(words) - Count(Top)
        /\ \A i \in 1 .. Len(words') : words'[i] = words[i]
    BY <1>1, <1>2, <1>3, <1>4, SeqUpTo
  <1>6. StackOK(frames', words', regs', made') /\ Control'
    BY <1>1, <1>2, <1>3, <1>5, Leaves DEF ExpressionUses
  <1> QED BY <1>1, <1>6, KeptStays DEF IInv

-----------------------------------------------------------------------------
(* Indices: both start with a new address in a0 and t3.                    *)
LEMMA NewIndex ==
  ASSUME NEW m \in Nat, NEW rs \in [Registers -> 0 .. m], NEW ss,
         ss = [rs EXCEPT !["a0"] = m + 1, !["t3"] = m + 1],
         NEW f, f = Frame("Index", "index", <<m + 1>>)
  PROVE  /\ m + 1 \in Nat /\ m <= m + 1 /\ ss \in [Registers -> 0 .. m + 1]
         /\ OnlyWrites(rs, ss, "Index")
         /\ f \in FrameOver(m + 1) /\ f.use = "Index" /\ f.use \in ExpressionUses
         /\ Shape(f) /\ Count(f) = 0 /\ Held(f, ss)
  <1>1. /\ m + 1 \in Nat /\ m <= m + 1 /\ m + 1 \in 0 .. m + 1
        /\ <<m + 1>> \in Seq(1 .. m + 1) /\ "a0" \in Registers /\ "t3" \in Registers
    BY RegisterFacts
  <1>2. /\ ss \in [Registers -> 0 .. m + 1] /\ ss["t3"] = m + 1
        /\ \A x \in Registers \ {"t3", "a0"} : ss[x] = rs[x]
    BY <1>1, TwoWritten
  <1>3. OnlyWrites(rs, ss, "Index")
    BY <1>2 DEF OnlyWrites, Writes
  <1>4. /\ f.use = "Index" /\ f.at = "index" /\ f.kept = <<m + 1>> /\ f.inside = {}
        /\ f \in FrameOver(m + 1)
    BY <1>1 DEF Frame, FrameOver, Constructs, Points
  <1>5. f.kept[1] = m + 1 /\ Len(f.kept) = 1
    BY <1>4
  <1>6. Shape(f) /\ Count(f) = 0 /\ f.use \in ExpressionUses
    BY <1>4, <1>5 DEF Shape, Count, ExpressionUses
  <1>7. Held(f, ss)
    BY <1>2, <1>4, <1>5 DEF Held
  <1> QED BY <1>1, <1>2, <1>3, <1>4, <1>6, <1>7

(* The base is found in t3, unless a spoiler was visited.                  *)
LEMMA IndexUses ==
  ASSUME IInv, Back("Index", "index"), Uses(Top.kept, <<regs["t3"]>>)
  PROVE  Kept'
  <1>1. Top.use = "Index" /\ Top.kept \in Seq(1 .. made) /\ Shape(Top) /\ Held(Top, regs)
    BY Returned
  <1>2. Top.kept = <<Top.kept[1]>>
    <2>1. Len(Top.kept) = 1
      BY <1>1 DEF Shape
    <2> QED BY <1>1, <2>1, SeqOfOne
  <1>3. \/ <<regs["t3"]>> = Top.kept
        \/ Top.inside \cap Spoilers(Top.use, Top.at) # {}
    BY <1>1, <1>2 DEF Held
  <1>4. /\ used'.use = "Index" /\ used'.use = Top.use /\ used'.at = Top.at
        /\ used'.inside = Top.inside
        /\ used'.wanted = Top.kept /\ used'.found = <<regs["t3"]>>
    BY <1>1 DEF Uses
  <1>5. KeptInRegister'
    BY <1>3, <1>4 DEF KeptInRegister
  <1> QED BY <1>4, <1>5 DEF Kept, KeptOnStack

LEMMA BeginIndexOK ==
  ASSUME IInv, BeginIndex
  PROVE  IInv'
  <1> DEFINE f == Frame("Index", "index", <<made + 1>>)
  <1>1. /\ frames # <<>> /\ mode' = "visit" /\ made' = made + 1 /\ words' = words /\ used' = used
        /\ regs' = [regs EXCEPT !["a0"] = made + 1, !["t3"] = made + 1] /\ Enter(f)
    BY DEF BeginIndex, Place, IInv, Control
  <1>2. /\ made \in Nat /\ regs \in [Registers -> 0 .. made]
        /\ words \in Seq(1 .. made) /\ Len(words) \in Nat
    BY StackTypes DEF IInv
  <1>3. f = Frame("Index", "index", <<made + 1>>)
    OBVIOUS
  <1> HIDE DEF f
  <1>4. /\ made + 1 \in Nat /\ made <= made + 1 /\ regs' \in [Registers -> 0 .. made + 1]
        /\ OnlyWrites(regs, regs', "Index")
        /\ f \in FrameOver(made + 1) /\ f.use = "Index" /\ f.use \in ExpressionUses
        /\ Shape(f) /\ Count(f) = 0 /\ Held(f, regs')
    BY <1>1, <1>2, <1>3, NewIndex
  <1>5. /\ words' \in Seq(1 .. made + 1) /\ Len(words') = Len(words) + Count(f)
        /\ \A i \in 1 .. Len(words) : words'[i] = words[i]
        /\ \A i \in 1 .. Count(f) : words'[Len(words) + i] = Word(f, i)
    BY <1>1, <1>2, <1>4, SeqUpTo
  <1>6. StackOK(frames', words', regs', made') /\ Control'
    BY <1>1, <1>4, <1>5, Enters
  <1> QED BY <1>1, <1>6, KeptStays DEF IInv

LEMMA EndIndexOK ==
  ASSUME IInv, EndIndex
  PROVE  IInv'
  <1>1. /\ Back("Index", "index") /\ Uses(Top.kept, <<regs["t3"]>>)
        /\ Leave /\ mode' = mode /\ UNCHANGED <<words, nodes>>
    BY DEF EndIndex
  <1>2. PICK big \in BOOLEAN : Result(IF big THEN [regs EXCEPT !["t4"] = 0] ELSE regs)
    BY DEF EndIndex
  <1> DEFINE ss == IF big THEN [regs EXCEPT !["t4"] = 0] ELSE regs
  <1>3. /\ frames # <<>> /\ Top.use = "Index" /\ mode = "return"
        /\ made \in Nat /\ regs \in [Registers -> 0 .. made]
        /\ words \in Seq(1 .. made) /\ Len(words) \in Nat
    BY <1>1, Returned
  <1>4. ss \in [Registers -> 0 .. made] /\ OnlyWrites(regs, ss, "Index")
    <2>1. CASE big
      <3>1. "t4" \in Registers /\ 0 \in 0 .. made /\ made <= made
        BY <1>3, RegisterFacts
      <3>2. ss \in [Registers -> 0 .. made] /\ \A q \in Registers : q # "t4" => ss[q] = regs[q]
        BY <1>3, <2>1, <3>1, Written
      <3> QED BY <3>2 DEF OnlyWrites, Writes
    <2>2. CASE ~big
      BY <1>3, <2>2 DEF OnlyWrites
    <2> QED BY <2>1, <2>2
  <1>5. made' = made + 1 /\ regs' = [ss EXCEPT !["a0"] = made + 1]
    BY <1>2 DEF Result
  <1> HIDE DEF ss
  <1>6. /\ made' \in Nat /\ made <= made' /\ regs'["a0"] > 0
        /\ regs' \in [Registers -> 0 .. made'] /\ OnlyWrites(regs, regs', Top.use)
    BY <1>3, <1>4, <1>5, ResultOK
  <1>7. Count(Top) = 0
    BY <1>3 DEF Count
  <1>8. /\ words' \in Seq(1 .. made') /\ Len(words') = Len(words) - Count(Top)
        /\ \A i \in 1 .. Len(words') : words'[i] = words[i]
    BY <1>1, <1>3, <1>6, <1>7, SeqUpTo
  <1>9. StackOK(frames', words', regs', made') /\ Control'
    BY <1>1, <1>3, <1>6, <1>8, Leaves DEF ExpressionUses
  <1> QED BY <1>1, <1>9, IndexUses DEF IInv

LEMMA NextIndexOK ==
  ASSUME IInv, NextIndex
  PROVE  IInv'
  <1> DEFINE f == Frame("Index", "index", <<made + 1>>)
  <1>1. /\ Back("Index", "index") /\ Uses(Top.kept, <<regs["t3"]>>)
        /\ mode' = "visit" /\ made' = made + 1 /\ words' = words
        /\ regs' = [regs EXCEPT !["a0"] = made + 1, !["t3"] = made + 1] /\ Again(f)
    BY DEF NextIndex
  <1>2. /\ frames # <<>> /\ Top.use = "Index" /\ made \in Nat /\ regs \in [Registers -> 0 .. made]
        /\ words \in Seq(1 .. made) /\ Len(words) \in Nat
    BY <1>1, Returned
  <1>3. f = Frame("Index", "index", <<made + 1>>)
    OBVIOUS
  <1> HIDE DEF f
  <1>4. /\ made + 1 \in Nat /\ made <= made + 1 /\ regs' \in [Registers -> 0 .. made + 1]
        /\ OnlyWrites(regs, regs', "Index")
        /\ f \in FrameOver(made + 1) /\ f.use = "Index" /\ f.use \in ExpressionUses
        /\ Shape(f) /\ Count(f) = 0 /\ Held(f, regs')
    BY <1>1, <1>2, <1>3, NewIndex
  <1>5. Count(Top) = 0 /\ Len(words) = Len(words) - Count(Top)
    BY <1>2 DEF Count
  <1>6. /\ words' \in Seq(1 .. made + 1) /\ Len(words') = Len(words) + Count(f)
        /\ \A i \in 1 .. Len(words) : words'[i] = words[i]
        /\ \A i \in 1 .. Count(f) : words'[Len(words) + i] = Word(f, i)
    BY <1>1, <1>2, <1>4, SeqUpTo
  <1>7. StackOK(frames', words', regs', made') /\ Control'
    BY <1>1, <1>2, <1>4, <1>5, <1>6, Agains
  <1> QED BY <1>1, <1>7, IndexUses DEF IInv

-----------------------------------------------------------------------------
(* Calls.                                                                  *)
LEMMA BeginCallOK ==
  ASSUME IInv, BeginCall
  PROVE  IInv'
  <1>1. Enter(Frame("Call", "arg", <<>>))
    BY DEF BeginCall
  <1>2. mode' = "visit" /\ frames # <<>> /\ UNCHANGED <<regs, words, made, used>>
    BY DEF BeginCall, Expression, IInv, Control
  <1>3. Shape(Frame("Call", "arg", <<>>))
    BY RegisterAssumption DEF Shape, Frame
  <1>4. "Call" \in Constructs /\ "Call" \in ExpressionUses /\ "arg" \in Points
    BY DEF Constructs, ExpressionUses, Points
  <1> QED BY <1>1, <1>2, <1>3, <1>4, BeginsOK

(* An argument but the first is in a0 and in its own register; the first   *)
(* is in a0, its own.                                                      *)
LEMMA MovedOK ==
  ASSUME IInv, Back("Call", "arg")
  PROVE  /\ Len(Top.kept) + 1 \in 1 .. ArgRegs
         /\ Moved \in [Registers -> 0 .. made]
         /\ Moved[A[Len(Top.kept) + 1]] = regs["a0"]
  <1>1. /\ frames # <<>> /\ Top.use = "Call" /\ made \in Nat /\ regs \in [Registers -> 0 .. made]
        /\ regs["a0"] \in 1 .. made /\ Shape(Top)
        /\ Top.kept \in Seq(1 .. made) /\ Len(Top.kept) \in Nat
    BY Returned
  <1>2. Len(Top.kept) + 1 \in 1 .. ArgRegs
    BY <1>1, RegisterAssumption DEF Shape
  <1>3. A[Len(Top.kept) + 1] \in Registers /\ made <= made /\ regs["a0"] \in 0 .. made
    BY <1>1, <1>2, RegisterFacts
  <1>4. CASE Top.kept = <<>>
    <2>1. A[Len(Top.kept) + 1] = "a0"
      BY <1>4 DEF A
    <2> QED BY <1>1, <1>2, <1>4, <2>1 DEF Moved
  <1>5. CASE Top.kept # <<>>
    <2>1. Moved = [regs EXCEPT ![A[Len(Top.kept) + 1]] = regs["a0"]]
      BY <1>5 DEF Moved
    <2>2. /\ Moved \in [Registers -> 0 .. made]
          /\ Moved[A[Len(Top.kept) + 1]] = regs["a0"]
      BY <1>1, <1>3, <2>1, Written
    <2> QED BY <1>2, <2>2
  <1> QED BY <1>4, <1>5

LEMMA OneMore ==
  ASSUME NEW l \in Nat, NEW c \in 0 .. l
  PROVE  l + 1 = (l - c) + (c + 1)
  OBVIOUS

LEMMA CallArgOK ==
  ASSUME IInv, CallArg
  PROVE  IInv'
  <1> DEFINE vs == Append(Top.kept, regs["a0"])
             f == Frame(Top.use, "arg", vs)
             k == Len(words) - Count(Top)
  <1>1. /\ Back("Call", "arg") /\ Len(Top.kept) + 1 < ArgRegs /\ Len(Top.kept) + 1 < MaxArgs
        /\ regs' = Moved /\ words' = Append(words, regs["a0"])
        /\ frames' = Append(Front(frames), f) /\ mode' = "visit"
        /\ made' = made /\ nodes' = nodes /\ used' = used
    BY DEF CallArg, Wait
  <1>2. /\ frames # <<>> /\ Top.use = "Call"
        /\ made \in Nat /\ regs["a0"] \in 1 .. made
        /\ words \in Seq(1 .. made) /\ Len(words) \in Nat
        /\ Top.kept \in Seq(1 .. made) /\ Len(Top.kept) \in Nat
        /\ Count(Top) \in 0 .. Len(words)
        /\ \A i \in 1 .. Count(Top) : words[Len(words) - Count(Top) + i] = Word(Top, i)
    BY <1>1, Returned
  <1>3. /\ vs \in Seq(1 .. made) /\ Len(vs) = Len(Top.kept) + 1
        /\ \A i \in 1 .. Len(Top.kept) : vs[i] = Top.kept[i]
        /\ vs[Len(Top.kept) + 1] = regs["a0"]
    BY <1>2, AppendSeq
  <1> HIDE DEF vs
  <1>4. f \in FrameOver(made) /\ f.use = "Call" /\ f.at = "arg" /\ f.kept = vs /\ f.inside = {}
    BY <1>2, <1>3 DEF Frame, FrameOver, Constructs, Points
  <1> HIDE DEF f
  <1>5. Shape(f) /\ Held(f, regs') /\ Count(f) = Len(Top.kept) + 1 /\ Count(Top) = Len(Top.kept)
    BY <1>1, <1>2, <1>3, <1>4 DEF Shape, Held, Count
  <1>6. regs' \in [Registers -> 0 .. made] /\ OnlyWrites(regs, regs', f.use)
    BY <1>1, <1>4, MovedOK, AllWritten
  <1>7. /\ words' \in Seq(1 .. made) /\ Len(words') = Len(words) + 1
        /\ \A i \in 1 .. Len(words) : words'[i] = words[i]
        /\ words'[Len(words) + 1] = regs["a0"]
    BY <1>1, <1>2, AppendSeq
  <1>12. k = Len(words) - Count(Top)
    OBVIOUS
  <1> HIDE DEF k
  <1>8. k \in Nat /\ k + Len(Top.kept) = Len(words) /\ Len(words') = k + Count(f)
    <2>1. /\ Len(words) \in Nat /\ Len(Top.kept) \in Nat /\ Len(Top.kept) \in 0 .. Len(words)
          /\ Len(words') = Len(words) + 1 /\ Count(f) = Len(Top.kept) + 1
          /\ k = Len(words) - Len(Top.kept)
      BY <1>2, <1>5, <1>7, <1>12
    <2>2. k \in Nat
      BY <2>1
    <2>3. k + Len(Top.kept) = Len(words)
      BY <2>1
    <2>4. Len(words') = k + Count(f)
      <3>1. Len(words) + 1 = (Len(words) - Len(Top.kept)) + (Len(Top.kept) + 1)
        BY <2>1, OneMore
      <3> QED BY <2>1, <3>1
    <2> QED BY <2>2, <2>3, <2>4
  <1>9. \A i \in 1 .. k : words'[i] = words[i]
    <2>1. \A i \in 1 .. k : i \in 1 .. Len(words)
      BY <1>2, <1>8
    <2> QED BY <1>7, <2>1
  <1>10. \A i \in 1 .. Count(f) : words'[k + i] = Word(f, i)
    <2> TAKE i \in 1 .. Count(f)
    <2>1. Word(f, i) = vs[i]
      BY <1>4 DEF Word
    <2>2. CASE i = Len(Top.kept) + 1
      <3>1. k + i = Len(words) + 1
        <4>1. k \in Nat /\ Len(Top.kept) \in Nat /\ k + Len(Top.kept) = Len(words)
          BY <1>2, <1>8
        <4> QED BY <2>2, <4>1
      <3> QED BY <1>3, <1>7, <2>1, <2>2, <3>1
    <2>3. CASE i # Len(Top.kept) + 1
      <3>1. i \in 1 .. Len(Top.kept)
        BY <1>2, <1>5, <2>3
      <3>2. k + i \in 1 .. Len(words)
        <4>1. k \in Nat /\ Len(Top.kept) \in Nat /\ k + Len(Top.kept) = Len(words)
          BY <1>2, <1>8
        <4> QED BY <3>1, <4>1
      <3>3. words[k + i] = Word(Top, i)
        <4>1. i \in 1 .. Count(Top)
          BY <1>5, <3>1
        <4> QED BY <1>2, <1>12, <4>1
      <3>4. Word(Top, i) = Top.kept[i]
        BY <1>2 DEF Word
      <3> QED BY <1>3, <1>7, <2>1, <3>1, <3>2, <3>3, <3>4
    <2> QED BY <2>2, <2>3
  <1>11. f.use = Top.use /\ made <= made
    BY <1>2, <1>4
  <1>13. StackOK(frames', words', regs', made') /\ Control'
    BY <1>1, <1>2, <1>4, <1>5, <1>6, <1>7, <1>8, <1>9, <1>10, <1>11, <1>12, Waits
  <1> QED BY <1>1, <1>13, KeptStays DEF IInv

LEMMA CalledOK ==
  ASSUME made \in Nat, Called
  PROVE  /\ made' = made + 1 /\ made' \in Nat /\ made <= made'
         /\ regs' \in [Registers -> 0 .. made'] /\ regs'["a0"] > 0
         /\ OnlyWrites(regs, regs', "Call")
  <1> DEFINE rs == [r \in Registers |-> 0]
  <1>1. rs \in [Registers -> 0 .. made]
    OBVIOUS
  <1>2. made' = made + 1 /\ regs' = [rs EXCEPT !["a0"] = made + 1]
    BY DEF Called, Result
  <1>3. OnlyWrites(rs, rs, "none")
    BY Unwritten
  <1> HIDE DEF rs
  <1>4. /\ made' \in Nat /\ made <= made'
         /\ regs' \in [Registers -> 0 .. made'] /\ regs'["a0"] > 0
    BY <1>1, <1>2, <1>3, ResultOK
  <1>5. OnlyWrites(regs, regs', "Call")
    BY AllWritten
  <1> QED BY <1>2, <1>4, <1>5

LEMMA CallNothingOK ==
  ASSUME IInv, CallNothing
  PROVE  IInv'
  <1>1. /\ mode = "visit" /\ mode' = "return" /\ nodes < MaxNodes /\ nodes' = nodes + 1
        /\ frames' = Noted("Call") /\ Called /\ words' = words /\ used' = used
    BY DEF CallNothing, Expression, Node
  <1>2. StackOK(frames, words, regs, made) /\ frames # <<>> /\ nodes \in 0 .. MaxNodes
    BY <1>1 DEF IInv, Control
  <1>3. made \in Nat /\ frames \in Seq(FrameOver(made)) /\ Len(frames) \in Nat
    BY <1>2, StackTypes
  <1>4. /\ made' \in Nat /\ made <= made'
        /\ regs' \in [Registers -> 0 .. made'] /\ regs'["a0"] > 0
        /\ OnlyWrites(regs, regs', "Call")
    BY <1>1, <1>3, CalledOK
  <1>5. Noted("Call") = NotedIn(frames, "Call")
    BY DEF Noted, NotedIn
  <1>6. "Call" \in Constructs /\ "Call" \in ExpressionUses
    BY DEF Constructs, ExpressionUses
  <1>7. /\ StackOK(frames', words, regs, made)
        /\ Len(frames') = Len(frames) /\ \A k \in 1 .. Len(frames') : "Call" \in frames'[k].inside
    <2>1. StackOK(NotedIn(frames, "Call"), words, regs, made)
      BY <1>2, <1>6, NoteOK
    <2>2. /\ Len(NotedIn(frames, "Call")) = Len(frames)
          /\ \A k \in 1 .. Len(frames) :
               NotedIn(frames, "Call")[k].inside = frames[k].inside \cup {"Call"}
      BY <1>3, <1>6, NotedProperties
    <2> QED BY <1>1, <1>5, <2>1, <2>2
  <1>8. StackOK(frames', words', regs', made')
    BY <1>1, <1>4, <1>6, <1>7, KeepOK
  <1>9. frames' # <<>>
    <2>1. Len(frames) # 0
      BY <1>2, <1>3, EmptySeq
    <2>2. frames' = <<>> => Len(frames') = 0
      OBVIOUS
    <2> QED BY <1>7, <2>1, <2>2
  <1>10. nodes' \in 0 .. MaxNodes
    BY <1>1, <1>2, RegisterAssumption
  <1>11. Control'
    BY <1>1, <1>4, <1>9, <1>10 DEF Control
  <1> QED BY <1>1, <1>8, <1>11, KeptStays DEF IInv

(* The arguments are found in the words and in the register of the last.   *)
LEMMA CallFinds ==
  ASSUME NEW m \in Nat, NEW kept \in Seq(1 .. m), NEW v \in 1 .. m, NEW l, l = Len(kept) + 1,
         NEW n \in Nat, n = l \/ n = l + 1, NEW ws, NEW left, NEW rs, NEW found,
         found = [i \in 1 .. l |-> IF i < n THEN ws[left + i] ELSE rs[A[i]]],
         \A i \in 1 .. Len(kept) : ws[left + i] = kept[i],
         n = l + 1 => ws[left + l] = v,
         rs[A[l]] = v
  PROVE  found = Append(kept, v)
  <1>1. /\ Len(kept) \in Nat /\ l \in Nat
        /\ Append(kept, v) \in Seq(1 .. m) /\ Len(Append(kept, v)) = l
        /\ \A i \in 1 .. Len(kept) : Append(kept, v)[i] = kept[i]
        /\ Append(kept, v)[l] = v
    <2>1. Len(kept) \in Nat
      BY LenProperties
    <2> QED BY <2>1, AppendSeq
  <1>2. ASSUME NEW i \in 1 .. l
        PROVE  found[i] = Append(kept, v)[i]
    <2>1. CASE i = l
      <3>1. CASE n = l
        <4>1. ~(i < n)
          BY <1>1, <2>1, <3>1
        <4> QED BY <1>1, <2>1, <4>1
      <3>2. CASE n = l + 1
        <4>1. i < n
          BY <1>1, <2>1, <3>2
        <4> QED BY <1>1, <2>1, <3>2, <4>1
      <3> QED BY <3>1, <3>2
    <2>2. CASE i # l
      <3>1. i \in 1 .. Len(kept) /\ i < n
        BY <1>1, <2>2
      <3> QED BY <1>1, <3>1
    <2> QED BY <2>1, <2>2
  <1>3. Append(kept, v) \in [1 .. l -> 1 .. m]
    BY <1>1, LenProperties
  <1>4. Append(kept, v) = [i \in 1 .. l |-> Append(kept, v)[i]]
    BY <1>3
  <1> QED BY <1>2, <1>4

LEMMA CallEndOK ==
  ASSUME IInv, CallEnd
  PROVE  IInv'
  <1> DEFINE last == Len(Top.kept) + 1
             Ws(n) == IF n = last THEN words ELSE Append(words, regs["a0"])
             Below0(n) == Len(Ws(n)) - (n - 1)
  <1>1. /\ Back("Call", "arg") /\ Called /\ Leave /\ mode' = mode /\ nodes' = nodes
    BY DEF CallEnd
  <1>2. PICK n \in last .. MaxArgs :
          /\ n = last \/ last = ArgRegs
          /\ words' = SubSeq(Ws(n), 1, Below0(n))
          /\ Uses(Append(Top.kept, regs["a0"]),
                  [i \in 1 .. last |-> IF i < n THEN Ws(n)[Below0(n) + i] ELSE Moved[A[i]]])
    BY DEF CallEnd
  <1>3. /\ frames # <<>> /\ Top.use = "Call" /\ mode = "return"
        /\ made \in Nat /\ regs["a0"] \in 1 .. made
        /\ words \in Seq(1 .. made) /\ Len(words) \in Nat
        /\ Top.kept \in Seq(1 .. made) /\ Len(Top.kept) \in Nat
        /\ Count(Top) \in 0 .. Len(words)
        /\ \A i \in 1 .. Count(Top) : words[Len(words) - Count(Top) + i] = Word(Top, i)
    BY <1>1, Returned
  <1>4. /\ Count(Top) = Len(Top.kept) /\ \A i \in 1 .. Count(Top) : Word(Top, i) = Top.kept[i]
    BY <1>3 DEF Count, Word
  <1> DEFINE k == Len(words) - Len(Top.kept)
  <1>a. last = Len(Top.kept) + 1 /\ k = Len(words) - Len(Top.kept)
    OBVIOUS
  <1>b. Len(words) \in Nat /\ Len(Top.kept) \in 0 .. Len(words) /\ Len(Top.kept) \in Nat
    BY <1>3, <1>4
  <1>5. k \in Nat /\ k <= Len(words) /\ k + last = Len(words) + 1
    <2>1. k \in Nat /\ k <= Len(words)
      BY <1>b
    <2>2. Len(words) + 1 = (Len(words) - Len(Top.kept)) + (Len(Top.kept) + 1)
      BY <1>b, OneMore
    <2> QED BY <2>1, <2>2
  <1>6. \A i \in 1 .. Len(Top.kept) : words[k + i] = Top.kept[i] /\ k + i \in 1 .. Len(words)
    <2>1. \A i \in 1 .. Len(Top.kept) : words[k + i] = Top.kept[i]
      BY <1>3, <1>4
    <2>2. Len(words) \in Nat /\ Len(Top.kept) \in 0 .. Len(words)
      BY <1>3, <1>4
    <2>3. \A i \in 1 .. Len(Top.kept) : k + i \in 1 .. Len(words)
      BY <2>2
    <2> QED BY <2>1, <2>3
  <1>7. n \in Nat /\ (n = last \/ n = last + 1)
    <2>1. last \in Nat /\ n \in Int /\ n >= last /\ n <= MaxArgs /\ (n = last \/ last = ArgRegs)
      BY <1>2, <1>b, RegisterAssumption
    <2> HIDE DEF last
    <2>2. n = last \/ n = last + 1
      BY <2>1, RegisterAssumption
    <2> QED BY <2>1, <2>2
  <1>8. /\ Ws(n) \in Seq(1 .. made) /\ Len(Ws(n)) \in Nat /\ k <= Len(Ws(n))
        /\ Below0(n) = k /\ \A i \in 1 .. Len(words) : Ws(n)[i] = words[i]
        /\ n = last + 1 => Ws(n)[Len(words) + 1] = regs["a0"]
    <2>1. CASE n = last
      <3>1. Ws(n) = words /\ n # last + 1
        BY <1>3, <2>1
      <3>2. Below0(n) = k
        BY <1>3, <2>1, <3>1
      <3> QED BY <1>3, <1>5, <3>1, <3>2
    <2>2. CASE n # last
      <3>1. Ws(n) = Append(words, regs["a0"]) /\ n = last + 1
        BY <1>7, <2>2
      <3>2. /\ Ws(n) \in Seq(1 .. made) /\ Len(Ws(n)) = Len(words) + 1
            /\ \A i \in 1 .. Len(words) : Ws(n)[i] = words[i]
            /\ Ws(n)[Len(words) + 1] = regs["a0"]
        <4>1. /\ Append(words, regs["a0"]) \in Seq(1 .. made)
              /\ Len(Append(words, regs["a0"])) = Len(words) + 1
              /\ \A i \in 1 .. Len(words) : Append(words, regs["a0"])[i] = words[i]
              /\ Append(words, regs["a0"])[Len(words) + 1] = regs["a0"]
          BY <1>3, AppendSeq
        <4> QED BY <3>1, <4>1
      <3>3. Below0(n) = k
        <4>1. Len(words) \in Nat /\ Len(Top.kept) \in Nat
          BY <1>3
        <4>2. Len(words) + 1 - (Len(Top.kept) + 1 + 1 - 1) = Len(words) - Len(Top.kept)
          BY <4>1
        <4>3. Len(Ws(n)) = Len(words) + 1 /\ n = Len(Top.kept) + 1 + 1
          BY <3>1, <3>2
        <4>4. Len(Ws(n)) - (n - 1) = Len(words) - Len(Top.kept)
          <5> DEFINE ws == Ws(n)
          <5>1. Len(ws) = Len(words) + 1
            BY <4>3
          <5> HIDE DEF ws
          <5>2. Len(ws) - (n - 1) = Len(words) - Len(Top.kept)
            BY <4>1, <4>2, <4>3, <5>1
          <5> QED BY <5>2 DEF ws
        <4> QED BY <4>4
      <3>4. Len(Ws(n)) \in Nat /\ k <= Len(Ws(n))
        <4> DEFINE ws == Ws(n)
        <4>1. Len(ws) = Len(words) + 1
          BY <3>2
        <4> HIDE DEF ws, k
        <4>2. Len(ws) \in Nat /\ k <= Len(ws)
          BY <1>b, <1>5, <4>1
        <4> QED BY <4>2 DEF ws
      <3> QED BY <3>2, <3>3, <3>4
    <2> QED BY <2>1, <2>2
  <1>9. Len(words) - Count(Top) = k
    BY <1>4
  <1> HIDE DEF k
  <1>10. /\ made' = made + 1 /\ made' \in Nat /\ made <= made'
         /\ regs' \in [Registers -> 0 .. made'] /\ regs'["a0"] > 0
         /\ OnlyWrites(regs, regs', Top.use)
    BY <1>1, <1>3, CalledOK
  <1>11. words' = SubSeq(Ws(n), 1, k)
    BY <1>2, <1>8
  <1>12. Len(words') = k /\ words' \in Seq(1 .. made') /\ \A i \in 1 .. k : words'[i] = words[i]
    <2> DEFINE ws == Ws(n)
               c == Len(ws) - k
    <2>1. ws \in Seq(1 .. made) /\ Len(ws) \in Nat /\ k <= Len(ws) /\ k \in Nat
      BY <1>5, <1>8
    <2> HIDE DEF ws
    <2>2. c \in 0 .. Len(ws) /\ Len(ws) - c = k
      BY <2>1
    <2>3. /\ SubSeq(ws, 1, k) \in Seq(1 .. made) /\ Len(SubSeq(ws, 1, k)) = k
          /\ \A i \in 1 .. k : SubSeq(ws, 1, k)[i] = ws[i]
      BY SMTT(60), <1>3, <2>1, <2>2, Below
    <2>4. \A i \in 1 .. k : i \in 1 .. Len(words)
      BY <1>3, <1>5
    <2>5. \A i \in 1 .. k : ws[i] = words[i]
      BY <1>8, <2>4 DEF ws
    <2>6. words' = SubSeq(ws, 1, k)
      BY <1>11 DEF ws
    <2> QED BY SMTT(60), <1>3, <1>10, <2>3, <2>5, <2>6, SeqUpTo
  <1>13. StackOK(frames', words', regs', made') /\ Control'
    BY <1>1, <1>3, <1>9, <1>10, <1>12, Leaves DEF ExpressionUses
  <1>14. [i \in 1 .. last |-> IF i < n THEN Ws(n)[Below0(n) + i] ELSE Moved[A[i]]]
           = Append(Top.kept, regs["a0"])
    <2> DEFINE ws == Ws(n)
               left == Below0(n)
    <2>1. \A i \in 1 .. Len(Top.kept) : ws[left + i] = Top.kept[i]
      BY <1>6, <1>8
    <2>2. n = last + 1 => ws[left + last] = regs["a0"]
      BY <1>5, <1>8
    <2>3. Moved[A[last]] = regs["a0"]
      BY <1>1, MovedOK
    <2> HIDE DEF ws, left
    <2>4. [i \in 1 .. last |-> IF i < n THEN ws[left + i] ELSE Moved[A[i]]]
            = Append(Top.kept, regs["a0"])
      BY <1>3, <1>7, <2>1, <2>2, <2>3, CallFinds
    <2> QED BY <2>4 DEF ws, left
  <1>15. used'.use = "Call" /\ used'.found = used'.wanted
    BY <1>2, <1>3, <1>14 DEF Uses
  <1>16. Kept'
    BY <1>15 DEF Kept, KeptOnStack, KeptInRegister
  <1> QED BY <1>13, <1>16 DEF IInv

-----------------------------------------------------------------------------
(* Sets: an element starts with the set so far as a new value.             *)
LEMMA NewElement ==
  ASSUME NEW n \in Nat \ {0}, NEW ws \in Seq(1 .. n),
         NEW use, use = "Single" \/ use = "Range",
         NEW f, f = Frame(use, FirstPart(use), <<n>>),
         NEW vs, vs = PushedFirst(use, ws, n)
  PROVE  /\ f \in FrameOver(n) /\ f.use = use /\ f.use \in ExpressionUses
         /\ Shape(f) /\ \A ss : Held(f, ss)
         /\ vs \in Seq(1 .. n) /\ Len(vs) = Len(ws) + Count(f)
         /\ \A i \in 1 .. Len(ws) : vs[i] = ws[i]
         /\ Count(f) = 0 \/ (Count(f) = 1 /\ vs[Len(vs)] = Word(f, 1))
  <1>1. /\ n \in 1 .. n /\ <<n>> \in Seq(1 .. n) /\ Len(<<n>>) = 1 /\ <<n>>[1] = n
        /\ Len(ws) \in Nat
    BY LenProperties
  <1>2. /\ f.use = use /\ f.at = FirstPart(use) /\ f.kept = <<n>> /\ f.inside = {}
        /\ f \in FrameOver(n) /\ f.use \in ExpressionUses
    <2>1. FirstPart(use) \in Points /\ use \in Constructs /\ use \in ExpressionUses
      BY DEF FirstPart, Points, Constructs, ExpressionUses
    <2> QED BY <1>1, <2>1 DEF Frame, FrameOver
  <1>3. Shape(f) /\ \A ss : Held(f, ss)
    <2>1. Shape(f)
      BY <1>1, <1>2 DEF Shape, FirstPart
    <2>2. \A ss : Held(f, ss)
      BY <1>2 DEF Held
    <2> QED BY <2>1, <2>2
  <1>4. CASE use = "Single"
    <2>1. vs = Append(ws, n) /\ Count(f) = 1 /\ Word(f, 1) = n
      BY <1>1, <1>2, <1>4 DEF PushedFirst, Count, Word
    <2>2. /\ vs \in Seq(1 .. n) /\ Len(vs) = Len(ws) + 1
          /\ \A i \in 1 .. Len(ws) : vs[i] = ws[i]
          /\ vs[Len(ws) + 1] = n
      BY <1>1, <2>1, AppendSeq
    <2>3. vs[Len(vs)] = Word(f, 1)
      BY <2>1, <2>2
    <2> QED BY <1>2, <1>3, <2>1, <2>2, <2>3
  <1>5. CASE use = "Range"
    <2>1. vs = ws /\ Count(f) = 0
      BY <1>1, <1>2, <1>5 DEF PushedFirst, Count
    <2> QED BY <1>1, <1>2, <1>3, <2>1
  <1> QED BY <1>4, <1>5

LEMMA BeginSetOK ==
  ASSUME IInv, BeginSet
  PROVE  IInv'
  <1>1. /\ frames # <<>> /\ mode' = "visit" /\ made' = made + 1
        /\ regs' = [regs EXCEPT !["a0"] = made + 1] /\ used' = used
    BY DEF BeginSet, Expression, Result, IInv, Control
  <1>2. /\ made \in Nat /\ regs \in [Registers -> 0 .. made]
        /\ words \in Seq(1 .. made) /\ Len(words) \in Nat
    BY StackTypes DEF IInv
  <1>3. PICK use \in {"Single", "Range"} :
          /\ Enter(Frame(use, FirstPart(use), <<made + 1>>))
          /\ words' = PushedFirst(use, words, made + 1)
    BY <1>1 DEF BeginSet
  <1> DEFINE f == Frame(use, FirstPart(use), <<made + 1>>)
  <1>4. f = Frame(use, FirstPart(use), <<made + 1>>) /\ Enter(f)
    BY <1>3
  <1> HIDE DEF f
  <1>5. /\ f \in FrameOver(made + 1) /\ f.use = use /\ f.use \in ExpressionUses
        /\ Shape(f) /\ Held(f, regs')
        /\ words' \in Seq(1 .. made + 1) /\ Len(words') = Len(words) + Count(f)
        /\ \A i \in 1 .. Len(words) : words'[i] = words[i]
        /\ \A i \in 1 .. Count(f) : words'[Len(words) + i] = Word(f, i)
    <2> DEFINE n == made + 1
               vs == PushedFirst(use, words, n)
    <2>1. n \in Nat \ {0} /\ words \in Seq(1 .. n)
      BY <1>2, SeqUpTo
    <2>2. vs = PushedFirst(use, words, n) /\ f = Frame(use, FirstPart(use), <<n>>)
      BY <1>4
    <2>3. words' = vs
      BY <1>3
    <2> HIDE DEF n, vs
    <2>4. /\ f \in FrameOver(n) /\ f.use = use /\ f.use \in ExpressionUses
          /\ Shape(f) /\ \A ss : Held(f, ss)
          /\ vs \in Seq(1 .. n) /\ Len(vs) = Len(words) + Count(f)
          /\ \A i \in 1 .. Len(words) : vs[i] = words[i]
          /\ Count(f) = 0 \/ (Count(f) = 1 /\ vs[Len(vs)] = Word(f, 1))
      <3>1. use = "Single" \/ use = "Range"
        OBVIOUS
      <3>2. n \in Nat \ {0}
        BY <2>1
      <3>3. words \in Seq(1 .. n)
        BY <2>1
      <3>4. f \in FrameOver(n) /\ f.use = use /\ f.use \in ExpressionUses
        BY SMTT(60), <3>1, <3>2, <3>3, <2>2, NewElement
      <3>5. Shape(f) /\ \A ss : Held(f, ss)
        BY SMTT(60), <3>1, <3>2, <3>3, <2>2, NewElement
      <3>6. vs \in Seq(1 .. n) /\ Len(vs) = Len(words) + Count(f)
        BY SMTT(60), <3>1, <3>2, <3>3, <2>2, NewElement
      <3>7. \A i \in 1 .. Len(words) : vs[i] = words[i]
        BY SMTT(60), <3>1, <3>2, <3>3, <2>2, NewElement
      <3>8. Count(f) = 0 \/ (Count(f) = 1 /\ vs[Len(vs)] = Word(f, 1))
        BY SMTT(60), <3>1, <3>2, <3>3, <2>2, NewElement
      <3> QED BY <3>4, <3>5, <3>6, <3>7, <3>8
    <2>5. \A i \in 1 .. Count(f) : vs[Len(words) + i] = Word(f, i)
      BY <2>4
    <2> QED BY <2>3, <2>4, <2>5 DEF n
  <1>6. /\ made + 1 \in Nat /\ made <= made + 1 /\ regs' \in [Registers -> 0 .. made + 1]
        /\ OnlyWrites(regs, regs', "none")
    BY <1>1, <1>2, Unwritten, ResultOK
  <1>7. StackOK(frames', words', regs', made') /\ Control'
    BY <1>1, <1>4, <1>5, <1>6, Enters
  <1> QED BY <1>1, <1>7, KeptStays DEF IInv

LEMMA ElementOK ==
  ASSUME IInv, frames # <<>>, Top.use \in {"Single", "Range"}, mode = "return",
         NEW rs \in [Registers -> 0 .. made], OnlyWrites(regs, rs, Top.use),
         NEW ws \in Seq(1 .. made), Len(ws) = Len(words) - Count(Top),
         \A i \in 1 .. Len(ws) : ws[i] = words[i],
         Element(rs, ws)
  PROVE  StackOK(frames', words', regs', made') /\ Control'
  <1>1. made \in Nat /\ regs \in [Registers -> 0 .. made] /\ Len(ws) \in Nat
    BY StackTypes, LenProperties DEF IInv
  <1>2. made' = made + 1 /\ regs' = [rs EXCEPT !["a0"] = made + 1]
    BY DEF Element, Result
  <1>3. /\ made + 1 \in Nat /\ made <= made + 1 /\ regs' \in [Registers -> 0 .. made + 1]
        /\ OnlyWrites(regs, regs', Top.use) /\ regs'["a0"] > 0
    BY <1>1, <1>2, ResultOK
  <1>4. Top.use \in ExpressionUses
    BY DEF ExpressionUses
  <1>5. CASE Leave /\ mode' = mode /\ words' = ws /\ nodes' = nodes
    <2>1. words' \in Seq(1 .. made + 1) /\ Len(words') = Len(words) - Count(Top)
          /\ \A i \in 1 .. Len(words') : words'[i] = words[i]
      BY <1>1, <1>3, <1>5, SeqUpTo
    <2> QED BY <1>2, <1>3, <1>4, <1>5, <2>1, Leaves
  <1>6. CASE \E use \in {"Single", "Range"} :
               /\ Again(Frame(use, FirstPart(use), <<made'>>)) /\ mode' = "visit"
               /\ words' = PushedFirst(use, ws, made')
    <2>1. PICK use \in {"Single", "Range"} :
            /\ Again(Frame(use, FirstPart(use), <<made + 1>>)) /\ mode' = "visit"
            /\ words' = PushedFirst(use, ws, made + 1)
      BY <1>2, <1>6
    <2> DEFINE f == Frame(use, FirstPart(use), <<made + 1>>)
    <2>2. f = Frame(use, FirstPart(use), <<made + 1>>) /\ Again(f)
      BY <2>1
    <2> HIDE DEF f
    <2>3. /\ f \in FrameOver(made + 1) /\ f.use = use /\ f.use \in ExpressionUses
          /\ Shape(f) /\ Held(f, regs')
          /\ words' \in Seq(1 .. made + 1) /\ Len(words') = Len(ws) + Count(f)
          /\ \A i \in 1 .. Len(ws) : words'[i] = ws[i]
          /\ \A i \in 1 .. Count(f) : words'[Len(ws) + i] = Word(f, i)
      <3> DEFINE n == made + 1
                 vs == PushedFirst(use, ws, n)
      <3>1. n \in Nat \ {0} /\ ws \in Seq(1 .. n)
        BY <1>1, SeqUpTo
      <3>2. vs = PushedFirst(use, ws, n) /\ f = Frame(use, FirstPart(use), <<n>>)
        BY <2>2
      <3>3. words' = vs
        BY <2>1
      <3> HIDE DEF n, vs
      <3>4. /\ f \in FrameOver(n) /\ f.use = use /\ f.use \in ExpressionUses
            /\ Shape(f) /\ \A ss : Held(f, ss)
            /\ vs \in Seq(1 .. n) /\ Len(vs) = Len(ws) + Count(f)
            /\ \A i \in 1 .. Len(ws) : vs[i] = ws[i]
            /\ \A i \in 1 .. Count(f) : vs[Len(ws) + i] = Word(f, i)
        <4>1. use = "Single" \/ use = "Range"
          OBVIOUS
        <4>2. n \in Nat \ {0}
          BY <3>1
        <4>3. ws \in Seq(1 .. n)
          BY <3>1
        <4>4. f \in FrameOver(n) /\ f.use = use /\ f.use \in ExpressionUses
          BY <4>1, <4>2, <4>3, <3>2, NewElement
        <4>5. Shape(f) /\ \A ss : Held(f, ss)
          BY <4>1, <4>2, <4>3, <3>2, NewElement
        <4>6. vs \in Seq(1 .. n) /\ Len(vs) = Len(ws) + Count(f)
          BY <4>1, <4>2, <4>3, <3>2, NewElement
        <4>7. \A i \in 1 .. Len(ws) : vs[i] = ws[i]
          BY SMTT(60), <4>1, <4>2, <4>3, <3>2, NewElement
        <4>8. Count(f) = 0 \/ (Count(f) = 1 /\ vs[Len(vs)] = Word(f, 1))
          BY SMTT(60), <4>1, <4>2, <4>3, <3>2, NewElement
        <4>9. \A i \in 1 .. Count(f) : vs[Len(ws) + i] = Word(f, i)
          BY <4>6, <4>8
        <4> QED BY <4>4, <4>5, <4>6, <4>7, <4>9
      <3> QED BY <3>3, <3>4 DEF n
    <2> DEFINE k == Len(ws)
    <2>4. k = Len(words) - Count(Top) /\ k \in Nat /\ \A i \in 1 .. k : words'[i] = words[i]
      BY <1>1, <2>3
    <2> HIDE DEF k
    <2>5. Len(words') = k + Count(f) /\ \A i \in 1 .. Count(f) : words'[k + i] = Word(f, i)
      BY <2>3 DEF k
    <2> QED BY <1>2, <1>3, <1>4, <2>1, <2>2, <2>3, <2>4, <2>5, Agains
  <1> QED BY <1>5, <1>6 DEF Element

LEMMA EndSingleOK ==
  ASSUME IInv, EndSingle
  PROVE  IInv'
  <1> DEFINE rs == [regs EXCEPT !["t5"] = 0]
  <1>1. Back("Single", "value") /\ Uses(Top.kept, <<Last(words)>>) /\ Element(rs, Front(words))
    BY DEF EndSingle
  <1>2. /\ frames # <<>> /\ Top.use = "Single" /\ mode = "return"
        /\ made \in Nat /\ regs \in [Registers -> 0 .. made]
        /\ words \in Seq(1 .. made) /\ Len(words) \in Nat /\ Shape(Top)
        /\ Top.kept \in Seq(1 .. made) /\ Count(Top) \in 0 .. Len(words)
        /\ \A i \in 1 .. Count(Top) : words[Len(words) - Count(Top) + i] = Word(Top, i)
    BY <1>1, Returned
  <1>3. Len(Top.kept) = 1 /\ Count(Top) = 1 /\ Word(Top, 1) = Top.kept[1]
    BY <1>2 DEF Shape, Count, Word
  <1>4. words # <<>>
    BY <1>2, <1>3, EmptySeq
  <1>5. /\ Last(words) = words[Len(words)]
        /\ Front(words) \in Seq(1 .. made) /\ Len(Front(words)) = Len(words) - 1
        /\ \A i \in 1 .. Len(words) - 1 : Front(words)[i] = words[i]
    BY <1>2, <1>4, FrontProperties
  <1>6. Last(words) = Top.kept[1]
    <2>1. Len(words) - 1 + 1 = Len(words)
      BY <1>2
    <2> QED BY <1>2, <1>3, <1>5, <2>1
  <1>7. rs \in [Registers -> 0 .. made] /\ OnlyWrites(regs, rs, "Single")
    <2>1. "t5" \in Registers /\ 0 \in 0 .. made /\ made <= made
      BY <1>2, RegisterFacts
    <2>2. rs \in [Registers -> 0 .. made] /\ \A q \in Registers : q # "t5" => rs[q] = regs[q]
      BY <1>2, <2>1, Written
    <2> QED BY <2>2 DEF OnlyWrites, Writes
  <1> HIDE DEF rs
  <1>8. StackOK(frames', words', regs', made') /\ Control'
    BY <1>1, <1>2, <1>3, <1>5, <1>7, ElementOK
  <1>9. Top.kept = <<Top.kept[1]>>
    BY <1>2, <1>3, SeqOfOne
  <1>10. used'.use = "Single" /\ used'.found = used'.wanted
    BY <1>1, <1>2, <1>6, <1>9 DEF Uses
  <1> QED BY <1>8, <1>10 DEF IInv, Kept, KeptOnStack, KeptInRegister

LEMMA RangeLowOK ==
  ASSUME IInv, RangeLow
  PROVE  IInv'
  <1> DEFINE vs == Append(Top.kept, regs["a0"])
             f == Frame(Top.use, "high", vs)
  <1>1. /\ Back("Range", "low") /\ regs' = [regs EXCEPT !["t2"] = regs["a0"]]
        /\ words' = Append(words, regs["a0"])
        /\ frames' = Append(Front(frames), f) /\ mode' = "visit"
        /\ made' = made /\ nodes' = nodes /\ used' = used
    BY DEF RangeLow, Wait
  <1>2. /\ frames # <<>> /\ Top.use = "Range" /\ Top.at = "low"
        /\ made \in Nat /\ regs \in [Registers -> 0 .. made] /\ regs["a0"] \in 1 .. made
        /\ words \in Seq(1 .. made) /\ Len(words) \in Nat /\ Shape(Top)
        /\ Top.kept \in Seq(1 .. made)
    BY <1>1, Returned
  <1>3. Len(Top.kept) = 1 /\ Count(Top) = 0
    BY <1>2 DEF Shape, Count
  <1>4. vs \in Seq(1 .. made) /\ Len(vs) = 2 /\ vs[2] = regs["a0"]
    <2>1. /\ vs \in Seq(1 .. made) /\ Len(vs) = Len(Top.kept) + 1
          /\ vs[Len(Top.kept) + 1] = regs["a0"]
      BY <1>2, AppendSeq
    <2> HIDE DEF vs
    <2> QED BY <1>3, <2>1
  <1> HIDE DEF vs
  <1>5. f \in FrameOver(made) /\ f.use = "Range" /\ f.at = "high" /\ f.kept = vs /\ f.inside = {}
    BY <1>2, <1>4 DEF Frame, FrameOver, Constructs, Points
  <1> HIDE DEF f
  <1>6. Shape(f) /\ Held(f, regs') /\ Count(f) = 1 /\ Word(f, 1) = regs["a0"]
    BY <1>4, <1>5 DEF Shape, Held, Count, Word
  <1>7. regs' \in [Registers -> 0 .. made] /\ OnlyWrites(regs, regs', f.use)
    <2>1. "t2" \in Registers /\ regs["a0"] \in 0 .. made /\ made <= made
      BY <1>2, RegisterFacts
    <2>2. regs' \in [Registers -> 0 .. made] /\ \A q \in Registers : q # "t2" => regs'[q] = regs[q]
      BY <1>1, <1>2, <2>1, Written
    <2>3. Writes(f.use) = {"t2", "t3", "t4", "t5"}
      BY <1>5 DEF Writes
    <2> QED BY <2>2, <2>3 DEF OnlyWrites
  <1>8. /\ words' \in Seq(1 .. made) /\ Len(words') = Len(words) + 1
        /\ \A i \in 1 .. Len(words) : words'[i] = words[i]
        /\ words'[Len(words) + 1] = regs["a0"]
    BY <1>1, <1>2, AppendSeq
  <1>9. /\ Len(words) = Len(words) - Count(Top) /\ Len(words') = Len(words) + Count(f)
        /\ \A i \in 1 .. Count(f) : words'[Len(words) + i] = Word(f, i)
        /\ f.use = Top.use /\ made <= made
    BY <1>2, <1>3, <1>5, <1>6, <1>8
  <1>10. StackOK(frames', words', regs', made') /\ Control'
    BY <1>1, <1>2, <1>5, <1>6, <1>7, <1>8, <1>9, Waits
  <1> QED BY <1>1, <1>10, KeptStays DEF IInv

LEMMA EndRangeOK ==
  ASSUME IInv, EndRange
  PROVE  IInv'
  <1> DEFINE r1 == [regs EXCEPT !["t2"] = 0, !["t3"] = regs["a0"]]
             rs == [r1 EXCEPT !["t4"] = 0, !["t5"] = 0]
  <1>a. [regs EXCEPT !["t2"] = 0, !["t3"] = regs["a0"], !["t4"] = 0, !["t5"] = 0] = rs
    OBVIOUS
  <1>1. /\ Back("Range", "high") /\ Uses(Top.kept, <<regs["a0"], Last(words)>>)
        /\ Element(rs, Front(words))
    BY <1>a DEF EndRange
  <1>2. /\ frames # <<>> /\ Top.use = "Range" /\ Top.at = "high" /\ mode = "return"
        /\ made \in Nat /\ regs \in [Registers -> 0 .. made] /\ regs["a0"] \in 1 .. made
        /\ words \in Seq(1 .. made) /\ Len(words) \in Nat /\ Shape(Top)
        /\ Top.kept \in Seq(1 .. made) /\ Count(Top) \in 0 .. Len(words)
        /\ \A i \in 1 .. Count(Top) : words[Len(words) - Count(Top) + i] = Word(Top, i)
    BY <1>1, Returned
  <1>3. Len(Top.kept) = 2 /\ Count(Top) = 1 /\ Word(Top, 1) = Top.kept[2]
    BY <1>2 DEF Shape, Count, Word
  <1>4. words # <<>>
    BY <1>2, <1>3, EmptySeq
  <1>5. /\ Last(words) = words[Len(words)]
        /\ Front(words) \in Seq(1 .. made) /\ Len(Front(words)) = Len(words) - 1
        /\ \A i \in 1 .. Len(words) - 1 : Front(words)[i] = words[i]
    BY <1>2, <1>4, FrontProperties
  <1>6. Last(words) = Top.kept[2]
    <2>1. Len(words) - 1 + 1 = Len(words)
      BY <1>2
    <2> QED BY <1>2, <1>3, <1>5, <2>1
  <1>7. rs \in [Registers -> 0 .. made] /\ OnlyWrites(regs, rs, "Range")
    <2>1. /\ "t2" \in Registers /\ "t3" \in Registers /\ "t4" \in Registers
          /\ "t5" \in Registers /\ 0 \in 0 .. made
          /\ made \in Nat /\ regs["a0"] \in 0 .. made /\ made <= made
      BY <1>2, RegisterFacts
    <2>2. /\ r1 \in [Registers -> 0 .. made]
          /\ \A x \in Registers \ {"t3", "t2"} : r1[x] = regs[x]
      <3>1. regs \in [Registers -> 0 .. made]
        BY <1>2
      <3> QED BY <2>1, <3>1, TwoWritten
    <2> HIDE DEF r1
    <2>3. /\ rs \in [Registers -> 0 .. made]
          /\ \A x \in Registers \ {"t5", "t4"} : rs[x] = r1[x]
      BY SMTT(60), <2>1, <2>2, TwoWritten
    <2> QED BY <2>2, <2>3 DEF OnlyWrites, Writes
  <1> HIDE DEF rs
  <1>8. StackOK(frames', words', regs', made') /\ Control'
    BY <1>1, <1>2, <1>3, <1>5, <1>7, ElementOK
  <1>9. used'.use = "Range" /\ used'.found[2] = used'.wanted[2]
    BY <1>1, <1>2, <1>6 DEF Uses
  <1> QED BY <1>8, <1>9 DEF IInv, Kept, KeptOnStack, KeptInRegister

-----------------------------------------------------------------------------
(* Statements.  Most of them push nothing.                                 *)
LEMMA StatementWaits ==
  ASSUME IInv, frames # <<>>, Top.use \in {"Inc", "For", "Case"},
         made' \in Nat, made <= made', NEW f \in FrameOver(made'), Shape(f), Held(f, regs'),
         f.use = Top.use, frames' = Append(Front(frames), f),
         mode' \in {"visit", "address"} \/ (mode' = "statement" /\ f.at = "body"),
         UNCHANGED nodes, regs' \in [Registers -> 0 .. made'], words' = words
  PROVE  StackOK(frames', words', regs', made') /\ Control'
  <1>1. made \in Nat /\ words \in Seq(1 .. made) /\ Len(words) \in Nat
    BY StackTypes DEF IInv
  <1>2. Count(f) = 0 /\ Count(Top) = 0
    BY DEF Count
  <1>3. /\ words' \in Seq(1 .. made') /\ Len(words) = Len(words) - Count(Top)
        /\ Len(words') = Len(words) + Count(f)
    BY <1>1, <1>2, SeqUpTo
  <1>4. /\ \A i \in 1 .. Len(words) : words'[i] = words[i]
        /\ \A i \in 1 .. Count(f) : words'[Len(words) + i] = Word(f, i)
    BY <1>2
  <1>5. OnlyWrites(regs, regs', f.use)
    <2>1. f.use \in StatementUses \cup {"Call"}
      BY DEF StatementUses
    <2> QED BY <2>1, AllWritten
  <1> QED BY <1>1, <1>3, <1>4, <1>5, Waits

LEMMA StatementEnds ==
  ASSUME IInv, frames # <<>>, Top.use \in {"Test", "Inc", "Read", "For", "Case"},
         made' \in Nat, made <= made', End,
         UNCHANGED nodes, regs' \in [Registers -> 0 .. made'], words' = words
  PROVE  StackOK(frames', words', regs', made') /\ Control'
  <1>1. made \in Nat /\ words \in Seq(1 .. made) /\ Len(words) \in Nat
    BY StackTypes DEF IInv
  <1>2. Count(Top) = 0 /\ Top.use \in StatementUses
    BY DEF Count, StatementUses
  <1>3. /\ words' \in Seq(1 .. made') /\ Len(words') = Len(words) - Count(Top)
        /\ \A i \in 1 .. Len(words') : words'[i] = words[i]
    BY <1>1, <1>2, SeqUpTo
  <1>4. OnlyWrites(regs, regs', Top.use)
    BY <1>2, AllWritten
  <1> QED BY <1>2, <1>3, <1>4, Leaves DEF End

(* What is used was kept in a register.                                    *)
LEMMA HeldUses ==
  ASSUME NEW found, Uses(Top.kept, found),
         Top.use \in {"Index", "Inc", "Read", "For", "Case"},
         Top.inside \cap Spoilers(Top.use, Top.at) = {} => found = Top.kept
  PROVE  Kept'
  <1>1. /\ used'.use = Top.use /\ used'.at = Top.at /\ used'.inside = Top.inside
        /\ used'.wanted = Top.kept /\ used'.found = found
    BY DEF Uses
  <1>2. KeptInRegister'
    BY <1>1 DEF KeptInRegister
  <1>3. KeptOnStack'
    BY <1>1 DEF KeptOnStack
  <1> QED BY <1>2, <1>3 DEF Kept

LEMMA BeginStatement ==
  ASSUME IInv, NEW use \in Constructs, NEW at \in Points, NEW child, Begin(use, at, child),
         Shape(Frame(use, at, <<>>)),
         at \in {"lhs", "arg", "value", "rhs", "place", "from"},
         use \notin {"Index", "Single", "Range", "Read"},
         use \in StatementUses, child = "visit" \/ child = "address"
  PROVE  IInv'
  <1>1. /\ Statement /\ mode' \in {"visit", "address"} /\ Enter(Frame(use, at, <<>>))
        /\ UNCHANGED <<regs, words, made, used>>
    BY DEF Begin
  <1> QED BY <1>1, BeginsOK

(* A condition, RETURN, what is written out.                               *)
LEMMA BeginTestOK == ASSUME IInv, BeginTest PROVE IInv'
  <1>1. Begin("Test", "value", "visit")
    BY DEF BeginTest
  <1>2. Shape(Frame("Test", "value", <<>>))
    BY DEF Shape, Frame
  <1>3. "Test" \in Constructs /\ "Test" \in StatementUses /\ "value" \in Points
    BY DEF Constructs, StatementUses, Points
  <1> QED BY <1>1, <1>2, <1>3, BeginStatement

LEMMA EndTestOK == ASSUME IInv, EndTest PROVE IInv'
  <1>1. /\ Back("Test", "value") /\ End /\ regs' = regs /\ words' = words /\ made' = made
        /\ nodes' = nodes /\ used' = used
    BY DEF EndTest
  <1>2. frames # <<>> /\ Top.use = "Test" /\ made \in Nat /\ regs \in [Registers -> 0 .. made]
    BY <1>1, Returned
  <1>3. StackOK(frames', words', regs', made') /\ Control'
    BY <1>1, <1>2, StatementEnds
  <1> QED BY <1>1, <1>3, KeptStays DEF IInv

(* Assignments.                                                            *)
LEMMA BeginAssignOK == ASSUME IInv, BeginAssign PROVE IInv'
  <1>1. Begin("Assign", "rhs", "visit")
    BY DEF BeginAssign
  <1>2. Shape(Frame("Assign", "rhs", <<>>))
    BY DEF Shape, Frame
  <1>3. "Assign" \in Constructs /\ "Assign" \in StatementUses /\ "rhs" \in Points
    BY DEF Constructs, StatementUses, Points
  <1> QED BY <1>1, <1>2, <1>3, BeginStatement

LEMMA AssignValueOK == ASSUME IInv, AssignValue PROVE IInv'
  <1> DEFINE f == Frame(Top.use, "lhs", <<regs["a0"]>>)
  <1>1. /\ Back("Assign", "rhs") /\ regs' = regs /\ words' = Append(words, regs["a0"])
        /\ frames' = Append(Front(frames), f) /\ mode' = "address"
        /\ made' = made /\ nodes' = nodes /\ used' = used
    BY DEF AssignValue, Wait
  <1>2. /\ frames # <<>> /\ Top.use = "Assign" /\ Top.at = "rhs"
        /\ made \in Nat /\ regs \in [Registers -> 0 .. made] /\ regs["a0"] \in 1 .. made
        /\ words \in Seq(1 .. made) /\ Len(words) \in Nat /\ Shape(Top)
    BY <1>1, Returned
  <1>3. <<regs["a0"]>> \in Seq(1 .. made) /\ Len(<<regs["a0"]>>) = 1
    BY <1>2
  <1>4. /\ f \in FrameOver(made) /\ f.use = "Assign" /\ f.at = "lhs"
        /\ f.kept = <<regs["a0"]>> /\ f.inside = {}
    BY <1>2, <1>3 DEF Frame, FrameOver, Constructs, Points
  <1> HIDE DEF f
  <1>5. Shape(f) /\ Held(f, regs') /\ Count(f) = 1 /\ Word(f, 1) = regs["a0"]
    BY <1>3, <1>4 DEF Shape, Held, Count, Word
  <1>6. Count(Top) = 0
    BY <1>2 DEF Shape, Count
  <1>7. /\ words' \in Seq(1 .. made) /\ Len(words') = Len(words) + 1
        /\ \A i \in 1 .. Len(words) : words'[i] = words[i]
        /\ words'[Len(words) + 1] = regs["a0"]
    BY <1>1, <1>2, AppendSeq
  <1>8. /\ Len(words) = Len(words) - Count(Top) /\ Len(words') = Len(words) + Count(f)
        /\ \A i \in 1 .. Count(f) : words'[Len(words) + i] = Word(f, i)
        /\ f.use = Top.use /\ made <= made /\ OnlyWrites(regs, regs', "none")
    BY <1>1, <1>2, <1>4, <1>5, <1>6, <1>7, Unwritten
  <1>9. StackOK(frames', words', regs', made') /\ Control'
    BY <1>1, <1>2, <1>4, <1>5, <1>7, <1>8, Waits
  <1> QED BY <1>1, <1>9, KeptStays DEF IInv

LEMMA EndAssignOK == ASSUME IInv, EndAssign PROVE IInv'
  <1>1. /\ Back("Assign", "lhs") /\ regs' = [regs EXCEPT !["t0"] = Last(words)]
        /\ words' = Front(words) /\ Uses(Top.kept, <<regs'["t0"]>>)
        /\ End /\ made' = made /\ nodes' = nodes
    BY DEF EndAssign
  <1>2. /\ frames # <<>> /\ Top.use = "Assign" /\ Top.at = "lhs"
        /\ made \in Nat /\ regs \in [Registers -> 0 .. made]
        /\ words \in Seq(1 .. made) /\ Len(words) \in Nat /\ Shape(Top)
        /\ Top.kept \in Seq(1 .. made)
        /\ \A i \in 1 .. Count(Top) : words[Len(words) - Count(Top) + i] = Word(Top, i)
        /\ Count(Top) \in 0 .. Len(words)
    BY <1>1, Returned
  <1>3. Len(Top.kept) = 1 /\ Count(Top) = 1 /\ Word(Top, 1) = Top.kept[1]
    BY <1>2 DEF Shape, Count, Word
  <1>4. words # <<>>
    BY <1>2, <1>3, EmptySeq
  <1>5. /\ Last(words) = words[Len(words)] /\ Last(words) \in 1 .. made
        /\ Front(words) \in Seq(1 .. made) /\ Len(Front(words)) = Len(words) - 1
        /\ \A i \in 1 .. Len(words) - 1 : Front(words)[i] = words[i]
    BY <1>2, <1>4, FrontProperties
  <1>6. Last(words) = Top.kept[1]
    <2>1. Len(words) - 1 + 1 = Len(words)
      BY <1>2
    <2> QED BY <1>2, <1>3, <1>5, <2>1
  <1>7. regs' \in [Registers -> 0 .. made] /\ regs'["t0"] = Last(words)
    <2>1. "t0" \in Registers /\ Last(words) \in 0 .. made /\ made <= made
      BY SMTT(60), <1>2, <1>5, RegisterFacts
    <2> QED BY <1>1, <1>2, <2>1, Written
  <1>8. Top.use \in StatementUses /\ OnlyWrites(regs, regs', Top.use)
    BY <1>2, AllWritten DEF StatementUses
  <1>9. /\ words' \in Seq(1 .. made') /\ Len(words') = Len(words) - Count(Top)
        /\ \A i \in 1 .. Len(words') : words'[i] = words[i]
    BY <1>1, <1>3, <1>5
  <1>10. StackOK(frames', words', regs', made') /\ Control'
    BY <1>1, <1>2, <1>7, <1>8, <1>9, Leaves DEF End
  <1>11. Top.kept = <<Top.kept[1]>>
    BY <1>2, <1>3, SeqOfOne
  <1>12. used'.use = "Assign" /\ used'.found = used'.wanted
    BY <1>1, <1>2, <1>6, <1>7, <1>11 DEF Uses
  <1> QED BY <1>10, <1>12 DEF IInv, Kept, KeptOnStack, KeptInRegister

(* INC and DEC.                                                            *)
LEMMA BeginIncOK == ASSUME IInv, BeginInc PROVE IInv'
  <1>1. Begin("Inc", "place", "address")
    BY DEF BeginInc
  <1>2. Shape(Frame("Inc", "place", <<>>))
    BY DEF Shape, Frame
  <1>3. "Inc" \in Constructs /\ "Inc" \in StatementUses /\ "place" \in Points
    BY DEF Constructs, StatementUses, Points
  <1> QED BY <1>1, <1>2, <1>3, BeginStatement

LEMMA IncPlaceOK == ASSUME IInv, IncPlace PROVE IInv'
  <1> DEFINE f == Frame(Top.use, "by", <<made + 1, regs["a0"]>>)
  <1>1. /\ Back("Inc", "place") /\ made' = made + 1 /\ words' = words /\ nodes' = nodes
        /\ regs' = [regs EXCEPT !["t2"] = regs["a0"], !["t0"] = made + 1] /\ used' = used
        /\ (frames' = Append(Front(frames), f) /\ mode' = "visit") \/ End
    BY DEF IncPlace, Wait
  <1>2. /\ frames # <<>> /\ Top.use = "Inc"
        /\ made \in Nat /\ regs \in [Registers -> 0 .. made] /\ regs["a0"] \in 1 .. made
    BY <1>1, Returned
  <1>3. /\ made + 1 \in Nat /\ made <= made + 1 /\ regs["a0"] \in 1 .. made + 1
        /\ regs["a0"] \in 0 .. made + 1 /\ made + 1 \in 0 .. made + 1 /\ made + 1 \in 1 .. made + 1
        /\ "t2" \in Registers /\ "t0" \in Registers
    BY <1>2, RegisterFacts
  <1>4. /\ regs' \in [Registers -> 0 .. made + 1] /\ regs'["t0"] = made + 1
        /\ regs'["t2"] = regs["a0"]
    BY SMTT(60), <1>1, <1>2, <1>3, TwoWritten
  <1>5. CASE frames' = Append(Front(frames), f) /\ mode' = "visit"
    <2>1. /\ <<made + 1, regs["a0"]>> \in Seq(1 .. made + 1)
          /\ Len(<<made + 1, regs["a0"]>>) = 2
          /\ <<made + 1, regs["a0"]>>[1] = made + 1
          /\ <<made + 1, regs["a0"]>>[2] = regs["a0"]
      BY <1>3
    <2>2. /\ f \in FrameOver(made + 1) /\ f.use = "Inc" /\ f.at = "by"
          /\ f.kept = <<made + 1, regs["a0"]>>
      BY <1>2, <2>1 DEF Frame, FrameOver, Constructs, Points
    <2> HIDE DEF f
    <2>3. Shape(f)
      BY <2>1, <2>2 DEF Shape
    <2>4. Held(f, regs')
      BY <1>4, <2>1, <2>2 DEF Held
    <2> QED BY <1>1, <1>2, <1>3, <1>4, <1>5, <2>2, <2>3, <2>4, StatementWaits, KeptStays DEF IInv
  <1>6. CASE End
    BY <1>1, <1>2, <1>3, <1>4, <1>6, StatementEnds, KeptStays DEF IInv
  <1> QED BY <1>1, <1>5, <1>6

LEMMA EndIncOK == ASSUME IInv, EndInc PROVE IInv'
  <1>1. /\ Back("Inc", "by") /\ Uses(Top.kept, <<regs["t0"], regs["t2"]>>)
        /\ regs' = [regs EXCEPT !["t0"] = 0] /\ End
        /\ words' = words /\ made' = made /\ nodes' = nodes
    BY DEF EndInc
  <1>2. /\ frames # <<>> /\ Top.use = "Inc" /\ Top.at = "by" /\ Top.kept \in Seq(1 .. made)
        /\ made \in Nat /\ regs \in [Registers -> 0 .. made] /\ Shape(Top) /\ Held(Top, regs)
    BY <1>1, Returned
  <1>3. regs' \in [Registers -> 0 .. made]
    <2>1. "t0" \in Registers /\ 0 \in 0 .. made /\ made <= made
      BY <1>2, RegisterFacts
    <2> QED BY <1>1, <1>2, <2>1, Written
  <1>4. StackOK(frames', words', regs', made') /\ Control'
    BY <1>1, <1>2, <1>3, StatementEnds
  <1>5. Top.kept = <<Top.kept[1], Top.kept[2]>>
    <2>1. Len(Top.kept) = 2
      BY <1>2 DEF Shape
    <2> QED BY <1>2, <2>1, SeqOfTwo
  <1>6. Top.inside \cap Spoilers(Top.use, Top.at) = {} => <<regs["t0"], regs["t2"]>> = Top.kept
    BY <1>2, <1>5 DEF Held
  <1> QED BY <1>1, <1>2, <1>4, <1>6, HeldUses DEF IInv

(* NEW and In.                                                             *)
LEMMA NewRead ==
  ASSUME NEW m \in Nat, NEW rs \in [Registers -> 0 .. m], NEW ss,
         ss = [rs EXCEPT !["a0"] = m + 1, !["t0"] = m + 1],
         NEW f, f = Frame("Read", "place", <<m + 1>>)
  PROVE  /\ m + 1 \in Nat /\ m <= m + 1 /\ ss \in [Registers -> 0 .. m + 1]
         /\ f \in FrameOver(m + 1) /\ f.use = "Read" /\ f.use \in StatementUses
         /\ Shape(f) /\ Count(f) = 0 /\ Held(f, ss) /\ OnlyWrites(rs, ss, f.use)
  <1>1. /\ m + 1 \in Nat /\ m <= m + 1 /\ m + 1 \in 0 .. m + 1
        /\ <<m + 1>> \in Seq(1 .. m + 1) /\ "a0" \in Registers /\ "t0" \in Registers
    BY RegisterFacts
  <1>2. ss \in [Registers -> 0 .. m + 1] /\ ss["t0"] = m + 1
    BY SMTT(60), <1>1, TwoWritten
  <1>3. /\ f.use = "Read" /\ f.at = "place" /\ f.kept = <<m + 1>> /\ f.inside = {}
        /\ f \in FrameOver(m + 1)
    BY <1>1 DEF Frame, FrameOver, Constructs, Points
  <1>4. f.kept[1] = m + 1 /\ Len(f.kept) = 1
    BY <1>3
  <1>5. Shape(f) /\ Count(f) = 0 /\ f.use \in StatementUses
    BY <1>3, <1>4 DEF Shape, Count, StatementUses
  <1>6. Held(f, ss)
    BY <1>2, <1>3, <1>4 DEF Held
  <1>7. OnlyWrites(rs, ss, f.use)
    BY <1>5, AllWritten
  <1> QED BY <1>1, <1>2, <1>3, <1>5, <1>6, <1>7

LEMMA BeginReadOK == ASSUME IInv, BeginRead PROVE IInv'
  <1> DEFINE f == Frame("Read", "place", <<made + 1>>)
  <1>1. /\ Statement /\ mode' = "address" /\ made' = made + 1 /\ words' = words /\ used' = used
        /\ regs' = [regs EXCEPT !["a0"] = made + 1, !["t0"] = made + 1] /\ Enter(f)
    BY DEF BeginRead
  <1>2. /\ made \in Nat /\ regs \in [Registers -> 0 .. made]
        /\ words \in Seq(1 .. made) /\ Len(words) \in Nat
    BY StackTypes DEF IInv
  <1>3. f = Frame("Read", "place", <<made + 1>>)
    OBVIOUS
  <1> HIDE DEF f
  <1>4. /\ made + 1 \in Nat /\ made <= made + 1 /\ regs' \in [Registers -> 0 .. made + 1]
        /\ f \in FrameOver(made + 1) /\ f.use = "Read" /\ f.use \in StatementUses
        /\ Shape(f) /\ Count(f) = 0 /\ Held(f, regs') /\ OnlyWrites(regs, regs', f.use)
    BY <1>1, <1>2, <1>3, NewRead
  <1>5. /\ words' \in Seq(1 .. made + 1) /\ Len(words') = Len(words) + Count(f)
        /\ \A i \in 1 .. Len(words) : words'[i] = words[i]
        /\ \A i \in 1 .. Count(f) : words'[Len(words) + i] = Word(f, i)
    BY <1>1, <1>2, <1>4, SeqUpTo
  <1>6. StackOK(frames', words', regs', made') /\ Control'
    BY <1>1, <1>4, <1>5, Enters
  <1> QED BY <1>1, <1>6, KeptStays DEF IInv

LEMMA EndReadOK == ASSUME IInv, EndRead PROVE IInv'
  <1>1. /\ Back("Read", "place") /\ Uses(Top.kept, <<regs["t0"]>>) /\ End
        /\ regs' = regs /\ words' = words /\ made' = made /\ nodes' = nodes
    BY DEF EndRead
  <1>2. /\ frames # <<>> /\ Top.use = "Read" /\ Top.kept \in Seq(1 .. made)
        /\ made \in Nat /\ regs \in [Registers -> 0 .. made] /\ Shape(Top) /\ Held(Top, regs)
    BY <1>1, Returned
  <1>3. StackOK(frames', words', regs', made') /\ Control'
    BY <1>1, <1>2, StatementEnds
  <1>4. Top.kept = <<Top.kept[1]>>
    <2>1. Len(Top.kept) = 1
      BY <1>2 DEF Shape
    <2> QED BY <1>2, <2>1, SeqOfOne
  <1>5. Top.inside \cap Spoilers(Top.use, Top.at) = {} => <<regs["t0"]>> = Top.kept
    BY <1>2, <1>4 DEF Held
  <1> QED BY <1>1, <1>2, <1>3, <1>5, HeldUses DEF IInv

(* FOR.                                                                    *)
LEMMA BeginForOK == ASSUME IInv, BeginFor PROVE IInv'
  <1>1. Begin("For", "from", "visit")
    BY DEF BeginFor
  <1>2. Shape(Frame("For", "from", <<>>))
    BY DEF Shape, Frame
  <1>3. "For" \in Constructs /\ "For" \in StatementUses /\ "from" \in Points
    BY DEF Constructs, StatementUses, Points
  <1> QED BY <1>1, <1>2, <1>3, BeginStatement

LEMMA LoadedOK ==
  ASSUME made \in Nat, regs \in [Registers -> 0 .. made], NEW r, r = "t0" \/ r = "t5", Loaded(r)
  PROVE  /\ made' = made + 1 /\ made' \in Nat /\ made <= made'
         /\ regs' \in [Registers -> 0 .. made'] /\ regs'[r] = made'
  <1>1. PICK global \in BOOLEAN :
          regs' = [regs EXCEPT !["t0"] = made', ![r] = made', !["t2"] = IF global THEN 0 ELSE @]
    BY DEF Loaded
  <1>2. /\ made' = made + 1 /\ made' \in Nat /\ made <= made' /\ made' \in 0 .. made'
        /\ "t0" \in Registers /\ "t2" \in Registers /\ r \in Registers /\ r # "t2"
    BY RegisterFacts DEF Loaded
  <1> DEFINE r1 == [regs EXCEPT !["t0"] = made', ![r] = made']
  <1>3. r1 \in [Registers -> 0 .. made'] /\ r1[r] = made'
    BY <1>2, TwoWritten
  <1>4. regs' = [r1 EXCEPT !["t2"] = IF global THEN 0 ELSE r1["t2"]]
    BY <1>1
  <1> HIDE DEF r1
  <1>5. (IF global THEN 0 ELSE r1["t2"]) \in 0 .. made'
    BY <1>2, <1>3
  <1>6. /\ regs' \in [Registers -> 0 .. made']
        /\ \A q \in Registers : q # "t2" => regs'[q] = r1[q]
    BY <1>2, <1>3, <1>4, <1>5, Written
  <1> QED BY <1>2, <1>3, <1>6

(* The frame of a FOR that keeps the variable's value.                     *)
LEMMA ForFrame ==
  ASSUME NEW n \in Nat \ {0}, NEW ss, NEW f,
         \/ f = Frame("For", "to", <<n>>) /\ ss["t5"] = n
         \/ f = Frame("For", "by", <<n>>) /\ ss["t0"] = n
  PROVE  f \in FrameOver(n) /\ f.use = "For" /\ Shape(f) /\ Held(f, ss)
  <1>1. <<n>> \in Seq(1 .. n) /\ Len(<<n>>) = 1 /\ <<n>>[1] = n
    OBVIOUS
  <1>2. /\ f.use = "For" /\ f.kept = <<n>> /\ f \in FrameOver(n)
        /\ (f.at = "to" /\ ss["t5"] = n) \/ (f.at = "by" /\ ss["t0"] = n)
    <2>1. CASE f = Frame("For", "to", <<n>>) /\ ss["t5"] = n
      BY <1>1, <2>1 DEF Frame, FrameOver, Constructs, Points
    <2>2. CASE f = Frame("For", "by", <<n>>) /\ ss["t0"] = n
      BY <1>1, <2>2 DEF Frame, FrameOver, Constructs, Points
    <2> QED BY <2>1, <2>2
  <1>3. Shape(f)
    BY <1>1, <1>2 DEF Shape
  <1>4. Held(f, ss)
    BY <1>1, <1>2 DEF Held
  <1> QED BY <1>2, <1>3, <1>4

LEMMA ForFromOK == ASSUME IInv, ForFrom PROVE IInv'
  <1> DEFINE f == Frame("For", "to", <<made'>>)
  <1>1. /\ Back("For", "from") /\ Loaded("t5") /\ words' = words /\ nodes' = nodes /\ used' = used
        /\ frames' = Append(Front(frames), Frame(Top.use, "to", <<made'>>)) /\ mode' = "visit"
    BY DEF ForFrom, Wait, Bound
  <1>2. frames # <<>> /\ Top.use = "For" /\ made \in Nat /\ regs \in [Registers -> 0 .. made]
    BY <1>1, Returned
  <1>3. /\ made' = made + 1 /\ made' \in Nat /\ made <= made'
        /\ regs' \in [Registers -> 0 .. made'] /\ regs'["t5"] = made'
    BY <1>1, <1>2, LoadedOK
  <1>4. frames' = Append(Front(frames), f) /\ f = Frame("For", "to", <<made'>>)
    BY <1>1, <1>2
  <1> HIDE DEF f
  <1>5. made' \in Nat \ {0}
    BY <1>2, <1>3
  <1>6. f \in FrameOver(made') /\ f.use = "For" /\ Shape(f) /\ Held(f, regs')
    BY <1>3, <1>4, <1>5, ForFrame
  <1>7. StackOK(frames', words', regs', made') /\ Control'
    BY <1>1, <1>2, <1>3, <1>4, <1>6, StatementWaits
  <1> QED BY <1>1, <1>7, KeptStays DEF IInv

LEMMA ForTestOK == ASSUME IInv, ForTest PROVE IInv'
  <1> DEFINE f == Frame("For", "body", <<>>)
  <1>1. /\ Back("For", "to") /\ Uses(Top.kept, <<regs["t5"]>>)
        /\ frames' = Append(Front(frames), Frame(Top.use, "body", <<>>)) /\ mode' = "statement"
        /\ regs' = regs /\ words' = words /\ made' = made /\ nodes' = nodes
    BY DEF ForTest, Wait, Bound
  <1>2. /\ frames # <<>> /\ Top.use = "For" /\ Top.at = "to" /\ Top.kept \in Seq(1 .. made)
        /\ made \in Nat /\ regs \in [Registers -> 0 .. made] /\ Shape(Top) /\ Held(Top, regs)
    BY <1>1, Returned
  <1>3. frames' = Append(Front(frames), f)
    BY <1>1, <1>2
  <1>4. f \in FrameOver(made) /\ f.use = "For" /\ f.at = "body"
    <2>1. <<>> \in Seq(1 .. made)
      OBVIOUS
    <2> QED BY <2>1 DEF Frame, FrameOver, Constructs, Points
  <1> HIDE DEF f
  <1>5. Shape(f) /\ Held(f, regs')
    BY <1>4 DEF Shape, Held
  <1>6. StackOK(frames', words', regs', made') /\ Control'
    BY <1>1, <1>2, <1>3, <1>4, <1>5, StatementWaits
  <1>7. Top.kept = <<Top.kept[1]>>
    <2>1. Len(Top.kept) = 1
      BY <1>2 DEF Shape
    <2> QED BY <1>2, <2>1, SeqOfOne
  <1>8. Top.inside \cap Spoilers(Top.use, Top.at) = {} => <<regs["t5"]>> = Top.kept
    BY <1>2, <1>7 DEF Held
  <1> QED BY <1>1, <1>2, <1>6, <1>8, HeldUses DEF IInv

LEMMA ForStepOK == ASSUME IInv, ForStep PROVE IInv'
  <1> DEFINE f == Frame("For", "by", <<made'>>)
  <1>1. /\ frames # <<>> /\ Top.use = "For" /\ Loaded("t0")
        /\ words' = words /\ nodes' = nodes /\ used' = used
        /\ \/ frames' = Append(Front(frames), Frame(Top.use, "by", <<made'>>)) /\ mode' = "visit"
           \/ End
    BY DEF ForStep, Wait
  <1>2. made \in Nat /\ regs \in [Registers -> 0 .. made]
    BY StackTypes DEF IInv
  <1>3. /\ made' = made + 1 /\ made' \in Nat /\ made <= made'
        /\ regs' \in [Registers -> 0 .. made'] /\ regs'["t0"] = made'
    BY <1>1, <1>2, LoadedOK
  <1>4. CASE frames' = Append(Front(frames), Frame(Top.use, "by", <<made'>>)) /\ mode' = "visit"
    <2>1. frames' = Append(Front(frames), f) /\ f = Frame("For", "by", <<made'>>)
      BY <1>1, <1>4
    <2> HIDE DEF f
    <2>2. made' \in Nat \ {0}
      BY <1>2, <1>3
    <2>3. f \in FrameOver(made') /\ f.use = "For" /\ Shape(f) /\ Held(f, regs')
      BY <1>3, <2>1, <2>2, ForFrame
    <2>4. StackOK(frames', words', regs', made') /\ Control'
      BY <1>1, <1>3, <1>4, <2>1, <2>3, StatementWaits
    <2> QED BY <1>1, <2>4, KeptStays DEF IInv
  <1>5. CASE End
    BY <1>1, <1>2, <1>3, <1>5, StatementEnds, KeptStays DEF IInv
  <1> QED BY <1>1, <1>4, <1>5

LEMMA EndForOK == ASSUME IInv, EndFor PROVE IInv'
  <1>1. /\ Back("For", "by") /\ Uses(Top.kept, <<regs["t0"]>>) /\ End
        /\ words' = words /\ made' = made /\ nodes' = nodes
    BY DEF EndFor
  <1>2. /\ frames # <<>> /\ Top.use = "For" /\ Top.at = "by" /\ Top.kept \in Seq(1 .. made)
        /\ made \in Nat /\ regs \in [Registers -> 0 .. made] /\ Shape(Top) /\ Held(Top, regs)
    BY <1>1, Returned
  <1>3. regs' \in [Registers -> 0 .. made]
    <2>1. PICK global \in BOOLEAN :
            regs' = [regs EXCEPT !["t0"] = 0, !["t2"] = IF global THEN 0 ELSE @]
      BY DEF EndFor
    <2> DEFINE w == IF global THEN 0 ELSE regs["t2"]
    <2>2. /\ "t0" \in Registers /\ "t2" \in Registers /\ 0 \in 0 .. made /\ made <= made
      BY <1>2, RegisterFacts
    <2>3. w \in 0 .. made
      BY <1>2, <2>2
    <2>4. regs' = [regs EXCEPT !["t0"] = 0, !["t2"] = w]
      BY <2>1
    <2> HIDE DEF w
    <2> QED BY <1>2, <2>2, <2>3, <2>4, TwoWritten
  <1>4. StackOK(frames', words', regs', made') /\ Control'
    BY <1>1, <1>2, <1>3, StatementEnds
  <1>5. Top.kept = <<Top.kept[1]>>
    <2>1. Len(Top.kept) = 1
      BY <1>2 DEF Shape
    <2> QED BY <1>2, <2>1, SeqOfOne
  <1>6. Top.inside \cap Spoilers(Top.use, Top.at) = {} => <<regs["t0"]>> = Top.kept
    BY <1>2, <1>5 DEF Held
  <1> QED BY <1>1, <1>2, <1>4, <1>6, HeldUses DEF IInv

(* CASE.                                                                   *)
LEMMA BeginCaseOK == ASSUME IInv, BeginCase PROVE IInv'
  <1>1. Begin("Case", "value", "visit")
    BY DEF BeginCase
  <1>2. Shape(Frame("Case", "value", <<>>))
    BY DEF Shape, Frame
  <1>3. "Case" \in Constructs /\ "Case" \in StatementUses /\ "value" \in Points
    BY DEF Constructs, StatementUses, Points
  <1> QED BY <1>1, <1>2, <1>3, BeginStatement

LEMMA CaseValueOK == ASSUME IInv, CaseValue PROVE IInv'
  <1> DEFINE f == Frame("Case", "label", <<regs["a0"]>>)
  <1>1. /\ Back("Case", "value") /\ regs' = [regs EXCEPT !["t6"] = regs["a0"]]
        /\ frames' = Append(Front(frames), Frame(Top.use, "label", <<regs["a0"]>>))
        /\ mode' = "visit" /\ words' = words /\ made' = made /\ nodes' = nodes /\ used' = used
    BY DEF CaseValue, Wait
  <1>2. /\ frames # <<>> /\ Top.use = "Case" /\ made \in Nat
        /\ regs \in [Registers -> 0 .. made] /\ regs["a0"] \in 1 .. made
    BY <1>1, Returned
  <1>3. regs' \in [Registers -> 0 .. made] /\ regs'["t6"] = regs["a0"]
    <2>1. "t6" \in Registers /\ regs["a0"] \in 0 .. made /\ made <= made
      BY <1>2, RegisterFacts
    <2> QED BY <1>1, <1>2, <2>1, Written
  <1>4. frames' = Append(Front(frames), f)
    BY <1>1, <1>2
  <1>5. /\ <<regs["a0"]>> \in Seq(1 .. made) /\ Len(<<regs["a0"]>>) = 1
        /\ <<regs["a0"]>>[1] = regs["a0"]
    BY <1>2
  <1>6. f \in FrameOver(made) /\ f.use = "Case" /\ f.at = "label" /\ f.kept = <<regs["a0"]>>
    BY <1>5 DEF Frame, FrameOver, Constructs, Points
  <1> HIDE DEF f
  <1>7. Shape(f)
    BY <1>5, <1>6 DEF Shape
  <1>8. Held(f, regs')
    BY <1>3, <1>5, <1>6 DEF Held
  <1>9. made' \in Nat /\ made <= made' /\ f \in FrameOver(made') /\ f.use = Top.use
    BY <1>1, <1>2, <1>6
  <1>10. regs' \in [Registers -> 0 .. made']
    BY <1>1, <1>3
  <1>11. StackOK(frames', words', regs', made') /\ Control'
    BY <1>1, <1>2, <1>4, <1>7, <1>8, <1>9, <1>10, StatementWaits
  <1> QED BY <1>1, <1>11, KeptStays DEF IInv

LEMMA CaseLabelOK == ASSUME IInv, CaseLabel PROVE IInv'
  <1> DEFINE f == Frame("Case", "body", <<>>)
  <1>1. /\ Back("Case", "label") /\ Uses(Top.kept, <<regs["t6"]>>)
        /\ regs' = regs /\ words' = words /\ made' = made
        /\ \/ nodes < MaxNodes /\ nodes' = nodes + 1 /\ frames' = frames /\ mode' = "visit"
           \/ /\ nodes' = nodes /\ frames' = Append(Front(frames), Frame(Top.use, "body", <<>>))
              /\ mode' = "statement"
           \/ nodes' = nodes /\ End
    BY DEF CaseLabel, Node, Wait
  <1>2. /\ frames # <<>> /\ Top.use = "Case" /\ Top.at = "label" /\ Top.kept \in Seq(1 .. made)
        /\ made \in Nat /\ regs \in [Registers -> 0 .. made] /\ Shape(Top) /\ Held(Top, regs)
        /\ nodes \in 0 .. MaxNodes
    BY <1>1, Returned
  <1>3. ASSUME nodes < MaxNodes, nodes' = nodes + 1, frames' = frames, mode' = "visit"
        PROVE  StackOK(frames', words', regs', made') /\ Control'
    <2>1. StackOK(frames', words', regs', made')
      BY <1>1, <1>3 DEF IInv
    <2>2. nodes' \in 0 .. MaxNodes
      BY <1>2, <1>3, RegisterAssumption
    <2> QED BY <1>2, <1>3, <2>1, <2>2 DEF Control
  <1>4. ASSUME nodes' = nodes, mode' = "statement",
               frames' = Append(Front(frames), Frame(Top.use, "body", <<>>))
        PROVE  StackOK(frames', words', regs', made') /\ Control'
    <2>1. frames' = Append(Front(frames), f)
      BY <1>2, <1>4
    <2>2. f \in FrameOver(made) /\ f.use = "Case" /\ f.at = "body"
      <3>1. <<>> \in Seq(1 .. made)
        OBVIOUS
      <3> QED BY <3>1 DEF Frame, FrameOver, Constructs, Points
    <2> HIDE DEF f
    <2>3. Shape(f) /\ Held(f, regs')
      BY <2>2 DEF Shape, Held
    <2>4. made' \in Nat /\ made <= made' /\ f \in FrameOver(made') /\ f.use = Top.use
      BY <1>1, <1>2, <2>2
    <2>5. regs' \in [Registers -> 0 .. made']
      BY <1>1, <1>2
    <2> QED BY <1>1, <1>2, <1>4, <2>1, <2>2, <2>3, <2>4, <2>5, StatementWaits
  <1>5. ASSUME nodes' = nodes, End
        PROVE  StackOK(frames', words', regs', made') /\ Control'
    <2>1. made' \in Nat /\ made <= made' /\ regs' \in [Registers -> 0 .. made']
      BY <1>1, <1>2
    <2> QED BY <1>1, <1>2, <1>5, <2>1, StatementEnds
  <1>6. StackOK(frames', words', regs', made') /\ Control'
    BY <1>1, <1>3, <1>4, <1>5
  <1>7. Top.kept = <<Top.kept[1]>>
    <2>1. Len(Top.kept) = 1
      BY <1>2 DEF Shape
    <2> QED BY <1>2, <2>1, SeqOfOne
  <1>8. Top.inside \cap Spoilers(Top.use, Top.at) = {} => <<regs["t6"]>> = Top.kept
    BY <1>2, <1>7 DEF Held
  <1> QED BY <1>1, <1>2, <1>6, <1>8, HeldUses DEF IInv

LEMMA EndCaseOK == ASSUME IInv, EndCase PROVE IInv'
  <1>1. /\ frames # <<>> /\ Top.use = "Case" /\ End
        /\ regs' = regs /\ words' = words /\ made' = made /\ nodes' = nodes /\ used' = used
    BY DEF EndCase
  <1>2. made \in Nat /\ regs \in [Registers -> 0 .. made]
    BY StackTypes DEF IInv
  <1>3. StackOK(frames', words', regs', made') /\ Control'
    BY <1>1, <1>2, StatementEnds
  <1> QED BY <1>1, <1>3, KeptStays DEF IInv

(* A leaf.                                                                 *)
LEMMA LeafOK == ASSUME IInv, Leaf PROVE IInv'
  <1>1. /\ mode \in {"visit", "address"} /\ mode' = "return"
        /\ made' = made + 1 /\ regs' = [regs EXCEPT !["a0"] = made + 1]
        /\ words' = words /\ frames' = frames /\ nodes' = nodes /\ used' = used
    BY DEF Leaf, Place, Result
  <1>2. StackOK(frames, words, regs, made) /\ frames # <<>> /\ nodes \in 0 .. MaxNodes
    BY <1>1 DEF IInv, Control
  <1>3. made \in Nat /\ regs \in [Registers -> 0 .. made]
    BY <1>2, StackTypes
  <1>4. /\ made + 1 \in Nat /\ made <= made + 1 /\ regs' \in [Registers -> 0 .. made + 1]
        /\ regs'["a0"] > 0 /\ OnlyWrites(regs, regs', "none")
    BY <1>1, <1>3, Unwritten, ResultOK
  <1>5. StackOK(frames, words, regs', made + 1)
    BY <1>2, <1>4, KeepOK
  <1>6. Control'
    BY <1>1, <1>2, <1>4 DEF Control
  <1> QED BY <1>1, <1>5, <1>6, KeptStays DEF IInv

-----------------------------------------------------------------------------
LEMMA StutterOK == ASSUME IInv, UNCHANGED vars PROVE IInv'
  <1>1. /\ regs' = regs /\ words' = words /\ frames' = frames /\ mode' = mode
        /\ made' = made /\ nodes' = nodes /\ used' = used
    BY DEF vars
  <1>2. StackOK(frames', words', regs', made')
    BY <1>1 DEF IInv
  <1>3. Control'
    BY <1>1 DEF IInv, Control, Top
  <1> QED BY <1>1, <1>2, <1>3, KeptStays DEF IInv

LEMMA NextOK == IInv /\ [Next]_vars => IInv'
  <1> SUFFICES ASSUME IInv, [Next]_vars PROVE IInv'
    OBVIOUS
  <1>1. CASE Leaf
    BY <1>1, LeafOK
  <1>2. CASE BeginBinary
    BY <1>2, BeginBinaryOK
  <1>3. CASE BinaryLhs
    BY <1>3, BinaryLhsOK
  <1>4. CASE BinaryEnd
    BY <1>4, BinaryEndOK
  <1>5. CASE BeginAbs
    BY <1>5, BeginAbsOK
  <1>6. CASE EndAbs
    BY <1>6, EndAbsOK
  <1>7. CASE BeginIndex
    BY <1>7, BeginIndexOK
  <1>8. CASE EndIndex
    BY <1>8, EndIndexOK
  <1>9. CASE NextIndex
    BY <1>9, NextIndexOK
  <1>10. CASE BeginCall
    BY <1>10, BeginCallOK
  <1>11. CASE CallArg
    BY <1>11, CallArgOK
  <1>12. CASE CallEnd
    BY <1>12, CallEndOK
  <1>13. CASE CallNothing
    BY <1>13, CallNothingOK
  <1>14. CASE BeginSet
    BY <1>14, BeginSetOK
  <1>15. CASE EndSingle
    BY <1>15, EndSingleOK
  <1>16. CASE RangeLow
    BY <1>16, RangeLowOK
  <1>17. CASE EndRange
    BY <1>17, EndRangeOK
  <1>18. CASE BeginTest
    BY <1>18, BeginTestOK
  <1>19. CASE EndTest
    BY <1>19, EndTestOK
  <1>20. CASE BeginAssign
    BY <1>20, BeginAssignOK
  <1>21. CASE AssignValue
    BY <1>21, AssignValueOK
  <1>22. CASE EndAssign
    BY <1>22, EndAssignOK
  <1>23. CASE BeginInc
    BY <1>23, BeginIncOK
  <1>24. CASE IncPlace
    BY <1>24, IncPlaceOK
  <1>25. CASE EndInc
    BY <1>25, EndIncOK
  <1>26. CASE BeginRead
    BY <1>26, BeginReadOK
  <1>27. CASE EndRead
    BY <1>27, EndReadOK
  <1>28. CASE BeginFor
    BY <1>28, BeginForOK
  <1>29. CASE ForFrom
    BY <1>29, ForFromOK
  <1>30. CASE ForTest
    BY <1>30, ForTestOK
  <1>31. CASE ForStep
    BY <1>31, ForStepOK
  <1>32. CASE EndFor
    BY <1>32, EndForOK
  <1>33. CASE BeginCase
    BY <1>33, BeginCaseOK
  <1>34. CASE CaseValue
    BY <1>34, CaseValueOK
  <1>35. CASE CaseLabel
    BY <1>35, CaseLabelOK
  <1>36. CASE EndCase
    BY <1>36, EndCaseOK
  <1>37. CASE Finished
    BY <1>37, StutterOK DEF Finished
  <1>38. CASE UNCHANGED vars
    BY <1>38, StutterOK
  <1> QED BY <1>1, <1>2, <1>3, <1>4, <1>5, <1>6, <1>7, <1>8, <1>9, <1>10,
           <1>11, <1>12, <1>13, <1>14, <1>15, <1>16, <1>17, <1>18, <1>19,
           <1>20, <1>21, <1>22, <1>23, <1>24, <1>25, <1>26, <1>27, <1>28,
           <1>29, <1>30, <1>31, <1>32, <1>33, <1>34, <1>35, <1>36, <1>37,
           <1>38 DEF Next

(* The strengthened invariant holds in every reachable state.              *)
THEOREM InvariantHolds == Spec => []IInv
  BY InitOK, NextOK, PTL DEF Spec

(* The generator's state stays well-formed: registers and words hold       *)
(* values that were made, and a visitor is waiting whenever a child of an  *)
(* expression or statement is visited.                                     *)
THEOREM TypeCorrect == Spec => []TypeOK
  <1>1. IInv => TypeOK
    <2> SUFFICES ASSUME IInv PROVE TypeOK
      OBVIOUS
    <2>1. /\ made \in Nat /\ words \in Seq(1 .. made) /\ regs \in [Registers -> 0 .. made]
          /\ \A k \in 1 .. Len(frames) : frames[k] \in FrameOver(made)
      BY StackTypes DEF IInv
    <2>2. \A k \in 1 .. Len(frames) :
            frames[k].use \in Constructs /\ frames[k].kept \in Seq(1 .. made)
      BY <2>1 DEF FrameOver
    <2> QED BY <2>1, <2>2 DEF TypeOK, IInv, Control
  <1> QED BY <1>1, InvariantHolds, PTL

(* Between two statements the stack is where the prologue left it, for     *)
(* expressions and statements nested to any depth.                         *)
THEOREM StacksReturn == Spec => []StackReturns
  <1>1. IInv => StackReturns
    <2> SUFFICES ASSUME IInv, mode = "statement" PROVE words = <<>>
      BY DEF StackReturns
    <2>1. frames = <<>> \/ Last(frames).at = "body"
      BY DEF IInv, Control, Top
    <2>2. StackOK(frames, words, regs, made)
      BY DEF IInv
    <2>3. Len(words) = 0
      BY <2>1, <2>2, AllInBodies
    <2> QED BY <2>2, <2>3, StackTypes, EmptySeq
  <1> QED BY <1>1, InvariantHolds, PTL

(* What a visitor pushes it pops again: left operands, assigned values,    *)
(* arguments, the set behind a single element, the lower end of a range.   *)
THEOREM StackKeeps == Spec => []KeptOnStack
  <1>1. IInv => KeptOnStack
    BY DEF IInv, Kept
  <1> QED BY <1>1, InvariantHolds, PTL

(* A visitor finds what it keeps in a register, whatever it contains but   *)
(* the few constructs that use that register.                              *)
THEOREM RegistersKeep == Spec => []KeptInRegister
  <1>1. IInv => KeptInRegister
    BY DEF IInv, Kept
  <1> QED BY <1>1, InvariantHolds, PTL
=============================================================================

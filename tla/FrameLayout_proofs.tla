------------------------- MODULE FrameLayout_proofs -------------------------
(***************************************************************************)
(* Proofs about FrameLayout, for functions of every length with any number *)
(* of parameters, operands and variables of any sizes.                     *)
(***************************************************************************)
EXTENDS FrameLayout, TLAPS, SequenceTheorems

(* Rounding the size of the frame never makes it smaller.                  *)
LEMMA RoundedFrame ==
  ASSUME NEW n \in Nat
  PROVE  Rounded16(n) \in Nat /\ Rounded16(n) % 16 = 0 /\ Rounded16(n) >= n
BY DEF Rounded16

(* A variable's area has room for it and keeps the alignment.              *)
LEMMA RoundedArea ==
  ASSUME NEW size \in Int
  PROVE  AreaSize(size) \in Nat /\ AreaSize(size) % 4 = 0 /\ AreaSize(size) >= 4
         /\ AreaSize(size) >= size
BY DEF AreaSize, UnroundedArea

-----------------------------------------------------------------------------
(* The invariant. *)
Building == phase \in {"params", "locals", "body"}

(* Results have temporaries of their own.                                  *)
Fresh ==
  \A i, j \in DOMAIN code : i # j /\ code[i].dst = code[j].dst => code[i].dst = NoTemp

CodeOK == params \in Nat /\ temps \in Nat /\ code \in Seq(Instrs) /\ Fresh

(* All that has been given out lies below nextSlot_.                       *)
SlotsBelow ==
  /\ Offset(next) /\ DOMAIN slots \subseteq Ids
  /\ \A id \in DOMAIN slots : Offset(slots[id]) /\ slots[id] + 4 <= next

AreasBelow ==
  /\ DOMAIN areas \subseteq 0 .. temps - 1
  /\ \A t \in DOMAIN areas : Offset(areas[t])
  /\ \A i \in DOMAIN code : Laid(i) => Stop(i) <= next

Layout == SlotsBelow /\ AreasBelow /\ Apart

(* Pass 1 has met everything that instruction i names, up to value k.      *)
Met(i, k) == \A l \in 1 .. Len(Named(code[i])) : l <= k => Named(code[i])[l] \in DOMAIN slots

MetAll == \A i \in DOMAIN code : Met(i, Len(Named(code[i])))

(* Where the generator stands, and what it has behind it.                  *)
Position ==
  /\ phase \in {"params", "locals", "body", "temps", "slots", "areas", "emit", "done"}
  /\ at \in 1 .. Len(code) + 1 /\ arg \in Nat \ {0}
  /\ Building => at = 1 /\ arg = 1 /\ slots = Empty /\ areas = Empty /\ next = 0
  /\ phase = "temps" =>
       /\ \A i \in DOMAIN code : i < at => Met(i, Len(Named(code[i])))
       /\ at \in DOMAIN code => Met(at, arg - 1) /\ (arg = 1 \/ arg <= Len(Named(code[at])))
  /\ phase \in {"slots", "areas", "emit", "done"} => MetAll
  /\ phase = "areas" => \A i \in DOMAIN code : i < at /\ code[i].op = "Alloca" => Laid(i)
  /\ phase = "emit" /\ at \in DOMAIN code => arg = 1 \/ arg <= Len(Touched(code[at]))

FrameOK == frame \in Nat /\ frame % 16 = 0

IInv == CodeOK /\ Layout /\ Position /\ FrameOK /\ InFrame

(* The invariant gives the type invariant.                                 *)
LEMMA Typed == IInv => TypeOK
BY DEF IInv, CodeOK, Layout, SlotsBelow, AreasBelow, Position, FrameOK, TypeOK

-----------------------------------------------------------------------------
(* What an instruction names are temporaries of the function.              *)
LEMMA NamesAreTemps ==
  ASSUME temps \in Nat, NEW instr \in Instrs
  PROVE  /\ Named(instr) \in Seq(0 .. temps - 1)
         /\ Touched(instr) \in Seq(0 .. temps - 1)
<1>1. instr.op \in {"Alloca", "Value", "Input", "Effect"} /\ instr.dst \in -1 .. temps - 1
      /\ instr.srcs \in Seq(0 .. temps - 1) /\ (instr.op = "Effect" <=> instr.dst = NoTemp)
  BY DEF Instrs
<1>2. instr.op # "Effect" => instr.dst \in 0 .. temps - 1
  BY <1>1 DEF NoTemp
<1>3. instr.op # "Effect" => Append(instr.srcs, instr.dst) \in Seq(0 .. temps - 1)
  BY <1>1, <1>2
<1>4. HasDst(instr) => <<instr.dst>> \o instr.srcs \in Seq(0 .. temps - 1)
  <2>1. SUFFICES ASSUME HasDst(instr) PROVE <<instr.dst>> \o instr.srcs \in Seq(0 .. temps - 1)
    OBVIOUS
  <2>2. instr.dst \in 0 .. temps - 1
    BY <2>1, <1>2 DEF HasDst
  <2>3. <<instr.dst>> \in Seq(0 .. temps - 1)
    BY <2>2
  <2> QED BY <2>3, <1>1
<1> QED BY <1>1, <1>3, <1>4 DEF Named, Touched

(* What is touched but not named is the result of a system call.           *)
LEMMA OnlyInputsUnnamed ==
  ASSUME temps \in Nat, NEW instr \in Instrs, NEW k \in DOMAIN Touched(instr),
         \A l \in 1 .. Len(Named(instr)) : Named(instr)[l] # Touched(instr)[k]
  PROVE  instr.op = "Input" /\ Touched(instr)[k] = instr.dst
<1>1. instr.op \in {"Alloca", "Value", "Input", "Effect"} /\ instr.srcs \in Seq(0 .. temps - 1)
  BY DEF Instrs
<1> DEFINE s == instr.srcs
           d == instr.dst
<1>2. s \in Seq(0 .. temps - 1) /\ Len(s) \in Nat
  BY <1>1
<1>3. \A l \in 1 .. Len(s) : \E m \in 1 .. Len(Named(instr)) : Named(instr)[m] = s[l]
  <2>1. CASE HasDst(instr)
    <3>1. Named(instr) = <<d>> \o s
      BY <2>1 DEF Named
    <3>2. \A l \in 1 .. Len(s) : l + 1 \in 1 .. Len(<<d>> \o s) /\ (<<d>> \o s)[l + 1] = s[l]
      BY <1>2
    <3> QED BY <3>1, <3>2
  <2>2. CASE ~HasDst(instr)
    BY <2>2 DEF Named
  <2> QED BY <2>1, <2>2
<1>4. HasDst(instr) => \E m \in 1 .. Len(Named(instr)) : Named(instr)[m] = d
  <2>1. 1 \in 1 .. Len(<<d>> \o s) /\ (<<d>> \o s)[1] = d
    BY <1>2
  <2> QED BY <2>1 DEF Named
<1>5. CASE instr.op = "Effect"
  <2>1. Touched(instr) = s
    BY <1>5 DEF Touched
  <2>2. k \in 1 .. Len(s)
    BY <2>1, <1>2
  <2> QED BY <2>1, <2>2, <1>3
<1>6. CASE instr.op # "Effect"
  <2>1. Touched(instr) = Append(s, d)
    BY <1>6 DEF Touched
  <2>2. k \in 1 .. Len(s) + 1
    BY <2>1, <1>2
  <2>3. k # Len(s) + 1 => k \in 1 .. Len(s) /\ Append(s, d)[k] = s[k]
    BY <2>2, <1>2
  <2>4. k = Len(s) + 1
    BY <2>1, <2>3, <1>3
  <2>5. Append(s, d)[k] = d
    BY <2>4, <1>2
  <2>6. ~HasDst(instr)
    BY <2>1, <2>5, <1>4
  <2> QED BY <2>1, <2>5, <2>6, <1>6, <1>1 DEF HasDst
<1> QED BY <1>5, <1>6

(* The instructions of the function, one by one.                           *)
LEMMA EachInstr ==
  ASSUME CodeOK, NEW i \in DOMAIN code
  PROVE  /\ code[i] \in Instrs
         /\ code[i].op \in {"Alloca", "Value", "Input", "Effect"}
         /\ code[i].dst \in -1 .. temps - 1 /\ code[i].size \in Int
         /\ code[i].op # "Effect" => code[i].dst \in 0 .. temps - 1
<1>1. code[i] \in Instrs
  BY DEF CodeOK
<1>2. /\ code[i].dst \in -1 .. temps - 1 /\ code[i].size \in Sizes \cup {0, 4}
      /\ code[i].op \in {"Alloca", "Value", "Input", "Effect"}
      /\ (code[i].op = "Effect" <=> code[i].dst = NoTemp)
  BY <1>1 DEF Instrs
<1>3. code[i].size \in Int
  <2>1. \A size \in Sizes \cup {0, 4} : size \in Int
    BY FrameAssumption
  <2> QED BY <1>2, <2>1, Zenon
<1>4. code[i].op # "Effect" => code[i].dst \in 0 .. temps - 1
  BY <1>2 DEF CodeOK, NoTemp
<1> QED BY <1>1, <1>2, <1>3, <1>4

(* Giving a slot to what has none keeps everything apart.                  *)
LEMMA Ensuring ==
  ASSUME CodeOK, Layout, NEW id \in Ids, Ensure(id),
         UNCHANGED <<params, temps, code, areas>>
  PROVE  /\ Layout'
         /\ DOMAIN slots' = DOMAIN slots \cup {id}
         /\ \A x \in DOMAIN slots : slots'[x] = slots[x]
<1>1. CASE id \in DOMAIN slots
  <2>1. UNCHANGED <<params, temps, code, areas, slots, next>>
    BY <1>1 DEF Ensure
  <2> QED BY <2>1, <1>1 DEF Layout, SlotsBelow, AreasBelow, Apart, Laid, Start, Stop, Ids
<1>2. CASE id \notin DOMAIN slots
  <2>1. slots' = Put(slots, id, next) /\ next' = next + 4
    BY <1>2 DEF Ensure
  <2>2. /\ DOMAIN slots' = DOMAIN slots \cup {id} /\ slots'[id] = next
        /\ \A x \in DOMAIN slots : slots'[x] = slots[x]
    BY <2>1, <1>2 DEF Put
  <2>3. Offset(next) /\ Offset(next')
    BY <2>1 DEF Layout, SlotsBelow, Offset
  <2>4. SlotsBelow'
    BY <2>1, <2>2, <2>3 DEF Layout, SlotsBelow, Offset, Ids
  <2>5. \A i \in DOMAIN code : Laid(i) => Stop(i) \in Int /\ Start(i) \in Int /\ Stop(i) <= next
    <3>1. SUFFICES ASSUME NEW i \in DOMAIN code, Laid(i) PROVE Stop(i) \in Int /\ Start(i) \in Int
      BY DEF Layout, AreasBelow
    <3>2. code[i].size \in Int
      BY EachInstr
    <3> QED BY <3>1, <3>2, RoundedArea DEF Layout, AreasBelow, Laid, Start, Stop, Offset
  <2>6. \A i : (Laid(i))' = Laid(i) /\ (Start(i))' = Start(i) /\ (Stop(i))' = Stop(i)
    BY DEF Laid, Start, Stop
  <2>7. AreasBelow'
    BY <2>1, <2>3, <2>5, <2>6 DEF Layout, AreasBelow, Offset
  <2>8. Apart'
    BY <2>1, <2>2, <2>3, <2>5, <2>6 DEF Layout, SlotsBelow, Apart, Offset
  <2> QED BY <2>2, <2>4, <2>7, <2>8 DEF Layout
<1> QED BY <1>1, <1>2

(* So does laying the area of a variable.                                  *)
LEMMA Laying ==
  ASSUME CodeOK, Layout, at \in 1 .. Len(code) + 1, LayArea
  PROVE  /\ Layout'
         /\ \A i \in DOMAIN code :
              Laid(i) \/ (i = at /\ code[i].op = "Alloca") => (Laid(i))'
<1>1. /\ at \in DOMAIN code /\ UNCHANGED <<params, temps, code, slots>>
      /\ IF code[at].op = "Alloca"
         THEN areas' = Put(areas, code[at].dst, next) /\ next' = next + AreaSize(code[at].size)
         ELSE UNCHANGED <<areas, next>>
  BY DEF CodeOK, LayArea, Function
<1>2. CASE code[at].op # "Alloca"
  <2>1. UNCHANGED <<params, temps, code, areas, slots, next>>
    BY <1>1, <1>2
  <2> QED BY <2>1, <1>2 DEF Layout, SlotsBelow, AreasBelow, Apart, Laid, Start, Stop, Ids
<1>3. CASE code[at].op = "Alloca"
  <2> DEFINE t == code[at].dst
             n == AreaSize(code[at].size)
  <2>1. \A i \in DOMAIN code : code[i].size \in Int
    BY EachInstr
  <2>2. t \in 0 .. temps - 1 /\ \A i \in DOMAIN code : i # at => code[i].dst # t
    <3>1. t \in 0 .. temps - 1 /\ t # NoTemp
      BY <1>1, <1>3, EachInstr DEF NoTemp, CodeOK
    <3> QED BY <3>1, <1>1 DEF CodeOK, Fresh
  <2>3. n \in Nat /\ n % 4 = 0 /\ n >= 4
    BY <2>1, <1>1, RoundedArea
  <2>4. areas' = Put(areas, t, next) /\ next' = next + n
    BY <1>1, <1>3
  <2>5. /\ DOMAIN areas' = DOMAIN areas \cup {t} /\ areas'[t] = next
        /\ \A u \in DOMAIN areas : u # t => areas'[u] = areas[u]
    BY <2>4 DEF Put
  <2>6. Offset(next) /\ Offset(next') /\ next' >= next + 4
    BY <2>3, <2>4 DEF Layout, SlotsBelow, Offset
  <2>7. ASSUME NEW i \in DOMAIN code, i = at
        PROVE  (Laid(i))' /\ (Start(i))' = next /\ (Stop(i))' = next'
    BY <1>1, <1>3, <2>4, <2>5, <2>7 DEF Laid, Start, Stop
  <2>8. ASSUME NEW i \in DOMAIN code, i # at
        PROVE  /\ (Laid(i))' = Laid(i)
               /\ Laid(i) => /\ (Start(i))' = Start(i) /\ (Stop(i))' = Stop(i)
                             /\ Start(i) \in Int /\ Stop(i) \in Int /\ Stop(i) <= next
    <3>1. code[i].dst # t /\ AreaSize(code[i].size) \in Nat
      BY <2>1, <2>2, <2>8, RoundedArea
    <3> QED BY <3>1, <1>1, <2>5 DEF Laid, Start, Stop, Layout, AreasBelow, Offset
  <2>9. SlotsBelow'
    <3>1. slots' = slots /\ Ids' = Ids
      BY <1>1 DEF Ids
    <3>2. \A id \in DOMAIN slots : Offset(slots[id]) /\ slots[id] + 4 <= next'
      BY <2>6 DEF Layout, SlotsBelow, Offset
    <3> QED BY <3>1, <3>2, <2>6 DEF Layout, SlotsBelow, Offset
  <2>10. AreasBelow'
    <3>1. DOMAIN areas' \subseteq 0 .. temps' - 1
      BY <1>1, <2>2, <2>5 DEF Layout, AreasBelow
    <3>2. \A u \in DOMAIN areas' : (Offset(areas[u]))'
      BY <2>5, <2>6 DEF Layout, AreasBelow, Offset
    <3>3. \A i \in DOMAIN code' : (Laid(i))' => (Stop(i))' <= next'
      BY <1>1, <2>6, <2>7, <2>8 DEF Offset
    <3> QED BY <3>1, <3>2, <3>3 DEF AreasBelow
  <2>11. Apart'
    <3>1. \A x \in DOMAIN slots : slots[x] \in Int /\ slots[x] + 4 <= next
      BY DEF Layout, SlotsBelow, Offset
    <3>2. \A i, j \in {k \in DOMAIN code' : (Laid(k))'} :
            i # j => (Stop(i))' <= (Start(j))' \/ (Stop(j))' <= (Start(i))'
      BY <1>1, <2>7, <2>8 DEF Layout, Apart
    <3>3. \A x \in DOMAIN slots' : \A i \in {k \in DOMAIN code' : (Laid(k))'} :
            slots'[x] + 4 <= (Start(i))' \/ (Stop(i))' <= slots'[x]
      BY <1>1, <2>7, <2>8, <3>1 DEF Layout, Apart
    <3> QED BY <1>1, <3>2, <3>3 DEF Layout, Apart
  <2> QED BY <2>7, <2>8, <2>9, <2>10, <2>11, <1>1 DEF Layout
<1> QED BY <1>2, <1>3

-----------------------------------------------------------------------------
(* More temporaries do no harm to what is there.                           *)
LEMMA MoreTemps ==
  ASSUME temps \in Nat, temps' \in {temps, temps + 1}, NEW instr \in Instrs
  PROVE  instr \in Instrs'
<1>1. 0 .. temps - 1 \subseteq 0 .. temps' - 1 /\ -1 .. temps - 1 \subseteq -1 .. temps' - 1
  <2>1. CASE temps' = temps
    BY <2>1
  <2>2. CASE temps' = temps + 1
    BY <2>2
  <2> QED BY <2>1, <2>2
<1>2. Seq(0 .. temps - 1) \subseteq Seq(0 .. temps' - 1)
  BY <1>1
<1> QED BY <1>1, <1>2 DEF Instrs

(* The function grows by instructions whose results are new.               *)
LEMMA Growing ==
  ASSUME CodeOK, params' \in Nat, temps' \in {temps, temps + 1},
         NEW new, new \in Seq(Instrs'), code' = code \o new,
         \A k \in DOMAIN new : new[k].dst \in {temps, NoTemp},
         \A k, l \in DOMAIN new : k # l => new[k].dst = NoTemp \/ new[l].dst = NoTemp
  PROVE  CodeOK'
<1>1. code \in Seq(Instrs')
  <2>1. \A i \in DOMAIN code : code[i] \in Instrs'
    BY MoreTemps, EachInstr DEF CodeOK
  <2> QED BY <2>1 DEF CodeOK
<1>2. code' \in Seq(Instrs')
  BY <1>1
<1>3. DOMAIN code = 1 .. Len(code) /\ DOMAIN new = 1 .. Len(new)
      /\ DOMAIN code' = 1 .. Len(code) + Len(new) /\ Len(code) \in Nat /\ Len(new) \in Nat
  BY <1>1
<1>4. \A i \in DOMAIN code' :
        \/ i \in DOMAIN code /\ code'[i] = code[i] /\ code[i].dst \in -1 .. temps - 1
        \/ i - Len(code) \in DOMAIN new /\ code'[i] = new[i - Len(code)]
  BY <1>1, <1>3, EachInstr
<1>5. Fresh'
  <2> SUFFICES ASSUME NEW i \in DOMAIN code', NEW j \in DOMAIN code', i # j,
                      code'[i].dst = code'[j].dst
               PROVE  code'[i].dst = NoTemp
    BY DEF Fresh, NoTemp
  <2>1. CASE i \in DOMAIN code /\ j \in DOMAIN code /\ code'[i] = code[i] /\ code'[j] = code[j]
    BY <2>1 DEF CodeOK, Fresh
  <2>2. CASE i - Len(code) \in DOMAIN new /\ j - Len(code) \in DOMAIN new
             /\ code'[i] = new[i - Len(code)] /\ code'[j] = new[j - Len(code)]
    BY <2>2, <1>3
  <2>3. CASE \/ code'[i].dst \in -1 .. temps - 1 /\ code'[j].dst \in {temps, NoTemp}
             \/ code'[j].dst \in -1 .. temps - 1 /\ code'[i].dst \in {temps, NoTemp}
    BY <2>3 DEF CodeOK, NoTemp
  <2> QED BY <1>4, <2>1, <2>2, <2>3
<1> QED BY <1>2, <1>5 DEF CodeOK

(* Nothing has been laid out before the layout begins.                     *)
LEMMA NothingYet ==
  ASSUME slots' = Empty, areas' = Empty, next' = 0
  PROVE  Layout'
BY DEF Empty, Layout, SlotsBelow, AreasBelow, Apart, Laid, Offset

(* So that building keeps the invariant.                                   *)
LEMMA BuildingStep ==
  ASSUME IInv, Building, Building', CodeOK', Built, Len(code') >= Len(code)
  PROVE  IInv'
<1>1. Layout'
  BY NothingYet DEF IInv, Position, Built
<1>2. Position'
  BY DEF IInv, CodeOK, Position, Building, Built
<1>3. FrameOK' /\ InFrame'
  BY DEF IInv, FrameOK, InFrame, Emitting, Building, Built
<1> QED BY <1>1, <1>2, <1>3 DEF IInv

LEMMA AddParamKeeps == IInv /\ AddParam => IInv'
<1> SUFFICES ASSUME IInv, AddParam PROVE IInv'
  OBVIOUS
<1> DEFINE new == <<Instr("Alloca", temps, <<>>, 4), Instr("Effect", NoTemp, <<temps>>, 0)>>
<1>1. params' = params + 1 /\ temps' = temps + 1 /\ code' = code \o new
      /\ Building /\ Building' /\ Built
  BY DEF AddParam, Building
<1>2. CodeOK /\ temps \in Nat /\ params \in Nat /\ Len(code) \in Nat
  BY DEF IInv, CodeOK
<1>3. Instr("Alloca", temps, <<>>, 4) \in Instrs'
  BY <1>1, <1>2 DEF Instr, Instrs, NoTemp
<1>4. Instr("Effect", NoTemp, <<temps>>, 0) \in Instrs'
  <2>1. <<temps>> \in Seq(0 .. temps' - 1)
    BY <1>1, <1>2
  <2> QED BY <2>1, <1>1, <1>2 DEF Instr, Instrs, NoTemp
<1>5. /\ new \in Seq(Instrs') /\ DOMAIN new = 1 .. 2 /\ Len(new) = 2
      /\ new[1].dst = temps /\ new[2].dst = NoTemp
  BY <1>3, <1>4 DEF Instr
<1> HIDE DEF new
<1>6. CodeOK'
  <2>1. \A k \in DOMAIN new : new[k].dst \in {temps, NoTemp}
    BY <1>5
  <2>2. \A k, l \in DOMAIN new : k # l => new[k].dst = NoTemp \/ new[l].dst = NoTemp
    BY <1>5
  <2>3. params' \in Nat /\ temps' \in {temps, temps + 1}
    BY <1>1, <1>2
  <2> QED BY <1>1, <1>2, <1>5, <2>1, <2>2, <2>3, Growing
<1>7. Len(code') >= Len(code)
  BY <1>1, <1>2, <1>5 DEF CodeOK
<1> QED BY <1>1, <1>6, <1>7, BuildingStep

(* One more instruction.                                                   *)
LEMMA AppendKeeps ==
  ASSUME IInv, Building, Building', Built, params' = params,
         temps' \in {temps, temps + 1}, NEW instr, instr \in Instrs',
         instr.dst \in {temps, NoTemp}, code' = Append(code, instr)
  PROVE  IInv'
<1>1. CodeOK /\ code \in Seq(Instrs) /\ Len(code) \in Nat /\ params' \in Nat
  BY DEF IInv, CodeOK
<1> DEFINE new == <<instr>>
<1>2. /\ new \in Seq(Instrs') /\ DOMAIN new = 1 .. 1 /\ Len(new) = 1 /\ new[1] = instr
      /\ code' = code \o new
  BY <1>1
<1> HIDE DEF new
<1>3. CodeOK'
  <2>1. \A k \in DOMAIN new : new[k].dst \in {temps, NoTemp}
    BY <1>2
  <2>2. \A k, l \in DOMAIN new : k # l => new[k].dst = NoTemp \/ new[l].dst = NoTemp
    BY <1>2
  <2> QED BY <1>1, <1>2, <2>1, <2>2, Growing
<1>4. Len(code') >= Len(code)
  BY <1>1
<1> QED BY <1>3, <1>4, BuildingStep

LEMMA AddLocalKeeps == IInv /\ AddLocal => IInv'
<1> SUFFICES ASSUME IInv, AddLocal PROVE IInv'
  OBVIOUS
<1>1. PICK size \in Sizes : code' = Append(code, Instr("Alloca", temps, <<>>, size))
  BY DEF AddLocal
<1>2. temps' = temps + 1 /\ params' = params /\ Building /\ Building' /\ Built
  BY DEF AddLocal, Building
<1>3. Instr("Alloca", temps, <<>>, size) \in Instrs'
  BY <1>2 DEF IInv, CodeOK, Instr, Instrs, NoTemp
<1>4. Instr("Alloca", temps, <<>>, size).dst \in {temps, NoTemp}
  BY DEF Instr
<1> QED BY <1>1, <1>2, <1>3, <1>4, AppendKeeps

(* Operands are sequences of temporaries.                                  *)
LEMMA FunctionIsSeq ==
  ASSUME NEW S, NEW n \in Nat, NEW f \in [1 .. n -> S]
  PROVE  f \in Seq(S)
OBVIOUS

LEMMA LargerSeq ==
  ASSUME NEW S, NEW T, S \subseteq T, NEW seq \in Seq(S)
  PROVE  seq \in Seq(T)
OBVIOUS

LEMMA AddInstrKeeps == IInv /\ AddInstr => IInv'
<1> SUFFICES ASSUME IInv, AddInstr PROVE IInv'
  OBVIOUS
<1>1. params' = params /\ Building /\ Building' /\ Built /\ temps \in Nat
  BY DEF AddInstr, Building, IInv, CodeOK
<1>2. temps' \in {temps, temps + 1} /\ 0 .. temps - 1 \subseteq 0 .. temps' - 1
  BY <1>1 DEF AddInstr
<1>3. \A srcs \in Operands : srcs \in Seq(0 .. temps' - 1)
  <2>1. ASSUME NEW n \in 0 .. MaxOperands, NEW srcs \in [1 .. n -> 0 .. temps - 1]
        PROVE  srcs \in Seq(0 .. temps' - 1)
    <3>1. n \in Nat
      BY FrameAssumption
    <3>2. srcs \in Seq(0 .. temps - 1)
      BY <3>1, FunctionIsSeq
    <3> QED BY <3>2, <1>2, LargerSeq
  <2> QED BY <2>1 DEF Operands
<1>4. CASE /\ temps' = temps + 1
           /\ \E srcs \in Operands : code' = Append(code, Instr("Value", temps, srcs, 0))
  <2>1. PICK srcs \in Operands : code' = Append(code, Instr("Value", temps, srcs, 0))
    BY <1>4
  <2>2. Instr("Value", temps, srcs, 0) \in Instrs'
    BY <1>1, <1>3, <1>4 DEF Instr, Instrs, NoTemp
  <2>3. Instr("Value", temps, srcs, 0).dst \in {temps, NoTemp}
    BY DEF Instr
  <2> QED BY <1>1, <1>2, <2>1, <2>2, <2>3, AppendKeeps
<1>5. CASE temps' = temps + 1 /\ code' = Append(code, Instr("Input", temps, <<>>, 0))
  <2>1. Instr("Input", temps, <<>>, 0) \in Instrs'
    BY <1>1, <1>5 DEF Instr, Instrs, NoTemp
  <2>2. Instr("Input", temps, <<>>, 0).dst \in {temps, NoTemp}
    BY DEF Instr
  <2> QED BY <1>1, <1>2, <1>5, <2>1, <2>2, AppendKeeps
<1>6. CASE /\ temps' = temps
           /\ \E srcs \in Operands : code' = Append(code, Instr("Effect", NoTemp, srcs, 0))
  <2>1. PICK srcs \in Operands : code' = Append(code, Instr("Effect", NoTemp, srcs, 0))
    BY <1>6
  <2>2. Instr("Effect", NoTemp, srcs, 0) \in Instrs'
    BY <1>1, <1>3, <1>6 DEF Instr, Instrs, NoTemp
  <2>3. Instr("Effect", NoTemp, srcs, 0).dst \in {temps, NoTemp}
    BY DEF Instr
  <2> QED BY <1>1, <1>2, <2>1, <2>2, <2>3, AppendKeeps
<1> QED BY <1>4, <1>5, <1>6 DEF AddInstr

-----------------------------------------------------------------------------
(* Nothing is laid out in a step that leaves the maps alone.               *)
LEMMA SameLayout ==
  ASSUME CodeOK, Layout, UNCHANGED <<params, temps, code, slots, areas, next>>
  PROVE  CodeOK' /\ Layout'
BY DEF CodeOK, Fresh, Instrs, Layout, SlotsBelow, AreasBelow, Apart, Laid, Start, Stop, Ids

(* What pass 1 has met keeps its slot.                                     *)
LEMMA StaysMet ==
  ASSUME code' = code, DOMAIN slots \subseteq DOMAIN slots', NEW i, NEW k, Met(i, k)
  PROVE  (Met(i, k))'
BY DEF Met

LEMMA BeginLayoutKeeps == IInv /\ BeginLayout => IInv'
<1> SUFFICES ASSUME IInv, BeginLayout PROVE IInv'
  OBVIOUS
<1>1. /\ phase' = "temps" /\ at' = 1 /\ arg' = 1
      /\ UNCHANGED <<params, temps, code, slots, areas, next, frame>>
  BY DEF BeginLayout, Enter, Function
<1>2. CodeOK' /\ Layout'
  BY <1>1, SameLayout DEF IInv
<1>3. Position'
  BY <1>1 DEF IInv, CodeOK, Position, Building, Met
<1> QED BY <1>1, <1>2, <1>3 DEF IInv, FrameOK, InFrame, Emitting

LEMMA SlotValueKeeps == IInv /\ SlotValue => IInv'
<1> SUFFICES ASSUME IInv, SlotValue PROVE IInv'
  OBVIOUS
<1> DEFINE named == Named(code[at])
<1>1. /\ phase = "temps" /\ phase' = "temps" /\ Advance(named)
      /\ UNCHANGED <<params, temps, code, areas, frame>>
      /\ IF named = <<>> THEN UNCHANGED <<slots, next>> ELSE Ensure(named[arg])
  BY DEF SlotValue, Function
<1>2. /\ CodeOK /\ Layout /\ at \in DOMAIN code /\ arg \in Nat \ {0} /\ Len(code) \in Nat
      /\ DOMAIN code = 1 .. Len(code)
  BY DEF IInv, CodeOK, Position, SlotValue
<1>3. named \in Seq(0 .. temps - 1) /\ Len(named) \in Nat
  BY <1>2, EachInstr, NamesAreTemps DEF CodeOK
<1>4. /\ \A i \in DOMAIN code : i < at => Met(i, Len(Named(code[i])))
      /\ Met(at, arg - 1) /\ (arg = 1 \/ arg <= Len(named))
  BY <1>1, <1>2 DEF IInv, Position
<1>5. /\ CodeOK' /\ Layout' /\ DOMAIN slots \subseteq DOMAIN slots'
      /\ \A l \in 1 .. Len(named) : l <= arg => named[l] \in DOMAIN slots'
  <2>1. CASE named = <<>>
    BY <1>1, <1>2, <2>1, SameLayout
  <2>2. CASE named # <<>>
    <3>1. arg \in 1 .. Len(named) /\ named[arg] \in 0 .. temps - 1
      <4>1. Len(named) \in Nat \ {0}
        BY <1>3, <2>2, EmptySeq
      <4>2. arg \in 1 .. Len(named)
        BY <1>2, <1>4, <4>1
      <4> QED BY <1>3, <4>2, ElementOfSeq
    <3>2. named[arg] \in Ids
      BY <3>1 DEF Ids
    <3>3. CodeOK'
      BY <1>1, <1>2 DEF CodeOK, Fresh, Instrs
    <3>4. Layout' /\ DOMAIN slots' = DOMAIN slots \cup {named[arg]}
      BY <1>1, <1>2, <2>2, <3>2, Ensuring
    <3>5. \A l \in 1 .. Len(named) : l <= arg => l = arg \/ l <= arg - 1
      BY <1>2, <1>3
    <3> QED BY <1>4, <3>3, <3>4, <3>5 DEF Met
  <2> QED BY <2>1, <2>2
<1>6. Position'
  <2>1. \A i \in DOMAIN code : i < at => (Met(i, Len(Named(code[i]))))'
    BY <1>1, <1>4, <1>5 DEF Met
  <2>2. CASE arg < Len(named)
    <3>1. at' = at /\ arg' = arg + 1
      BY <1>1, <2>2 DEF Advance
    <3>2. arg' <= Len(named) /\ arg' - 1 = arg
      BY <1>2, <1>3, <2>2, <3>1
    <3>3. (Met(at, arg - 1))'
      BY <1>1, <1>5, <3>1, <3>2 DEF Met
    <3> QED BY <1>1, <1>2, <2>1, <3>1, <3>2, <3>3 DEF Position, Building, IInv
  <2>3. CASE ~(arg < Len(named))
    <3>1. at' = at + 1 /\ arg' = 1
      BY <1>1, <2>3 DEF Advance
    <3>2. \A i \in DOMAIN code : i = at => (Met(i, Len(Named(code[i]))))'
      BY <1>1, <1>2, <1>3, <1>5, <2>3 DEF Met
    <3>3. \A i \in DOMAIN code : i < at' => i < at \/ i = at
      BY <1>2, <3>1
    <3>4. \A i : (Met(i, 0))'
      BY DEF Met
    <3> QED BY <1>1, <1>2, <2>1, <3>1, <3>2, <3>3, <3>4 DEF Position, Building, IInv
  <2> QED BY <2>2, <2>3
<1> QED BY <1>1, <1>5, <1>6 DEF IInv, FrameOK, InFrame, Emitting

(* All that follows pass 1 finds everything named in its slot.             *)
LEMMA AllStayMet ==
  ASSUME MetAll, code' = code, DOMAIN slots \subseteq DOMAIN slots'
  PROVE  MetAll'
BY DEF MetAll, Met

LEMMA EndTempsKeeps == IInv /\ EndTemps => IInv'
<1> SUFFICES ASSUME IInv, EndTemps PROVE IInv'
  OBVIOUS
<1>1. /\ phase = "temps" /\ phase' = "slots" /\ at' = 1 /\ arg' = 1 /\ at > Len(code)
      /\ UNCHANGED <<params, temps, code, slots, areas, next, frame>>
  BY DEF EndTemps, Enter, Function
<1>2. CodeOK' /\ Layout' /\ Len(code) \in Nat /\ DOMAIN code = 1 .. Len(code)
  BY <1>1, SameLayout DEF IInv, CodeOK
<1>3. MetAll
  BY <1>1, <1>2 DEF IInv, Position, MetAll
<1>4. MetAll'
  BY <1>1, <1>3, AllStayMet
<1>5. Position'
  BY <1>1, <1>2, <1>4 DEF Position, Building
<1> QED BY <1>1, <1>2, <1>5 DEF IInv, FrameOK, InFrame, Emitting

LEMMA SlotParamKeeps == IInv /\ SlotParam => IInv'
<1> SUFFICES ASSUME IInv, SlotParam PROVE IInv'
  OBVIOUS
<1>1. /\ phase = "slots" /\ phase' = "slots" /\ at' = at /\ arg' = arg + 1 /\ arg <= params
      /\ Ensure(Param(arg - 1)) /\ UNCHANGED <<params, temps, code, areas, frame>>
  BY DEF SlotParam, Function
<1>2. CodeOK /\ Layout /\ params \in Nat /\ arg \in Nat \ {0} /\ at \in 1 .. Len(code) + 1
  BY DEF IInv, CodeOK, Position
<1>3. arg - 1 \in 0 .. params - 1
  BY <1>1, <1>2
<1>4. Param(arg - 1) \in Ids
  BY <1>3 DEF Ids
<1>5. Layout' /\ DOMAIN slots \subseteq DOMAIN slots'
  BY <1>1, <1>2, <1>4, Ensuring
<1>6. CodeOK'
  BY <1>1, <1>2 DEF CodeOK, Fresh, Instrs
<1>7. MetAll'
  BY <1>1, <1>5, AllStayMet DEF IInv, Position
<1>8. Position'
  BY <1>1, <1>2, <1>7 DEF Position, Building
<1> QED BY <1>1, <1>5, <1>6, <1>8 DEF IInv, FrameOK, InFrame, Emitting

LEMMA EndParamsKeeps == IInv /\ EndParams => IInv'
<1> SUFFICES ASSUME IInv, EndParams PROVE IInv'
  OBVIOUS
<1>1. /\ phase = "slots" /\ phase' = "areas" /\ at' = 1 /\ arg' = 1
      /\ UNCHANGED <<params, temps, code, slots, areas, next, frame>>
  BY DEF EndParams, Enter, Function
<1>2. CodeOK' /\ Layout' /\ Len(code) \in Nat /\ DOMAIN code = 1 .. Len(code)
  BY <1>1, SameLayout DEF IInv, CodeOK
<1>3. MetAll'
  BY <1>1, AllStayMet DEF IInv, Position
<1>4. Position'
  BY <1>1, <1>2, <1>3 DEF Position, Building
<1> QED BY <1>1, <1>2, <1>4 DEF IInv, FrameOK, InFrame, Emitting

LEMMA LayAreaKeeps == IInv /\ LayArea => IInv'
<1> SUFFICES ASSUME IInv, LayArea PROVE IInv'
  OBVIOUS
<1>1. /\ phase = "areas" /\ phase' = "areas" /\ at' = at + 1 /\ arg' = arg /\ at <= Len(code)
      /\ UNCHANGED <<params, temps, code, slots, frame>>
  BY DEF LayArea, Function
<1>2. /\ CodeOK /\ Layout /\ at \in 1 .. Len(code) + 1 /\ Len(code) \in Nat
      /\ DOMAIN code = 1 .. Len(code) /\ arg \in Nat \ {0}
  BY DEF IInv, CodeOK, Position
<1>3. /\ Layout'
      /\ \A i \in DOMAIN code : Laid(i) \/ (i = at /\ code[i].op = "Alloca") => (Laid(i))'
  BY <1>2, Laying
<1>4. CodeOK'
  BY <1>1, <1>2 DEF CodeOK, Fresh, Instrs
<1>5. MetAll'
  BY <1>1, AllStayMet DEF IInv, Position
<1>6. \A i \in DOMAIN code' : i < at' /\ code'[i].op = "Alloca" => (Laid(i))'
  BY <1>1, <1>2, <1>3 DEF IInv, Position
<1>7. Position'
  BY <1>1, <1>2, <1>5, <1>6 DEF Position, Building
<1> QED BY <1>1, <1>3, <1>4, <1>7 DEF IInv, FrameOK, InFrame, Emitting

LEMMA FixFrameKeeps == IInv /\ FixFrame => IInv'
<1> SUFFICES ASSUME IInv, FixFrame PROVE IInv'
  OBVIOUS
<1>1. /\ phase = "areas" /\ phase' = "emit" /\ at' = 1 /\ arg' = 1 /\ at > Len(code)
      /\ frame' = Rounded16(next + 8)
      /\ UNCHANGED <<params, temps, code, slots, areas, next>>
  BY DEF FixFrame, Enter, Function
<1>2. CodeOK' /\ Layout' /\ Len(code) \in Nat /\ DOMAIN code = 1 .. Len(code)
  BY <1>1, SameLayout DEF IInv, CodeOK
<1>3. MetAll'
  BY <1>1, AllStayMet DEF IInv, Position
<1>4. next \in Nat /\ frame' \in Nat /\ frame' % 16 = 0 /\ frame' >= next + 8
  BY <1>1, RoundedFrame DEF IInv, Layout, SlotsBelow, Offset
<1>5. Position'
  BY <1>1, <1>2, <1>3 DEF Position, Building
<1>6. \A id \in DOMAIN slots : slots[id] + 4 <= frame' - 8
  BY <1>4 DEF IInv, Layout, SlotsBelow, Offset
<1>7. ASSUME NEW i \in DOMAIN code, code[i].op = "Alloca"
      PROVE  (Laid(i))' /\ (Stop(i))' <= frame' - 8
  <2>1. Laid(i) /\ Stop(i) <= next
    BY <1>1, <1>2, <1>7 DEF IInv, Position, Layout, AreasBelow
  <2>2. AreaSize(code[i].size) \in Nat
    BY <1>7, EachInstr, RoundedArea DEF IInv
  <2>3. Stop(i) \in Int
    BY <2>1, <2>2 DEF IInv, Layout, AreasBelow, Laid, Stop, Start, Offset
  <2>4. (Laid(i))' = Laid(i) /\ (Stop(i))' = Stop(i)
    BY <1>1 DEF Laid, Stop, Start
  <2> QED BY <1>4, <2>1, <2>3, <2>4
<1>8. InFrame'
  BY <1>1, <1>6, <1>7 DEF InFrame
<1> QED BY <1>2, <1>4, <1>5, <1>8 DEF IInv, FrameOK

(* A value without a slot is the unread result of a system call.           *)
LEMMA OnlyUnreadAreLate ==
  ASSUME CodeOK, MetAll, NEW i \in DOMAIN code, NEW k \in DOMAIN Touched(code[i]),
         Touched(code[i])[k] \notin DOMAIN slots
  PROVE  Unread(Touched(code[i])[k])
<1> DEFINE id == Touched(code[i])[k]
<1>1. ASSUME NEW j \in DOMAIN code, NEW l \in 1 .. Len(Named(code[j]))
      PROVE  Named(code[j])[l] # id
  <2>1. Len(Named(code[j])) \in Nat
    BY <1>1, EachInstr, NamesAreTemps DEF CodeOK
  <2> QED BY <1>1, <2>1 DEF MetAll, Met
<1>2. code[i].op = "Input" /\ id = code[i].dst
  BY <1>1, EachInstr, OnlyInputsUnnamed DEF CodeOK
<1>3. ASSUME NEW j \in DOMAIN code, NEW m \in DOMAIN code[j].srcs
      PROVE  code[j].srcs[m] # id
  <2> DEFINE s == code[j].srcs
             d == code[j].dst
  <2>1. s \in Seq(0 .. temps - 1) /\ m \in 1 .. Len(s) /\ Len(s) \in Nat
    BY <1>3, EachInstr DEF Instrs
  <2>2. CASE HasDst(code[j])
    <3>1. Named(code[j]) = <<d>> \o s
      BY <2>2 DEF Named
    <3>2. m + 1 \in 1 .. Len(<<d>> \o s) /\ (<<d>> \o s)[m + 1] = s[m]
      BY <2>1
    <3> QED BY <1>1, <3>1, <3>2
  <2>3. CASE ~HasDst(code[j])
    BY <1>1, <2>1, <2>3 DEF Named
  <2> QED BY <2>2, <2>3
<1> QED BY <1>2, <1>3 DEF Unread

LEMMA EmitValueKeeps == IInv /\ EmitValue => IInv'
<1> SUFFICES ASSUME IInv, EmitValue PROVE IInv'
  OBVIOUS
<1> DEFINE touched == Touched(code[at])
<1>1. /\ phase = "emit" /\ phase' = "emit" /\ Advance(touched)
      /\ UNCHANGED <<params, temps, code, areas, frame>>
      /\ IF touched = <<>> THEN UNCHANGED <<slots, next>> ELSE Ensure(touched[arg])
  BY DEF EmitValue, Function
<1>2. /\ CodeOK /\ Layout /\ MetAll /\ at \in DOMAIN code /\ arg \in Nat \ {0}
      /\ Len(code) \in Nat /\ DOMAIN code = 1 .. Len(code)
      /\ arg = 1 \/ arg <= Len(touched)
  BY DEF IInv, CodeOK, Position, EmitValue
<1>3. touched \in Seq(0 .. temps - 1) /\ Len(touched) \in Nat
  BY <1>2, EachInstr, NamesAreTemps DEF CodeOK
<1>4. /\ CodeOK' /\ Layout' /\ DOMAIN slots \subseteq DOMAIN slots'
      /\ \A id \in DOMAIN slots' :
           (id \in DOMAIN slots /\ slots'[id] = slots[id]) \/ Unread(id)
  <2>1. CASE touched = <<>>
    BY <1>1, <1>2, <2>1, SameLayout
  <2>2. CASE touched # <<>>
    <3>1. arg \in 1 .. Len(touched) /\ touched[arg] \in 0 .. temps - 1
      <4>1. Len(touched) \in Nat \ {0}
        BY <1>3, <2>2, EmptySeq
      <4>2. arg \in 1 .. Len(touched)
        BY <1>2, <4>1
      <4> QED BY <1>3, <4>2, ElementOfSeq
    <3>2. touched[arg] \in Ids
      BY <3>1 DEF Ids
    <3>3. CodeOK'
      BY <1>1, <1>2 DEF CodeOK, Fresh, Instrs
    <3>4. /\ Layout' /\ DOMAIN slots' = DOMAIN slots \cup {touched[arg]}
          /\ \A x \in DOMAIN slots : slots'[x] = slots[x]
      BY <1>1, <1>2, <2>2, <3>2, Ensuring
    <3>5. arg \in DOMAIN touched
      BY <1>3, <3>1
    <3>6. touched[arg] \notin DOMAIN slots => Unread(touched[arg])
      BY <1>2, <3>5, OnlyUnreadAreLate
    <3> QED BY <3>3, <3>4, <3>6
  <2> QED BY <2>1, <2>2
<1>5. MetAll'
  BY <1>1, <1>2, <1>4, AllStayMet
<1>6. Position'
  <2>1. CASE arg < Len(touched)
    <3>1. at' = at /\ arg' = arg + 1
      BY <1>1, <2>1 DEF Advance
    <3>2. arg' <= Len(touched)
      BY <1>2, <1>3, <2>1, <3>1
    <3> QED BY <1>1, <1>2, <1>5, <3>1, <3>2 DEF Position, Building
  <2>2. CASE ~(arg < Len(touched))
    <3>1. at' = at + 1 /\ arg' = 1
      BY <1>1, <2>2 DEF Advance
    <3> QED BY <1>1, <1>2, <1>5, <3>1 DEF Position, Building
  <2> QED BY <2>1, <2>2
<1>7. InFrame'
  <2>1. \A id : (Unread(id))' = Unread(id)
    BY <1>1 DEF Unread
  <2>2. \A i \in DOMAIN code : (Laid(i))' = Laid(i) /\ (Stop(i))' = Stop(i)
    BY <1>1 DEF Laid, Stop, Start
  <2>3. \A id \in DOMAIN slots' : slots'[id] + 4 <= frame' - 8 \/ (Unread(id))'
    BY <1>1, <1>4, <2>1 DEF IInv, InFrame, Emitting
  <2>4. \A i \in DOMAIN code' : code'[i].op = "Alloca" => (Laid(i))' /\ (Stop(i))' <= frame' - 8
    BY <1>1, <2>2 DEF IInv, InFrame, Emitting
  <2> QED BY <2>3, <2>4 DEF InFrame
<1> QED BY <1>1, <1>4, <1>6, <1>7 DEF IInv, FrameOK

LEMMA EndFunctionKeeps == IInv /\ EndFunction => IInv'
<1> SUFFICES ASSUME IInv, EndFunction PROVE IInv'
  OBVIOUS
<1>1. /\ phase = "emit" /\ phase' = "done" /\ at' = 1 /\ arg' = 1
      /\ UNCHANGED <<params, temps, code, slots, areas, next, frame>>
  BY DEF EndFunction, Enter, Function
<1>2. CodeOK' /\ Layout' /\ Len(code) \in Nat /\ DOMAIN code = 1 .. Len(code)
  BY <1>1, SameLayout DEF IInv, CodeOK
<1>3. MetAll'
  BY <1>1, AllStayMet DEF IInv, Position
<1>4. Position'
  BY <1>1, <1>2, <1>3 DEF Position, Building
<1>5. InFrame'
  BY <1>1 DEF IInv, InFrame, Emitting, Unread, Laid, Stop, Start
<1> QED BY <1>1, <1>2, <1>4, <1>5 DEF IInv, FrameOK

-----------------------------------------------------------------------------
LEMMA Initially == Init => IInv
<1> SUFFICES ASSUME Init PROVE IInv
  OBVIOUS
<1>1. CodeOK
  BY DEF Init, CodeOK, Fresh
<1>2. Layout
  BY DEF Init, Empty, Layout, SlotsBelow, AreasBelow, Apart, Laid, Offset
<1>3. Position /\ FrameOK /\ InFrame
  BY DEF Init, Position, Building, FrameOK, InFrame, Emitting
<1> QED BY <1>1, <1>2, <1>3 DEF IInv

(* A step that changes nothing.                                            *)
LEMMA StutterKeeps == IInv /\ UNCHANGED vars => IInv'
BY DEF vars, IInv, CodeOK, Fresh, Instrs, Layout, SlotsBelow, AreasBelow, Apart, Laid, Start,
       Stop, Ids, Position, Building, Met, MetAll, FrameOK, InFrame, Emitting, Unread

(* Every action of building, laying out and emitting keeps the invariant.  *)
LEMMA StepKeeps == IInv /\ [Next]_vars => IInv'
<1> SUFFICES ASSUME IInv, [Next]_vars PROVE IInv'
  OBVIOUS
<1>1. CASE AddParam \/ AddLocal \/ AddInstr
  BY <1>1, AddParamKeeps, AddLocalKeeps, AddInstrKeeps
<1>2. CASE BeginLayout \/ SlotValue \/ EndTemps \/ SlotParam \/ EndParams
  BY <1>2, BeginLayoutKeeps, SlotValueKeeps, EndTempsKeeps, SlotParamKeeps, EndParamsKeeps
<1>3. CASE LayArea \/ FixFrame \/ EmitValue \/ EndFunction
  BY <1>3, LayAreaKeeps, FixFrameKeeps, EmitValueKeeps, EndFunctionKeeps
<1>4. CASE Finished \/ UNCHANGED vars
  BY <1>4, StutterKeeps DEF Finished
<1> QED BY <1>1, <1>2, <1>3, <1>4 DEF Next

(* The invariant of the frame's layout, for functions of every length.     *)
THEOREM LayoutInvariant == Spec => []IInv
BY Initially, StepKeeps, PTL DEF Spec

(* Offsets stay aligned and maps over what the function has.               *)
THEOREM TypeCorrect == Spec => []TypeOK
BY LayoutInvariant, Typed, PTL

(* No two temporaries, parameters or variables ever share memory.          *)
THEOREM NothingShared == Spec => []Apart
<1>1. IInv => Apart
  BY DEF IInv, Layout
<1> QED BY LayoutInvariant, <1>1, PTL

(* Only unread results of system calls get memory beyond the frame's part  *)
(* below the saved registers.                                              *)
THEOREM SavedRegistersSpared == Spec => []InFrame
<1>1. IInv => InFrame
  BY DEF IInv
<1> QED BY LayoutInvariant, <1>1, PTL
=============================================================================

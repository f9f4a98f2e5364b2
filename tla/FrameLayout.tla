----------------------------- MODULE FrameLayout -----------------------------
(***************************************************************************)
(* The frame of a function in src/src/ir/RiscVIRCodeGen.cpp: slots of four *)
(* bytes for temporaries and parameters, data areas for variables, and the *)
(* saved s0 and ra at the top.  allocateSlots goes through the function    *)
(* twice and fixes the size of the frame; emitFunction then asks slotOf    *)
(* for the slot of all that is loaded and stored.                          *)
(*                                                                         *)
(* IRBuilder's part is to choose the function: which temporaries each      *)
(* instruction names is kept of it, and the sizes of variables.            *)
(***************************************************************************)
EXTENDS Integers, Sequences

CONSTANTS MaxParams, MaxCode,   \* bounds: parameters, instructions
          MaxOperands,          \* bound: temporaries an instruction reads
          Sizes                 \* sizes of local variables, as IRBuilder has them

ASSUME FrameAssumption ==
  Sizes \subseteq Int /\ MaxParams \in Nat /\ MaxOperands \in Nat

VARIABLES params,   \* parameters of the function
          temps,    \* temporaries handed out by freshTemp
          code,     \* its instructions, of all blocks in turn
          phase,    \* what the generator is at
          at, arg,  \* the instruction, and the value of it, it is at
          slots,    \* slots_: from temporaries and parameters
          areas,    \* allocaDataOffset_
          next,     \* nextSlot_
          frame     \* frameSize_, 0 until it is fixed

vars == <<params, temps, code, phase, at, arg, slots, areas, next, frame>>

(* Alloca, Syscall with a result ("Input": In.Int, In.Char, NEW), other    *)
(* operations with a result ("Value") and without ("Effect").              *)
Instr(op, dst, srcs, size) == [op |-> op, dst |-> dst, srcs |-> srcs, size |-> size]

NoTemp == -1

HasDst(instr) == instr.op \in {"Alloca", "Value"}

(* What pass 1 looks at, and what the code that is emitted loads or stores *)
(* (of a call with more than eight arguments the others are not loaded).   *)
Named(instr) == IF HasDst(instr) THEN <<instr.dst>> \o instr.srcs ELSE instr.srcs

Touched(instr) ==
  IF instr.op = "Effect" THEN instr.srcs ELSE Append(instr.srcs, instr.dst)

Param(i) == -1000 - i

Put(f, x, y) == [z \in DOMAIN f \cup {x} |-> IF z = x THEN y ELSE f[z]]

Empty == [x \in {} |-> 0]

(* (size + 3) & ~3; an area is never empty.                                *)
UnroundedArea(size) == IF size > 0 THEN size ELSE 4

AreaSize(size) == 4 * ((UnroundedArea(size) + 3) \div 4)

Rounded16(n) == 16 * ((n + 15) \div 16)

Init ==
  /\ params = 0 /\ temps = 0 /\ code = <<>>
  /\ phase = "params" /\ at = 1 /\ arg = 1
  /\ slots = Empty /\ areas = Empty
  /\ next = 0 /\ frame = 0

-----------------------------------------------------------------------------
(* The function is built: parameters, local variables, statements.         *)
Built == UNCHANGED <<at, arg, slots, areas, next, frame>>

AddParam ==
  /\ phase = "params" /\ params < MaxParams
  /\ params' = params + 1 /\ temps' = temps + 1
  /\ code' = code \o <<Instr("Alloca", temps, <<>>, 4), Instr("Effect", NoTemp, <<temps>>, 0)>>
  /\ UNCHANGED phase /\ Built

AddLocal ==
  /\ phase \in {"params", "locals"} /\ Len(code) < MaxCode
  /\ phase' = "locals" /\ temps' = temps + 1
  /\ \E size \in Sizes : code' = Append(code, Instr("Alloca", temps, <<>>, size))
  /\ UNCHANGED params /\ Built

Operands == UNION {[1 .. n -> 0 .. temps - 1] : n \in 0 .. MaxOperands}

AddInstr ==
  /\ phase \in {"params", "locals", "body"} /\ Len(code) < MaxCode
  /\ phase' = "body"
  /\ \/ /\ temps' = temps + 1
        /\ \/ \E srcs \in Operands : code' = Append(code, Instr("Value", temps, srcs, 0))
           \/ code' = Append(code, Instr("Input", temps, <<>>, 0))
     \/ /\ temps' = temps
        /\ \E srcs \in Operands : code' = Append(code, Instr("Effect", NoTemp, srcs, 0))
  /\ UNCHANGED params /\ Built

-----------------------------------------------------------------------------
(* A slot for what has none.                                               *)
Ensure(id) ==
  IF id \in DOMAIN slots
  THEN UNCHANGED <<slots, next>>
  ELSE slots' = Put(slots, id, next) /\ next' = next + 4

Function == UNCHANGED <<params, temps, code>>

Enter(p) == phase' = p /\ at' = 1 /\ arg' = 1

(* On to the next value of the instruction, or to the next instruction.    *)
Advance(values) ==
  IF arg < Len(values) THEN at' = at /\ arg' = arg + 1 ELSE at' = at + 1 /\ arg' = 1

BeginLayout ==
  /\ phase \in {"params", "locals", "body"}
  /\ Enter("temps")
  /\ UNCHANGED <<slots, areas, next, frame>> /\ Function

(* Pass 1.                                                                 *)
SlotValue ==
  /\ phase = "temps" /\ at <= Len(code)
  /\ IF Named(code[at]) = <<>> THEN UNCHANGED <<slots, next>>
     ELSE Ensure(Named(code[at])[arg])
  /\ Advance(Named(code[at]))
  /\ UNCHANGED <<phase, areas, frame>> /\ Function

EndTemps ==
  /\ phase = "temps" /\ at > Len(code)
  /\ Enter("slots")
  /\ UNCHANGED <<slots, areas, next, frame>> /\ Function

SlotParam ==
  /\ phase = "slots" /\ arg <= params
  /\ Ensure(Param(arg - 1))
  /\ arg' = arg + 1
  /\ UNCHANGED <<phase, at, areas, frame>> /\ Function

(* Slip: areas are counted from the start again.                           *)
EndParamsRestart ==
  /\ phase = "slots" /\ arg > params
  /\ Enter("areas") /\ next' = 0
  /\ UNCHANGED <<slots, areas, frame>> /\ Function

EndParams ==
  /\ phase = "slots" /\ arg > params
  /\ Enter("areas")
  /\ UNCHANGED <<slots, areas, next, frame>> /\ Function

(* Pass 2.                                                                 *)
LayArea ==
  /\ phase = "areas" /\ at <= Len(code)
  /\ IF code[at].op = "Alloca"
     THEN areas' = Put(areas, code[at].dst, next) /\ next' = next + AreaSize(code[at].size)
     ELSE UNCHANGED <<areas, next>>
  /\ at' = at + 1
  /\ UNCHANGED <<phase, arg, slots, frame>> /\ Function

(* Slip: the saved registers are left to the rounding.                     *)
FixFrameTight ==
  /\ phase = "areas" /\ at > Len(code)
  /\ frame' = Rounded16(next + 4)
  /\ Enter("emit")
  /\ UNCHANGED <<slots, areas, next>> /\ Function

FixFrame ==
  /\ phase = "areas" /\ at > Len(code)
  /\ frame' = Rounded16(next + 8)
  /\ Enter("emit")
  /\ UNCHANGED <<slots, areas, next>> /\ Function

(* emitInstr, with slotOf for each temporary.                              *)
EmitValue ==
  /\ phase = "emit" /\ at <= Len(code)
  /\ IF Touched(code[at]) = <<>> THEN UNCHANGED <<slots, next>>
     ELSE Ensure(Touched(code[at])[arg])
  /\ Advance(Touched(code[at]))
  /\ UNCHANGED <<phase, areas, frame>> /\ Function

EndFunction ==
  /\ phase = "emit" /\ at > Len(code)
  /\ Enter("done")
  /\ UNCHANGED <<slots, areas, next, frame>> /\ Function

Finished == phase = "done" /\ UNCHANGED vars

Next ==
  \/ AddParam \/ AddLocal \/ AddInstr
  \/ BeginLayout \/ SlotValue \/ EndTemps \/ SlotParam \/ EndParams
  \/ LayArea \/ FixFrame \/ EmitValue \/ EndFunction
  \/ Finished

Spec == Init /\ [][Next]_vars

-----------------------------------------------------------------------------
(* Properties. *)
Ids == 0 .. temps - 1 \cup {Param(i) : i \in 0 .. params - 1}

Instrs ==
  {instr \in [op : {"Alloca", "Value", "Input", "Effect"}, dst : -1 .. temps - 1,
              srcs : Seq(0 .. temps - 1), size : Sizes \cup {0, 4}] :
     instr.op = "Effect" <=> instr.dst = NoTemp}

Offset(n) == n \in Nat /\ n % 4 = 0

(* The generator's state; lw and sw are only ever given offsets that are   *)
(* multiples of four.                                                      *)
TypeOK ==
  /\ params \in Nat /\ temps \in Nat /\ code \in Seq(Instrs)
  /\ phase \in {"params", "locals", "body", "temps", "slots", "areas", "emit", "done"}
  /\ at \in 1 .. Len(code) + 1 /\ arg \in Nat \ {0}
  /\ DOMAIN slots \subseteq Ids /\ DOMAIN areas \subseteq 0 .. temps - 1
  /\ \A id \in DOMAIN slots : Offset(slots[id])
  /\ \A t \in DOMAIN areas : Offset(areas[t])
  /\ Offset(next) /\ frame \in Nat /\ frame % 16 = 0

(* Instruction i has an area for its variable.                             *)
Laid(i) == code[i].op = "Alloca" /\ code[i].dst \in DOMAIN areas

Start(i) == areas[code[i].dst]

Stop(i) == Start(i) + AreaSize(code[i].size)

(* No two temporaries, parameters or variables share memory, those that    *)
(* get their slot when the frame's size is fixed already included.         *)
Apart ==
  /\ \A x, y \in DOMAIN slots :
       x # y => slots[x] + 4 <= slots[y] \/ slots[y] + 4 <= slots[x]
  /\ \A i, j \in {k \in DOMAIN code : Laid(k)} :
       i # j => Stop(i) <= Start(j) \/ Stop(j) <= Start(i)
  /\ \A x \in DOMAIN slots : \A i \in {k \in DOMAIN code : Laid(k)} :
       slots[x] + 4 <= Start(i) \/ Stop(i) <= slots[x]

(* The result of In.Int, In.Char or NEW, which no instruction reads.       *)
Unread(id) ==
  /\ \E i \in DOMAIN code : code[i].op = "Input" /\ code[i].dst = id
  /\ \A i \in DOMAIN code : \A k \in DOMAIN code[i].srcs : code[i].srcs[k] # id

Emitting == phase \in {"emit", "done"}

(* Everything lies below the saved s0 and ra, but for results of system    *)
(* calls that nothing reads: pass 1 has met all else that is touched.      *)
InFrame ==
  Emitting =>
    /\ \A id \in DOMAIN slots : slots[id] + 4 <= frame - 8 \/ Unread(id)
    /\ \A i \in DOMAIN code : code[i].op = "Alloca" => Laid(i) /\ Stop(i) <= frame - 8

(* "Pass 1: allocate slots for all temporaries", so that all slots lie in  *)
(* the frame whose size follows from them (violated: In.Int() whose        *)
(* result is not used gets the slot of the saved s0 or ra).                *)
SlotsInFrame ==
  Emitting => \A id \in DOMAIN slots : slots[id] + 4 <= frame - 8
=============================================================================

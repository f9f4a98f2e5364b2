-------------------------------- MODULE Names --------------------------------
(***************************************************************************)
(* Names and what they stand for: Sema (sema/Sema.cpp), IRBuilder          *)
(* (ir/IRBuilder.cpp) and the direct generator (codegen/RiscVCodeGen.cpp,  *)
(* SymbolTable.cpp) go through the same modules, the imported ones in the  *)
(* order ModuleLoader gives them and the main one last, each with scopes   *)
(* of its own making.                                                      *)
(*                                                                         *)
(* The program is chosen as it is visited: one step declares a constant, a *)
(* variable or a procedure with its parameter, begins a body, meets a      *)
(* RETURN in it, or ends it.  Other statements change no table: what a     *)
(* name would be taken for at each place of a body is given by operators,  *)
(* one for each way a visitor looks a name up.  Every variable may be a    *)
(* record with fields of any name; r.n and M.n are one thing to the        *)
(* parsers, which store "r.n" or "M.n" as the base name.                   *)
(***************************************************************************)
EXTENDS Integers, Sequences, FiniteSets

CONSTANTS
  Names,          \* the identifiers programs use
  Order,          \* the names of the modules visited, the main one last
  ImportLists,    \* what they may import: a set of functions on the modules
  Signatures,     \* the signatures procedures may have
  MaxDecls        \* bound: declarations

Modules == {Order[i] : i \in 1..Len(Order)}
Main == Order[Len(Order)]

NoParam == [name |-> "none"]
ParamLists == {NoParam} \cup [name : Names, isVar : BOOLEAN]

\* The loader loads no module twice; the main module comes again only when
\* one of its imports imports it, which is left out.
ASSUME OrderAssumption ==
  /\ Order \in Seq(Modules) /\ Order # <<>>
  /\ \A i, j \in 1..Len(Order) : Order[i] = Order[j] => i = j
ASSUME ImportsAssumption == ImportLists \subseteq [Modules -> SUBSET Modules]
ASSUME SignaturesAssumption ==
  Signatures \subseteq [function : BOOLEAN, param : ParamLists]
ASSUME KeysAssumption == Names \cap Modules = {} /\ "" \notin Names \cup Modules
ASSUME BoundAssumption == MaxDecls \in Nat

VARIABLES
  at,             \* which module of Order is visited
  imports,        \* what each module imports
  decls,          \* every declaration so far; a number is the place in it
  open,           \* the visits of procedures under way, the outermost first
  inBody,         \* is the innermost one (or the module) at its statements?
  returns,        \* the procedures with a RETURN of their own so far
  refused,        \* why Sema refuses the program, or "no"
  semaScopes, funcHasReturn,            \* scopes_, currentFuncHasReturn_
  irScopes, constants,                  \* scopes_, constants_
  moved, curFunc,                       \* moves of module_.functions; curFunc_, and
                                        \* what moved was when it was set
  symScopes, epilogue,                  \* scopes_, currentEpilogueLabel_
  inGlobalScope                         \* inGlobalScope_ of both generators

program == <<at, imports, decls, open, inBody, returns>>
sema == <<semaScopes, funcHasReturn, refused>>
builder == <<irScopes, constants, moved, curFunc>>
direct == <<symScopes, epilogue>>
vars == <<at, imports, decls, open, inBody, returns, refused, semaScopes, funcHasReturn,
          irScopes, constants, moved, curFunc, symScopes, epilogue, inGlobalScope>>

-----------------------------------------------------------------------------
(* All three keep a stack of tables and search it from the top.            *)
Keys == Names \cup Modules
NoSymbol == [id |-> 0, global |-> FALSE]
Import == [id |-> -1, global |-> FALSE]
Scope == [k \in Keys |-> NoSymbol]

(* Slip: the outermost table with the name is taken.                       *)
lookupOutermost(scopes, key) ==
  LET has == {i \in 1..Len(scopes) : scopes[i][key] # NoSymbol}
  IN  IF has = {} THEN NoSymbol
      ELSE scopes[CHOOSE i \in has : \A j \in has : i <= j][key]

lookup(scopes, key) ==
  LET has == {i \in 1..Len(scopes) : scopes[i][key] # NoSymbol}
  IN  IF has = {} THEN NoSymbol
      ELSE scopes[CHOOSE i \in has : \A j \in has : j <= i][key]

define(scopes, key, symbol) == [scopes EXCEPT ![Len(scopes)][key] = symbol]
push(scopes) == Append(scopes, Scope)
pop(scopes) == SubSeq(scopes, 1, Len(scopes) - 1)

Current == open[Len(open)]
Owner == IF open = <<>> THEN 0 ELSE Current.id
InMain == at = Len(Order)
New == Len(decls) + 1

(* The generators pass over what an imported module does not export, but   *)
(* take its variables all the same.                                        *)
Taken(kind, exported) ==
  IF open # <<>> THEN Current.taken ELSE InMain \/ kind = "var" \/ exported

(* The parsers take constants, variables and procedures in this order.     *)
Rank == [param |-> 0, const |-> 1, var |-> 2, proc |-> 3]
MayDeclare(kind, new) ==
  /\ refused = "no" /\ ~inBody
  /\ Len(decls) + new <= MaxDecls
  /\ \A i \in 1..Len(decls) :
       decls[i].owner = Owner /\ decls[i].mod = Order[at] => Rank[decls[i].kind] <= Rank[kind]

Decl(kind, name, owner, exported, taken) ==
  [kind |-> kind, name |-> name, mod |-> Order[at], owner |-> owner, exported |-> exported,
   taken |-> taken, function |-> FALSE, isVar |-> FALSE, params |-> 0]

NoFunction == [fn |-> -1, moved |-> 0]
MainBody == [fn |-> 0, moved |-> 0]
ImportScope(m) == [k \in Keys |-> IF k \in imports[m] THEN Import ELSE NoSymbol]

Init ==
  /\ at = 1
  /\ imports \in ImportLists
  /\ decls = <<>> /\ open = <<>> /\ inBody = FALSE /\ returns = {}
  /\ refused = "no"
  /\ semaScopes = <<ImportScope(Order[1])>>
  /\ funcHasReturn = FALSE
  /\ irScopes = <<Scope>> /\ constants = [n \in Names |-> 0]
  /\ moved = 0 /\ curFunc = NoFunction
  /\ symScopes = <<Scope>> /\ epilogue = 0
  /\ inGlobalScope = TRUE

(* Sema: a second declaration in one scope is refused.                     *)
(* Slip: a name of an outer scope may not be declared again either.        *)
DeclaresAnywhere(name) == lookup(semaScopes, name) # NoSymbol

Declares(name) == semaScopes[Len(semaScopes)][name] # NoSymbol
declare(name) == IF Declares(name) THEN semaScopes
                 ELSE define(semaScopes, name, [id |-> New, global |-> FALSE])

ConstDecl(name, exported) ==
  /\ MayDeclare("const", 1)
  /\ LET taken == Taken("const", exported)
         symbol == [id |-> New, global |-> inGlobalScope]
     IN  /\ decls' = Append(decls, Decl("const", name, Owner, exported, taken))
         /\ constants' = IF taken THEN [constants EXCEPT ![name] = New] ELSE constants
         /\ symScopes' = IF taken THEN define(symScopes, name, symbol) ELSE symScopes
  /\ semaScopes' = declare(name)
  /\ refused' = IF Declares(name) THEN "duplicate" ELSE refused
  /\ UNCHANGED <<at, imports, open, inBody, returns, funcHasReturn, irScopes, moved, curFunc,
                 epilogue, inGlobalScope>>

VarDecl(name, exported) ==
  /\ MayDeclare("var", 1)
  /\ LET taken == Taken("var", exported)
         symbol == [id |-> New, global |-> inGlobalScope]
     IN  /\ decls' = Append(decls, Decl("var", name, Owner, exported, taken))
         /\ irScopes' = IF taken THEN define(irScopes, name, symbol) ELSE irScopes
         /\ symScopes' = IF taken THEN define(symScopes, name, symbol) ELSE symScopes
  /\ semaScopes' = declare(name)
  /\ refused' = IF Declares(name) THEN "duplicate" ELSE refused
  /\ UNCHANGED <<at, imports, open, inBody, returns, funcHasReturn, constants, moved, curFunc,
                 epilogue, inGlobalScope>>

(* Slip: the procedure itself is counted among its parameters.             *)
WithProcCounted(scopes, name, symbol, param) ==
  LET inner == push(define(scopes, name, symbol))
  IN  IF param = NoParam THEN inner
      ELSE define(inner, param.name, [id |-> New + 2, global |-> FALSE])

(* The visit of a procedure up to its declarations: its name is entered    *)
(* outside, its parameter, if any, in a scope of its own.  IRBuilder       *)
(* appends a function to a vector, which may move those before it.         *)
WithProc(scopes, name, symbol, param) ==
  LET inner == push(define(scopes, name, symbol))
  IN  IF param = NoParam THEN inner
      ELSE define(inner, param.name, [id |-> New + 1, global |-> FALSE])

BeginProc(name, exported, function, param) ==
  LET taken == Taken("proc", exported)
      params == IF param = NoParam THEN 0 ELSE 1
      proc == [Decl("proc", name, Owner, exported, taken) EXCEPT
                 !.function = function, !.params = params]
      formal == IF param = NoParam THEN <<>>
                ELSE <<[Decl("param", param.name, New, FALSE, taken) EXCEPT !.isVar = param.isVar]>>
      symbol == [id |-> New, global |-> TRUE]
  IN  /\ MayDeclare("proc", 1 + params)
      /\ decls' = decls \o <<proc>> \o formal
      /\ open' = Append(open, [id |-> New, taken |-> taken, hasReturn |-> funcHasReturn,
                               curFunc |-> curFunc, epilogue |-> epilogue,
                               inGlobalScope |-> inGlobalScope])
      /\ semaScopes' = WithProc(declare(name), name, lookup(declare(name), name), param)
      /\ refused' = IF Declares(name) THEN "duplicate" ELSE refused
      /\ funcHasReturn' = FALSE
      /\ IF taken
         THEN /\ irScopes' = WithProc(irScopes, name, symbol, param)
              /\ symScopes' = WithProc(symScopes, name, [symbol EXCEPT !.global = FALSE], param)
              /\ moved' \in IF open = <<>> THEN {moved} ELSE {moved, moved + 1}
              /\ curFunc' = [fn |-> New, moved |-> moved']
              /\ inGlobalScope' = FALSE
         ELSE UNCHANGED <<irScopes, symScopes, moved, curFunc, inGlobalScope>>
  /\ UNCHANGED <<at, imports, inBody, returns, constants, epilogue>>

(* The declarations end, the statements begin.  A module's own are visited *)
(* by the generators in the main module only.                              *)
BeginBody ==
  /\ refused = "no" /\ ~inBody
  /\ inBody' = TRUE
  /\ IF open # <<>>
     THEN /\ epilogue' = IF Current.taken THEN Owner ELSE epilogue
          /\ open' = [open EXCEPT ![Len(open)].epilogue = epilogue]
          /\ UNCHANGED <<curFunc, inGlobalScope>>
     ELSE /\ IF InMain THEN curFunc' = MainBody /\ inGlobalScope' = FALSE
                       ELSE UNCHANGED <<curFunc, inGlobalScope>>
          /\ UNCHANGED <<epilogue, open>>
  /\ UNCHANGED <<at, imports, decls, returns, sema, irScopes, constants, moved, symScopes>>

ReturnStmt ==
  /\ refused = "no" /\ inBody
  /\ Owner \notin returns
  /\ returns' = returns \cup {Owner}
  /\ funcHasReturn' = TRUE
  /\ UNCHANGED <<at, imports, decls, open, inBody, semaScopes, refused, builder, direct,
                 inGlobalScope>>

(* Slip: the function around it is not put back.                           *)
RestoreButFunction(saved) ==
  /\ curFunc' = curFunc /\ inGlobalScope' = saved.inGlobalScope
  /\ epilogue' = saved.epilogue

Restore(saved) ==
  /\ curFunc' = saved.curFunc /\ inGlobalScope' = saved.inGlobalScope
  /\ epilogue' = saved.epilogue

EndProc ==
  /\ refused = "no" /\ inBody /\ open # <<>>
  /\ refused' = IF decls[Owner].function /\ ~funcHasReturn THEN "return" ELSE refused
  /\ funcHasReturn' = Current.hasReturn
  /\ semaScopes' = pop(semaScopes)
  /\ IF Current.taken
     THEN irScopes' = pop(irScopes) /\ symScopes' = pop(symScopes) /\ Restore(Current)
     ELSE UNCHANGED <<irScopes, symScopes, curFunc, epilogue, inGlobalScope>>
  /\ open' = SubSeq(open, 1, Len(open) - 1)
  /\ inBody' = FALSE
  /\ UNCHANGED <<at, imports, decls, returns, constants, moved>>

(* The next module: Sema starts anew, the generators keep the scope of all *)
(* imports and open one for the main module.                               *)
EndModule ==
  /\ refused = "no" /\ inBody /\ open = <<>> /\ ~InMain
  /\ at' = at + 1
  /\ inBody' = FALSE
  /\ returns' = returns \ {0}
  /\ semaScopes' = <<ImportScope(Order[at + 1])>>
  /\ IF at + 1 = Len(Order)
     THEN irScopes' = push(irScopes) /\ symScopes' = push(symScopes)
     ELSE UNCHANGED <<irScopes, symScopes>>
  /\ UNCHANGED <<imports, decls, open, refused, funcHasReturn, constants, moved, curFunc,
                 epilogue, inGlobalScope>>

(* What the main module exports is of no consequence: nothing imports it.  *)
MayExport == open = <<>> /\ ~InMain
Next ==
  \/ \E n \in Names, e \in {FALSE, MayExport} : ConstDecl(n, e)
  \/ \E n \in Names, e \in {FALSE, MayExport} : VarDecl(n, e)
  \/ \E n \in Names, e \in {FALSE, MayExport}, sig \in Signatures :
       BeginProc(n, e, sig.function, sig.param)
  \/ BeginBody \/ ReturnStmt \/ EndProc \/ EndModule

Spec == Init /\ [][Next]_vars
-----------------------------------------------------------------------------
(* A use of a name: n, or q.n when q is not empty.  What Sema says.        *)
Uses == [q : {""} \cup Keys, n : Names]
Qualified(u) == u.q # ""

SemaFinds(u) == lookup(semaScopes, IF Qualified(u) THEN u.q ELSE u.n) # NoSymbol
SemaAssigns(u) ==
  LET symbol == lookup(semaScopes, u.n)
  IN  SemaFinds(u) /\ ~(symbol # NoSymbol /\ decls[symbol.id].kind = "const")
SemaCalls(u, args) ==
  LET symbol == lookup(semaScopes, u.n)
  IN  /\ SemaFinds(u)
      /\ symbol # NoSymbol /\ decls[symbol.id].kind = "proc" => decls[symbol.id].params = args

(* What the generators take it for: a declaration, the field of it, and    *)
(* whether its address is in a word to go through.  A slot of another      *)
(* procedure's frame is nobody's, and a procedure has none.                *)
Place(id, field, through) == [id |-> id, field |-> field, through |-> through]
Nothing == Place(0, "", FALSE)
ValueOf(id) == Place(id, "", FALSE)
Storage(symbol, field) ==
  LET d == decls[symbol.id]
  IN  IF ~symbol.global /\ (d.owner # Owner \/ d.kind = "proc") THEN Nothing
      ELSE Place(symbol.id, field, ~symbol.global /\ d.isVar)

(* emitAddress of both: the last part of the name first, then the first,   *)
(* and then the last part is its field.                                    *)
(* Slip: the first part of the name is looked up before the last.          *)
ResolvedFirstPart(scopes, u) ==
  LET first == IF Qualified(u) THEN lookup(scopes, u.q) ELSE NoSymbol
  IN  IF first # NoSymbol THEN [symbol |-> first, field |-> u.n]
      ELSE [symbol |-> lookup(scopes, u.n), field |-> ""]

Resolved(scopes, u) ==
  LET last == lookup(scopes, u.n)
  IN  IF last # NoSymbol \/ ~Qualified(u) THEN [symbol |-> last, field |-> ""]
      ELSE [symbol |-> lookup(scopes, u.q), field |-> u.n]
Address(scopes, u) ==
  LET r == Resolved(scopes, u)
  IN  IF r.symbol = NoSymbol THEN Nothing ELSE Storage(r.symbol, r.field)

irAddress(u) == Address(irScopes, u)
irLoad(u) == IF constants[u.n] # 0 THEN ValueOf(constants[u.n]) ELSE irAddress(u)

(* The direct generator keeps constants in the same table: their value     *)
(* takes the place of an address.                                          *)
symConst(u) ==
  LET id == Resolved(symScopes, u).symbol.id
  IN  IF id # 0 /\ decls[id].kind = "const" THEN id ELSE 0
symAddress(u) == IF symConst(u) # 0 THEN Nothing ELSE Address(symScopes, u)
symLoad(u) == IF symConst(u) # 0 THEN ValueOf(symConst(u)) ELSE symAddress(u)

(* The variable of a FOR is written and read where it is, never through.   *)
InPlace(place) == [place EXCEPT !.through = FALSE]
ForVariable(scopes, n) ==
  LET symbol == lookup(scopes, n)
  IN  IF symbol = NoSymbol THEN Nothing ELSE InPlace(Storage(symbol, ""))
irFor(n) == ForVariable(irScopes, n)
symFor(n) == ForVariable(symScopes, n)

(* A call jumps to a label; without an argument list it is no call.        *)
Label(proc, mod, name) == [proc |-> proc, mod |-> mod, name |-> name]
LabelOf(d) == Label(d.kind = "proc", d.mod, d.name)
(* Slip: the label is always made of the module at hand.                   *)
irCallHere(u) == Label(TRUE, Order[at], u.n)

irCall(u) ==
  LET symbol == lookup(irScopes, u.n)
  IN  IF symbol.global THEN LabelOf(decls[symbol.id]) ELSE Label(TRUE, Order[at], u.n)
symCall(u) ==
  LET symbol == lookup(symScopes, u.n)
  IN  IF symbol # NoSymbol /\ decls[symbol.id].kind = "proc" THEN LabelOf(decls[symbol.id])
      ELSE Label(TRUE, Order[at], u.n)
Behind(label) ==
  {i \in 1..Len(decls) : decls[i].kind = "proc" /\ decls[i].taken /\ LabelOf(decls[i]) = label}

-----------------------------------------------------------------------------
(* What a use means: the innermost declaration of its own module, what the *)
(* module named by the qualifier exports, or the field of a variable.      *)
Ids == {open[k].id : k \in 1..Len(open)}
Level(d) == IF d.owner = 0 THEN 0 ELSE CHOOSE k \in 1..Len(open) : open[k].id = d.owner
Innermost(S) == CHOOSE i \in S : \A j \in S : Level(decls[j]) <= Level(decls[i])
Visible(n) == {i \in 1..Len(decls) : /\ decls[i].name = n /\ decls[i].mod = Order[at]
                                     /\ decls[i].owner \in {0} \cup Ids}
Exported(q, n) == {i \in 1..Len(decls) : /\ decls[i].name = n /\ decls[i].mod = q
                                         /\ decls[i].owner = 0 /\ decls[i].exported}
Own(n) == IF Visible(n) = {} THEN 0 ELSE Innermost(Visible(n))

(* The declaration a use is about, and the field it picks.                 *)
Meant(u) ==
  CASE u.q \in Names -> Own(u.q)
    [] u.q \in Modules -> IF u.q \in imports[Order[at]] /\ Exported(u.q, u.n) # {}
                          THEN CHOOSE i \in Exported(u.q, u.n) : TRUE ELSE 0
    [] OTHER -> Own(u.n)
FieldOf(u) == IF u.q \in Names THEN u.n ELSE ""
KindOf(id) == IF id = 0 THEN "none" ELSE decls[id].kind

Variable(u) == KindOf(Meant(u)) \in {"var", "param"}
Value(u) == u.q \notin Names /\ KindOf(Meant(u)) = "const"
Call(u) == u.q \notin Names /\ KindOf(Meant(u)) = "proc"
Right(u) == Place(Meant(u), FieldOf(u), decls[Meant(u)].isVar)

(* Where code is generated, and what the generators have taken of what is  *)
(* in scope there, with the declarations that stand in front of another:   *)
(* those of an inner procedure, and of the same level the later ones.      *)
Generating == refused = "no" /\ inBody /\ IF open = <<>> THEN InMain ELSE Current.taken
InScope == {i \in 1..Len(decls) : decls[i].owner \in {0} \cup Ids}
Taking(kinds, n) == {i \in InScope : decls[i].taken /\ decls[i].kind \in kinds
                                      /\ decls[i].name = n}
Depth(i) == IF decls[i].owner # 0 THEN 1 + Level(decls[i])
            ELSE IF decls[i].mod = Main THEN 1 ELSE 0
InFrontOf(i) == {j \in InScope \ {i} :
                   Depth(j) > Depth(i) \/ (Depth(j) = Depth(i) /\ j > i)}
Hidden(kinds, i) == Taking(kinds, decls[i].name) \cap InFrontOf(i) # {}
InReach(i) == decls[i].taken /\ decls[i].owner \in {0, Owner}
AnyKind == {"const", "var", "param", "proc"}
Stored == AnyKind \ {"const"}

-----------------------------------------------------------------------------
(* Properties.                                                             *)
TypeOK ==
  /\ at \in 1..Len(Order) /\ imports \in ImportLists
  /\ Len(decls) <= MaxDecls
  /\ \A i \in 1..Len(decls) :
       /\ decls[i].kind \in AnyKind /\ decls[i].name \in Names /\ decls[i].mod \in Modules
       /\ decls[i].owner \in 0..(i - 1) /\ decls[i].params \in {0, 1}
       /\ \A b \in {decls[i].exported, decls[i].taken, decls[i].function, decls[i].isVar} :
            b \in BOOLEAN
  /\ Ids \subseteq 1..Len(decls) /\ returns \subseteq 0..Len(decls)
  /\ {inBody, funcHasReturn, inGlobalScope} \subseteq BOOLEAN
  /\ refused \in {"no", "duplicate", "return"}
  /\ \A s \in {semaScopes, irScopes, symScopes} :
       s \in Seq([Keys -> [id : -1..Len(decls), global : BOOLEAN]])
  /\ constants \in [Names -> 0..Len(decls)]
  /\ moved \in Nat /\ curFunc \in [fn : -1..Len(decls), moved : Nat]
  /\ epilogue \in 0..Len(decls)

(* Sema judges what its documentation lists (README.md:400-408): a program *)
(* is refused exactly when one scope declares a name twice or a function   *)
(* ends without a RETURN of its own (one of a procedure inside it does not *)
(* count); at every place of a body an unqualified name is defined exactly *)
(* when a declaration of it is visible, and is called with as many         *)
(* arguments as that one has.  Of a qualified name only the qualifier is   *)
(* looked up; whether M.x is a constant, or how many arguments it takes,   *)
(* is asked of the x the module itself sees, if any.                       *)
Twice == \E i, j \in 1..Len(decls) :
           i # j /\ decls[i].name = decls[j].name /\ decls[i].mod = decls[j].mod
                 /\ decls[i].owner = decls[j].owner
NoReturn == \E i \in (1..Len(decls)) \ Ids :
              decls[i].kind = "proc" /\ decls[i].function /\ i \notin returns
SemaExact ==
  /\ refused = "duplicate" <=> Twice
  /\ ~Twice => (refused = "return" <=> NoReturn)
  /\ refused = "no" /\ inBody =>
       LET own == [n \in Names |-> Own(n)]
       IN  \A u \in Uses :
             LET found == CASE u.q = ""        -> own[u.n] # 0
                            [] u.q \in Names   -> own[u.q] # 0
                            [] u.q \in Modules -> u.q \in imports[Order[at]]
                 kind == KindOf(own[u.n])
             IN  /\ SemaFinds(u) <=> found
                 /\ SemaAssigns(u) <=> found /\ kind # "const"
                 /\ \A args \in {0, 1} :
                      SemaCalls(u, args) <=>
                        found /\ (kind = "proc" => decls[own[u.n]].params = args)

(* The direct generator, at every place of a body it generates: the        *)
(* address it takes for a variable is that variable's exactly when the     *)
(* declaration was taken, is no local of a procedure around this one, and  *)
(* nothing in scope stands in front of it; r.x with r a variable is the    *)
(* field x of it only when nothing named x is in scope at all, though      *)
(* README.md:1037 promises access to fields.  A FOR over a VAR parameter   *)
(* writes the reference instead of going through it.  A constant or a      *)
(* procedure of another module is reached under the same condition.        *)
DirectFinds ==
  Generating => \A u \in Uses :
    LET i == Meant(u)
        clear == /\ Qualified(u) /\ u.q \in Names => Taking(AnyKind, u.n) = {}
                 /\ ~Hidden(AnyKind, i)
    IN  /\ Variable(u) => /\ symLoad(u) = Right(u) <=> InReach(i) /\ clear
                          /\ symAddress(u) = Right(u) <=> InReach(i) /\ clear
        /\ Value(u) => (symLoad(u) = ValueOf(i) <=> decls[i].taken /\ clear)
        /\ Variable(u) /\ ~Qualified(u) =>
             (symFor(u.n) = Right(u) <=> InReach(i) /\ clear /\ ~decls[i].isVar)

(* README.md:1037 without conditions: the field of a variable that is in   *)
(* reach and hidden by nothing is accessed.  A violation run refutes it.   *)
FieldsAccessed ==
  Generating => \A u \in Uses :
    u.q \in Names /\ Variable(u) /\ InReach(Meant(u)) /\ ~Hidden(AnyKind, Meant(u)) =>
      symAddress(u) = Right(u) /\ irAddress(u) = Right(u)

(* The generator from the IR has the same rule for addresses, with the     *)
(* constants out of the way, for they are kept apart; but they are kept    *)
(* without scopes.  So the value of a constant is right exactly when no    *)
(* later constant of the program has its name, be it a local one of a      *)
(* procedure long closed, and the value of a variable or a field exactly   *)
(* when no constant so far has its name.                                   *)
IRFinds ==
  Generating => \A u \in Uses :
    LET i == Meant(u)
        clear == /\ Qualified(u) /\ u.q \in Names => Taking(Stored, u.n) = {}
                 /\ ~Hidden(Stored, i)
        constNamed == {j \in 1..Len(decls) : /\ decls[j].kind = "const" /\ decls[j].taken
                                             /\ decls[j].name = u.n}
    IN  /\ Variable(u) =>
             /\ irAddress(u) = Right(u) <=> InReach(i) /\ clear
             /\ irLoad(u) = Right(u) <=> InReach(i) /\ clear /\ constNamed = {}
        /\ Value(u) => (irLoad(u) = ValueOf(i) <=>
                          i \in constNamed /\ \A j \in constNamed : j <= i)
        /\ Variable(u) /\ ~Qualified(u) =>
             (irFor(u.n) = Right(u) <=> InReach(i) /\ clear /\ ~decls[i].isVar)

(* A call jumps to the procedure it means and to no other.  Labels are     *)
(* made of the module and the name alone, so it does exactly when the      *)
(* procedure was taken, no other one of that module has its name (a nested *)
(* one counts), and either it is the one found, or nothing labelled is     *)
(* found and it is of the module at hand.                                  *)
CallsReach ==
  Generating => \A u \in Uses :
    LET i == Meant(u)
        only == decls[i].taken /\ \A j \in (1..Len(decls)) \ {i} :
                  LabelOf(decls[j]) = LabelOf(decls[i]) => ~decls[j].taken
        front(kinds) == {j \in Taking(kinds, u.n) : j = i \/ j \in InFrontOf(i)}
        first(kinds) == CHOOSE j \in front(kinds) : front(kinds) \cap InFrontOf(j) = {}
        home == decls[i].mod = Order[at]
    IN  Call(u) =>
          /\ Behind(symCall(u)) = {i} <=>
               only /\ (first(AnyKind) = i \/ (home /\ KindOf(first(AnyKind)) # "proc"))
          /\ Behind(irCall(u)) = {i} <=>
               only /\ (first(Stored) = i \/ (home /\ decls[first(Stored)].owner # 0
                                                    /\ KindOf(first(Stored)) # "proc"))

(* Statements are generated into the function they belong to: curFunc_     *)
(* names it, and points to where it now is in module_.functions unless a   *)
(* procedure was built inside it, whose push_back may have moved it; a     *)
(* RETURN jumps to the epilogue of its own procedure.                      *)
FunctionAtHand ==
  Generating =>
    /\ curFunc.fn = Owner
    /\ open # <<>> => epilogue = Owner
    /\ Owner = 0 \/ curFunc.moved = moved \/ \E i \in 1..Len(decls) :
         decls[i].kind = "proc" /\ decls[i].owner = Owner
=============================================================================

-------------------------------- MODULE Layout --------------------------------
(***************************************************************************)
(* Where the components of a variable are: the tables of types the direct  *)
(* generator (resolveType of codegen/RiscVCodeGen.cpp, codegen/            *)
(* TypeInfo.cpp) and IRBuilder (typeSize, registerTypeLayout of            *)
(* ir/IRBuilder.cpp) make of the declarations, and the addresses their     *)
(* emitAddress computes from them, selector by selector.                   *)
(*                                                                         *)
(* A program declares types and then the variable.  A type expression is   *)
(* built from the inside: "inner" is the part of the next declaration that *)
(* has been resolved already.  An entry is what is known of a type         *)
(* expression: its meaning (type), the TypeInfo of the direct generator,   *)
(* and what IRBuilder asks of it: its size, the step of an index into it,  *)
(* its name, its fields.  A name is a sequence: <<"R">>, <<"PTR", "R">>    *)
(* for "PTR:R", or <<>> for none.                                          *)
(***************************************************************************)
EXTENDS Integers, Sequences, FiniteSets, Functions, TLC

CONSTANTS
  TypeNames,      \* the names of types
  Dimensions,     \* what ARRAY may be followed by: sequences of lengths
  MaxParts,       \* bound: arrays, records and pointers in all declarations
  MaxPath         \* bound: selectors of a designator

ASSUME DimensionsAssumption == Dimensions \subseteq Seq(Nat \ {0}) \ {<<>>}
ASSUME BoundAssumption == MaxParts \in Nat /\ MaxPath \in Nat

VARIABLES
  env,            \* what the declared types mean
  namedTypes,     \* of the direct generator
  typeLayouts,    \* of IRBuilder
  inner,          \* the part of the next declaration resolved so far
  parts,          \* arrays, records and pointers written so far
  owed,           \* what pointers point to so far
  ragged,         \* is there an array of characters that fills no whole words?
  variable        \* the variable, once it is declared

vars == <<env, namedTypes, typeLayouts, inner, parts, owed, ragged, variable>>

Empty == [n \in {} |-> 0]
With(f, k, v) == [x \in DOMAIN f \cup {k} |-> IF x = k THEN v ELSE f[x]]
Over(f, g) == [x \in DOMAIN f \cup DOMAIN g |-> IF x \in DOMAIN f THEN f[x] ELSE g[x]]

-----------------------------------------------------------------------------
(* The entries of type expressions.                                        *)
Word == [kind |-> "word", size |-> 4]
Entry(type, info, size, name) ==
  [type |-> type, info |-> info, size |-> size, len |-> 1, step |-> 4, name |-> name,
   fields |-> Empty]

INTEGER == Entry([kind |-> "word"], Word, 4, <<"INTEGER">>)
CHAR == Entry([kind |-> "char"], [kind |-> "char", size |-> 4], 4, <<"CHAR">>)
Char8 == [kind |-> "char", size |-> 1]

(* A name IRBuilder has no layout for, as that of an array, has one word.  *)
Named(n) ==
  Entry([kind |-> "named", name |-> n], namedTypes[n],
        IF <<n>> \in DOMAIN typeLayouts THEN typeLayouts[<<n>>].size ELSE 4, <<n>>)

(* Both generators look at the first length only.                          *)
makeArray(length, elem) ==
  [kind |-> "array", size |-> length * elem.size, elem |-> elem]

ArrayOf(type, dims) ==
  LET inside(t) == [kind |-> "array", len |-> dims[2], elem |-> t, within |-> TRUE]
  IN  [kind |-> "array", len |-> dims[1], within |-> FALSE,
       elem |-> IF Len(dims) > 1 THEN inside(type) ELSE type]

Array(dims, elem) ==
  LET isChar == elem = CHAR
  IN  [Entry(ArrayOf(elem.type, dims), makeArray(dims[1], IF isChar THEN Char8 ELSE elem.info),
             dims[1] * (IF isChar THEN 1 ELSE elem.size), <<>>)
         EXCEPT !.len = dims[1], !.step = IF isChar THEN 1 ELSE 4]

(* Fields lie one behind the other; findField looks at a record's own      *)
(* fields before those of its base.                                        *)
Total(sizes, n) == SumFunctionOnSet(sizes, 1..n)
NamesOf(fields) == {fields[i].name : i \in DOMAIN fields}
Nth(fields, n) == CHOOSE i \in DOMAIN fields : fields[i].name = n

(* Slip: the fields of an extension start where its base does.             *)
fieldOffsetOwn(base, sizes, i) == Total(sizes, i - 1)

fieldOffset(base, sizes, i) == base.size + Total(sizes, i - 1)
makeRecord(fields, base) ==
  LET sizes == [i \in DOMAIN fields |-> fields[i].entry.info.size]
      own == [n \in NamesOf(fields) |->
                [offset |-> fieldOffset(base, sizes, Nth(fields, n)),
                 info |-> fields[Nth(fields, n)].entry.info]]
  IN  [kind |-> "record", size |-> base.size + Total(sizes, Len(fields)),
       fields |-> Over(own, base.fields)]

(* Slip: a field takes a word, whatever its type.                          *)
layoutOffsetInWords(sizes, i) == 4 * (i - 1)

(* IRBuilder does not look at the base.                                    *)
layoutOffset(sizes, i) == Total(sizes, i - 1)
layoutFields(fields) ==
  LET sizes == [i \in DOMAIN fields |-> fields[i].entry.size]
  IN  [n \in NamesOf(fields) |-> [offset |-> layoutOffset(sizes, Nth(fields, n)),
                                  name |-> fields[Nth(fields, n)].entry.name]]

NoBase == [size |-> 0, fields |-> Empty]
Record(fields, base) ==
  LET sizes == [i \in DOMAIN fields |-> fields[i].entry.size]
      total == Total(sizes, Len(fields))
      own == [n \in NamesOf(fields) |-> fields[Nth(fields, n)].entry.type]
      type == [kind |-> "record", extends |-> base # "none",
               fields |-> IF base = "none" THEN own ELSE Over(own, env[base].fields)]
  IN  [Entry(type, makeRecord(fields, IF base = "none" THEN NoBase ELSE namedTypes[base]),
             IF total > 0 THEN total ELSE 4, <<>>)
         EXCEPT !.fields = layoutFields(fields)]

(* The direct generator takes a type that is not declared yet for INTEGER, *)
(* IRBuilder keeps the name.                                               *)
Pointer(n) ==
  LET known == n \in DOMAIN namedTypes
  IN  Entry([kind |-> "pointer", to |-> n, early |-> ~known],
            [kind |-> "pointer", size |-> 4, pointee |-> IF known THEN namedTypes[n] ELSE Word],
            4, <<"PTR", n>>)

registerTypeLayout(layouts, name, entry) ==
  CASE entry.type.kind = "record" ->
         With(layouts, name, [kind |-> "record", size |-> entry.size, fields |-> entry.fields])
    [] entry.type.kind = "pointer" ->
         LET layout == [kind |-> "pointer", size |-> 4, pointee |-> <<entry.type.to>>]
         IN  With(With(layouts, name, layout), entry.name, layout)
    [] OTHER -> layouts

-----------------------------------------------------------------------------
(* Declarations.  What is resolved inside a declaration is used by it.     *)
Known == {INTEGER, CHAR} \cup {Named(n) : n \in DOMAIN namedTypes}
Elements == IF inner = {} THEN Known ELSE inner
Field(n, entry) == [name |-> n, entry |-> entry]
Bases == {n \in DOMAIN env : env[n].kind = "record" /\ ~env[n].extends}

Constructed ==
  {Array(d, e) : d \in Dimensions, e \in Elements} \cup
  {Record(<<Field("f", e), Field("g", INTEGER)>>, "none") : e \in Elements} \cup
  {Record(<<Field("h", e)>>, b) : e \in Elements, b \in Bases} \cup
  (IF inner = {} THEN {Pointer(n) : n \in TypeNames} ELSE {})

Init ==
  /\ env = Empty /\ namedTypes = Empty /\ typeLayouts = Empty
  /\ inner = {} /\ parts = 0 /\ owed = {} /\ ragged = FALSE /\ variable = {}

Write(entry) ==
  /\ variable = {} /\ parts < MaxParts
  /\ parts' = parts + 1
  /\ ragged' = (ragged \/ (entry.step = 1 /\ entry.len % 4 # 0))
  /\ owed' = IF entry.type.kind = "pointer" THEN owed \cup {entry.type.to} ELSE owed

Inner(entry) ==
  /\ Write(entry)
  /\ inner' = {entry}
  /\ UNCHANGED <<env, namedTypes, typeLayouts, variable>>

TypeDecl(n, entry) ==
  /\ Write(entry) /\ n \notin DOMAIN env
  /\ env' = With(env, n, entry.type)
  /\ namedTypes' = With(namedTypes, n, entry.info)
  /\ typeLayouts' = registerTypeLayout(typeLayouts, <<n>>, entry)
  /\ inner' = {}
  /\ UNCHANGED variable

VarDecl(entry) ==
  /\ IF entry \in Known THEN variable = {} /\ UNCHANGED <<parts, owed, ragged>> ELSE Write(entry)
  /\ owed' \subseteq DOMAIN env
  /\ variable' = {entry}
  /\ inner' = {}
  /\ typeLayouts' = IF entry.type.kind = "pointer" /\ entry.name \notin DOMAIN typeLayouts
                    THEN registerTypeLayout(typeLayouts, entry.name, entry) ELSE typeLayouts
  /\ UNCHANGED <<env, namedTypes>>

Next ==
  \/ \E entry \in Constructed : Inner(entry)
  \/ \E n \in TypeNames, entry \in Constructed : TypeDecl(n, entry)
  \/ \E entry \in Constructed : VarDecl(entry)
  \/ inner = {} /\ \E entry \in Known : VarDecl(entry)

Spec == Init /\ [][Next]_vars
-----------------------------------------------------------------------------
(* A designator as emitAddress works it off, one selector after the other: *)
(* a place is a block of memory (the variable, or what is behind the       *)
(* pointer at a place), the bytes NEW made it of, and an offset.  NEW asks *)
(* for the type of the variable, whatever selectors follow, and for p.q    *)
(* not even that: the parsers make one name of it.                         *)
TheVariable == CHOOSE entry \in variable : TRUE
Meaning(type) == IF type.kind = "named" THEN env[type.name] ELSE type

Variable(room) == [block |-> <<>>, depth |-> 0, room |-> room, offset |-> 0]
Shift(place, by) == [place EXCEPT !.offset = @ + by]
Behind(place, room) ==
  [block |-> <<place.block, place.offset>>, depth |-> place.depth + 1, room |-> room, offset |-> 0]
Bytes(size) == IF size < 4 THEN 4 ELSE size

symAllocSize(d) ==
  IF d.first # "field" /\ TheVariable.info.kind = "pointer"
  THEN Bytes(TheVariable.info.pointee.size) ELSE 4
irAllocSize(d) ==
  LET name == TheVariable.name
  IN  IF d.first # "field" /\ name \in DOMAIN typeLayouts /\ typeLayouts[name].kind = "pointer"
         /\ typeLayouts[name].pointee \in DOMAIN typeLayouts
      THEN Bytes(typeLayouts[typeLayouts[name].pointee].size) ELSE 4

(* Through a pointer: p^, or the p. of p.x.                                *)
symDeref(d) ==
  [d EXCEPT !.sym = Behind(@, symAllocSize(d)),
            !.info = IF @.kind = "pointer" THEN @.pointee ELSE @]
irDeref(d) ==
  [d EXCEPT !.ir = Behind(@, irAllocSize(d)),
            !.name = IF @ \in DOMAIN typeLayouts /\ typeLayouts[@].kind = "pointer"
                     THEN typeLayouts[@].pointee ELSE @]

symField(d, n) ==
  LET r == IF d.info.kind = "pointer" THEN symDeref(d) ELSE d
  IN  IF r.info.kind = "record" /\ n \in DOMAIN r.info.fields
      THEN [r EXCEPT !.sym = Shift(@, r.info.fields[n].offset), !.info = r.info.fields[n].info]
      ELSE r
irField(d, n) ==
  LET isA(e, kind) == e.name \in DOMAIN typeLayouts /\ typeLayouts[e.name].kind = kind
      r == IF isA(d, "pointer") THEN irDeref(d) ELSE d
      fields == typeLayouts[r.name].fields
  IN  IF isA(r, "record") /\ n \in DOMAIN fields
      THEN [r EXCEPT !.ir = Shift(@, fields[n].offset), !.name = fields[n].name]
      ELSE r

(* IRBuilder steps by what the variable's own elements take.               *)
symIndex(d, i) ==
  IF d.info.kind = "array"
  THEN [d EXCEPT !.sym = Shift(@, i * d.info.elem.size), !.info = d.info.elem]
  ELSE [d EXCEPT !.sym = Shift(@, i * 4)]
irIndex(d, i) ==
  [d EXCEPT !.ir = Shift(@, i * (IF TheVariable.len > 0 THEN TheVariable.step ELSE 4))]

(* designatorNeedsByteMemory: how many bytes are read or written there.    *)
symBytes(d) == IF d.info.kind = "char" /\ d.info.size = 1 /\ d.last = "index" THEN 1 ELSE 4
irBytes(d) == IF TheVariable.step = 1 /\ d.last = "index" THEN 1 ELSE 4

-----------------------------------------------------------------------------
(* The designators of the variable that the language has.  path says which *)
(* component is meant, and is the same for p.x and p^.x; symPlain and      *)
(* irPlain say that it keeps to what the generator is made for.            *)
Start ==
  [path |-> <<>>, type |-> TheVariable.type, first |-> "none", last |-> "none",
   sym |-> Variable(TheVariable.info.size), info |-> TheVariable.info,
   ir |-> Variable(TheVariable.size), name |-> TheVariable.name,
   symPlain |-> TRUE, irPlain |-> TRUE]

Goes(d, kind) == [d EXCEPT !.last = kind, !.first = IF @ = "none" THEN kind ELSE @]
MeansDeref(d) ==
  LET pointer == Meaning(d.type)
  IN  [d EXCEPT !.path = Append(@, <<"deref">>),
                !.type = [kind |-> "named", name |-> pointer.to],
                !.symPlain = @ /\ d.path = <<>> /\ ~pointer.early,
                !.irPlain = @ /\ d.path = <<>>]
MeansField(d, n) ==
  LET record == Meaning(d.type)
  IN  [d EXCEPT !.path = Append(@, <<"field", n>>), !.type = record.fields[n],
                !.irPlain = @ /\ d.type.kind = "named" /\ ~record.extends]
MeansIndex(d, i) ==
  LET array == Meaning(d.type)
      element == Meaning(array.elem).kind
  IN  [d EXCEPT !.path = Append(@, <<"index", i>>), !.type = array.elem,
                !.symPlain = @ /\ ~array.within,
                !.irPlain = @ /\ d.type.kind # "named"
                              /\ element \in {"word", "pointer"} \cup
                                             (IF d.path = <<>> THEN {"char"} ELSE {})]

Deref(d) == Goes(irDeref(symDeref(MeansDeref(d))), "deref")
FieldOf(d, n) ==
  LET meant == IF Meaning(d.type).kind = "pointer" THEN MeansDeref(d) ELSE d
  IN  Goes(irField(symField(MeansField(meant, n), n), n), "field")
Index(d, i) == Goes(irIndex(symIndex(MeansIndex(d, i), i), i), "index")

Selected(d) ==
  LET type == Meaning(d.type)
  IN  CASE type.kind = "array" -> {Index(d, i) : i \in 0..(type.len - 1)}
        [] type.kind = "record" -> {FieldOf(d, n) : n \in DOMAIN type.fields}
        [] type.kind = "pointer" ->
             {Deref(d)} \cup IF env[type.to].kind = "record"
                             THEN {FieldOf(d, n) : n \in DOMAIN env[type.to].fields} ELSE {}
        [] OTHER -> {}

UpTo[n \in 0..MaxPath] ==
  IF n = 0 THEN {Start} ELSE UpTo[n - 1] \cup UNION {Selected(d) : d \in UpTo[n - 1]}
Designators == {d \in UpTo[MaxPath] : Meaning(d.type).kind \in {"word", "char", "pointer"}}

Follows(d) == Cardinality({i \in 1..Len(d.path) : d.path[i] = <<"deref">>})
WellPlaced(d, place, bytes) ==
  /\ place.depth = Follows(d)
  /\ place.offset + bytes <= place.room
  /\ ~ragged => place.offset % bytes = 0
Share(p, n, q, m) ==
  p.block = q.block /\ p.offset < q.offset + m /\ q.offset < p.offset + n

-----------------------------------------------------------------------------
(* Properties.                                                             *)
(* Direct generator: what README.md:975-1018 says of records, arrays and   *)
(* pointers, with its limits.  Whatever the types, two components of a     *)
(* variable share no byte, each lies inside the variable or inside what    *)
(* NEW has allocated, as many pointers are followed as the designator      *)
(* says, p.x is p^.x, and a word is read at a word's address if the arrays *)
(* of CHAR fill whole words.  The limits: an array has one length in its   *)
(* declaration, a pointer type comes after what it points to, and NEW was  *)
(* given a variable and no component.                                      *)
DirectApart ==
  variable # {} =>
    LET all == {d \in Designators : d.symPlain}
    IN  \A d \in all :
          /\ WellPlaced(d, d.sym, symBytes(d))
          /\ \A e \in all : Share(d.sym, symBytes(d), e.sym, symBytes(e)) <=> d.path = e.path

(* Through the IR the same holds for less: every record on the way has a   *)
(* name and extends no other, an array is written where it is used, of     *)
(* elements of a word (or CHAR, if it is the variable itself), and an      *)
(* index is the last selector.                                             *)
IRApart ==
  variable # {} =>
    LET all == {d \in Designators : d.irPlain}
    IN  \A d \in all :
          /\ WellPlaced(d, d.ir, irBytes(d))
          /\ \A e \in all : Share(d.ir, irBytes(d), e.ir, irBytes(e)) <=> d.path = e.path
=============================================================================

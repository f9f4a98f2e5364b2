---------------------------- MODULE Names_proofs ----------------------------
(***************************************************************************)
(* Names stand for what the properties of Names say, for programs of every *)
(* size: any number of modules, declarations, levels of nesting.           *)
(*                                                                         *)
(* The argument: each of the three visitors keeps a stack of tables, and   *)
(* the invariant says of every entry which declarations it stands for: the *)
(* latest one, under that name, of one scope.  For Sema that scope is a    *)
(* visit under way or the module (SemaDescribes); for the generators the   *)
(* bottom table is shared by all imported modules, the next is the main    *)
(* module's, and those above belong to the visits (IsAt, Describes).  Then *)
(* the topmost table with a name has the declaration nothing taken stands  *)
(* in front of (LooksUp), and the theorems follow by comparing that one    *)
(* with the declaration a use is about.  That the tables stay so needs the *)
(* rest: as many tables as visits (Lengths), visits each declared in the   *)
(* one before (VisitsOK), and what they put aside (AtHand, GlobalOK,       *)
(* ReturnsOK) being what the visit around was at.                          *)
(***************************************************************************)
EXTENDS Names, TLAPS, SequenceTheorems, WellFoundedInduction

(* The types of what refers to declarations, when there are n of them. *)
DeclType == [kind : AnyKind, name : Names, mod : Modules, owner : Nat, exported : BOOLEAN,
             taken : BOOLEAN, function : BOOLEAN, isVar : BOOLEAN, params : {0, 1}]
FuncsTo(n) == [fn : -1..n, moved : Nat]
VisitsTo(n) == [id : 1..n, taken : BOOLEAN, hasReturn : BOOLEAN, curFunc : FuncsTo(n),
                epilogue : 0..n, inGlobalScope : BOOLEAN]
SymbolsTo(n) == [id : -1..n, global : BOOLEAN]
TablesTo(n) == [Keys -> SymbolsTo(n)]

(* Everything has its type, and refers to declarations that are there. *)
Shape ==
  /\ at \in 1..Len(Order) /\ imports \in ImportLists
  /\ decls \in Seq(DeclType) /\ Len(decls) <= MaxDecls
  /\ open \in Seq(VisitsTo(Len(decls)))
  /\ inBody \in BOOLEAN /\ funcHasReturn \in BOOLEAN /\ inGlobalScope \in BOOLEAN
  /\ returns \subseteq 0..Len(decls)
  /\ refused \in {"no", "duplicate", "return"}
  /\ semaScopes \in Seq(TablesTo(Len(decls)))
  /\ irScopes \in Seq(TablesTo(Len(decls)))
  /\ symScopes \in Seq(TablesTo(Len(decls)))
  /\ constants \in [Names -> 0..Len(decls)]
  /\ moved \in Nat /\ curFunc \in FuncsTo(Len(decls)) /\ epilogue \in 0..Len(decls)

(* What is declared in a procedure is taken when the procedure is, and is  *)
(* of the same module; modules have been visited in their order.           *)
DeclOK(ds, last, i) ==
  LET d == ds[i] IN
  /\ d.owner < i
  /\ \E a \in 1..last : d.mod = Order[a]
  /\ d.owner # 0 => /\ ds[d.owner].kind = "proc"
                    /\ d.taken = ds[d.owner].taken
                    /\ d.mod = ds[d.owner].mod
  /\ d.isVar => d.kind = "param"
  /\ d.kind = "param" => d.owner # 0
DeclsOK(ds, last) == \A i \in 1..Len(ds) : DeclOK(ds, last, i)

(* The visits under way are of procedures each declared in the one before. *)
OwnerAt(op, k) == IF k = 0 THEN 0 ELSE op[k].id
VisitOK(op, ds, mod, k) ==
  LET d == ds[op[k].id] IN
  /\ d.kind = "proc" /\ d.owner = OwnerAt(op, k - 1) /\ d.mod = mod
  /\ d.taken = op[k].taken
  /\ \A j \in 1..(k - 1) : op[j].taken = op[k].taken /\ op[j].id < op[k].id
VisitsOK(op, ds, mod) == \A k \in 1..Len(op) : VisitOK(op, ds, mod, k)

(* As many scopes as there are bodies around. *)
TakenNow == open # <<>> /\ Current.taken
Base == IF InMain /\ at # 1 THEN 2 ELSE 1
Lengths ==
  /\ Len(semaScopes) = Len(open) + 1
  /\ Len(irScopes) = Base + (IF TakenNow THEN Len(open) ELSE 0)
  /\ Len(symScopes) = Len(irScopes)

(* The function at hand is that of the innermost visit, and the functions  *)
(* put aside are those of the visits around it.                            *)
HasInner(ds, p) == \E i \in 1..Len(ds) : ds[i].kind = "proc" /\ ds[i].owner = p
AtHand ==
  /\ TakenNow => /\ curFunc.fn = Owner
                 /\ curFunc.moved = moved \/ HasInner(decls, Owner)
                 /\ inBody => epilogue = Owner
  /\ \A k \in 2..Len(open) : open[k].taken => open[k].curFunc.fn = open[k - 1].id
  /\ open = <<>> /\ inBody /\ InMain => curFunc.fn = 0

(* The generators are at the global scope outside procedures they take, up *)
(* to the statements of the main module.                                   *)
GlobalOK ==
  /\ TakenNow => ~inGlobalScope
  /\ ~TakenNow /\ ~(open = <<>> /\ inBody /\ InMain) => inGlobalScope
  /\ \A k \in 1..Len(open) : IF open[k].taken THEN open[k].inGlobalScope <=> k = 1
                                              ELSE open[k].inGlobalScope

(* Whether the procedure at hand has a RETURN, and those around it have.   *)
ReturnsOK ==
  /\ open # <<>> => (funcHasReturn <=> Owner \in returns)
  /\ \A k \in 2..Len(open) : open[k].hasReturn <=> open[k - 1].id \in returns
  /\ refused = "return" <=> NoReturn

(* A table has the last of the declarations it is about, or none. *)
Latest(id, S) == IF S = {} THEN id = 0 ELSE id \in S /\ \A j \in S : j <= id

(* Sema: the declarations table l stands for, and what the tables have.    *)
SemaLives(ds, op, mod, l, n) ==
  {i \in 1..Len(ds) : ds[i].name = n /\ ds[i].mod = mod /\ ds[i].owner = OwnerAt(op, l - 1)}
SemaDescribes(t, ds, op, mod, imps) ==
  \A l \in 1..Len(t) :
    /\ \A n \in Names : Latest(t[l][n].id, SemaLives(ds, op, mod, l, n)) /\ t[l][n].global = FALSE
    /\ \A m \in Modules : t[l][m] = IF l = 1 /\ m \in imps THEN Import ELSE NoSymbol
SemaOK ==
  /\ refused = "duplicate" <=> Twice
  /\ refused = "no" => SemaDescribes(semaScopes, decls, open, Order[at], imports[Order[at]])

(* The place of a declaration in the generators' stack of tables. *)
IsAt(ds, op, base, i, l) ==
  IF ds[i].owner = 0 THEN l = IF ds[i].mod = Main THEN base ELSE 1
  ELSE l - base \in 1..Len(op) /\ ds[i].owner = op[l - base].id
Lives(ds, op, base, kinds, l, n) ==
  {i \in 1..Len(ds) : /\ ds[i].taken /\ ds[i].kind \in kinds /\ ds[i].name = n
                      /\ IsAt(ds, op, base, i, l)}
Describes(t, ds, op, base, kinds) ==
  \A l \in 1..Len(t) :
    /\ \A n \in Names : Latest(t[l][n].id, Lives(ds, op, base, kinds, l, n))
    /\ \A m \in Modules : t[l][m] = NoSymbol

(* Whether a symbol is marked as global; the generators differ in how they *)
(* mark procedures.                                                        *)
GlobalOf(ds, i, procs) ==
  i # 0 /\ IF ds[i].kind = "proc" THEN procs ELSE ds[i].owner = 0
Marks(t, ds, procs) ==
  \A l \in 1..Len(t), n \in Names : t[l][n].global = GlobalOf(ds, t[l][n].id, procs)
Tells(t, ds, op, base, kinds, procs) ==
  Describes(t, ds, op, base, kinds) /\ Marks(t, ds, procs)
BuilderOK == Tells(irScopes, decls, open, Base, Stored, TRUE)
DirectOK == Tells(symScopes, decls, open, Base, AnyKind, FALSE)

(* The constants IRBuilder has kept under a name, in whatever scope.       *)
ConstsNamed(ds, n) ==
  {j \in 1..Len(ds) : ds[j].kind = "const" /\ ds[j].taken /\ ds[j].name = n}
ConstantsOK == \A n \in Names : Latest(constants[n], ConstsNamed(decls, n))

(* The inductive invariant. *)
DeclsNow == DeclsOK(decls, at)
VisitsNow == VisitsOK(open, decls, Order[at])
IInv == /\ Shape /\ DeclsNow /\ VisitsNow /\ Lengths /\ AtHand /\ GlobalOK /\ ReturnsOK
        /\ SemaOK /\ BuilderOK /\ DirectOK /\ ConstantsOK

-----------------------------------------------------------------------------
(* A set of numbers up to n that is not empty has a greatest one. *)
LEMMA MaxExists ==
  ASSUME NEW n \in Nat, NEW S, S \subseteq 0..n, S # {}
  PROVE  \E m \in S : \A j \in S : j <= m
<1> DEFINE R == OpToRel(<, Nat)
           T == {n - i : i \in S}
<1> HIDE DEF R
<1>0. R = {ss \in Nat \X Nat : ss[1] < ss[2]}  BY DEF R, OpToRel
<1>1. \A a, b \in Nat : a < b => <<a, b>> \in R  BY <1>0
<1>2. T \subseteq Nat /\ T # {}
  <2>1. PICK i \in S : TRUE  OBVIOUS
  <2>2. n - i \in T  BY DEF T
  <2>3. \A y \in T : y \in Nat  OBVIOUS
  <2>4. QED  BY <2>2, <2>3
<1>3. IsWellFoundedOn(R, Nat)  BY NatLessThanWellFounded, Zenon DEF R
<1>4. PICK x \in T : \A y \in T : ~(<<y, x>> \in R)  BY <1>2, <1>3, WFMin, Zenon
<1>5. PICK m \in S : x = n - m  BY <1>4
<1>6. ASSUME NEW j \in S  PROVE j <= m
  <2>1. n - j \in T  BY DEF T
  <2>2. ~(n - j < x)  BY <1>1, <1>2, <1>4, <2>1
  <2>3. QED  BY <1>5, <2>2
<1>7. QED  BY <1>6

(* lookup finds nothing, or what the topmost table with the name has. *)
LEMMA LookupCases ==
  ASSUME NEW scopes, Len(scopes) \in Nat, NEW key
  PROVE  \/ /\ \A l \in 1..Len(scopes) : scopes[l][key] = NoSymbol
            /\ lookup(scopes, key) = NoSymbol
         \/ \E l \in 1..Len(scopes) :
              /\ scopes[l][key] # NoSymbol
              /\ \A j \in 1..Len(scopes) : scopes[j][key] # NoSymbol => j <= l
              /\ lookup(scopes, key) = scopes[l][key]
<1> DEFINE has == {i \in 1..Len(scopes) : scopes[i][key] # NoSymbol}
           top == CHOOSE i \in has : \A j \in has : j <= i
<1>1. CASE has = {}  BY <1>1 DEF lookup
<1>2. CASE has # {}
  <2>1. has \subseteq 0..Len(scopes)  OBVIOUS
  <2>2. \E i \in has : \A j \in has : j <= i  BY <1>2, <2>1, MaxExists
  <2>3. top \in has /\ \A j \in has : j <= top  BY <2>2
  <2>4. lookup(scopes, key) = scopes[top][key]  BY <1>2 DEF lookup
  <2>5. QED  BY <2>3, <2>4
<1>3. QED  BY <1>1, <1>2

(* Pushing an empty table. *)
LEMMA PushGives ==
  ASSUME NEW n \in Nat, NEW t \in Seq(TablesTo(n))
  PROVE  /\ push(t) \in Seq(TablesTo(n)) /\ Len(push(t)) = Len(t) + 1 /\ push(t) # <<>>
         /\ \A l \in 1..Len(t) : push(t)[l] = t[l]
         /\ push(t)[Len(t) + 1] = Scope
<1>1. Scope \in TablesTo(n)  BY DEF Scope, NoSymbol, TablesTo, SymbolsTo
<1>2. QED  BY <1>1, LenProperties, EmptySeq DEF push

(* Leaving out the last element of a sequence. *)
LEMMA FrontGives ==
  ASSUME NEW T, NEW t \in Seq(T), t # <<>>, NEW f, f = SubSeq(t, 1, Len(t) - 1)
  PROVE  /\ f \in Seq(T) /\ Len(f) = Len(t) - 1
         /\ \A l \in 1..(Len(t) - 1) : f[l] = t[l]
<1> DEFINE n == Len(t)
<1>1. n \in Nat \ {0}  BY LenProperties, EmptySeq
<1>2. \A i \in 1..(n - 1) : t[i] \in T  BY <1>1, LenProperties
<1>3. 1 \in Int /\ n - 1 \in Int  BY <1>1
<1>4. /\ f \in Seq(T)
      /\ Len(f) = IF 1 <= n - 1 THEN (n - 1) - 1 + 1 ELSE 0
      /\ \A i \in 1..((n - 1) - 1 + 1) : f[i] = t[1 + i - 1]
  BY <1>2, <1>3, SubSeqProperties
<1> HIDE DEF n
<1>5. Len(f) = n - 1  BY <1>1, <1>4
<1>6. \A i \in 1..(n - 1) : f[i] = t[i]
  <2>1. ASSUME NEW i \in 1..(n - 1)  PROVE f[i] = t[i]
    <3>1. i \in 1..((n - 1) - 1 + 1) /\ 1 + i - 1 = i  BY <1>1
    <3>2. QED  BY <1>4, <3>1
  <2>2. QED  BY <2>1
<1>7. QED  BY <1>4, <1>5, <1>6 DEF n

(* What is right of few declarations is right of more. *)
LEMMA Grows ==
  ASSUME NEW n \in Nat, NEW m \in Nat, n <= m
  PROVE  /\ Seq(TablesTo(n)) \subseteq Seq(TablesTo(m))
         /\ Seq(VisitsTo(n)) \subseteq Seq(VisitsTo(m))
         /\ FuncsTo(n) \subseteq FuncsTo(m)
         /\ SymbolsTo(n) \subseteq SymbolsTo(m)
         /\ [Names -> 0..n] \subseteq [Names -> 0..m]
<1>1. FuncsTo(n) \subseteq FuncsTo(m)  BY DEF FuncsTo
<1>2. SymbolsTo(n) \subseteq SymbolsTo(m)  BY DEF SymbolsTo
<1>3. VisitsTo(n) \subseteq VisitsTo(m)
  <2>1. 1..n \subseteq 1..m /\ 0..n \subseteq 0..m  OBVIOUS
  <2>2. QED  BY <1>1, <2>1 DEF VisitsTo
<1>4. TablesTo(n) \subseteq TablesTo(m)  BY <1>2 DEF TablesTo
<1>5. \A S, T : S \subseteq T => Seq(S) \subseteq Seq(T)
  <2> SUFFICES ASSUME NEW S, NEW T, S \subseteq T, NEW s \in Seq(S)  PROVE s \in Seq(T)
    OBVIOUS
  <2>1. s \in [1..Len(s) -> S] /\ Len(s) \in Nat  BY LenProperties
  <2>2. s \in [1..Len(s) -> T]  BY <2>1
  <2>3. QED  BY <2>1, <2>2, SeqDef
<1>6. [Names -> 0..n] \subseteq [Names -> 0..m]  OBVIOUS
<1>7. QED  BY <1>1, <1>2, <1>3, <1>4, <1>5, <1>6, Zenon

(* define, for tables of symbols. *)
LEMMA Enters ==
  ASSUME NEW n \in Nat, NEW t \in Seq(TablesTo(n)), t # <<>>, NEW key \in Keys,
         NEW s \in SymbolsTo(n)
  PROVE  /\ define(t, key, s) \in Seq(TablesTo(n)) /\ Len(define(t, key, s)) = Len(t)
         /\ define(t, key, s) # <<>>
         /\ \A l \in 1..Len(t), k \in Keys :
              define(t, key, s)[l][k] = IF l = Len(t) /\ k = key THEN s ELSE t[l][k]
<1> DEFINE q == Len(t)
           new == define(t, key, s)
           T == SymbolsTo(n)
<1>1. q \in Nat \ {0}  BY LenProperties, EmptySeq
<1>2. t \in [1..q -> [Keys -> T]]  BY LenProperties DEF TablesTo
<1>3. new = [i \in 1..q |-> IF i = q THEN [k \in Keys |-> IF k = key THEN s ELSE t[q][k]]
                            ELSE t[i]]
  <2> HIDE DEF T
  <2>1. QED  BY <1>1, <1>2 DEF define
<1> HIDE DEF T, new
<1>4. new \in [1..q -> [Keys -> T]]
  <2>1. s \in T  BY DEF T
  <2>2. QED  BY <1>1, <1>2, <1>3, <2>1
<1>5. new \in Seq([Keys -> T]) /\ Len(new) = q  BY <1>1, <1>4, SeqDef, LenProperties
<1>6. \A l \in 1..q, k \in Keys : new[l][k] = IF l = q /\ k = key THEN s ELSE t[l][k]
  BY <1>1, <1>2, <1>3
<1>7. new # <<>>  BY <1>1, <1>5, EmptySeq
<1>8. TablesTo(n) = [Keys -> T]  BY DEF TablesTo, T
<1>9. QED  BY <1>5, <1>6, <1>7, <1>8, Zenon DEF new

-----------------------------------------------------------------------------
(* The declarations, one by one *)

(* Latest, for an equal set and for one with a later declaration added. *)
LEMMA LatestSame ==
  ASSUME NEW S, NEW id, Latest(id, S), NEW T, T = S
  PROVE  Latest(id, T)
OBVIOUS

(* The declaration behind all others becomes the latest. *)
LEMMA LatestAdded ==
  ASSUME NEW S, NEW j \in Nat, \A i \in S : i <= j
  PROVE  Latest(j, S \cup {j})
BY DEF Latest

(* Appending to a sequence. *)
LEMMA AppendGives ==
  ASSUME NEW T, NEW s \in Seq(T), NEW d \in T
  PROVE  /\ Append(s, d) \in Seq(T) /\ Len(Append(s, d)) = Len(s) + 1 /\ Len(s) \in Nat
         /\ \A i \in 1..Len(s) : Append(s, d)[i] = s[i]
         /\ Append(s, d)[Len(s) + 1] = d
BY LenProperties

(* A declaration behind all others, at one place of the stack. *)
LEMMA LivesAppended ==
  ASSUME NEW ds \in Seq(DeclType), NEW d \in DeclType, NEW op, NEW base, NEW kinds,
         NEW l, NEW n
  PROVE  Lives(Append(ds, d), op, base, kinds, l, n) =
           IF /\ d.taken /\ d.kind \in kinds /\ d.name = n
              /\ IsAt(Append(ds, d), op, base, Len(ds) + 1, l)
           THEN Lives(ds, op, base, kinds, l, n) \cup {Len(ds) + 1}
           ELSE Lives(ds, op, base, kinds, l, n)
<1> DEFINE ds2 == Append(ds, d)
           N == Len(ds)
<1>1. /\ N \in Nat /\ Len(ds2) = N + 1 /\ ds2[N + 1] = d
      /\ \A i \in 1..N : ds2[i] = ds[i]
  BY AppendGives
<1>2. ASSUME NEW i \in 1..N  PROVE IsAt(ds2, op, base, i, l) = IsAt(ds, op, base, i, l)
  BY <1>1 DEF IsAt
<1> HIDE DEF ds2
<1>3. 1..Len(ds2) = (1..N) \cup {N + 1}  BY <1>1
<1>4. ASSUME NEW i \in 1..N
      PROVE  i \in Lives(ds2, op, base, kinds, l, n) <=> i \in Lives(ds, op, base, kinds, l, n)
  <2>1. i \in 1..Len(ds2)  BY <1>3
  <2>2. QED  BY <1>1, <1>2, <2>1, Zenon DEF Lives
<1>5. N + 1 \in Lives(ds2, op, base, kinds, l, n) <=>
        d.taken /\ d.kind \in kinds /\ d.name = n /\ IsAt(ds2, op, base, N + 1, l)
  <2>1. N + 1 \in 1..Len(ds2)  BY <1>3
  <2>2. QED  BY <1>1, <2>1, Zenon DEF Lives
<1>6. Lives(ds, op, base, kinds, l, n) \subseteq 1..N  BY DEF Lives
<1>7. Lives(ds2, op, base, kinds, l, n) \subseteq (1..N) \cup {N + 1}  BY <1>3 DEF Lives
<1>8. N + 1 \notin 1..N  BY <1>1
<1>9. QED
  <2>1. CASE d.taken /\ d.kind \in kinds /\ d.name = n /\ IsAt(ds2, op, base, N + 1, l)
    <3>1. Lives(ds2, op, base, kinds, l, n) = Lives(ds, op, base, kinds, l, n) \cup {N + 1}
      BY <1>4, <1>5, <1>6, <1>7, <2>1, Zenon
    <3>2. QED  BY <2>1, <3>1, Zenon DEF ds2
  <2>2. CASE ~(d.taken /\ d.kind \in kinds /\ d.name = n /\ IsAt(ds2, op, base, N + 1, l))
    <3>1. Lives(ds2, op, base, kinds, l, n) = Lives(ds, op, base, kinds, l, n)
      BY <1>4, <1>5, <1>6, <1>7, <1>8, <2>2, Zenon
    <3>2. QED  BY <2>2, <3>1, Zenon DEF ds2
  <2>3. QED  BY <2>1, <2>2, Zenon

(* The generators' table after a declaration that enters it when it is     *)
(* taken and of the kinds they keep there.                                 *)
LEMMA DescribesAppended ==
  ASSUME NEW ds \in Seq(DeclType), NEW d \in DeclType, NEW op, NEW base, NEW kinds,
         NEW t, NEW m \in Nat, t \in Seq(TablesTo(m)), t # <<>>,
         Describes(t, ds, op, base, kinds),
         d.taken /\ d.kind \in kinds =>
           \A l \in 1..Len(t) : IsAt(Append(ds, d), op, base, Len(ds) + 1, l) <=> l = Len(t),
         NEW s \in SymbolsTo(m), s.id = Len(ds) + 1,
         NEW t2, t2 = IF d.taken /\ d.kind \in kinds THEN define(t, d.name, s) ELSE t
  PROVE  Describes(t2, Append(ds, d), op, base, kinds)
<1> DEFINE ds2 == Append(ds, d)
           N == Len(ds)
<1>1. N \in Nat /\ Len(t) \in Nat  BY LenProperties
<1>2. d.name \in Names /\ Names \cap Modules = {} /\ d.name \in Keys
  BY KeysAssumption DEF DeclType, Keys
<1>3. CASE d.taken /\ d.kind \in kinds
  <2>1. t2 = define(t, d.name, s)  BY <1>3
  <2>2. /\ Len(t2) = Len(t)
        /\ \A l \in 1..Len(t), k \in Keys :
             t2[l][k] = IF l = Len(t) /\ k = d.name THEN s ELSE t[l][k]
    BY <1>2, <2>1, Enters
  <2> SUFFICES ASSUME NEW l \in 1..Len(t)
               PROVE  /\ \A n \in Names : Latest(t2[l][n].id, Lives(ds2, op, base, kinds, l, n))
                      /\ \A mm \in Modules : t2[l][mm] = NoSymbol
    BY <2>2 DEF Describes
  <2>3. ASSUME NEW mm \in Modules  PROVE t2[l][mm] = NoSymbol
    <3>1. mm \in Keys /\ mm # d.name  BY <1>2 DEF Keys
    <3>2. QED  BY <2>2, <3>1 DEF Describes
  <2>4. ASSUME NEW n \in Names  PROVE Latest(t2[l][n].id, Lives(ds2, op, base, kinds, l, n))
    <3>0. n \in Keys  BY DEF Keys
    <3>1. Latest(t[l][n].id, Lives(ds, op, base, kinds, l, n))  BY DEF Describes
    <3>2. CASE n = d.name /\ l = Len(t)
      <4>1. Lives(ds2, op, base, kinds, l, n) = Lives(ds, op, base, kinds, l, n) \cup {N + 1}
        <5>1. IsAt(ds2, op, base, N + 1, l)  BY <1>3, <3>2
        <5>2. QED  BY <1>3, <3>2, <5>1, LivesAppended
      <4>2. \A i \in Lives(ds, op, base, kinds, l, n) : i <= N + 1  BY <1>1 DEF Lives
      <4>3. t2[l][n].id = N + 1  BY <2>2, <3>0, <3>2
      <4>4. Latest(N + 1, Lives(ds, op, base, kinds, l, n) \cup {N + 1})
        <5>1. N + 1 \in Nat  BY <1>1
        <5>2. QED  BY <4>2, <5>1, LatestAdded
      <4>5. QED  BY <4>1, <4>3, <4>4, Zenon
    <3>3. CASE ~(n = d.name /\ l = Len(t))
      <4>1. Lives(ds2, op, base, kinds, l, n) = Lives(ds, op, base, kinds, l, n)
        <5>1. ~(d.name = n /\ IsAt(ds2, op, base, N + 1, l))  BY <1>3, <3>3
        <5>2. QED  BY <5>1, LivesAppended
      <4>2. t2[l][n] = t[l][n]  BY <2>2, <3>0, <3>3
      <4>3. QED  BY <3>1, <4>1, <4>2
    <3>4. QED  BY <3>2, <3>3
  <2>5. QED  BY <2>3, <2>4
<1>4. CASE ~(d.taken /\ d.kind \in kinds)
  <2>1. t2 = t  BY <1>4
  <2>2. \A l, n : Lives(ds2, op, base, kinds, l, n) = Lives(ds, op, base, kinds, l, n)
    BY <1>4, LivesAppended
  <2>3. QED  BY <2>1, <2>2 DEF Describes
<1>5. QED  BY <1>3, <1>4

(* Visits that end or begin leave the tables below theirs alone. *)
LEMMA LivesBelow ==
  ASSUME NEW ds, NEW op, NEW op2, NEW base \in Nat, NEW kinds, NEW l \in Nat, NEW n,
         Len(op) \in Nat, Len(op2) \in Nat,
         l - base \in 1..Len(op) => l - base \in 1..Len(op2),
         l - base \in 1..Len(op2) => l - base \in 1..Len(op) /\ op[l - base].id = op2[l - base].id
  PROVE  Lives(ds, op2, base, kinds, l, n) = Lives(ds, op, base, kinds, l, n)
<1>1. ASSUME NEW i  PROVE IsAt(ds, op2, base, i, l) <=> IsAt(ds, op, base, i, l)
  BY Zenon DEF IsAt
<1>2. QED  BY <1>1, Zenon DEF Lives

(* Tables that stay, below those opened or closed, are as right as before. *)
LEMMA DescribesBelow ==
  ASSUME NEW ds, NEW op, NEW op2, NEW base \in Nat, NEW kinds, NEW t, NEW t2,
         Describes(t, ds, op, base, kinds),
         Len(op) \in Nat, Len(op2) \in Nat, Len(t) \in Nat, Len(t2) \in Nat,
         Len(t2) <= Len(t), \A l \in 1..Len(t2) : t2[l] = t[l],
         \A k \in 1..Len(op) : base + k <= Len(t2) => k \in 1..Len(op2),
         \A k \in 1..Len(op2) : base + k <= Len(t2) =>
           k \in 1..Len(op) /\ op[k].id = op2[k].id
  PROVE  Describes(t2, ds, op2, base, kinds)
<1> SUFFICES ASSUME NEW l \in 1..Len(t2)
             PROVE  /\ \A n \in Names : Latest(t2[l][n].id, Lives(ds, op2, base, kinds, l, n))
                    /\ \A m \in Modules : t2[l][m] = NoSymbol
  BY DEF Describes
<1>1. l \in 1..Len(t) /\ t2[l] = t[l] /\ l \in Nat  OBVIOUS
<1>2. l - base \in Int /\ base + (l - base) <= Len(t2)  OBVIOUS
<1>3. \A n : Lives(ds, op2, base, kinds, l, n) = Lives(ds, op, base, kinds, l, n)
  <2>1. l - base \in 1..Len(op) => l - base \in 1..Len(op2)  BY <1>2
  <2>2. l - base \in 1..Len(op2) => l - base \in 1..Len(op) /\ op[l - base].id = op2[l - base].id
    BY <1>2
  <2>3. QED  BY <1>1, <2>1, <2>2, LivesBelow
<1>4. QED  BY <1>1, <1>3 DEF Describes

(* A new table on top, of a visit that has declared nothing. *)
LEMMA DescribesPushed ==
  ASSUME NEW ds, NEW op, NEW base \in Nat, NEW kinds, NEW n \in Nat, NEW t \in Seq(TablesTo(n)),
         Describes(t, ds, op, base, kinds),
         \A m \in Names : Lives(ds, op, base, kinds, Len(t) + 1, m) = {}
  PROVE  Describes(push(t), ds, op, base, kinds)
<1>1. /\ Len(push(t)) = Len(t) + 1 /\ \A l \in 1..Len(t) : push(t)[l] = t[l]
      /\ push(t)[Len(t) + 1] = Scope /\ Len(t) \in Nat
  BY PushGives, LenProperties
<1>2. \A k \in Keys : Scope[k] = NoSymbol /\ NoSymbol.id = 0  BY DEF Scope, NoSymbol
<1> SUFFICES ASSUME NEW l \in 1..Len(t) + 1
             PROVE  /\ \A m \in Names : Latest(push(t)[l][m].id, Lives(ds, op, base, kinds, l, m))
                    /\ \A m \in Modules : push(t)[l][m] = NoSymbol
  BY <1>1 DEF Describes
<1>3. CASE l = Len(t) + 1  BY <1>1, <1>2, <1>3 DEF Latest, Keys
<1>4. CASE l \in 1..Len(t)  BY <1>1, <1>4 DEF Describes
<1>5. QED  BY <1>1, <1>3, <1>4

(* The same of the marks: a declaration appended, and entered on top. *)
LEMMA TellsAppended ==
  ASSUME NEW ds \in Seq(DeclType), NEW d \in DeclType, NEW op, NEW base, NEW kinds,
         NEW procs \in BOOLEAN,
         NEW t, NEW m \in Nat, t \in Seq(TablesTo(m)), t # <<>>,
         Tells(t, ds, op, base, kinds, procs),
         d.taken /\ d.kind \in kinds =>
           \A l \in 1..Len(t) : IsAt(Append(ds, d), op, base, Len(ds) + 1, l) <=> l = Len(t),
         NEW s \in SymbolsTo(m), s.id = Len(ds) + 1,
         d.taken => s.global = (IF d.kind = "proc" THEN procs ELSE d.owner = 0),
         NEW t2, t2 = IF d.taken /\ d.kind \in kinds THEN define(t, d.name, s) ELSE t
  PROVE  Tells(t2, Append(ds, d), op, base, kinds, procs)
<1> DEFINE ds2 == Append(ds, d)
           N == Len(ds)
<1>1. Describes(t, ds, op, base, kinds) /\ Marks(t, ds, procs)  BY DEF Tells
<1>2. Describes(t2, ds2, op, base, kinds)  BY <1>1, DescribesAppended
<1>3. Marks(t2, ds2, procs)
  <2>1. /\ N \in Nat /\ ds2[N + 1] = d
        /\ \A i \in 1..N : ds2[i] = ds[i]
    BY AppendGives
  <2>2. ASSUME NEW l \in 1..Len(t), NEW n \in Names
        PROVE  t[l][n].global = GlobalOf(ds2, t[l][n].id, procs)
    <3>1. t[l][n].id = 0 \/ t[l][n].id \in 1..N
      BY <1>1 DEF Describes, Latest, Lives
    <3>2. GlobalOf(ds2, t[l][n].id, procs) = GlobalOf(ds, t[l][n].id, procs)
      BY <2>1, <3>1 DEF GlobalOf
    <3>3. QED  BY <1>1, <3>2 DEF Marks
  <2>3. CASE d.taken /\ d.kind \in kinds
    <3>1. d.name \in Keys  BY DEF DeclType, Keys
    <3>2. t2 = define(t, d.name, s)  BY <2>3
    <3>3. /\ Len(t2) = Len(t)
          /\ \A l \in 1..Len(t), k \in Keys :
               t2[l][k] = IF l = Len(t) /\ k = d.name THEN s ELSE t[l][k]
      BY <3>1, <3>2, Enters
    <3>4. s.global = GlobalOf(ds2, s.id, procs)
      <4> HIDE DEF ds2
      <4>1. s.id = N + 1 /\ N + 1 # 0 /\ ds2[s.id] = d  BY <2>1
      <4>2. s.global = (IF d.kind = "proc" THEN procs ELSE d.owner = 0)  BY <2>3
      <4>3. GlobalOf(ds2, s.id, procs) <=> IF d.kind = "proc" THEN procs ELSE d.owner = 0
        BY <4>1 DEF GlobalOf
      <4>4. QED  BY <4>2, <4>3 DEF GlobalOf
    <3>5. \A l \in 1..Len(t), n \in Names : t2[l][n].global = GlobalOf(ds2, t2[l][n].id, procs)
      <4> HIDE DEF ds2
      <4> SUFFICES ASSUME NEW l \in 1..Len(t), NEW n \in Names
                   PROVE  t2[l][n].global = GlobalOf(ds2, t2[l][n].id, procs)
        OBVIOUS
      <4>1. t2[l][n] = s \/ t2[l][n] = t[l][n]  BY <3>3 DEF Keys
      <4>2. QED  BY <2>2, <3>4, <4>1
    <3>6. QED  BY <3>3, <3>5 DEF Marks
  <2>4. CASE ~(d.taken /\ d.kind \in kinds)  BY <2>2, <2>4 DEF Marks
  <2>5. QED  BY <2>3, <2>4
<1>4. QED  BY <1>2, <1>3 DEF Tells

(* Tables that stay keep their marks. *)
LEMMA TellsBelow ==
  ASSUME NEW ds, NEW op, NEW op2, NEW base \in Nat, NEW kinds, NEW procs \in BOOLEAN, NEW t, NEW t2,
         Tells(t, ds, op, base, kinds, procs),
         Len(op) \in Nat, Len(op2) \in Nat, Len(t) \in Nat, Len(t2) \in Nat,
         Len(t2) <= Len(t), \A l \in 1..Len(t2) : t2[l] = t[l],
         \A k \in 1..Len(op) : base + k <= Len(t2) => k \in 1..Len(op2),
         \A k \in 1..Len(op2) : base + k <= Len(t2) =>
           k \in 1..Len(op) /\ op[k].id = op2[k].id
  PROVE  Tells(t2, ds, op2, base, kinds, procs)
<1>1. Describes(t2, ds, op2, base, kinds)  BY DescribesBelow DEF Tells
<1>2. Marks(t2, ds, procs)
  <2>1. \A l \in 1..Len(t2) : l \in 1..Len(t)  OBVIOUS
  <2>2. QED  BY <2>1 DEF Marks, Tells
<1>3. QED  BY <1>1, <1>2 DEF Tells

(* An empty table on top, at a level where nothing is declared yet. *)
LEMMA TellsPushed ==
  ASSUME NEW ds, NEW op, NEW base \in Nat, NEW kinds, NEW procs \in BOOLEAN,
         NEW n \in Nat, NEW t \in Seq(TablesTo(n)),
         Tells(t, ds, op, base, kinds, procs),
         \A m \in Names : Lives(ds, op, base, kinds, Len(t) + 1, m) = {}
  PROVE  Tells(push(t), ds, op, base, kinds, procs)
<1>1. Describes(push(t), ds, op, base, kinds)  BY DescribesPushed DEF Tells
<1>2. /\ Len(push(t)) = Len(t) + 1 /\ \A l \in 1..Len(t) : push(t)[l] = t[l]
      /\ push(t)[Len(t) + 1] = Scope /\ Len(t) \in Nat
  BY PushGives, LenProperties
<1>3. \A k \in Names : Scope[k].id = 0 /\ Scope[k].global = FALSE  BY DEF Scope, NoSymbol, Keys
<1>4. ASSUME NEW l \in 1..(Len(t) + 1), NEW k \in Names
      PROVE  push(t)[l][k].global = GlobalOf(ds, push(t)[l][k].id, procs)
  <2>1. CASE l = Len(t) + 1  BY <1>2, <1>3, <2>1 DEF GlobalOf
  <2>2. CASE l \in 1..Len(t)  BY <1>2, <2>2 DEF Marks, Tells
  <2>3. QED  BY <1>2, <2>1, <2>2
<1>5. QED  BY <1>1, <1>2, <1>4 DEF Tells, Marks

(* The elements of a sequence have its type. *)
LEMMA ElementsHave ==
  ASSUME NEW T, NEW s \in Seq(T)
  PROVE  Len(s) \in Nat /\ \A i \in 1..Len(s) : s[i] \in T
BY LenProperties

(* The fields of a visit have their types. *)
LEMMA VisitFields ==
  ASSUME NEW m \in Nat, NEW op \in Seq(VisitsTo(m)), NEW k \in 1..Len(op)
  PROVE  /\ op[k] \in VisitsTo(m) /\ op[k].id \in 1..m
         /\ op[k].taken \in BOOLEAN /\ op[k].hasReturn \in BOOLEAN
         /\ op[k].inGlobalScope \in BOOLEAN
         /\ op[k].curFunc \in FuncsTo(m) /\ op[k].epilogue \in 0..m
<1>1. op[k] \in VisitsTo(m)  BY ElementsHave
<1>2. QED  BY <1>1 DEF VisitsTo

(* The fields of a declaration have their types. *)
LEMMA DeclFields ==
  ASSUME NEW ds \in Seq(DeclType), NEW i \in 1..Len(ds)
  PROVE  /\ ds[i] \in DeclType /\ ds[i].kind \in AnyKind /\ ds[i].name \in Names
         /\ ds[i].mod \in Modules /\ ds[i].owner \in Nat /\ ds[i].params \in {0, 1}
         /\ ds[i].exported \in BOOLEAN /\ ds[i].taken \in BOOLEAN
         /\ ds[i].function \in BOOLEAN /\ ds[i].isVar \in BOOLEAN
<1>1. ds[i] \in DeclType  BY ElementsHave
<1>2. QED  BY <1>1 DEF DeclType

(* The visits stand one in the other. *)
IdsRise(op) == \A k \in 1..Len(op) : \A j \in 1..(k - 1) : op[j].id < op[k].id

(* No two visits under way are of one procedure. *)
LEMMA OwnersDiffer ==
  ASSUME NEW m \in Nat, NEW op \in Seq(VisitsTo(m)), IdsRise(op),
         NEW j \in 0..Len(op), NEW k \in 0..Len(op), OwnerAt(op, j) = OwnerAt(op, k)
  PROVE  j = k
<1>1. \A i \in 1..Len(op) : op[i].id \in 1..m  BY VisitFields
<1>2. Len(op) \in Nat  BY LenProperties
<1>3. ASSUME NEW a \in 0..Len(op), NEW b \in 0..Len(op), a < b
      PROVE  OwnerAt(op, a) # OwnerAt(op, b)
  <2>1. b \in 1..Len(op) /\ b # 0  BY <1>2, <1>3
  <2>2. CASE a = 0  BY <1>1, <2>1, <2>2 DEF OwnerAt
  <2>3. CASE a # 0
    <3>1. a \in 1..(b - 1) /\ a \in 1..Len(op)  BY <1>2, <1>3, <2>3
    <3>2. op[a].id < op[b].id  BY <2>1, <3>1 DEF IdsRise
    <3>3. op[a].id \in Int /\ op[b].id \in Int  BY <1>1, <2>1, <3>1
    <3>4. QED  BY <2>1, <2>3, <3>2, <3>3 DEF OwnerAt
  <2>4. QED  BY <2>2, <2>3
<1>4. QED  BY <1>2, <1>3

(* What is declared now belongs into the table on top. *)
LEMMA NewIsOnTop ==
  ASSUME NEW ds \in Seq(DeclType), NEW d \in DeclType, NEW m \in Nat,
         NEW op \in Seq(VisitsTo(m)), IdsRise(op), NEW base \in Nat,
         d.owner = OwnerAt(op, Len(op)), d.mod # Main => base = 1, NEW l \in Nat
  PROVE  (op = <<>> \/ l - base \in 0..Len(op)) =>
           (IsAt(Append(ds, d), op, base, Len(ds) + 1, l) <=> l = base + Len(op))
<1>1. Append(ds, d)[Len(ds) + 1] = d  BY AppendGives
<1>2. Len(op) \in Nat  BY LenProperties
<1>3. CASE op = <<>>
  <2>1. Len(op) = 0 /\ d.owner = 0  BY <1>3, EmptySeq DEF OwnerAt
  <2>2. QED  BY <1>1, <2>1 DEF IsAt
<1>4. CASE op # <<>> /\ l - base \in 0..Len(op)
  <2>1. Len(op) \in 1..Len(op)  BY <1>2, <1>4, EmptySeq
  <2>2. d.owner = op[Len(op)].id /\ d.owner # 0
    <3>1. op[Len(op)].id \in 1..m  BY <2>1, VisitFields
    <3>2. QED  BY <1>2, <2>1, <3>1 DEF OwnerAt
  <2>3. IsAt(Append(ds, d), op, base, Len(ds) + 1, l) <=>
          l - base \in 1..Len(op) /\ OwnerAt(op, Len(op)) = OwnerAt(op, l - base)
    BY <1>1, <2>1, <2>2 DEF IsAt, OwnerAt
  <2>4. l - base \in 0..Len(op) /\ Len(op) \in 0..Len(op)  BY <1>2, <1>4
  <2>5. ASSUME OwnerAt(op, Len(op)) = OwnerAt(op, l - base)  PROVE Len(op) = l - base
    BY <2>4, <2>5, OwnersDiffer, Zenon
  <2>6. QED  BY <1>2, <2>1, <2>3, <2>4, <2>5
<1>5. QED  BY <1>3, <1>4

(* A declaration appended, as Sema's tables see it. *)
LEMMA SemaLivesAppended ==
  ASSUME NEW ds \in Seq(DeclType), NEW d \in DeclType, NEW op, NEW mod,
         NEW l \in Int, NEW n
  PROVE  SemaLives(Append(ds, d), op, mod, l, n) =
           IF d.name = n /\ d.mod = mod /\ d.owner = OwnerAt(op, l - 1)
           THEN SemaLives(ds, op, mod, l, n) \cup {Len(ds) + 1}
           ELSE SemaLives(ds, op, mod, l, n)
<1> DEFINE ds2 == Append(ds, d)
           N == Len(ds)
<1>1. /\ N \in Nat /\ Len(ds2) = N + 1 /\ ds2[N + 1] = d
      /\ \A i \in 1..N : ds2[i] = ds[i]
  BY AppendGives
<1> HIDE DEF ds2
<1>2. 1..Len(ds2) = (1..N) \cup {N + 1} /\ N + 1 \notin 1..N  BY <1>1
<1>3. \A i \in 1..N :
        i \in SemaLives(ds2, op, mod, l, n) <=> i \in SemaLives(ds, op, mod, l, n)
  BY <1>1, <1>2, Zenon DEF SemaLives
<1>4. N + 1 \in SemaLives(ds2, op, mod, l, n) <=>
        d.name = n /\ d.mod = mod /\ d.owner = OwnerAt(op, l - 1)
  BY <1>1, <1>2, Zenon DEF SemaLives
<1>5. /\ SemaLives(ds, op, mod, l, n) \subseteq 1..N
      /\ SemaLives(ds2, op, mod, l, n) \subseteq (1..N) \cup {N + 1}
  BY <1>2 DEF SemaLives
<1>6. CASE d.name = n /\ d.mod = mod /\ d.owner = OwnerAt(op, l - 1)
  <2>1. SemaLives(ds2, op, mod, l, n) = SemaLives(ds, op, mod, l, n) \cup {N + 1}
    BY <1>3, <1>4, <1>5, <1>6, Zenon
  <2>2. QED  BY <1>6, <2>1, Zenon DEF ds2
<1>7. CASE ~(d.name = n /\ d.mod = mod /\ d.owner = OwnerAt(op, l - 1))
  <2>1. SemaLives(ds2, op, mod, l, n) = SemaLives(ds, op, mod, l, n)
    BY <1>2, <1>3, <1>4, <1>5, <1>7, Zenon
  <2>2. QED  BY <1>7, <2>1, Zenon DEF ds2
<1>8. QED  BY <1>6, <1>7, Zenon

(* Sema's table on top after a declaration it does not refuse. *)
LEMMA SemaEntered ==
  ASSUME NEW ds \in Seq(DeclType), NEW d \in DeclType, NEW mod, NEW imps,
         NEW m \in Nat, NEW op \in Seq(VisitsTo(m)), IdsRise(op),
         d.mod = mod, d.owner = OwnerAt(op, Len(op)),
         NEW q \in Nat, NEW t \in Seq(TablesTo(q)), Len(t) = Len(op) + 1, Len(ds) + 1 <= q,
         SemaDescribes(t, ds, op, mod, imps),
         NEW s \in SymbolsTo(q), s.id = Len(ds) + 1, s.global = FALSE,
         NEW t2, t2 = define(t, d.name, s)
  PROVE  SemaDescribes(t2, Append(ds, d), op, mod, imps)
<1> DEFINE ds2 == Append(ds, d)
           N == Len(ds)
<1>1. N \in Nat /\ Len(t) \in Nat /\ Len(op) \in Nat /\ t # <<>>
  BY ElementsHave, EmptySeq
<1>2. d.name \in Names /\ Names \cap Modules = {} /\ d.name \in Keys
  BY KeysAssumption DEF DeclType, Keys
<1>3. /\ Len(t2) = Len(t)
      /\ \A l \in 1..Len(t), k \in Keys :
           t2[l][k] = IF l = Len(t) /\ k = d.name THEN s ELSE t[l][k]
  BY <1>1, <1>2, Enters
<1>4. s.id = N + 1 /\ s.global = FALSE  OBVIOUS
<1> HIDE DEF ds2
<1> SUFFICES ASSUME NEW l \in 1..Len(t)
             PROVE  /\ \A n \in Names : /\ Latest(t2[l][n].id, SemaLives(ds2, op, mod, l, n))
                                        /\ t2[l][n].global = FALSE
                    /\ \A k \in Modules :
                         t2[l][k] = IF l = 1 /\ k \in imps THEN Import ELSE NoSymbol
  BY <1>3 DEF SemaDescribes, ds2
<1>5. ASSUME NEW k \in Modules
      PROVE  t2[l][k] = IF l = 1 /\ k \in imps THEN Import ELSE NoSymbol
  <2>1. k \in Keys /\ k # d.name  BY <1>2 DEF Keys
  <2>2. t2[l][k] = t[l][k]  BY <1>3, <2>1
  <2>3. t[l][k] = IF l = 1 /\ k \in imps THEN Import ELSE NoSymbol  BY DEF SemaDescribes
  <2>4. QED  BY <2>2, <2>3, Zenon
<1>6. ASSUME NEW n \in Names
      PROVE  Latest(t2[l][n].id, SemaLives(ds2, op, mod, l, n)) /\ t2[l][n].global = FALSE
  <2>1. n \in Keys  BY DEF Keys
  <2>2. Latest(t[l][n].id, SemaLives(ds, op, mod, l, n)) /\ t[l][n].global = FALSE
    BY DEF SemaDescribes
  <2>3. d.owner = OwnerAt(op, l - 1) <=> l = Len(t)
    <3>1. l - 1 \in 0..Len(op) /\ Len(op) \in 0..Len(op)  BY <1>1
    <3>2. ASSUME OwnerAt(op, Len(op)) = OwnerAt(op, l - 1)  PROVE Len(op) = l - 1
      BY <3>1, <3>2, OwnersDiffer, Zenon
    <3>3. l = Len(t) => l - 1 = Len(op)  BY <1>1
    <3>4. Len(op) = l - 1 => l = Len(t)  BY <1>1
    <3>5. QED  BY <3>2, <3>3, <3>4
  <2>0. SemaLives(ds2, op, mod, l, n) =
          IF d.name = n /\ d.mod = mod /\ d.owner = OwnerAt(op, l - 1)
          THEN SemaLives(ds, op, mod, l, n) \cup {N + 1} ELSE SemaLives(ds, op, mod, l, n)
    BY SemaLivesAppended DEF ds2
  <2>4. CASE n = d.name /\ l = Len(t)
    <3>1. SemaLives(ds2, op, mod, l, n) = SemaLives(ds, op, mod, l, n) \cup {N + 1}
      <4>1. d.name = n /\ d.mod = mod /\ d.owner = OwnerAt(op, l - 1)  BY <2>3, <2>4
      <4>2. QED  BY <2>0, <4>1, Zenon
    <3>2. N + 1 \in Nat /\ \A i \in SemaLives(ds, op, mod, l, n) : i <= N + 1
      BY <1>1 DEF SemaLives
    <3>3. Latest(N + 1, SemaLives(ds, op, mod, l, n) \cup {N + 1})  BY <3>2, LatestAdded
    <3>4. t2[l][n] = s  BY <1>3, <2>1, <2>4
    <3>5. QED  BY <1>4, <3>1, <3>3, <3>4
  <2>5. CASE ~(n = d.name /\ l = Len(t))
    <3>1. ~(d.name = n /\ d.mod = mod /\ d.owner = OwnerAt(op, l - 1))  BY <2>3, <2>5
    <3>2. SemaLives(ds2, op, mod, l, n) = SemaLives(ds, op, mod, l, n)
      BY <2>0, <3>1, Zenon
    <3>3. t2[l][n] = t[l][n]  BY <1>3, <2>1, <2>5
    <3>4. QED  BY <2>2, <3>2, <3>3
  <2>6. QED  BY <2>4, <2>5
<1>7. QED  BY <1>5, <1>6

(* The same for the symbol Sema makes. *)
LEMMA SemaAppended ==
  ASSUME NEW ds \in Seq(DeclType), NEW d \in DeclType, NEW mod, NEW imps,
         NEW m \in Nat, NEW op \in Seq(VisitsTo(m)), IdsRise(op),
         d.mod = mod, d.owner = OwnerAt(op, Len(op)),
         NEW q \in Nat, NEW t \in Seq(TablesTo(q)), Len(t) = Len(op) + 1, Len(ds) + 1 <= q,
         SemaDescribes(t, ds, op, mod, imps),
         NEW s, s = [id |-> Len(ds) + 1, global |-> FALSE],
         NEW t2, t2 = define(t, d.name, s)
  PROVE  SemaDescribes(t2, Append(ds, d), op, mod, imps)
<1>1. s \in SymbolsTo(q) /\ s.id = Len(ds) + 1 /\ s.global = FALSE
  BY ElementsHave DEF SymbolsTo
<1>2. QED  BY <1>1, SemaEntered

(* Sema's tables that stay are as right as before. *)
LEMMA SemaBelow ==
  ASSUME NEW ds, NEW op, NEW op2, NEW mod, NEW imps, NEW t, NEW t2,
         SemaDescribes(t, ds, op, mod, imps),
         Len(op) \in Nat, Len(op2) \in Nat, Len(t) \in Nat, Len(t2) \in Nat,
         Len(t2) <= Len(t), \A l \in 1..Len(t2) : t2[l] = t[l],
         \A k \in 1..(Len(t2) - 1) : op[k].id = op2[k].id
  PROVE  SemaDescribes(t2, ds, op2, mod, imps)
<1> SUFFICES ASSUME NEW l \in 1..Len(t2)
             PROVE  /\ \A n \in Names : /\ Latest(t2[l][n].id, SemaLives(ds, op2, mod, l, n))
                                        /\ t2[l][n].global = FALSE
                    /\ \A k \in Modules :
                         t2[l][k] = IF l = 1 /\ k \in imps THEN Import ELSE NoSymbol
  BY DEF SemaDescribes
<1>1. l \in 1..Len(t) /\ t2[l] = t[l]  OBVIOUS
<1>2. OwnerAt(op, l - 1) = OwnerAt(op2, l - 1)
  <2>1. CASE l = 1  BY <2>1 DEF OwnerAt
  <2>2. CASE l # 1
    <3>1. l - 1 \in 1..(Len(t2) - 1)  BY <2>2
    <3>2. QED  BY <3>1 DEF OwnerAt
  <2>3. QED  BY <2>1, <2>2
<1>3. \A n : SemaLives(ds, op2, mod, l, n) = SemaLives(ds, op, mod, l, n)
  BY <1>2, Zenon DEF SemaLives
<1>4. /\ \A n \in Names : /\ Latest(t[l][n].id, SemaLives(ds, op, mod, l, n))
                          /\ t[l][n].global = FALSE
      /\ \A k \in Modules : t[l][k] = IF l = 1 /\ k \in imps THEN Import ELSE NoSymbol
  BY <1>1 DEF SemaDescribes
<1>5. QED  BY <1>1, <1>3, <1>4, Zenon

(* An empty table on top, for a procedure with nothing declared yet. *)
LEMMA SemaPushed ==
  ASSUME NEW ds, NEW op, NEW mod, NEW imps, NEW n \in Nat, NEW t \in Seq(TablesTo(n)),
         t # <<>>, SemaDescribes(t, ds, op, mod, imps),
         \A m \in Names : SemaLives(ds, op, mod, Len(t) + 1, m) = {}
  PROVE  SemaDescribes(push(t), ds, op, mod, imps)
<1>1. /\ Len(push(t)) = Len(t) + 1 /\ \A l \in 1..Len(t) : push(t)[l] = t[l]
      /\ push(t)[Len(t) + 1] = Scope /\ Len(t) \in Nat /\ Len(t) # 0
  BY PushGives, LenProperties, EmptySeq
<1>2. \A k \in Keys : Scope[k] = NoSymbol /\ NoSymbol.id = 0 /\ NoSymbol.global = FALSE
  BY DEF Scope, NoSymbol
<1> SUFFICES ASSUME NEW l \in 1..(Len(t) + 1)
             PROVE  /\ \A m \in Names : /\ Latest(push(t)[l][m].id, SemaLives(ds, op, mod, l, m))
                                        /\ push(t)[l][m].global = FALSE
                    /\ \A k \in Modules :
                         push(t)[l][k] = IF l = 1 /\ k \in imps THEN Import ELSE NoSymbol
  BY <1>1 DEF SemaDescribes
<1>3. CASE l = Len(t) + 1  BY <1>1, <1>2, <1>3 DEF Latest, Keys
<1>4. CASE l \in 1..Len(t)
  <2>1. /\ \A m \in Names : /\ Latest(t[l][m].id, SemaLives(ds, op, mod, l, m))
                            /\ t[l][m].global = FALSE
        /\ \A k \in Modules : t[l][k] = IF l = 1 /\ k \in imps THEN Import ELSE NoSymbol
    BY <1>4 DEF SemaDescribes
  <2>2. QED  BY <1>1, <1>4, <2>1, Zenon
<1>5. l = Len(t) + 1 \/ l \in 1..Len(t)  BY <1>1
<1>6. QED  BY <1>3, <1>4, <1>5, Zenon

(* A declaration appended, as the constants see it. *)
LEMMA ConstsAppended ==
  ASSUME NEW ds \in Seq(DeclType), NEW d \in DeclType, NEW n
  PROVE  ConstsNamed(Append(ds, d), n) =
           IF d.kind = "const" /\ d.taken /\ d.name = n
           THEN ConstsNamed(ds, n) \cup {Len(ds) + 1} ELSE ConstsNamed(ds, n)
<1> DEFINE ds2 == Append(ds, d)
           N == Len(ds)
<1>1. /\ N \in Nat /\ Len(ds2) = N + 1 /\ ds2[N + 1] = d
      /\ \A i \in 1..N : ds2[i] = ds[i]
  BY AppendGives
<1> HIDE DEF ds2
<1>2. 1..Len(ds2) = (1..N) \cup {N + 1} /\ N + 1 \notin 1..N  BY <1>1
<1>3. \A i \in 1..N : i \in ConstsNamed(ds2, n) <=> i \in ConstsNamed(ds, n)
  BY <1>1, <1>2, Zenon DEF ConstsNamed
<1>4. N + 1 \in ConstsNamed(ds2, n) <=> d.kind = "const" /\ d.taken /\ d.name = n
  BY <1>1, <1>2, Zenon DEF ConstsNamed
<1>5. ConstsNamed(ds, n) \subseteq 1..N /\ ConstsNamed(ds2, n) \subseteq (1..N) \cup {N + 1}
  BY <1>2 DEF ConstsNamed
<1>6. CASE d.kind = "const" /\ d.taken /\ d.name = n
  <2>1. ConstsNamed(ds2, n) = ConstsNamed(ds, n) \cup {N + 1}
    BY <1>3, <1>4, <1>5, <1>6, Zenon
  <2>2. QED  BY <1>6, <2>1, Zenon DEF ds2
<1>7. CASE ~(d.kind = "const" /\ d.taken /\ d.name = n)
  <2>1. ConstsNamed(ds2, n) = ConstsNamed(ds, n)
    BY <1>2, <1>3, <1>4, <1>5, <1>7, Zenon
  <2>2. QED  BY <1>7, <2>1, Zenon DEF ds2
<1>8. QED  BY <1>6, <1>7, Zenon

(* A declaration behind others that are right. *)
LEMMA DeclsAppended ==
  ASSUME NEW ds \in Seq(DeclType), NEW d \in DeclType, NEW last,
         DeclsOK(ds, last), DeclOK(Append(ds, d), last, Len(ds) + 1)
  PROVE  DeclsOK(Append(ds, d), last)
<1> DEFINE ds2 == Append(ds, d)
           N == Len(ds)
<1>1. /\ N \in Nat /\ Len(ds2) = N + 1
      /\ \A i \in 1..N : ds2[i] = ds[i]
  BY AppendGives
<1> HIDE DEF ds2
<1>2. ASSUME NEW i \in 1..N  PROVE DeclOK(ds2, last, i)
  <2>1. ds[i].owner \in Nat /\ DeclOK(ds, last, i) /\ ds2[i] = ds[i]
    BY <1>1, DeclFields DEF DeclsOK
  <2>2. ds[i].owner < i  BY <2>1 DEF DeclOK
  <2>3. ds[i].owner # 0 => ds2[ds[i].owner] = ds[ds[i].owner]  BY <1>1, <2>1, <2>2
  <2>4. QED  BY <2>1, <2>3 DEF DeclOK
<1>3. DeclOK(ds2, last, N + 1)  BY DEF ds2
<1>4. QED  BY <1>1, <1>2, <1>3 DEF DeclsOK, ds2

-----------------------------------------------------------------------------
(* The state as the invariant describes it *)

(* What the invariant says of lengths and of the visit at hand. *)
LEMMA Standing ==
  ASSUME IInv
  PROVE  /\ Len(decls) \in Nat /\ Len(open) \in Nat /\ Len(Order) \in Nat \ {0}
         /\ Order[at] \in Modules /\ at \in 1..Len(Order)
         /\ IdsRise(open) /\ Owner = OwnerAt(open, Len(open)) /\ Owner \in 0..Len(decls)
         /\ Owner = 0 <=> open = <<>>
         /\ Len(open) = 0 <=> open = <<>>
         /\ open # <<>> => /\ Len(open) \in 1..Len(open) /\ Current = open[Len(open)]
                           /\ Owner = Current.id /\ Current \in VisitsTo(Len(decls))
                           /\ Current.taken \in BOOLEAN
<1>1. Len(decls) \in Nat /\ Len(open) \in Nat /\ Len(Order) \in Nat
  BY OrderAssumption, ElementsHave DEF IInv, Shape
<1>2. Len(Order) # 0  BY OrderAssumption, EmptySeq
<1>3. at \in 1..Len(Order) /\ Order[at] \in Modules  BY DEF IInv, Shape, Modules
<1>4. IdsRise(open)  BY DEF IInv, VisitsNow, VisitsOK, VisitOK, IdsRise
<1>5. Len(open) = 0 <=> open = <<>>  BY EmptySeq DEF IInv, Shape
<1>6. open \in Seq(VisitsTo(Len(decls)))  BY DEF IInv, Shape
<1>7. CASE open = <<>>
  BY <1>1, <1>2, <1>3, <1>4, <1>5, <1>7 DEF Owner, OwnerAt
<1>8. CASE open # <<>>
  <2>1. Len(open) \in 1..Len(open)  BY <1>1, <1>5, <1>8
  <2>2. Current = open[Len(open)]  BY DEF Current
  <2>3. /\ Current \in VisitsTo(Len(decls)) /\ Current.id \in 1..Len(decls)
        /\ Current.taken \in BOOLEAN
    BY <1>1, <1>6, <2>1, <2>2, VisitFields
  <2>4. Owner = Current.id /\ Owner = OwnerAt(open, Len(open))
    BY <1>5, <1>8, <2>2 DEF Owner, OwnerAt
  <2>5. Owner \in 0..Len(decls) /\ Owner # 0  BY <1>1, <2>3, <2>4
  <2>6. QED  BY <1>1, <1>2, <1>3, <1>4, <1>5, <1>8, <2>1, <2>2, <2>3, <2>4, <2>5
<1>9. QED  BY <1>7, <1>8

(* The main module comes last and once. *)
LEMMA MainLast ==
  ASSUME IInv
  PROVE  /\ InMain <=> Order[at] = Main
         /\ Base \in {1, 2} /\ (Order[at] # Main => Base = 1)
         /\ at < Len(Order) => \A i \in 1..Len(decls) : decls[i].mod # Main
<1>1. at \in 1..Len(Order) /\ Len(Order) \in 1..Len(Order) /\ Len(Order) \in Nat  BY Standing
<1>2. InMain <=> Order[at] = Main  BY <1>1, OrderAssumption DEF InMain, Main
<1>3. Base \in {1, 2} /\ (Order[at] # Main => Base = 1)  BY <1>2 DEF Base
<1>4. ASSUME at < Len(Order), NEW i \in 1..Len(decls)  PROVE decls[i].mod # Main
  <2>1. PICK a \in 1..at : decls[i].mod = Order[a]  BY DEF IInv, DeclsNow, DeclsOK, DeclOK
  <2>2. a \in 1..Len(Order) /\ a # Len(Order)  BY <1>1, <1>4
  <2>3. QED  BY <1>1, <2>1, <2>2, OrderAssumption DEF Main
<1>5. QED  BY <1>2, <1>3, <1>4

(* The tables are there. *)
LEMMA Tables ==
  ASSUME IInv
  PROVE  /\ semaScopes \in Seq(TablesTo(Len(decls))) /\ semaScopes # <<>>
         /\ Len(semaScopes) = Len(open) + 1
         /\ irScopes \in Seq(TablesTo(Len(decls))) /\ irScopes # <<>>
         /\ symScopes \in Seq(TablesTo(Len(decls))) /\ symScopes # <<>>
         /\ Len(irScopes) \in Nat /\ Len(symScopes) = Len(irScopes)
         /\ open = <<>> \/ TakenNow => Len(irScopes) = Base + Len(open)
         /\ Base \in Nat /\ 1 <= Base
<1>1. Len(open) \in Nat /\ (Len(open) = 0 <=> open = <<>>)  BY Standing
<1>2. Base \in {1, 2}  BY MainLast
<1>3. /\ semaScopes \in Seq(TablesTo(Len(decls)))
      /\ irScopes \in Seq(TablesTo(Len(decls)))
      /\ symScopes \in Seq(TablesTo(Len(decls)))
  BY DEF IInv, Shape
<1>4. /\ Len(semaScopes) = Len(open) + 1 /\ Len(symScopes) = Len(irScopes)
      /\ Len(irScopes) = Base + (IF TakenNow THEN Len(open) ELSE 0)
  BY DEF IInv, Lengths
<1>5. Len(irScopes) \in Nat /\ Len(irScopes) # 0  BY <1>1, <1>2, <1>4
<1>6. open = <<>> \/ TakenNow => Len(irScopes) = Base + Len(open)
  BY <1>1, <1>2, <1>4 DEF TakenNow
<1>7. semaScopes # <<>> /\ irScopes # <<>> /\ symScopes # <<>>
  BY <1>1, <1>3, <1>4, <1>5, EmptySeq
<1>8. QED  BY <1>2, <1>3, <1>4, <1>5, <1>6, <1>7

-----------------------------------------------------------------------------
(* Declarations *)

SameScope(d, e) == d.name = e.name /\ d.mod = e.mod /\ d.owner = e.owner
TwiceIn(ds) == \E i, j \in 1..Len(ds) : i # j /\ SameScope(ds[i], ds[j])

(* A declaration appended is the second of its name in its scope, or nothing new. *)
LEMMA TwiceAppended ==
  ASSUME NEW ds \in Seq(DeclType), NEW d \in DeclType
  PROVE  TwiceIn(Append(ds, d)) <=> TwiceIn(ds) \/ \E i \in 1..Len(ds) : SameScope(ds[i], d)
<1> DEFINE ds2 == Append(ds, d)
           N == Len(ds)
<1>1. /\ N \in Nat /\ Len(ds2) = N + 1 /\ ds2[N + 1] = d
      /\ \A i \in 1..N : ds2[i] = ds[i]
  BY AppendGives
<1> HIDE DEF ds2
<1>2. 1..Len(ds2) = (1..N) \cup {N + 1} /\ N + 1 \notin 1..N  BY <1>1
<1>3. \A a, b : SameScope(a, b) => SameScope(b, a)  BY DEF SameScope
<1>4. TwiceIn(ds) => TwiceIn(ds2)  BY <1>1, <1>2 DEF TwiceIn
<1>5. ASSUME NEW i \in 1..N, SameScope(ds[i], d)  PROVE TwiceIn(ds2)
  <2>1. i # N + 1 /\ SameScope(ds2[i], ds2[N + 1])  BY <1>1, <1>2, <1>5
  <2>2. i \in 1..Len(ds2) /\ N + 1 \in 1..Len(ds2)  BY <1>2
  <2>3. QED  BY <2>1, <2>2 DEF TwiceIn
<1>6. ASSUME TwiceIn(ds2)  PROVE TwiceIn(ds) \/ \E i \in 1..N : SameScope(ds[i], d)
  <2>1. PICK i, j \in 1..Len(ds2) : i # j /\ SameScope(ds2[i], ds2[j])  BY <1>6 DEF TwiceIn
  <2>2. CASE i = N + 1  BY <1>1, <1>2, <1>3, <2>1, <2>2
  <2>3. CASE j = N + 1  BY <1>1, <1>2, <2>1, <2>3
  <2>4. CASE i \in 1..N /\ j \in 1..N  BY <1>1, <2>1, <2>4 DEF TwiceIn
  <2>5. QED  BY <1>2, <2>2, <2>3, <2>4
<1>7. QED  BY <1>4, <1>5, <1>6 DEF ds2

(* NoSymbol is the symbol of no declaration that is not global. *)
LEMMA NoSymbolFields ==
  ASSUME NEW m, NEW s \in SymbolsTo(m)
  PROVE  s = NoSymbol <=> s.id = 0 /\ s.global = FALSE
<1>1. s = [id |-> s.id, global |-> s.global]  BY DEF SymbolsTo
<1>2. NoSymbol.id = 0 /\ NoSymbol.global = FALSE  BY DEF NoSymbol
<1>3. ASSUME s.id = 0, s.global = FALSE  PROVE s = NoSymbol
  BY <1>1, <1>3, Zenon DEF NoSymbol
<1>4. QED  BY <1>2, <1>3

(* Sema finds a second declaration exactly when there is one. *)
LEMMA DeclaresExact ==
  ASSUME IInv, refused = "no", NEW n \in Names
  PROVE  Declares(n) <=> \E i \in 1..Len(decls) : /\ decls[i].name = n
                                                  /\ decls[i].mod = Order[at]
                                                  /\ decls[i].owner = Owner
<1> DEFINE l == Len(semaScopes)
           S == SemaLives(decls, open, Order[at], l, n)
<1>1. l \in 1..Len(semaScopes) /\ l - 1 = Len(open) /\ n \in Keys
      /\ semaScopes[l] \in TablesTo(Len(decls))
  BY Standing, Tables, ElementsHave DEF Keys
<1>2. Latest(semaScopes[l][n].id, S) /\ semaScopes[l][n].global = FALSE
  BY <1>1 DEF IInv, SemaOK, SemaDescribes
<1>3. semaScopes[l][n] \in SymbolsTo(Len(decls))  BY <1>1 DEF TablesTo
<1>4. semaScopes[l][n] # NoSymbol <=> semaScopes[l][n].id # 0
  BY <1>2, <1>3, NoSymbolFields
<1>5. OwnerAt(open, l - 1) = Owner  BY <1>1, Standing
<1>6. S = {i \in 1..Len(decls) : /\ decls[i].name = n /\ decls[i].mod = Order[at]
                                 /\ decls[i].owner = Owner}
  BY <1>5 DEF SemaLives
<1>7. S = {} <=> semaScopes[l][n].id = 0
  <2>1. \A i \in S : i # 0  BY DEF SemaLives
  <2>2. QED  BY <1>2, <2>1 DEF Latest
<1>8. QED  BY <1>4, <1>6, <1>7 DEF Declares

(* What a visitor may declare now. *)
Declarable(d) ==
  /\ d \in DeclType /\ d.kind # "param" /\ d.owner = Owner /\ d.mod = Order[at]
  /\ d.isVar = FALSE /\ (open # <<>> => d.taken = Current.taken)

(* What may be declared is declared rightly. *)
LEMMA NewDecl ==
  ASSUME IInv, NEW d, Declarable(d)
  PROVE  DeclsOK(Append(decls, d), at)
<1> DEFINE ds2 == Append(decls, d)
           N == Len(decls)
<1>1. decls \in Seq(DeclType) /\ DeclsOK(decls, at) /\ d \in DeclType
  BY DEF IInv, Shape, DeclsNow, Declarable
<1>2. /\ N \in Nat /\ ds2[N + 1] = d /\ \A i \in 1..N : ds2[i] = decls[i]
  BY <1>1, AppendGives
<1>3. Owner \in 0..N /\ d.owner = Owner /\ at \in 1..at
  BY Standing DEF Declarable
<1>4. ASSUME Owner # 0
      PROVE  /\ Owner \in 1..N /\ decls[Owner].kind = "proc" /\ decls[Owner].mod = Order[at]
             /\ decls[Owner].taken = d.taken
  <2>1. /\ open # <<>> /\ Len(open) \in 1..Len(open) /\ Owner = open[Len(open)].id
        /\ Current = open[Len(open)]
    BY <1>4, Standing
  <2>2. VisitOK(open, decls, Order[at], Len(open))  BY <2>1 DEF IInv, VisitsNow, VisitsOK
  <2>3. QED  BY <1>2, <1>3, <1>4, <2>1, <2>2 DEF VisitOK, Declarable
<1>5. DeclOK(ds2, at, N + 1)
  <2> HIDE DEF ds2
  <2>1. d.owner < N + 1  BY <1>2, <1>3
  <2>2. \E a \in 1..at : d.mod = Order[a]  BY <1>3 DEF Declarable
  <2>3. d.owner # 0 => /\ ds2[d.owner].kind = "proc" /\ d.taken = ds2[d.owner].taken
                       /\ d.mod = ds2[d.owner].mod
    BY <1>2, <1>3, <1>4 DEF Declarable
  <2>4. ~d.isVar /\ d.kind # "param"  BY DEF Declarable
  <2>5. QED  BY <1>2, <2>1, <2>2, <2>3, <2>4 DEF DeclOK
<1>6. QED  BY <1>1, <1>5, DeclsAppended

(* Its place is the topmost of the generators' tables. *)
LEMMA NewOnTop ==
  ASSUME IInv, NEW d, Declarable(d), d.taken, NEW l \in 1..Len(irScopes)
  PROVE  IsAt(Append(decls, d), open, Base, Len(decls) + 1, l) <=> l = Len(irScopes)
<1>1. decls \in Seq(DeclType) /\ d \in DeclType /\ open \in Seq(VisitsTo(Len(decls)))
  BY DEF IInv, Shape, Declarable
<1>2. /\ Len(decls) \in Nat /\ IdsRise(open) /\ Len(open) \in Nat /\ l \in Nat
      /\ d.owner = OwnerAt(open, Len(open))
  BY Standing, Tables DEF Declarable
<1>3. Base \in Nat /\ (d.mod # Main => Base = 1)  BY MainLast, Tables DEF Declarable
<1>4. Len(irScopes) = Base + Len(open)  BY Tables DEF TakenNow, Declarable
<1>5. CASE open = <<>> \/ l - Base \in 0..Len(open)
  BY <1>1, <1>2, <1>3, <1>4, <1>5, NewIsOnTop
<1>6. CASE open # <<>> /\ l - Base \notin 0..Len(open)
  <2>1. l < Base  BY <1>2, <1>3, <1>4, <1>6
  <2>2. Append(decls, d)[Len(decls) + 1] = d  BY <1>1, AppendGives
  <2>3. d.owner # 0  BY <1>6, Standing DEF Declarable
  <2>4. l - Base \notin 1..Len(open)  BY <1>2, <1>3, <1>6
  <2>5. ~IsAt(Append(decls, d), open, Base, Len(decls) + 1, l)  BY <2>2, <2>3, <2>4 DEF IsAt
  <2>6. l # Len(irScopes)  BY <1>2, <1>3, <1>4, <2>1
  <2>7. QED  BY <2>5, <2>6
<1>7. QED  BY <1>5, <1>6

(* It is entered there by IRBuilder. *)
LEMMA NewInBuilder ==
  ASSUME IInv, NEW d, Declarable(d), NEW s \in SymbolsTo(Len(decls) + 1),
         s.id = Len(decls) + 1,
         d.taken => s.global = (IF d.kind = "proc" THEN TRUE ELSE d.owner = 0),
         NEW t, t = IF d.taken /\ d.kind \in Stored THEN define(irScopes, d.name, s) ELSE irScopes
  PROVE  Tells(t, Append(decls, d), open, Base, Stored, TRUE)
<1>1. /\ decls \in Seq(DeclType) /\ d \in DeclType
      /\ Tells(irScopes, decls, open, Base, Stored, TRUE)
  BY DEF IInv, Shape, Declarable, BuilderOK
<1>2. Len(decls) + 1 \in Nat /\ irScopes \in Seq(TablesTo(Len(decls) + 1)) /\ irScopes # <<>>
  BY Standing, Tables, Grows
<1>3. d.taken /\ d.kind \in Stored =>
        \A l \in 1..Len(irScopes) :
          IsAt(Append(decls, d), open, Base, Len(decls) + 1, l) <=> l = Len(irScopes)
  BY NewOnTop
<1>4. QED  BY <1>1, <1>2, <1>3, TellsAppended

(* And by the direct generator. *)
LEMMA NewInDirect ==
  ASSUME IInv, NEW d, Declarable(d), NEW s \in SymbolsTo(Len(decls) + 1),
         s.id = Len(decls) + 1,
         d.taken => s.global = (IF d.kind = "proc" THEN FALSE ELSE d.owner = 0),
         NEW t, t = IF d.taken THEN define(symScopes, d.name, s) ELSE symScopes
  PROVE  Tells(t, Append(decls, d), open, Base, AnyKind, FALSE)
<1>1. /\ decls \in Seq(DeclType) /\ d \in DeclType
      /\ Tells(symScopes, decls, open, Base, AnyKind, FALSE)
  BY DEF IInv, Shape, Declarable, DirectOK
<1>2. Len(decls) + 1 \in Nat /\ symScopes \in Seq(TablesTo(Len(decls) + 1)) /\ symScopes # <<>>
  BY Standing, Tables, Grows
<1>3. d.kind \in AnyKind  BY <1>1 DEF DeclType
<1>4. d.taken /\ d.kind \in AnyKind =>
        \A l \in 1..Len(symScopes) :
          IsAt(Append(decls, d), open, Base, Len(decls) + 1, l) <=> l = Len(symScopes)
  BY NewOnTop, Tables
<1>5. t = IF d.taken /\ d.kind \in AnyKind THEN define(symScopes, d.name, s) ELSE symScopes
  BY <1>3
<1>6. QED  BY <1>1, <1>2, <1>4, <1>5, TellsAppended

(* Sema enters it, or refuses the program for a name declared twice. *)
LEMMA NewInSema ==
  ASSUME IInv, refused = "no", NEW d, Declarable(d)
  PROVE  /\ TwiceIn(Append(decls, d)) <=> Declares(d.name)
         /\ ~Declares(d.name) =>
              SemaDescribes(declare(d.name), Append(decls, d), open, Order[at],
                            imports[Order[at]])
         /\ declare(d.name) \in Seq(TablesTo(Len(decls) + 1))
         /\ Len(declare(d.name)) = Len(semaScopes)
<1>1. /\ decls \in Seq(DeclType) /\ d \in DeclType /\ d.name \in Names /\ d.name \in Keys
      /\ open \in Seq(VisitsTo(Len(decls)))
      /\ SemaDescribes(semaScopes, decls, open, Order[at], imports[Order[at]])
      /\ d.mod = Order[at] /\ d.owner = Owner
  BY DEF IInv, Shape, Declarable, SemaOK, DeclType, Keys
<1>2. /\ Len(decls) \in Nat /\ Len(decls) + 1 \in Nat /\ Len(decls) + 1 <= Len(decls) + 1
      /\ IdsRise(open) /\ d.owner = OwnerAt(open, Len(open))
  BY <1>1, Standing
<1>3. /\ semaScopes \in Seq(TablesTo(Len(decls) + 1)) /\ semaScopes # <<>>
      /\ Len(semaScopes) = Len(open) + 1
  BY <1>2, Tables, Grows
<1> DEFINE s == [id |-> Len(decls) + 1, global |-> FALSE]
<1>4. s \in SymbolsTo(Len(decls) + 1)  BY <1>2 DEF SymbolsTo
<1>5. declare(d.name) = IF Declares(d.name) THEN semaScopes ELSE define(semaScopes, d.name, s)
  BY DEF declare, New
<1>6. TwiceIn(Append(decls, d)) <=> Declares(d.name)
  <2>1. ~TwiceIn(decls)  BY DEF IInv, SemaOK, Twice, TwiceIn, SameScope
  <2>2. Declares(d.name) <=> \E i \in 1..Len(decls) : SameScope(decls[i], d)
    BY <1>1, DeclaresExact DEF SameScope
  <2>3. QED  BY <1>1, <2>1, <2>2, TwiceAppended
<1>7. ASSUME ~Declares(d.name)
      PROVE  SemaDescribes(declare(d.name), Append(decls, d), open, Order[at],
                           imports[Order[at]])
  <2>1. declare(d.name) = define(semaScopes, d.name, s)  BY <1>5, <1>7
  <2>2. s = [id |-> Len(decls) + 1, global |-> FALSE]  OBVIOUS
  <2> HIDE DEF s
  <2>3. QED  BY <1>1, <1>2, <1>3, <2>1, <2>2, SemaAppended
<1>8. /\ declare(d.name) \in Seq(TablesTo(Len(decls) + 1))
      /\ Len(declare(d.name)) = Len(semaScopes)
  <2> HIDE DEF s
  <2>1. /\ define(semaScopes, d.name, s) \in Seq(TablesTo(Len(decls) + 1))
        /\ Len(define(semaScopes, d.name, s)) = Len(semaScopes)
    BY <1>1, <1>2, <1>3, <1>4, Enters
  <2>2. QED  BY <1>3, <1>5, <2>1
<1>9. QED  BY <1>6, <1>7, <1>8

(* Declarations appended do not disturb the visits under way. *)
LEMMA VisitsAppended ==
  ASSUME NEW ds \in Seq(DeclType), NEW d \in DeclType, NEW mod,
         NEW op \in Seq(VisitsTo(Len(ds))), VisitsOK(op, ds, mod)
  PROVE  VisitsOK(op, Append(ds, d), mod)
<1>1. Len(ds) \in Nat /\ \A i \in 1..Len(ds) : Append(ds, d)[i] = ds[i]  BY AppendGives
<1>2. ASSUME NEW k \in 1..Len(op)  PROVE VisitOK(op, Append(ds, d), mod, k)
  <2>1. op[k].id \in 1..Len(ds)  BY <1>1, VisitFields
  <2>2. VisitOK(op, ds, mod, k)  BY DEF VisitsOK
  <2>3. QED  BY <1>1, <2>1, <2>2 DEF VisitOK
<1>3. QED  BY <1>2 DEF VisitsOK

(* The declaration of a constant or a variable, but for the generators'    *)
(* tables.                                                                 *)
Declaring(d) ==
  /\ refused = "no" /\ ~inBody /\ Len(decls) + 1 <= MaxDecls
  /\ Declarable(d) /\ d.kind # "proc"
  /\ decls' = Append(decls, d)
  /\ semaScopes' = declare(d.name)
  /\ refused' = IF Declares(d.name) THEN "duplicate" ELSE refused
  /\ UNCHANGED <<at, imports, open, inBody, returns, funcHasReturn, moved, curFunc, epilogue,
                 inGlobalScope>>

(* What the declaration of a constant or a variable leaves alone. *)
LEMMA DeclaringGrows ==
  ASSUME IInv, NEW d, Declaring(d)
  PROVE  /\ decls' \in Seq(DeclType) /\ Len(decls') = Len(decls) + 1
         /\ Len(decls) \in Nat /\ decls'[Len(decls) + 1] = d
         /\ \A i \in 1..Len(decls) : decls'[i] = decls[i]
         /\ TakenNow' = TakenNow /\ Base' = Base /\ Owner' = Owner /\ Ids' = Ids
<1>1. decls \in Seq(DeclType) /\ d \in DeclType /\ decls' = Append(decls, d)
  BY DEF IInv, Shape, Declaring, Declarable
<1>2. open' = open /\ at' = at  BY DEF Declaring
<1>3. TakenNow' = TakenNow /\ Base' = Base /\ Owner' = Owner /\ Ids' = Ids
  BY <1>2 DEF TakenNow, Current, Base, InMain, Owner, Ids
<1>4. QED  BY <1>1, <1>3, AppendGives

(* It keeps the types. *)
LEMMA DeclaringShape ==
  ASSUME IInv, NEW d, Declaring(d),
         irScopes' \in Seq(TablesTo(Len(decls) + 1)),
         symScopes' \in Seq(TablesTo(Len(decls) + 1)),
         constants' \in [Names -> 0..(Len(decls) + 1)]
  PROVE  Shape'
<1> DEFINE N == Len(decls)
<1>1. /\ decls' \in Seq(DeclType) /\ Len(decls') = N + 1 /\ N \in Nat
      /\ N + 1 \in Nat /\ N <= N + 1 /\ N + 1 <= MaxDecls
  BY DeclaringGrows DEF Declaring
<1>2. /\ at' = at /\ imports' = imports /\ open' = open /\ inBody' = inBody
      /\ returns' = returns /\ funcHasReturn' = funcHasReturn /\ moved' = moved
      /\ curFunc' = curFunc /\ epilogue' = epilogue /\ inGlobalScope' = inGlobalScope
      /\ semaScopes' = declare(d.name)
  BY DEF Declaring
<1>3. semaScopes' \in Seq(TablesTo(N + 1))
  BY <1>2, NewInSema DEF Declaring
<1>4. refused' \in {"no", "duplicate", "return"}  BY DEF Declaring
<1>5. open' \in Seq(VisitsTo(N + 1)) /\ curFunc' \in FuncsTo(N + 1)
  BY <1>1, <1>2, Grows DEF IInv, Shape
<1>6. returns' \subseteq 0..(N + 1) /\ epilogue' \in 0..(N + 1)
  <2>1. 0..N \subseteq 0..(N + 1)  BY <1>1
  <2>2. QED  BY <1>2, <2>1 DEF IInv, Shape
<1>7. QED  BY <1>1, <1>2, <1>3, <1>4, <1>5, <1>6 DEF IInv, Shape

(* And every part of the invariant but the generators' tables. *)
LEMMA DeclaringKeeps ==
  ASSUME IInv, NEW d, Declaring(d)
  PROVE  DeclsNow' /\ VisitsNow' /\ AtHand' /\ GlobalOK' /\ ReturnsOK' /\ SemaOK'
<1> DEFINE N == Len(decls)
<1>1. /\ decls' \in Seq(DeclType) /\ Len(decls') = N + 1 /\ N \in Nat /\ decls'[N + 1] = d
      /\ \A i \in 1..N : decls'[i] = decls[i]
      /\ TakenNow' = TakenNow /\ Owner' = Owner /\ Ids' = Ids
  BY DeclaringGrows
<1>2. /\ at' = at /\ imports' = imports /\ open' = open /\ inBody' = inBody
      /\ returns' = returns /\ funcHasReturn' = funcHasReturn /\ moved' = moved
      /\ curFunc' = curFunc /\ epilogue' = epilogue /\ inGlobalScope' = inGlobalScope
      /\ semaScopes' = declare(d.name) /\ decls' = Append(decls, d)
      /\ refused' = (IF Declares(d.name) THEN "duplicate" ELSE refused)
      /\ Declarable(d) /\ refused = "no" /\ ~inBody /\ d.kind # "proc"
  BY DEF Declaring
<1>3. DeclsNow'  BY <1>2, NewDecl DEF DeclsNow
<1>4. VisitsNow'
  <2>1. VisitsOK(open, Append(decls, d), Order[at])
    BY <1>2, VisitsAppended DEF IInv, Shape, VisitsNow, Declarable
  <2>2. QED  BY <1>2, <2>1 DEF VisitsNow
<1>5. AtHand'
  <2>1. \A p : HasInner(decls, p) => HasInner(decls', p)  BY <1>1 DEF HasInner
  <2>2. AtHand  BY DEF IInv
  <2>3. QED  BY <1>1, <1>2, <2>1, <2>2 DEF AtHand, InMain
<1>6. GlobalOK'
  <2>1. GlobalOK /\ (InMain' <=> InMain)  BY <1>2 DEF IInv, InMain
  <2>2. /\ TakenNow' => ~inGlobalScope'
        /\ ~TakenNow' /\ ~(open' = <<>> /\ inBody' /\ InMain') => inGlobalScope'
    BY <1>1, <1>2, <2>1, Zenon DEF GlobalOK
  <2>3. \A k \in 1..Len(open') : IF open'[k].taken THEN open'[k].inGlobalScope <=> k = 1
                                                     ELSE open'[k].inGlobalScope
    BY <1>2, <2>1, Zenon DEF GlobalOK
  <2>4. QED  BY <2>2, <2>3, Zenon DEF GlobalOK
<1>7. ReturnsOK'
  <2>1. ReturnsOK  BY DEF IInv
  <2>2. refused' # "return"  BY <1>2
  <2>3. ~NoReturn  BY <1>2, <2>1 DEF ReturnsOK
  <2>4. ~NoReturn'
    <3> SUFFICES ASSUME NEW i \in (1..Len(decls')) \ Ids', decls'[i].kind = "proc",
                        decls'[i].function, i \notin returns'
                 PROVE  FALSE
      BY DEF NoReturn
    <3>1. i \in 1..N  BY <1>1, <1>2
    <3>2. QED  BY <1>1, <1>2, <2>3, <3>1 DEF NoReturn
  <2>5. QED  BY <1>1, <1>2, <2>1, <2>2, <2>4 DEF ReturnsOK
<1>8. SemaOK'
  <2>1. Twice' <=> TwiceIn(decls')  BY DEF Twice, TwiceIn, SameScope
  <2>2. TwiceIn(decls') <=> Declares(d.name)  BY <1>2, NewInSema
  <2>3. refused' = "duplicate" <=> Twice'  BY <1>2, <2>1, <2>2
  <2>4. refused' = "no" =>
          SemaDescribes(semaScopes', decls', open', Order[at'], imports'[Order[at']])
    BY <1>2, NewInSema
  <2>5. QED  BY <2>3, <2>4, Zenon DEF SemaOK
<1>9. QED  BY <1>3, <1>4, <1>5, <1>6, <1>7, <1>8

(* Which declarations the generators take. *)
LEMMA TakenIs ==
  ASSUME IInv, NEW kind, NEW exported \in BOOLEAN, NEW taken, taken = Taken(kind, exported)
  PROVE  taken \in BOOLEAN /\ (open # <<>> => taken = Current.taken)
<1>1. CASE open = <<>>  BY <1>1 DEF Taken
<1>2. CASE open # <<>>  BY <1>2, Standing DEF Taken
<1>3. QED  BY <1>1, <1>2

(* inGlobalScope_ is right about where a declaration that is taken stands. *)
LEMMA GlobalHere ==
  ASSUME IInv, ~inBody, open # <<>> => Current.taken
  PROVE  inGlobalScope = (Owner = 0)
<1>1. inGlobalScope \in BOOLEAN /\ GlobalOK  BY DEF IInv, Shape
<1>2. Owner = 0 <=> open = <<>>  BY Standing
<1>3. QED  BY <1>1, <1>2 DEF GlobalOK, TakenNow

(* The step of a constant. *)
LEMMA ConstDeclKeeps ==
  ASSUME IInv, NEW name \in Names, NEW exported \in BOOLEAN, ConstDecl(name, exported)
  PROVE  IInv'
<1> DEFINE N == Len(decls)
           taken == Taken("const", exported)
           d == Decl("const", name, Owner, exported, taken)
           s == [id |-> N + 1, global |-> inGlobalScope]
<1>1. /\ taken \in BOOLEAN /\ (open # <<>> => taken = Current.taken)
      /\ d \in DeclType /\ d.kind = "const" /\ d.name = name /\ d.mod = Order[at]
      /\ d.owner = Owner /\ d.taken = taken /\ d.isVar = FALSE
  <2>1. "const" \in AnyKind /\ Owner \in Nat  BY Standing DEF AnyKind
  <2>2. taken = Taken("const", exported) /\ d = Decl("const", name, Owner, exported, taken)
    OBVIOUS
  <2> HIDE DEF taken, d
  <2>3. taken \in BOOLEAN /\ (open # <<>> => taken = Current.taken)  BY <2>2, TakenIs
  <2>4. taken \in BOOLEAN  BY <2>3
  <2>5. d = Decl("const", name, Owner, exported, taken)  BY <2>2
  <2>6. /\ d \in DeclType /\ d.kind = "const" /\ d.name = name /\ d.mod = Order[at]
        /\ d.owner = Owner /\ d.taken = taken /\ d.isVar = FALSE
    BY <2>1, <2>4, <2>5, Standing DEF Decl, DeclType
  <2>7. QED  BY <2>3, <2>6
<1>2. /\ refused = "no" /\ ~inBody /\ N + 1 <= MaxDecls
      /\ decls' = Append(decls, d)
      /\ constants' = (IF taken THEN [constants EXCEPT ![name] = N + 1] ELSE constants)
      /\ symScopes' = (IF taken THEN define(symScopes, name, s) ELSE symScopes)
      /\ semaScopes' = declare(name)
      /\ refused' = (IF Declares(name) THEN "duplicate" ELSE refused)
      /\ irScopes' = irScopes
      /\ UNCHANGED <<at, imports, open, inBody, returns, funcHasReturn, moved, curFunc, epilogue,
                     inGlobalScope>>
  BY DEF ConstDecl, MayDeclare, New
<1>3. s.id = N + 1 /\ s.global = inGlobalScope  OBVIOUS
<1>4. s \in SymbolsTo(N + 1) /\ N \in Nat  BY Standing DEF SymbolsTo, IInv, Shape
<1> HIDE DEF taken, d, s, N
<1>5. Declarable(d) /\ Declaring(d)
  <2>1. Declarable(d)  BY <1>1 DEF Declarable
  <2>2. QED  BY <1>1, <1>2, <2>1 DEF Declaring, N
<1>6. /\ decls' \in Seq(DeclType) /\ Len(decls') = N + 1
      /\ TakenNow' = TakenNow /\ Base' = Base
  BY <1>5, DeclaringGrows DEF N
<1>7. DeclsNow' /\ VisitsNow' /\ AtHand' /\ GlobalOK' /\ ReturnsOK' /\ SemaOK'
  BY <1>5, DeclaringKeeps
<1>8. BuilderOK'
  <2>1. d.kind \notin Stored  BY <1>1 DEF Stored, AnyKind
  <2>2. irScopes' = IF d.taken /\ d.kind \in Stored THEN define(irScopes, d.name, s) ELSE irScopes
    BY <1>2, <2>1
  <2>3. d.taken => s.global = (IF d.kind = "proc" THEN TRUE ELSE d.owner = 0)
    <3>1. d.taken => inGlobalScope = (Owner = 0)  BY <1>1, <1>2, GlobalHere
    <3>2. QED  BY <1>1, <1>3, <3>1
  <2>4. Tells(irScopes', Append(decls, d), open, Base, Stored, TRUE)
    BY <1>3, <1>4, <1>5, <2>2, <2>3, NewInBuilder DEF N
  <2>5. QED  BY <1>2, <1>6, <2>4 DEF BuilderOK
<1>9. DirectOK'
  <2>1. d.taken => s.global = (IF d.kind = "proc" THEN FALSE ELSE d.owner = 0)
    <3>1. d.taken => inGlobalScope = (Owner = 0)  BY <1>1, <1>2, GlobalHere
    <3>2. QED  BY <1>1, <1>3, <3>1
  <2>2. symScopes' = IF d.taken THEN define(symScopes, d.name, s) ELSE symScopes
    BY <1>1, <1>2
  <2>3. Tells(symScopes', Append(decls, d), open, Base, AnyKind, FALSE)
    BY <1>3, <1>4, <1>5, <2>1, <2>2, NewInDirect DEF N
  <2>4. QED  BY <1>2, <1>6, <2>3 DEF DirectOK
<1>10. symScopes' \in Seq(TablesTo(N + 1)) /\ Len(symScopes') = Len(symScopes)
  <2>1. N + 1 \in Nat /\ N <= N + 1 /\ name \in Keys  BY <1>4 DEF Keys
  <2>2. symScopes \in Seq(TablesTo(N + 1)) /\ symScopes # <<>>  BY <1>4, <2>1, Tables, Grows DEF N
  <2>3. QED  BY <1>2, <1>4, <2>1, <2>2, Enters
<1>11. irScopes' \in Seq(TablesTo(N + 1)) /\ Len(irScopes') = Len(irScopes)
  BY <1>2, <1>4, Tables, Grows DEF N
<1>12. Lengths'
  <2>1. Len(semaScopes') = Len(semaScopes)  BY <1>1, <1>2, <1>5, NewInSema
  <2>2. open' = open  BY <1>2
  <2>3. QED  BY <1>6, <1>10, <1>11, <2>1, <2>2 DEF IInv, Lengths
<1>13. ConstantsOK' /\ constants' \in [Names -> 0..(N + 1)]
  <2>1. constants \in [Names -> 0..(N + 1)] /\ decls \in Seq(DeclType) /\ d \in DeclType
    BY <1>1, <1>4, Grows DEF IInv, Shape, N
  <2>2. ASSUME NEW n \in Names  PROVE Latest(constants'[n], ConstsNamed(decls', n))
    <3>1. Latest(constants[n], ConstsNamed(decls, n))  BY DEF IInv, ConstantsOK
    <3>2. ConstsNamed(decls', n) = IF d.kind = "const" /\ d.taken /\ d.name = n
                                   THEN ConstsNamed(decls, n) \cup {N + 1}
                                   ELSE ConstsNamed(decls, n)
      BY <1>2, <2>1, ConstsAppended DEF N
    <3>3. CASE taken /\ name = n
      <4>1. constants'[n] = N + 1  BY <1>2, <2>1, <3>3
      <4>2. N + 1 \in Nat /\ \A i \in ConstsNamed(decls, n) : i <= N + 1
        BY <1>4 DEF ConstsNamed, N
      <4>3. Latest(N + 1, ConstsNamed(decls, n) \cup {N + 1})  BY <4>2, LatestAdded
      <4>4. QED  BY <1>1, <3>2, <3>3, <4>1, <4>3
    <3>4. CASE ~(taken /\ name = n)
      <4>1. constants'[n] = constants[n]  BY <1>2, <2>1, <3>4
      <4>2. QED  BY <1>1, <3>1, <3>2, <3>4, <4>1
    <3>5. QED  BY <3>3, <3>4
  <2>3. QED
    <3>1. N + 1 \in 0..(N + 1)  BY <1>4
    <3>2. QED  BY <1>2, <2>1, <2>2, <3>1 DEF ConstantsOK
<1>14. Shape'  BY <1>5, <1>10, <1>11, <1>13, DeclaringShape DEF N
<1>15. QED  BY <1>7, <1>8, <1>9, <1>12, <1>13, <1>14 DEF IInv

(* The step of a variable. *)
LEMMA VarDeclKeeps ==
  ASSUME IInv, NEW name \in Names, NEW exported \in BOOLEAN, VarDecl(name, exported)
  PROVE  IInv'
<1> DEFINE N == Len(decls)
           taken == Taken("var", exported)
           d == Decl("var", name, Owner, exported, taken)
           s == [id |-> N + 1, global |-> inGlobalScope]
<1>1. /\ taken \in BOOLEAN /\ (open # <<>> => taken = Current.taken)
      /\ d \in DeclType /\ d.kind = "var" /\ d.name = name /\ d.mod = Order[at]
      /\ d.owner = Owner /\ d.taken = taken /\ d.isVar = FALSE
  <2>1. "var" \in AnyKind /\ Owner \in Nat  BY Standing DEF AnyKind
  <2>2. taken = Taken("var", exported) /\ d = Decl("var", name, Owner, exported, taken)
    OBVIOUS
  <2> HIDE DEF taken, d
  <2>3. taken \in BOOLEAN /\ (open # <<>> => taken = Current.taken)  BY <2>2, TakenIs
  <2>4. taken \in BOOLEAN  BY <2>3
  <2>5. d = Decl("var", name, Owner, exported, taken)  BY <2>2
  <2>6. /\ d \in DeclType /\ d.kind = "var" /\ d.name = name /\ d.mod = Order[at]
        /\ d.owner = Owner /\ d.taken = taken /\ d.isVar = FALSE
    BY <2>1, <2>4, <2>5, Standing DEF Decl, DeclType
  <2>7. QED  BY <2>3, <2>6
<1>2. /\ refused = "no" /\ ~inBody /\ N + 1 <= MaxDecls
      /\ decls' = Append(decls, d)
      /\ irScopes' = (IF taken THEN define(irScopes, name, s) ELSE irScopes)
      /\ symScopes' = (IF taken THEN define(symScopes, name, s) ELSE symScopes)
      /\ semaScopes' = declare(name)
      /\ refused' = (IF Declares(name) THEN "duplicate" ELSE refused)
      /\ constants' = constants
      /\ UNCHANGED <<at, imports, open, inBody, returns, funcHasReturn, moved, curFunc, epilogue,
                     inGlobalScope>>
  BY DEF VarDecl, MayDeclare, New
<1>3. s.id = N + 1 /\ s.global = inGlobalScope  OBVIOUS
<1>4. s \in SymbolsTo(N + 1) /\ N \in Nat  BY Standing DEF SymbolsTo, IInv, Shape
<1> HIDE DEF taken, d, s, N
<1>5. Declarable(d) /\ Declaring(d)
  <2>1. Declarable(d)  BY <1>1 DEF Declarable
  <2>2. QED  BY <1>1, <1>2, <2>1 DEF Declaring, N
<1>6. /\ decls' \in Seq(DeclType) /\ Len(decls') = N + 1
      /\ TakenNow' = TakenNow /\ Base' = Base
  BY <1>5, DeclaringGrows DEF N
<1>7. DeclsNow' /\ VisitsNow' /\ AtHand' /\ GlobalOK' /\ ReturnsOK' /\ SemaOK'
  BY <1>5, DeclaringKeeps
<1>8. d.taken => s.global = (d.owner = 0)
  <2>1. d.taken => inGlobalScope = (Owner = 0)  BY <1>1, <1>2, GlobalHere
  <2>2. QED  BY <1>1, <1>3, <2>1
<1>9. BuilderOK'
  <2>1. irScopes' = IF d.taken /\ d.kind \in Stored THEN define(irScopes, d.name, s) ELSE irScopes
    BY <1>1, <1>2 DEF Stored, AnyKind
  <2>2. Tells(irScopes', Append(decls, d), open, Base, Stored, TRUE)
    BY <1>1, <1>3, <1>4, <1>5, <1>8, <2>1, NewInBuilder DEF N
  <2>3. QED  BY <1>2, <1>6, <2>2 DEF BuilderOK
<1>10. DirectOK'
  <2>1. symScopes' = IF d.taken THEN define(symScopes, d.name, s) ELSE symScopes
    BY <1>1, <1>2
  <2>2. Tells(symScopes', Append(decls, d), open, Base, AnyKind, FALSE)
    BY <1>1, <1>3, <1>4, <1>5, <1>8, <2>1, NewInDirect DEF N
  <2>3. QED  BY <1>2, <1>6, <2>2 DEF DirectOK
<1>11. /\ symScopes' \in Seq(TablesTo(N + 1)) /\ Len(symScopes') = Len(symScopes)
       /\ irScopes' \in Seq(TablesTo(N + 1)) /\ Len(irScopes') = Len(irScopes)
  <2>1. N + 1 \in Nat /\ N <= N + 1 /\ name \in Keys  BY <1>4 DEF Keys
  <2>2. /\ symScopes \in Seq(TablesTo(N + 1)) /\ symScopes # <<>>
        /\ irScopes \in Seq(TablesTo(N + 1)) /\ irScopes # <<>>
    BY <1>4, <2>1, Tables, Grows DEF N
  <2>3. symScopes' \in Seq(TablesTo(N + 1)) /\ Len(symScopes') = Len(symScopes)
    BY <1>2, <1>4, <2>1, <2>2, Enters
  <2>4. irScopes' \in Seq(TablesTo(N + 1)) /\ Len(irScopes') = Len(irScopes)
    BY <1>2, <1>4, <2>1, <2>2, Enters
  <2>5. QED  BY <2>3, <2>4
<1>12. Lengths'
  <2>1. Len(semaScopes') = Len(semaScopes)  BY <1>1, <1>2, <1>5, NewInSema
  <2>2. open' = open  BY <1>2
  <2>3. QED  BY <1>6, <1>11, <2>1, <2>2 DEF IInv, Lengths
<1>13. ConstantsOK' /\ constants' \in [Names -> 0..(N + 1)]
  <2>1. constants' \in [Names -> 0..(N + 1)] /\ decls \in Seq(DeclType) /\ d \in DeclType
    BY <1>1, <1>2, <1>4, Grows DEF IInv, Shape, N
  <2>2. \A n : ConstsNamed(decls', n) = ConstsNamed(decls, n)
    BY <1>1, <1>2, <2>1, ConstsAppended
  <2>3. QED  BY <1>2, <2>1, <2>2 DEF IInv, ConstantsOK
<1>14. Shape'  BY <1>5, <1>11, <1>13, DeclaringShape DEF N
<1>15. QED  BY <1>7, <1>9, <1>10, <1>12, <1>13, <1>14 DEF IInv

(* One or two elements concatenated are appended. *)
LEMMA Concatenates ==
  ASSUME NEW T, NEW s \in Seq(T), NEW a \in T, NEW b \in T
  PROVE  s \o <<a>> \o <<>> = Append(s, a) /\ s \o <<a>> \o <<b>> = Append(Append(s, a), b)
<1>1. s \o <<a>> = Append(s, a) /\ Append(s, a) \in Seq(T)  BY AppendIsConcat, AppendGives
<1>2. Append(s, a) \o <<>> = Append(s, a)  BY <1>1, ConcatEmptySeq
<1>3. Append(s, a) \o <<b>> = Append(Append(s, a), b)  BY <1>1, AppendIsConcat
<1>4. QED  BY <1>1, <1>2, <1>3

(* The visit of a procedure that has just been declared. *)
Visiting(v, proc) ==
  /\ v \in VisitsTo(Len(decls) + 1) /\ v.id = Len(decls) + 1 /\ v.taken = proc.taken

(* The visit appended to those under way. *)
LEMMA VisitBegun ==
  ASSUME IInv, NEW proc, Declarable(proc), NEW v, Visiting(v, proc)
  PROVE  /\ Append(open, v) \in Seq(VisitsTo(Len(decls) + 1))
         /\ Len(Append(open, v)) = Len(open) + 1 /\ Append(open, v) # <<>>
         /\ \A k \in 1..Len(open) : Append(open, v)[k] = open[k]
         /\ Append(open, v)[Len(open) + 1] = v
         /\ IdsRise(Append(open, v))
         /\ OwnerAt(Append(open, v), Len(open) + 1) = Len(decls) + 1
<1> DEFINE op2 == Append(open, v)
           N == Len(decls)
<1>1. /\ N \in Nat /\ N + 1 \in Nat /\ N <= N + 1 /\ open \in Seq(VisitsTo(N))
      /\ Len(open) \in Nat /\ v \in VisitsTo(N + 1) /\ v.id = N + 1 /\ IdsRise(open)
  BY Standing DEF IInv, Shape, Visiting
<1>2. open \in Seq(VisitsTo(N + 1))  BY <1>1, Grows
<1>3. /\ op2 \in Seq(VisitsTo(N + 1)) /\ Len(op2) = Len(open) + 1
      /\ \A k \in 1..Len(open) : op2[k] = open[k]
      /\ op2[Len(open) + 1] = v
  BY <1>1, <1>2, AppendGives
<1>4. op2 # <<>>  BY <1>1, <1>3, EmptySeq
<1>5. \A k \in 1..Len(open) : open[k].id \in 1..N  BY <1>1, VisitFields
<1> HIDE DEF op2
<1>6. ASSUME NEW k \in 1..Len(op2), NEW j \in 1..(k - 1)  PROVE op2[j].id < op2[k].id
  <2>1. j \in 1..Len(open) /\ op2[j] = open[j] /\ open[j].id \in 1..N  BY <1>1, <1>3, <1>5
  <2>2. CASE k = Len(open) + 1  BY <1>1, <1>3, <2>1, <2>2
  <2>3. CASE k \in 1..Len(open)
    <3>1. op2[k] = open[k]  BY <1>3, <2>3
    <3>2. QED  BY <1>1, <2>1, <2>3, <3>1 DEF IdsRise
  <2>4. QED  BY <1>1, <1>3, <2>2, <2>3
<1>7. OwnerAt(op2, Len(open) + 1) = N + 1  BY <1>1, <1>3 DEF OwnerAt
<1>8. IdsRise(op2)  BY <1>6 DEF IdsRise
<1>9. QED  BY <1>3, <1>4, <1>7, <1>8 DEF op2

(* The name of a procedure enters the table outside, a table for what is   *)
(* in it comes on top.                                                     *)
LEMMA ProcInTable ==
  ASSUME IInv, NEW proc, Declarable(proc), proc.kind = "proc", NEW v, Visiting(v, proc),
         NEW kinds, "proc" \in kinds, NEW procs \in BOOLEAN,
         NEW t \in Seq(TablesTo(Len(decls))), Len(t) = Len(irScopes),
         Tells(t, decls, open, Base, kinds, procs),
         NEW s \in SymbolsTo(Len(decls) + 1), s.id = Len(decls) + 1, s.global = procs,
         NEW t1, t1 = IF proc.taken THEN push(define(t, proc.name, s)) ELSE t
  PROVE  /\ Tells(t1, Append(decls, proc), Append(open, v), Base, kinds, procs)
         /\ t1 \in Seq(TablesTo(Len(decls) + 1)) /\ t1 # <<>>
         /\ Len(t1) = IF proc.taken THEN Base + Len(open) + 1 ELSE Base
<1> DEFINE N == Len(decls)
           ds1 == Append(decls, proc)
           op2 == Append(open, v)
           t0 == IF proc.taken THEN define(t, proc.name, s) ELSE t
<1>1. /\ N \in Nat /\ N + 1 \in Nat /\ N <= N + 1 /\ Len(open) \in Nat /\ Base \in Nat
      /\ 1 <= Base /\ decls \in Seq(DeclType) /\ proc \in DeclType /\ proc.name \in Keys
      /\ proc.taken \in BOOLEAN
  <2>1. Len(open) \in Nat /\ N \in Nat /\ Base \in Nat /\ 1 <= Base  BY Standing, Tables
  <2>2. decls \in Seq(DeclType)  BY DEF IInv, Shape
  <2>3. proc \in DeclType  BY DEF Declarable
  <2>4. proc.name \in Names /\ proc.taken \in BOOLEAN  BY <2>3 DEF DeclType
  <2>5. QED  BY <2>1, <2>2, <2>3, <2>4 DEF Keys
<1>2. t \in Seq(TablesTo(N + 1))  BY <1>1, Grows
<1>3. Len(t) = IF proc.taken THEN Base + Len(open) ELSE Base
  <2>1. Len(t) = Base + (IF TakenNow THEN Len(open) ELSE 0)  BY DEF IInv, Lengths
  <2>2. TakenNow <=> open # <<>> /\ proc.taken  BY DEF TakenNow, Declarable
  <2>3. open = <<>> => Len(open) = 0  BY Standing
  <2>4. QED  BY <1>1, <2>1, <2>2, <2>3
<1>4. t # <<>>  BY <1>1, <1>3, EmptySeq
<1>5. t0 \in Seq(TablesTo(N + 1)) /\ Len(t0) = Len(t)
  <2>1. /\ define(t, proc.name, s) \in Seq(TablesTo(N + 1))
        /\ Len(define(t, proc.name, s)) = Len(t)
    BY <1>1, <1>2, <1>4, Enters
  <2>2. QED  BY <1>2, <2>1
<1>6. Tells(t0, ds1, open, Base, kinds, procs)
  <2>1. proc.taken /\ proc.kind \in kinds =>
          \A l \in 1..Len(t) : IsAt(ds1, open, Base, N + 1, l) <=> l = Len(t)
    BY NewOnTop
  <2>2. t0 = IF proc.taken /\ proc.kind \in kinds THEN define(t, proc.name, s) ELSE t
    OBVIOUS
  <2>3. proc.taken => s.global = (IF proc.kind = "proc" THEN procs ELSE proc.owner = 0)
    OBVIOUS
  <2> HIDE DEF t0
  <2>4. QED  BY <1>1, <1>2, <1>4, <2>1, <2>2, <2>3, TellsAppended
<1>7. /\ Len(op2) = Len(open) + 1 /\ \A k \in 1..Len(open) : op2[k] = open[k]
      /\ op2[Len(open) + 1] = v /\ v.id = N + 1
  BY VisitBegun DEF Visiting
<1> HIDE DEF t0, op2
<1>8. Tells(t0, ds1, op2, Base, kinds, procs)
  <2>1. Len(t0) \in Nat /\ Len(t0) <= Base + Len(open) /\ Len(op2) \in Nat
    BY <1>1, <1>3, <1>5, <1>7
  <2>2. \A k \in 1..Len(open) : Base + k <= Len(t0) => k \in 1..Len(op2)  BY <1>1, <1>7
  <2>3. \A k \in 1..Len(op2) : Base + k <= Len(t0) =>
          k \in 1..Len(open) /\ open[k].id = op2[k].id
    BY <1>1, <1>7, <2>1
  <2>4. QED  BY <1>1, <1>6, <2>1, <2>2, <2>3, TellsBelow
<1>9. CASE proc.taken
  <2>1. t1 = push(t0) /\ Len(t0) = Base + Len(open)  BY <1>3, <1>5, <1>9 DEF t0
  <2>2. \A m \in Names : Lives(ds1, op2, Base, kinds, Len(t0) + 1, m) = {}
    <3> SUFFICES ASSUME NEW i \in 1..Len(ds1), IsAt(ds1, op2, Base, i, Len(t0) + 1)
                 PROVE  FALSE
      BY DEF Lives
    <3>1. Len(ds1) = N + 1 /\ ds1 \in Seq(DeclType)  BY <1>1, AppendGives
    <3> HIDE DEF ds1
    <3>2. ds1[i].owner \in Nat  BY <3>1, DeclFields
    <3>3. ds1[i].owner < i /\ i <= N + 1
      BY <1>1, <3>1, NewDecl DEF DeclsOK, DeclOK, ds1
    <3>4. Len(t0) + 1 # Base /\ Len(t0) + 1 # 1 /\ (Len(t0) + 1) - Base = Len(open) + 1
      BY <1>1, <2>1
    <3>5. ds1[i].owner = op2[Len(open) + 1].id
      <4>1. ds1[i].owner # 0  BY <3>4, Zenon DEF IsAt
      <4>2. ds1[i].owner = op2[(Len(t0) + 1) - Base].id  BY <4>1, Zenon DEF IsAt
      <4>3. QED  BY <3>4, <4>2, Zenon
    <3>6. QED  BY <1>1, <1>7, <3>1, <3>2, <3>3, <3>5
  <2>3. Tells(push(t0), ds1, op2, Base, kinds, procs)
    BY <1>1, <1>5, <1>8, <2>2, TellsPushed
  <2>4. /\ push(t0) \in Seq(TablesTo(N + 1)) /\ Len(push(t0)) = Len(t0) + 1
        /\ push(t0) # <<>>
    BY <1>1, <1>5, PushGives
  <2>5. QED  BY <1>9, <2>1, <2>3, <2>4 DEF op2
<1>10. CASE ~proc.taken
  BY <1>3, <1>4, <1>5, <1>8, <1>10 DEF t0, op2
<1>11. QED  BY <1>1, <1>9, <1>10

(* Then its parameter enters that table. *)
ParamOf(p, proc) ==
  /\ p \in DeclType /\ p.kind = "param" /\ p.owner = Len(decls) + 1 /\ p.mod = Order[at]
  /\ p.taken = proc.taken

(* The generators' tables with the parameter entered. *)
LEMMA ParamInTable ==
  ASSUME IInv, NEW proc, Declarable(proc), proc.kind = "proc", NEW v, Visiting(v, proc),
         NEW p, ParamOf(p, proc),
         NEW kinds, "param" \in kinds, NEW procs \in BOOLEAN,
         NEW t \in Seq(TablesTo(Len(decls) + 1)), t # <<>>,
         Len(t) = IF proc.taken THEN Base + Len(open) + 1 ELSE Base,
         Tells(t, Append(decls, proc), Append(open, v), Base, kinds, procs),
         NEW s, s = [id |-> Len(decls) + 2, global |-> FALSE],
         NEW t2, t2 = IF proc.taken THEN define(t, p.name, s) ELSE t
  PROVE  /\ Tells(t2, Append(Append(decls, proc), p), Append(open, v), Base, kinds, procs)
         /\ t2 \in Seq(TablesTo(Len(decls) + 2)) /\ Len(t2) = Len(t)
<1> DEFINE N == Len(decls)
           ds1 == Append(decls, proc)
           op2 == Append(open, v)
<1>1. /\ N \in Nat /\ N + 1 \in Nat /\ N + 2 \in Nat /\ N + 1 <= N + 2 /\ Len(open) \in Nat
      /\ Base \in Nat /\ decls \in Seq(DeclType) /\ proc \in DeclType
      /\ p \in DeclType /\ p.name \in Keys /\ p.taken \in BOOLEAN
  <2>1. decls \in Seq(DeclType) /\ proc \in DeclType /\ p \in DeclType
    BY DEF IInv, Shape, Declarable, ParamOf
  <2>2. p.name \in Keys /\ p.taken \in BOOLEAN  BY <2>1 DEF DeclType, Keys
  <2>3. QED  BY <2>1, <2>2, Standing, Tables
<1>2. t \in Seq(TablesTo(N + 2))  BY <1>1, Grows
<1>3. s \in SymbolsTo(N + 2) /\ s.id = N + 2 /\ s.global = FALSE  BY <1>1 DEF SymbolsTo
<1>4. ds1 \in Seq(DeclType) /\ Len(ds1) = N + 1  BY <1>1, AppendGives
<1>5. /\ op2 \in Seq(VisitsTo(N + 1)) /\ Len(op2) = Len(open) + 1 /\ IdsRise(op2)
      /\ OwnerAt(op2, Len(open) + 1) = N + 1
  BY VisitBegun
<1> HIDE DEF ds1, op2, N
<1>6. ASSUME p.taken, NEW l \in 1..Len(t)
      PROVE  IsAt(Append(ds1, p), op2, Base, N + 2, l) <=> l = Len(t)
  <2>1. Append(ds1, p)[N + 2] = p
    <3>1. Append(ds1, p)[Len(ds1) + 1] = p  BY <1>1, <1>4, AppendGives
    <3>2. Len(ds1) + 1 = N + 2  BY <1>1, <1>4
    <3>3. QED  BY <3>1, <3>2
  <2>2. p.owner = N + 1 /\ p.owner # 0  BY <1>1 DEF ParamOf, N
  <2>3. IsAt(Append(ds1, p), op2, Base, N + 2, l) <=>
          l - Base \in 1..Len(op2) /\ N + 1 = OwnerAt(op2, l - Base)
    <3>1. IsAt(Append(ds1, p), op2, Base, N + 2, l) <=>
            l - Base \in 1..Len(op2) /\ p.owner = op2[l - Base].id
      BY <2>1, <2>2 DEF IsAt
    <3>2. l - Base \in 1..Len(op2) => OwnerAt(op2, l - Base) = op2[l - Base].id
      BY <1>1 DEF OwnerAt
    <3>3. QED  BY <2>2, <3>1, <3>2
  <2>4. Len(t) = Base + Len(open) + 1  BY <1>6 DEF ParamOf
  <2>5. ASSUME l - Base \in 1..Len(op2), N + 1 = OwnerAt(op2, l - Base)
        PROVE  l = Len(t)
    <3>1. l - Base \in 0..Len(op2) /\ Len(open) + 1 \in 0..Len(op2)  BY <1>1, <1>5, <2>5
    <3>2. OwnerAt(op2, l - Base) = OwnerAt(op2, Len(open) + 1)  BY <1>5, <2>5
    <3>3. l - Base = Len(open) + 1  BY <1>1, <1>5, <3>1, <3>2, OwnersDiffer, Zenon
    <3>4. QED  BY <1>1, <2>4, <3>3
  <2>6. ASSUME l = Len(t)
        PROVE  l - Base \in 1..Len(op2) /\ N + 1 = OwnerAt(op2, l - Base)
    <3>1. l - Base = Len(open) + 1  BY <1>1, <2>4, <2>6
    <3>2. QED  BY <1>1, <1>5, <3>1
  <2>7. QED  BY <2>3, <2>5, <2>6
<1>7. p.taken /\ p.kind \in kinds =>
        \A l \in 1..Len(t) : IsAt(Append(ds1, p), op2, Base, Len(ds1) + 1, l) <=> l = Len(t)
  <2>1. Len(ds1) + 1 = N + 2  BY <1>1, <1>4
  <2>2. QED  BY <1>6, <2>1
<1>8. t2 = IF p.taken /\ p.kind \in kinds THEN define(t, p.name, s) ELSE t  BY DEF ParamOf
<1>9. p.taken => s.global = (IF p.kind = "proc" THEN procs ELSE p.owner = 0)
  <2>1. p.kind # "proc" /\ p.owner # 0  BY <1>1 DEF ParamOf, N
  <2>2. QED  BY <1>3, <2>1
<1>10. s.id = Len(ds1) + 1  BY <1>1, <1>3, <1>4
<1>11. Tells(t, ds1, op2, Base, kinds, procs)  BY DEF ds1, op2
<1>12. Tells(t2, Append(ds1, p), op2, Base, kinds, procs)
  BY <1>1, <1>2, <1>3, <1>4, <1>7, <1>8, <1>9, <1>10, <1>11, TellsAppended
<1>13. t2 \in Seq(TablesTo(N + 2)) /\ Len(t2) = Len(t)
  <2>1. /\ define(t, p.name, s) \in Seq(TablesTo(N + 2))
        /\ Len(define(t, p.name, s)) = Len(t)
    BY <1>1, <1>2, <1>3, Enters
  <2>2. QED  BY <1>2, <2>1
<1>14. QED  BY <1>12, <1>13 DEF N, ds1, op2

(* What is looked up is a symbol. *)
LEMMA LookupTyped ==
  ASSUME NEW n \in Nat, NEW t \in Seq(TablesTo(n)), NEW key \in Keys
  PROVE  lookup(t, key) \in SymbolsTo(n)
<1>1. NoSymbol \in SymbolsTo(n)  BY DEF NoSymbol, SymbolsTo
<1>2. Len(t) \in Nat /\ \A l \in 1..Len(t) : t[l] \in TablesTo(n)  BY ElementsHave
<1>3. \A l \in 1..Len(t) : t[l][key] \in SymbolsTo(n)  BY <1>2 DEF TablesTo
<1>4. lookup(t, key) = NoSymbol \/ \E l \in 1..Len(t) : lookup(t, key) = t[l][key]
  BY <1>2, LookupCases, Zenon
<1>5. QED  BY <1>1, <1>3, <1>4

(* To enter again what was just entered changes nothing. *)
LEMMA DefinesAgain ==
  ASSUME NEW n \in Nat, NEW t \in Seq(TablesTo(n)), t # <<>>, NEW key \in Keys,
         NEW s \in SymbolsTo(n), s # NoSymbol, NEW u, u = define(t, key, s)
  PROVE  lookup(u, key) = s /\ define(u, key, s) = u
<1>1. /\ u \in Seq(TablesTo(n)) /\ Len(u) = Len(t) /\ u # <<>>
      /\ u[Len(t)][key] = s
  <2>1. Len(t) \in 1..Len(t)  BY ElementsHave, EmptySeq
  <2>2. QED  BY <2>1, Enters
<1>2. Len(u) \in Nat \ {0}  BY <1>1, ElementsHave, EmptySeq
<1>3. lookup(u, key) = s
  <2>1. PICK l \in 1..Len(u) : /\ \A j \in 1..Len(u) : u[j][key] # NoSymbol => j <= l
                               /\ lookup(u, key) = u[l][key]
    BY <1>1, <1>2, LookupCases
  <2>2. l = Len(u)  BY <1>1, <1>2, <2>1
  <2>3. QED  BY <1>1, <2>1, <2>2
<1>4. define(u, key, s) = u
  <2>1. /\ define(u, key, s) \in Seq(TablesTo(n)) /\ Len(define(u, key, s)) = Len(u)
        /\ \A l \in 1..Len(u), k \in Keys :
             define(u, key, s)[l][k] = IF l = Len(u) /\ k = key THEN s ELSE u[l][k]
    BY <1>1, Enters
  <2> DEFINE w == define(u, key, s)
  <2>2. \A l \in 1..Len(u), k \in Keys : w[l][k] = u[l][k]  BY <1>1, <2>1
  <2> HIDE DEF w
  <2>3. \A l \in 1..Len(u) : w[l] \in TablesTo(n) /\ u[l] \in TablesTo(n)
    BY <1>1, <2>1, ElementsHave DEF w
  <2>4. \A l \in 1..Len(u) : w[l] = u[l]
    <3> SUFFICES ASSUME NEW l \in 1..Len(u)  PROVE w[l] = u[l]  OBVIOUS
    <3>1. w[l] \in [Keys -> SymbolsTo(n)] /\ u[l] \in [Keys -> SymbolsTo(n)]
      BY <2>3 DEF TablesTo
    <3>2. QED  BY <2>2, <3>1
  <2>5. w = u  BY <1>1, <2>1, <2>4, SeqEqual DEF w
  <2>6. QED  BY <2>5 DEF w
<1>5. QED  BY <1>3, <1>4

(* Sema enters a procedure and opens a table for it. *)
LEMMA ProcInSema ==
  ASSUME IInv, refused = "no", NEW proc, Declarable(proc), proc.kind = "proc",
         NEW v, Visiting(v, proc),
         NEW t1, t1 = push(define(declare(proc.name), proc.name,
                                  lookup(declare(proc.name), proc.name)))
  PROVE  /\ t1 \in Seq(TablesTo(Len(decls) + 1)) /\ Len(t1) = Len(open) + 2 /\ t1 # <<>>
         /\ ~Declares(proc.name) =>
              SemaDescribes(t1, Append(decls, proc), Append(open, v), Order[at],
                            imports[Order[at]])
<1> DEFINE N == Len(decls)
           n == proc.name
           old == declare(n)
           again == define(old, n, lookup(old, n))
           ds1 == Append(decls, proc)
           op2 == Append(open, v)
<1>1. /\ N \in Nat /\ N + 1 \in Nat /\ N <= N + 1 /\ Len(open) \in Nat
      /\ decls \in Seq(DeclType) /\ proc \in DeclType /\ n \in Keys
  BY Standing DEF IInv, Shape, Declarable, DeclType, Keys
<1>2. /\ old \in Seq(TablesTo(N + 1)) /\ Len(old) = Len(open) + 1 /\ old # <<>>
      /\ ~Declares(n) => SemaDescribes(old, ds1, open, Order[at], imports[Order[at]])
  <2>1. /\ old \in Seq(TablesTo(N + 1)) /\ Len(old) = Len(semaScopes)
        /\ ~Declares(n) => SemaDescribes(old, ds1, open, Order[at], imports[Order[at]])
    BY NewInSema
  <2> HIDE DEF old
  <2>2. Len(old) = Len(open) + 1  BY <2>1, Tables
  <2>3. old # <<>>  BY <1>1, <2>1, <2>2, EmptySeq
  <2>4. QED  BY <2>1, <2>2, <2>3
<1>3. again \in Seq(TablesTo(N + 1)) /\ Len(again) = Len(old)
  <2> HIDE DEF old
  <2>1. lookup(old, n) \in SymbolsTo(N + 1)  BY <1>1, <1>2, LookupTyped
  <2>2. QED  BY <1>1, <1>2, <2>1, Enters
<1>4. t1 = push(again)  OBVIOUS
<1>5. ~Declares(n) => again = old
  <2> DEFINE s == [id |-> N + 1, global |-> FALSE]
  <2>1. s \in SymbolsTo(N + 1) /\ s # NoSymbol
    <3>1. s \in SymbolsTo(N + 1)  BY <1>1 DEF SymbolsTo
    <3>2. s.id = N + 1 /\ NoSymbol.id = 0  BY DEF NoSymbol
    <3>3. QED  BY <1>1, <3>1, <3>2
  <2>2. ~Declares(n) => old = define(semaScopes, n, s)  BY DEF declare, New
  <2>3. semaScopes \in Seq(TablesTo(N + 1)) /\ semaScopes # <<>>
    BY <1>1, Tables, Grows
  <2> HIDE DEF s, old
  <2>4. ~Declares(n) => lookup(old, n) = s /\ define(old, n, s) = old
    BY <1>1, <2>1, <2>2, <2>3, DefinesAgain
  <2>5. QED  BY <2>4
<1> HIDE DEF old, again
<1>6. /\ t1 \in Seq(TablesTo(N + 1)) /\ Len(t1) = Len(open) + 2 /\ t1 # <<>>
  BY <1>1, <1>2, <1>3, <1>4, PushGives
<1>7. ASSUME ~Declares(n)
      PROVE  SemaDescribes(t1, ds1, op2, Order[at], imports[Order[at]])
  <2>1. /\ Len(op2) = Len(open) + 1 /\ \A k \in 1..Len(open) : op2[k] = open[k]
        /\ OwnerAt(op2, Len(open) + 1) = N + 1
    BY VisitBegun
  <2>2. SemaDescribes(old, ds1, open, Order[at], imports[Order[at]])  BY <1>2, <1>7
  <2> HIDE DEF op2
  <2>3. SemaDescribes(old, ds1, op2, Order[at], imports[Order[at]])
    <3>1. Len(op2) \in Nat /\ Len(old) \in Nat /\ Len(old) <= Len(old)  BY <1>1, <1>2, <2>1
    <3>2. \A k \in 1..(Len(old) - 1) : open[k].id = op2[k].id  BY <1>1, <1>2, <2>1
    <3>3. QED  BY <1>1, <2>2, <3>1, <3>2, SemaBelow
  <2>4. \A m \in Names : SemaLives(ds1, op2, Order[at], Len(old) + 1, m) = {}
    <3> SUFFICES ASSUME NEW i \in 1..Len(ds1), ds1[i].owner = OwnerAt(op2, (Len(old) + 1) - 1)
                 PROVE  FALSE
      BY DEF SemaLives
    <3>1. Len(ds1) = N + 1 /\ ds1 \in Seq(DeclType)  BY <1>1, AppendGives
    <3>2. DeclsOK(ds1, at)  BY NewDecl
    <3> HIDE DEF ds1
    <3>3. ds1[i].owner \in Nat /\ ds1[i].owner < i /\ i <= N + 1
      BY <1>1, <3>1, <3>2, DeclFields DEF DeclsOK, DeclOK
    <3>4. (Len(old) + 1) - 1 = Len(open) + 1  BY <1>1, <1>2
    <3>5. ds1[i].owner = N + 1  BY <2>1, <3>4
    <3>6. QED  BY <1>1, <3>1, <3>3, <3>5
  <2>5. again = old /\ old \in Seq(TablesTo(N + 1)) /\ old # <<>>  BY <1>2, <1>5, <1>7
  <2>6. SemaDescribes(push(old), ds1, op2, Order[at], imports[Order[at]])
    BY <1>1, <2>3, <2>4, <2>5, SemaPushed
  <2>7. QED  BY <1>4, <2>5, <2>6
<1>8. QED  BY <1>6, <1>7

(* Sema's tables with the parameter entered. *)
LEMMA ParamInSema ==
  ASSUME IInv, NEW proc, Declarable(proc), proc.kind = "proc", NEW v, Visiting(v, proc),
         NEW p, ParamOf(p, proc),
         NEW t \in Seq(TablesTo(Len(decls) + 1)), Len(t) = Len(open) + 2, t # <<>>,
         NEW s, s = [id |-> Len(decls) + 2, global |-> FALSE],
         NEW t2, t2 = define(t, p.name, s)
  PROVE  /\ t2 \in Seq(TablesTo(Len(decls) + 2)) /\ Len(t2) = Len(t)
         /\ SemaDescribes(t, Append(decls, proc), Append(open, v), Order[at],
                          imports[Order[at]]) =>
              SemaDescribes(t2, Append(Append(decls, proc), p), Append(open, v), Order[at],
                            imports[Order[at]])
<1> DEFINE N == Len(decls)
           ds1 == Append(decls, proc)
           op2 == Append(open, v)
<1>1. /\ N \in Nat /\ N + 1 \in Nat /\ N + 2 \in Nat /\ N + 1 <= N + 2 /\ Len(open) \in Nat
      /\ decls \in Seq(DeclType) /\ proc \in DeclType /\ p \in DeclType /\ p.name \in Keys
  <2>1. decls \in Seq(DeclType) /\ proc \in DeclType /\ p \in DeclType
    BY DEF IInv, Shape, Declarable, ParamOf
  <2>2. p.name \in Keys  BY <2>1 DEF DeclType, Keys
  <2>3. QED  BY <2>1, <2>2, Standing
<1>2. t \in Seq(TablesTo(N + 2))  BY <1>1, Grows
<1>3. s \in SymbolsTo(N + 2)  BY <1>1 DEF SymbolsTo
<1>4. t2 \in Seq(TablesTo(N + 2)) /\ Len(t2) = Len(t)
  BY <1>1, <1>2, <1>3, Enters
<1>5. ds1 \in Seq(DeclType) /\ Len(ds1) = N + 1  BY <1>1, AppendGives
<1>6. /\ op2 \in Seq(VisitsTo(N + 1)) /\ Len(op2) = Len(open) + 1 /\ IdsRise(op2)
      /\ OwnerAt(op2, Len(open) + 1) = N + 1
  BY VisitBegun
<1> HIDE DEF ds1, op2, N
<1>7. /\ p.mod = Order[at] /\ p.owner = OwnerAt(op2, Len(op2))
      /\ Len(t) = Len(op2) + 1 /\ Len(ds1) + 1 = N + 2
  BY <1>1, <1>5, <1>6 DEF ParamOf, N
<1>8. ASSUME SemaDescribes(t, ds1, op2, Order[at], imports[Order[at]])
      PROVE  SemaDescribes(t2, Append(ds1, p), op2, Order[at], imports[Order[at]])
  <2>1. s = [id |-> Len(ds1) + 1, global |-> FALSE]  BY <1>7 DEF N
  <2>2. Len(ds1) + 1 <= N + 2  BY <1>1, <1>7
  <2>3. QED  BY <1>1, <1>2, <1>5, <1>6, <1>7, <1>8, <2>1, <2>2, SemaAppended
<1>9. QED  BY <1>4, <1>8 DEF N, ds1, op2

(* The visit of a procedure begins: proc is declared, p its parameter if   *)
(* it is given one.                                                        *)
Inner(scopes, proc, symbol, p, given) ==
  IF given
  THEN define(push(define(scopes, proc.name, symbol)), p.name,
              [id |-> Len(decls) + 2, global |-> FALSE])
  ELSE push(define(scopes, proc.name, symbol))

Beginning(proc, v, p, given) ==
  /\ refused = "no" /\ ~inBody
  /\ Declarable(proc) /\ proc.kind = "proc"
  /\ Visiting(v, proc) /\ v.hasReturn = funcHasReturn /\ v.curFunc = curFunc
  /\ v.inGlobalScope = inGlobalScope
  /\ given => ParamOf(p, proc)
  /\ decls' = (IF given THEN Append(Append(decls, proc), p) ELSE Append(decls, proc))
  /\ Len(decls') <= MaxDecls
  /\ open' = Append(open, v)
  /\ refused' = IF Declares(proc.name) THEN "duplicate" ELSE refused
  /\ funcHasReturn' = FALSE
  /\ moved' \in Nat
  /\ proc.taken => curFunc' = [fn |-> Len(decls) + 1, moved |-> moved'] /\ ~inGlobalScope'
  /\ ~proc.taken => curFunc' = curFunc /\ inGlobalScope' = inGlobalScope
  /\ inGlobalScope' \in BOOLEAN
  /\ UNCHANGED <<at, imports, inBody, returns, constants, epilogue>>

(* What beginning a procedure does to the declarations. *)
LEMMA BeginningDecls ==
  ASSUME IInv, NEW proc, NEW v, NEW p, NEW given \in BOOLEAN, Beginning(proc, v, p, given)
  PROVE  /\ Len(decls) \in Nat /\ decls' \in Seq(DeclType)
         /\ Len(decls') = Len(decls) + (IF given THEN 2 ELSE 1)
         /\ \A i \in 1..Len(decls) : decls'[i] = decls[i]
         /\ decls'[Len(decls) + 1] = proc /\ (given => decls'[Len(decls) + 2] = p)
         /\ DeclsNow' /\ ConstantsOK'
         /\ Twice' <=> Declares(proc.name)
<1> DEFINE N == Len(decls)
           ds1 == Append(decls, proc)
<1>1. /\ N \in Nat /\ decls \in Seq(DeclType) /\ proc \in DeclType
      /\ Declarable(proc) /\ proc.kind = "proc" /\ at' = at /\ refused = "no"
      /\ decls' = (IF given THEN Append(ds1, p) ELSE ds1)
      /\ given => ParamOf(p, proc)
      /\ constants' = constants
  BY Standing DEF IInv, Shape, Beginning, Declarable
<1>2. /\ ds1 \in Seq(DeclType) /\ Len(ds1) = N + 1 /\ ds1[N + 1] = proc
      /\ \A i \in 1..N : ds1[i] = decls[i]
  BY <1>1, AppendGives
<1>3. DeclsOK(ds1, at)  BY <1>1, NewDecl
<1>4. TwiceIn(ds1) <=> Declares(proc.name)  BY <1>1, NewInSema
<1>5. \A n : ConstsNamed(ds1, n) = ConstsNamed(decls, n)
  BY <1>1, ConstsAppended
<1>6. ConstantsOK  BY DEF IInv
<1> HIDE DEF ds1
<1>7. Twice' <=> TwiceIn(decls')  BY DEF Twice, TwiceIn, SameScope
<1>8. CASE ~given
  <2>1. decls' = ds1 /\ Len(decls') = N + 1  BY <1>1, <1>2, <1>8
  <2>2. DeclsNow'  BY <1>1, <1>3, <2>1 DEF DeclsNow
  <2>3. ConstantsOK'  BY <1>1, <1>5, <1>6, <2>1 DEF ConstantsOK
  <2>4. QED  BY <1>1, <1>2, <1>4, <1>7, <1>8, <2>1, <2>2, <2>3
<1>9. CASE given
  <2>1. decls' = Append(ds1, p) /\ ParamOf(p, proc) /\ p \in DeclType
    BY <1>1, <1>9 DEF ParamOf
  <2>2. /\ decls' \in Seq(DeclType) /\ Len(decls') = N + 2 /\ decls'[N + 2] = p
        /\ \A i \in 1..(N + 1) : decls'[i] = ds1[i]
    <3>1. /\ Append(ds1, p) \in Seq(DeclType) /\ Len(Append(ds1, p)) = Len(ds1) + 1
          /\ \A i \in 1..Len(ds1) : Append(ds1, p)[i] = ds1[i]
          /\ Append(ds1, p)[Len(ds1) + 1] = p
      BY <1>2, <2>1, AppendGives
    <3>2. Len(ds1) + 1 = N + 2  BY <1>1, <1>2
    <3>3. QED  BY <1>2, <2>1, <3>1, <3>2
  <2>3. decls'[N + 1] = proc /\ \A i \in 1..N : decls'[i] = decls[i]
    BY <1>1, <1>2, <2>2
  <2>4. DeclOK(decls', at, N + 2)
    <3>1. p.owner = N + 1 /\ p.kind = "param" /\ p.mod = Order[at] /\ p.taken = proc.taken
      BY <2>1 DEF ParamOf
    <3>2. proc.mod = Order[at] /\ proc.kind = "proc"  BY <1>1 DEF Declarable
    <3>3. at \in 1..at  BY Standing
    <3>4. N + 1 < N + 2 /\ N + 1 # 0  BY <1>1
    <3>5. QED  BY <2>2, <2>3, <3>1, <3>2, <3>3, <3>4 DEF DeclOK
  <2>5. DeclsNow'
    <3>1. Len(ds1) + 1 = N + 2  BY <1>1, <1>2
    <3>2. DeclOK(Append(ds1, p), at, Len(ds1) + 1)  BY <2>1, <2>4, <3>1
    <3>3. DeclsOK(Append(ds1, p), at)  BY <1>2, <1>3, <2>1, <3>2, DeclsAppended
    <3>4. QED  BY <1>1, <2>1, <3>3 DEF DeclsNow
  <2>6. ConstantsOK'
    <3>1. p.kind # "const"  BY <2>1 DEF ParamOf
    <3>2. \A n : ConstsNamed(decls', n) = ConstsNamed(ds1, n)
      BY <1>2, <2>1, <3>1, ConstsAppended
    <3>3. QED  BY <1>1, <1>5, <1>6, <3>2 DEF ConstantsOK
  <2>7. TwiceIn(decls') <=> TwiceIn(ds1)
    <3>1. ASSUME NEW i \in 1..Len(ds1)  PROVE ~SameScope(ds1[i], p)
      <4>1. ds1[i].owner \in Nat /\ ds1[i].owner < i /\ i <= N + 1
        BY <1>1, <1>2, <1>3, DeclFields DEF DeclsOK, DeclOK
      <4>2. p.owner = N + 1  BY <2>1 DEF ParamOf
      <4>3. ds1[i].owner # p.owner  BY <1>1, <1>2, <4>1, <4>2
      <4>4. QED  BY <4>3 DEF SameScope
    <3>2. QED  BY <1>2, <2>1, <3>1, TwiceAppended
  <2>8. QED  BY <1>1, <1>4, <1>7, <1>9, <2>2, <2>3, <2>5, <2>6, <2>7
<1>10. QED  BY <1>8, <1>9

(* And to the visits. *)
LEMMA BeginningVisits ==
  ASSUME IInv, NEW proc, NEW v, NEW p, NEW given \in BOOLEAN, Beginning(proc, v, p, given)
  PROVE  /\ open' \in Seq(VisitsTo(Len(decls'))) /\ Len(open') = Len(open) + 1
         /\ open' # <<>> /\ open'[Len(open) + 1] = v
         /\ \A k \in 1..Len(open) : open'[k] = open[k]
         /\ Owner' = Len(decls) + 1 /\ Ids' = Ids \cup {Len(decls) + 1}
         /\ (TakenNow' <=> proc.taken) /\ Base' = Base /\ InMain' = InMain
         /\ VisitsNow'
<1> DEFINE N == Len(decls)
<1>1. /\ open' = Append(open, v) /\ at' = at /\ Visiting(v, proc) /\ Declarable(proc)
      /\ proc.kind = "proc" /\ proc.taken \in BOOLEAN
  BY DEF Beginning, Declarable, DeclType
<1>2. /\ N \in Nat /\ decls' \in Seq(DeclType) /\ N + 1 <= Len(decls') /\ Len(decls') \in Nat
      /\ \A i \in 1..N : decls'[i] = decls[i]
      /\ decls'[N + 1] = proc
  BY BeginningDecls
<1>3. /\ open' \in Seq(VisitsTo(N + 1)) /\ Len(open') = Len(open) + 1 /\ open' # <<>>
      /\ \A k \in 1..Len(open) : open'[k] = open[k]
      /\ open'[Len(open) + 1] = v /\ v.id = N + 1 /\ v.taken = proc.taken
  BY <1>1, VisitBegun DEF Visiting
<1>4. open' \in Seq(VisitsTo(Len(decls')))
  <2>1. N + 1 \in Nat  BY <1>2
  <2>2. QED  BY <1>2, <1>3, <2>1, Grows
<1>5. Current' = v  BY <1>3 DEF Current
<1>6. Owner' = N + 1 /\ (TakenNow' <=> proc.taken)
  BY <1>3, <1>5 DEF Owner, TakenNow
<1>7. Base' = Base /\ InMain' = InMain  BY <1>1 DEF Base, InMain
<1>8. Len(open) \in Nat /\ open \in Seq(VisitsTo(N))  BY Standing DEF IInv, Shape
<1>9. Ids' = Ids \cup {N + 1}
  <2>1. 1..Len(open') = (1..Len(open)) \cup {Len(open) + 1}  BY <1>3, <1>8
  <2>2. \A x : x \in Ids' <=> x \in Ids \/ x = N + 1  BY <1>3, <2>1 DEF Ids
  <2>3. QED  BY <2>2
<1>10. ASSUME NEW k \in 1..Len(open')  PROVE VisitOK(open', decls', Order[at], k)
  <2>1. CASE k \in 1..Len(open)
    <3>1. VisitOK(open, decls, Order[at], k)  BY <2>1 DEF IInv, VisitsNow, VisitsOK
    <3>2. /\ open'[k] = open[k] /\ open[k].id \in 1..N
          /\ decls'[open[k].id] = decls[open[k].id]
      BY <1>2, <1>3, <1>8, <2>1, VisitFields
    <3>3. \A j \in 1..(k - 1) : open'[j] = open[j]  BY <1>3, <1>8, <2>1
    <3>4. OwnerAt(open', k - 1) = OwnerAt(open, k - 1)
      <4>1. k - 1 # 0 => open'[k - 1] = open[k - 1]  BY <1>8, <2>1, <3>3
      <4>2. QED  BY <4>1 DEF OwnerAt
    <3>5. QED  BY <3>1, <3>2, <3>3, <3>4 DEF VisitOK
  <2>2. CASE k = Len(open) + 1
    <3>1. /\ open'[k] = v /\ v.id = N + 1 /\ decls'[v.id] = proc /\ v.taken = proc.taken
          /\ proc.owner = Owner /\ proc.mod = Order[at]
      BY <1>1, <1>2, <1>3, <2>2 DEF Declarable
    <3>2. OwnerAt(open', k - 1) = Owner
      <4>1. k - 1 = Len(open)  BY <1>8, <2>2
      <4>2. Len(open) # 0 => open'[Len(open)] = open[Len(open)]  BY <1>3, <1>8
      <4>3. OwnerAt(open', k - 1) = OwnerAt(open, Len(open))  BY <4>1, <4>2 DEF OwnerAt
      <4>4. QED  BY <4>3, Standing
    <3>3. ASSUME NEW j \in 1..(k - 1)
          PROVE  open'[j].taken = v.taken /\ open'[j].id < N + 1
      <4>1. j \in 1..Len(open) /\ open'[j] = open[j] /\ open[j].id \in 1..N
        BY <1>3, <1>8, <2>2, VisitFields
      <4>2. open # <<>> /\ Len(open) \in 1..Len(open) /\ Current = open[Len(open)]
        BY <1>8, <4>1, Standing
      <4>3. proc.taken = Current.taken  BY <1>1, <4>2 DEF Declarable
      <4>4. open[j].taken = open[Len(open)].taken
        <5>1. VisitOK(open, decls, Order[at], Len(open))
          BY <4>2 DEF IInv, VisitsNow, VisitsOK
        <5>2. j = Len(open) \/ j \in 1..(Len(open) - 1)  BY <1>8, <4>1
        <5>3. QED  BY <5>1, <5>2 DEF VisitOK
      <4>5. QED  BY <1>2, <3>1, <4>1, <4>2, <4>3, <4>4
    <3>4. QED  BY <1>1, <3>1, <3>2, <3>3 DEF VisitOK
  <2>3. QED  BY <1>3, <1>8, <2>1, <2>2
<1>11. VisitsNow'  BY <1>1, <1>10 DEF VisitsNow, VisitsOK
<1>12. QED  BY <1>3, <1>4, <1>6, <1>7, <1>9, <1>11

(* The functions and flags put aside for later are the right ones. *)
LEMMA BeginningControl ==
  ASSUME IInv, NEW proc, NEW v, NEW p, NEW given \in BOOLEAN, Beginning(proc, v, p, given)
  PROVE  AtHand' /\ GlobalOK' /\ ReturnsOK'
<1> DEFINE N == Len(decls)
           L == Len(open)
<1>1. /\ ~inBody' /\ ~inBody /\ moved' \in Nat /\ epilogue' = epilogue /\ returns' = returns
      /\ proc.taken => curFunc' = [fn |-> N + 1, moved |-> moved'] /\ ~inGlobalScope'
      /\ ~proc.taken => curFunc' = curFunc /\ inGlobalScope' = inGlobalScope
      /\ v.curFunc = curFunc /\ v.inGlobalScope = inGlobalScope /\ v.hasReturn = funcHasReturn
      /\ v.taken = proc.taken /\ proc.taken \in BOOLEAN /\ ~funcHasReturn'
      /\ inGlobalScope \in BOOLEAN /\ inGlobalScope' \in BOOLEAN
      /\ funcHasReturn \in BOOLEAN /\ refused = "no" /\ refused' # "return"
      /\ proc.kind = "proc" /\ (open # <<>> => proc.taken = Current.taken)
      /\ given => ParamOf(p, proc)
  BY DEF Beginning, Visiting, Declarable, DeclType, IInv, Shape
<1>2. /\ Len(open') = L + 1 /\ open' # <<>> /\ open'[L + 1] = v
      /\ \A k \in 1..L : open'[k] = open[k]
      /\ Owner' = N + 1 /\ Ids' = Ids \cup {N + 1}
      /\ (TakenNow' <=> proc.taken)
  BY BeginningVisits
<1>3. /\ L \in Nat /\ N \in Nat /\ Owner = OwnerAt(open, L) /\ (L = 0 <=> open = <<>>)
      /\ open # <<>> => Current = open[L]
  BY Standing
<1>4. TakenNow <=> open # <<>> /\ proc.taken  BY <1>1 DEF TakenNow
<1>5. AtHand'
  <2>1. AtHand  BY DEF IInv
  <2>2. TakenNow' => /\ curFunc'.fn = Owner' /\ curFunc'.moved = moved'
    BY <1>1, <1>2
  <2>3. ASSUME NEW k \in 2..Len(open'), open'[k].taken
        PROVE  open'[k].curFunc.fn = open'[k - 1].id
    <3>1. CASE k \in 2..L
      <4>1. open'[k] = open[k] /\ open'[k - 1] = open[k - 1]  BY <1>2, <1>3, <3>1
      <4>2. QED  BY <2>1, <2>3, <3>1, <4>1 DEF AtHand
    <3>2. CASE k = L + 1
      <4>1. L \in 1..L /\ L # 0 /\ open # <<>> /\ k - 1 = L  BY <1>2, <1>3, <3>2
      <4>2. TakenNow  BY <1>1, <1>2, <1>4, <2>3, <3>2, <4>1
      <4>3. curFunc.fn = Owner /\ Owner = open[L].id
        BY <1>3, <2>1, <4>1, <4>2 DEF AtHand, OwnerAt
      <4>4. open'[k].curFunc = curFunc /\ open'[k - 1] = open[L]  BY <1>1, <1>2, <3>2, <4>1
      <4>5. QED  BY <4>3, <4>4
    <3>3. QED  BY <1>2, <1>3, <3>1, <3>2
  <2>4. QED  BY <1>1, <1>2, <2>2, <2>3 DEF AtHand
<1>6. GlobalOK'
  <2>1. GlobalOK  BY DEF IInv
  <2>2. ~TakenNow => inGlobalScope  BY <1>1, <2>1 DEF GlobalOK
  <2>3. TakenNow => ~inGlobalScope  BY <2>1 DEF GlobalOK
  <2>4. TakenNow' => ~inGlobalScope'  BY <1>1, <1>2
  <2>5. ~TakenNow' => inGlobalScope'  BY <1>1, <1>2, <1>4, <2>2
  <2>6. ASSUME NEW k \in 1..Len(open')
        PROVE  IF open'[k].taken THEN open'[k].inGlobalScope <=> k = 1
                                  ELSE open'[k].inGlobalScope
    <3>1. CASE k \in 1..L
      <4>1. open'[k] = open[k]  BY <1>2, <3>1
      <4>2. QED  BY <2>1, <3>1, <4>1, Zenon DEF GlobalOK
    <3>2. CASE k = L + 1
      <4>1. open'[k] = v  BY <1>2, <3>2
      <4>2. CASE open = <<>>
        <5>1. k = 1 /\ ~TakenNow  BY <1>3, <1>4, <3>2, <4>2
        <5>2. v.inGlobalScope  BY <1>1, <2>2, <5>1
        <5>3. QED  BY <4>1, <5>1, <5>2
      <4>3. CASE open # <<>>
        <5>1. k # 1  BY <1>3, <3>2, <4>3
        <5>2. CASE proc.taken
          <6>1. ~v.inGlobalScope  BY <1>1, <1>4, <2>3, <4>3, <5>2
          <6>2. v.taken  BY <1>1, <5>2
          <6>3. QED  BY <4>1, <5>1, <6>1, <6>2
        <5>3. CASE ~proc.taken
          <6>1. v.inGlobalScope  BY <1>1, <1>4, <2>2, <5>3
          <6>2. ~v.taken  BY <1>1, <5>3
          <6>3. QED  BY <4>1, <6>1, <6>2
        <5>4. QED  BY <5>2, <5>3
      <4>4. QED  BY <4>2, <4>3
    <3>3. QED  BY <1>2, <1>3, <3>1, <3>2
  <2>7. QED  BY <2>4, <2>5, <2>6, Zenon DEF GlobalOK
<1>7. ReturnsOK'
  <2>1. ReturnsOK /\ returns \subseteq 0..N  BY DEF IInv, Shape
  <2>2. Owner' \notin returns'  BY <1>1, <1>2, <1>3, <2>1
  <2>3. ASSUME NEW k \in 2..Len(open')
        PROVE  open'[k].hasReturn <=> open'[k - 1].id \in returns'
    <3>1. CASE k \in 2..L
      <4>1. open'[k] = open[k] /\ open'[k - 1] = open[k - 1]  BY <1>2, <1>3, <3>1
      <4>2. QED  BY <1>1, <2>1, <3>1, <4>1 DEF ReturnsOK
    <3>2. CASE k = L + 1
      <4>1. L \in 1..L /\ L # 0 /\ open # <<>> /\ k - 1 = L  BY <1>2, <1>3, <3>2
      <4>2. Owner = open[L].id  BY <1>3, <4>1 DEF OwnerAt
      <4>3. funcHasReturn <=> Owner \in returns  BY <2>1, <4>1 DEF ReturnsOK
      <4>4. open'[k].hasReturn = funcHasReturn /\ open'[k - 1] = open[L]
        BY <1>1, <1>2, <3>2, <4>1
      <4>5. QED  BY <1>1, <4>2, <4>3, <4>4
    <3>3. QED  BY <1>2, <1>3, <3>1, <3>2
  <2>4. ~NoReturn  BY <1>1, <2>1 DEF ReturnsOK
  <2>5. ~NoReturn'
    <3> SUFFICES ASSUME NEW i \in (1..Len(decls')) \ Ids', decls'[i].kind = "proc",
                        decls'[i].function, i \notin returns'
                 PROVE  FALSE
      BY DEF NoReturn
    <3>1. /\ Len(decls') = N + (IF given THEN 2 ELSE 1)
          /\ \A j \in 1..N : decls'[j] = decls[j]
          /\ given => decls'[N + 2] = p
      BY BeginningDecls
    <3>2. i \in 1..N
      <4>1. i # N + 1  BY <1>2
      <4>2. given => i # N + 2  BY <1>1, <3>1 DEF ParamOf
      <4>3. QED  BY <1>3, <3>1, <4>1, <4>2
    <3>3. QED  BY <1>1, <1>2, <2>4, <3>1, <3>2 DEF NoReturn
  <2>6. QED  BY <1>1, <1>2, <2>2, <2>3, <2>4, <2>5 DEF ReturnsOK
<1>8. QED  BY <1>5, <1>6, <1>7

(* A generator's tables afterwards. *)
LEMMA BeginningTable ==
  ASSUME IInv, NEW proc, NEW v, NEW p, NEW given \in BOOLEAN, Beginning(proc, v, p, given),
         NEW kinds, "proc" \in kinds, "param" \in kinds, NEW procs \in BOOLEAN,
         NEW t \in Seq(TablesTo(Len(decls))), Len(t) = Len(irScopes),
         Tells(t, decls, open, Base, kinds, procs),
         NEW s \in SymbolsTo(Len(decls) + 1), s.id = Len(decls) + 1, s.global = procs,
         NEW t2, t2 = IF proc.taken THEN Inner(t, proc, s, p, given) ELSE t
  PROVE  /\ Tells(t2, decls', open', Base, kinds, procs)
         /\ t2 \in Seq(TablesTo(Len(decls')))
         /\ Len(t2) = IF proc.taken THEN Base + Len(open) + 1 ELSE Base
<1> DEFINE N == Len(decls)
           t1 == IF proc.taken THEN push(define(t, proc.name, s)) ELSE t
           s2 == [id |-> Len(decls) + 2, global |-> FALSE]
<1>1. /\ N \in Nat /\ Declarable(proc) /\ proc.kind = "proc" /\ Visiting(v, proc)
      /\ open' = Append(open, v) /\ (given => ParamOf(p, proc))
      /\ decls' = (IF given THEN Append(Append(decls, proc), p) ELSE Append(decls, proc))
      /\ Len(decls') = N + (IF given THEN 2 ELSE 1)
  BY Standing, BeginningDecls DEF Beginning
<1>3. t1 = IF proc.taken THEN push(define(t, proc.name, s)) ELSE t  OBVIOUS
<1>4. t2 = IF proc.taken /\ given THEN define(t1, p.name, s2) ELSE t1  BY DEF Inner
<1>5. s2 = [id |-> Len(decls) + 2, global |-> FALSE]  OBVIOUS
<1> HIDE DEF t1, s2
<1>6. /\ Tells(t1, Append(decls, proc), Append(open, v), Base, kinds, procs)
      /\ t1 \in Seq(TablesTo(N + 1)) /\ t1 # <<>>
      /\ Len(t1) = IF proc.taken THEN Base + Len(open) + 1 ELSE Base
  BY <1>1, <1>3, ProcInTable
<1>7. CASE ~given
  <2>1. t2 = t1 /\ Len(decls') = N + 1 /\ decls' = Append(decls, proc)
    BY <1>1, <1>4, <1>7
  <2>2. QED  BY <1>1, <1>6, <2>1
<1>8. CASE given
  <2>1. t2 = IF proc.taken THEN define(t1, p.name, s2) ELSE t1  BY <1>4, <1>8
  <2>2. ParamOf(p, proc) /\ decls' = Append(Append(decls, proc), p) /\ Len(decls') = N + 2
    BY <1>1, <1>8
  <2>3. /\ Tells(t2, Append(Append(decls, proc), p), Append(open, v), Base, kinds, procs)
        /\ t2 \in Seq(TablesTo(N + 2)) /\ Len(t2) = Len(t1)
    BY <1>1, <1>5, <1>6, <2>1, <2>2, ParamInTable
  <2>4. QED  BY <1>1, <1>6, <2>2, <2>3
<1>9. QED  BY <1>7, <1>8

(* Sema's afterwards. *)
LEMMA BeginningSema ==
  ASSUME IInv, NEW proc, NEW v, NEW p, NEW given \in BOOLEAN, Beginning(proc, v, p, given),
         NEW t2, t2 = Inner(declare(proc.name), proc,
                            lookup(declare(proc.name), proc.name), p, given)
  PROVE  /\ t2 \in Seq(TablesTo(Len(decls'))) /\ Len(t2) = Len(open) + 2
         /\ ~Declares(proc.name) =>
              SemaDescribes(t2, decls', open', Order[at], imports[Order[at]])
<1> DEFINE N == Len(decls)
           t1 == push(define(declare(proc.name), proc.name,
                             lookup(declare(proc.name), proc.name)))
           s2 == [id |-> Len(decls) + 2, global |-> FALSE]
<1>1. /\ N \in Nat /\ Declarable(proc) /\ proc.kind = "proc" /\ Visiting(v, proc)
      /\ open' = Append(open, v) /\ (given => ParamOf(p, proc)) /\ refused = "no"
      /\ decls' = (IF given THEN Append(Append(decls, proc), p) ELSE Append(decls, proc))
      /\ Len(decls') = N + (IF given THEN 2 ELSE 1)
  BY Standing, BeginningDecls DEF Beginning
<1>2. t2 = IF given THEN define(t1, p.name, s2) ELSE t1  BY DEF Inner
<1>3. t1 = push(define(declare(proc.name), proc.name,
                       lookup(declare(proc.name), proc.name)))
      /\ s2 = [id |-> Len(decls) + 2, global |-> FALSE]
  OBVIOUS
<1> HIDE DEF t1, s2
<1>4. /\ t1 \in Seq(TablesTo(N + 1)) /\ Len(t1) = Len(open) + 2 /\ t1 # <<>>
      /\ ~Declares(proc.name) =>
           SemaDescribes(t1, Append(decls, proc), Append(open, v), Order[at],
                         imports[Order[at]])
  BY <1>1, <1>3, ProcInSema
<1>5. CASE ~given
  <2>1. t2 = t1 /\ Len(decls') = N + 1 /\ decls' = Append(decls, proc)
    BY <1>1, <1>2, <1>5
  <2>2. QED  BY <1>1, <1>4, <2>1
<1>6. CASE given
  <2>1. t2 = define(t1, p.name, s2)  BY <1>2, <1>6
  <2>2. ParamOf(p, proc) /\ decls' = Append(Append(decls, proc), p) /\ Len(decls') = N + 2
    BY <1>1, <1>6
  <2>3. /\ t2 \in Seq(TablesTo(N + 2)) /\ Len(t2) = Len(t1)
        /\ SemaDescribes(t1, Append(decls, proc), Append(open, v), Order[at],
                         imports[Order[at]]) =>
             SemaDescribes(t2, Append(Append(decls, proc), p), Append(open, v), Order[at],
                           imports[Order[at]])
    BY <1>1, <1>3, <1>4, <2>1, <2>2, ParamInSema
  <2>4. QED  BY <1>1, <1>4, <2>2, <2>3
<1>7. QED  BY <1>5, <1>6

(* Beginning a procedure keeps the invariant. *)
LEMMA BeginningKeeps ==
  ASSUME IInv, NEW proc, NEW v, NEW p, NEW given \in BOOLEAN, Beginning(proc, v, p, given),
         NEW s \in SymbolsTo(Len(decls) + 1), s.id = Len(decls) + 1, s.global,
         NEW r \in SymbolsTo(Len(decls) + 1), r.id = Len(decls) + 1, r.global = FALSE,
         semaScopes' = Inner(declare(proc.name), proc,
                             lookup(declare(proc.name), proc.name), p, given),
         irScopes' = IF proc.taken THEN Inner(irScopes, proc, s, p, given) ELSE irScopes,
         symScopes' = IF proc.taken THEN Inner(symScopes, proc, r, p, given) ELSE symScopes
  PROVE  IInv'
<1> DEFINE N == Len(decls)
           M == Len(decls')
<1>1. /\ N \in Nat /\ M \in Nat /\ N + 1 <= M /\ N <= M /\ M <= MaxDecls
      /\ decls' \in Seq(DeclType)
      /\ DeclsNow' /\ ConstantsOK' /\ (Twice' <=> Declares(proc.name))
  <2>1. M <= MaxDecls  BY DEF Beginning
  <2>2. /\ N \in Nat /\ decls' \in Seq(DeclType) /\ M = N + (IF given THEN 2 ELSE 1)
        /\ DeclsNow' /\ ConstantsOK' /\ (Twice' <=> Declares(proc.name))
    BY BeginningDecls
  <2>3. QED  BY <2>1, <2>2
<1>2. /\ open' \in Seq(VisitsTo(M)) /\ Len(open') = Len(open) + 1 /\ open' # <<>>
      /\ (TakenNow' <=> proc.taken) /\ Base' = Base /\ VisitsNow'
  BY BeginningVisits
<1>3. AtHand' /\ GlobalOK' /\ ReturnsOK'  BY BeginningControl
<1>4. /\ Tells(irScopes', decls', open', Base, Stored, TRUE)
      /\ irScopes' \in Seq(TablesTo(M))
      /\ Len(irScopes') = IF proc.taken THEN Base + Len(open) + 1 ELSE Base
  <2>1. "proc" \in Stored /\ "param" \in Stored  BY DEF Stored, AnyKind
  <2>2. irScopes \in Seq(TablesTo(N)) /\ Len(irScopes) \in Nat  BY Tables
  <2> DEFINE procs == TRUE
  <2>3. procs \in BOOLEAN /\ s.global = procs  OBVIOUS
  <2>4. Tells(irScopes, decls, open, Base, Stored, procs)  BY DEF IInv, BuilderOK
  <2> HIDE DEF procs
  <2>5. /\ Tells(irScopes', decls', open', Base, Stored, procs)
        /\ irScopes' \in Seq(TablesTo(M))
        /\ Len(irScopes') = IF proc.taken THEN Base + Len(open) + 1 ELSE Base
    BY <2>1, <2>2, <2>3, <2>4, BeginningTable
  <2>6. QED  BY <2>5 DEF procs
<1>5. /\ Tells(symScopes', decls', open', Base, AnyKind, FALSE)
      /\ symScopes' \in Seq(TablesTo(M))
      /\ Len(symScopes') = IF proc.taken THEN Base + Len(open) + 1 ELSE Base
  <2>1. "proc" \in AnyKind /\ "param" \in AnyKind  BY DEF AnyKind
  <2>2. /\ symScopes \in Seq(TablesTo(N)) /\ Len(symScopes) = Len(irScopes)
        /\ Tells(symScopes, decls, open, Base, AnyKind, FALSE)
    BY DEF IInv, Shape, DirectOK, Lengths
  <2> DEFINE procs == FALSE
  <2>3. procs \in BOOLEAN /\ r.global = procs  OBVIOUS
  <2>4. Tells(symScopes, decls, open, Base, AnyKind, procs)  BY <2>2
  <2> HIDE DEF procs
  <2>5. /\ Tells(symScopes', decls', open', Base, AnyKind, procs)
        /\ symScopes' \in Seq(TablesTo(M))
        /\ Len(symScopes') = IF proc.taken THEN Base + Len(open) + 1 ELSE Base
    BY <2>1, <2>2, <2>3, <2>4, BeginningTable
  <2>6. QED  BY <2>5 DEF procs
<1>6. /\ semaScopes' \in Seq(TablesTo(M)) /\ Len(semaScopes') = Len(open) + 2
      /\ ~Declares(proc.name) =>
           SemaDescribes(semaScopes', decls', open', Order[at], imports[Order[at]])
  BY BeginningSema
<1>7. BuilderOK' /\ DirectOK'  BY <1>2, <1>4, <1>5 DEF BuilderOK, DirectOK
<1>8. SemaOK'
  <2>1. /\ at' = at /\ imports' = imports /\ refused = "no"
        /\ refused' = (IF Declares(proc.name) THEN "duplicate" ELSE refused)
    BY DEF Beginning
  <2>2. refused' = "duplicate" <=> Twice'  BY <1>1, <2>1
  <2>3. refused' = "no" =>
          SemaDescribes(semaScopes', decls', open', Order[at'], imports'[Order[at']])
    BY <1>6, <2>1
  <2>4. QED  BY <2>2, <2>3, Zenon DEF SemaOK
<1>9. Lengths'
  <2>1. Base \in Nat /\ Len(open) \in Nat  BY Standing, Tables
  <2>2. QED  BY <1>2, <1>4, <1>5, <1>6, <2>1 DEF Lengths
<1>10. Shape'
  <2>1. /\ at' = at /\ imports' = imports /\ inBody' = inBody /\ returns' = returns
        /\ constants' = constants /\ epilogue' = epilogue /\ funcHasReturn' = FALSE
        /\ refused' \in {"no", "duplicate"} /\ moved' \in Nat
        /\ inGlobalScope' \in BOOLEAN
        /\ proc.taken => curFunc' = [fn |-> N + 1, moved |-> moved']
        /\ ~proc.taken => curFunc' = curFunc
        /\ proc.taken \in BOOLEAN
    BY DEF Beginning, Declarable, DeclType
  <2>2. 0..N \subseteq 0..M  BY <1>1
  <2>3. returns' \subseteq 0..M /\ epilogue' \in 0..M  BY <2>1, <2>2 DEF IInv, Shape
  <2>4. constants' \in [Names -> 0..M]  BY <1>1, <2>1, Grows DEF IInv, Shape
  <2>5. curFunc' \in FuncsTo(M)
    <3>1. CASE proc.taken
      <4>1. N + 1 \in -1..M  BY <1>1
      <4>2. QED  BY <2>1, <3>1, <4>1 DEF FuncsTo
    <3>2. CASE ~proc.taken  BY <1>1, <2>1, <3>2, Grows DEF IInv, Shape
    <3>3. QED  BY <2>1, <3>1, <3>2
  <2>6. QED  BY <1>1, <1>2, <1>4, <1>5, <1>6, <2>1, <2>3, <2>4, <2>5 DEF IInv, Shape
<1>11. QED  BY <1>1, <1>2, <1>3, <1>7, <1>8, <1>9, <1>10 DEF IInv

(* The step of a procedure, with or without a parameter. *)
LEMMA BeginProcKeeps ==
  ASSUME IInv, NEW name \in Names, NEW exported \in BOOLEAN, NEW function \in BOOLEAN,
         NEW param \in ParamLists, BeginProc(name, exported, function, param)
  PROVE  IInv'
<1> DEFINE N == Len(decls)
           taken == Taken("proc", exported)
           given == param # NoParam
           proc == [Decl("proc", name, Owner, exported, taken) EXCEPT
                      !.function = function, !.params = IF param = NoParam THEN 0 ELSE 1]
           p == [Decl("param", param.name, New, FALSE, taken) EXCEPT !.isVar = param.isVar]
           v == [id |-> New, taken |-> taken, hasReturn |-> funcHasReturn,
                 curFunc |-> curFunc, epilogue |-> epilogue, inGlobalScope |-> inGlobalScope]
           s == [id |-> New, global |-> TRUE]
           r == [s EXCEPT !.global = FALSE]
<1>1. N \in Nat /\ New = N + 1 /\ New \in Nat /\ Owner \in Nat
  BY Standing DEF New
<1>2. taken \in BOOLEAN /\ (open # <<>> => taken = Current.taken)
  <2>1. taken = Taken("proc", exported)  OBVIOUS
  <2> HIDE DEF taken
  <2>2. QED  BY <2>1, TakenIs
<1> HIDE DEF taken
<1>3. /\ proc \in DeclType /\ proc.kind = "proc" /\ proc.name = name /\ proc.mod = Order[at]
      /\ proc.owner = Owner /\ proc.taken = taken /\ proc.isVar = FALSE
  <2>1. "proc" \in AnyKind  BY DEF AnyKind
  <2>2. (IF param = NoParam THEN 0 ELSE 1) \in {0, 1}  OBVIOUS
  <2>3. QED  BY <1>1, <1>2, <2>1, <2>2, Standing DEF Decl, DeclType
<1>4. given => /\ p \in DeclType /\ p.kind = "param" /\ p.name = param.name
               /\ p.mod = Order[at] /\ p.owner = N + 1 /\ p.taken = taken
  <2>1. "param" \in AnyKind  BY DEF AnyKind
  <2>2. given => param.name \in Names /\ param.isVar \in BOOLEAN  BY DEF ParamLists
  <2>3. QED  BY <1>1, <1>2, <2>1, <2>2, Standing DEF Decl, DeclType
<1>5. /\ v \in VisitsTo(N + 1) /\ v.id = N + 1 /\ v.taken = taken
      /\ v.hasReturn = funcHasReturn /\ v.curFunc = curFunc /\ v.inGlobalScope = inGlobalScope
  <2>1. /\ funcHasReturn \in BOOLEAN /\ inGlobalScope \in BOOLEAN /\ epilogue \in 0..(N + 1)
    BY <1>1 DEF IInv, Shape
  <2>2. curFunc \in FuncsTo(N + 1)  BY <1>1, Grows DEF IInv, Shape
  <2>3. New \in 1..(N + 1)  BY <1>1
  <2>4. v \in VisitsTo(N + 1)  BY <1>2, <2>1, <2>2, <2>3 DEF VisitsTo
  <2>5. QED  BY <1>1, <2>4
<1>6. /\ s \in SymbolsTo(N + 1) /\ s.id = N + 1 /\ s.global = TRUE
      /\ r \in SymbolsTo(N + 1) /\ r.id = N + 1 /\ r.global = FALSE
  <2>1. N + 1 \in -1..(N + 1)  BY <1>1
  <2>2. s.id = N + 1 /\ s.global = TRUE /\ s \in SymbolsTo(N + 1)
    BY <1>1, <2>1 DEF SymbolsTo
  <2>3. r.id = N + 1 /\ r.global = FALSE  BY <1>1
  <2>4. r \in SymbolsTo(N + 1)
    <3>1. s \in [id : -1..(N + 1), global : BOOLEAN]  BY <2>2 DEF SymbolsTo
    <3> HIDE DEF s
    <3>2. r \in [id : -1..(N + 1), global : BOOLEAN]  BY <3>1
    <3>3. QED  BY <3>2 DEF SymbolsTo
  <2>5. QED  BY <2>2, <2>3, <2>4
<1>7. /\ refused = "no" /\ ~inBody /\ N + (1 + (IF param = NoParam THEN 0 ELSE 1)) <= MaxDecls
      /\ decls' = decls \o <<proc>> \o (IF param = NoParam THEN <<>> ELSE <<p>>)
      /\ open' = Append(open, v)
      /\ refused' = (IF Declares(name) THEN "duplicate" ELSE refused)
      /\ funcHasReturn' = FALSE
      /\ semaScopes' = WithProc(declare(name), name, lookup(declare(name), name), param)
      /\ irScopes' = (IF taken THEN WithProc(irScopes, name, s, param) ELSE irScopes)
      /\ symScopes' = (IF taken THEN WithProc(symScopes, name, r, param) ELSE symScopes)
      /\ taken => /\ moved' \in IF open = <<>> THEN {moved} ELSE {moved, moved + 1}
                  /\ curFunc' = [fn |-> New, moved |-> moved'] /\ inGlobalScope' = FALSE
      /\ ~taken => UNCHANGED <<moved, curFunc, inGlobalScope>>
      /\ UNCHANGED <<at, imports, inBody, returns, constants, epilogue>>
  BY DEF BeginProc, MayDeclare, taken
<1> HIDE DEF proc, p, v, s, r
<1>8. decls' = (IF given THEN Append(Append(decls, proc), p) ELSE Append(decls, proc))
  <2>1. decls \in Seq(DeclType)  BY DEF IInv, Shape
  <2>2. CASE ~given
    <3>1. decls' = decls \o <<proc>> \o <<>>  BY <1>7, <2>2
    <3>2. QED  BY <1>3, <2>1, <2>2, <3>1, Concatenates
  <2>3. CASE given
    <3>1. decls' = decls \o <<proc>> \o <<p>>  BY <1>7, <2>3
    <3>2. p \in DeclType  BY <1>4, <2>3
    <3>3. decls \o <<proc>> \o <<p>> = Append(Append(decls, proc), p)
      BY <1>3, <2>1, <3>2, Concatenates
    <3>4. QED  BY <2>3, <3>1, <3>3
  <2>4. QED  BY <2>2, <2>3
<1>9. Len(decls') <= MaxDecls
  <2>1. decls \in Seq(DeclType)  BY DEF IInv, Shape
  <2>2. Append(decls, proc) \in Seq(DeclType) /\ Len(Append(decls, proc)) = N + 1
    BY <1>3, <2>1, AppendGives
  <2>3. given => Len(Append(Append(decls, proc), p)) = N + 2
    BY <1>1, <1>4, <2>2, AppendGives
  <2>4. CASE ~given
    <3>1. N + 1 <= MaxDecls  BY <1>1, <1>7, <2>4
    <3>2. QED  BY <1>8, <2>2, <2>4, <3>1
  <2>5. CASE given
    <3>1. N + 2 <= MaxDecls
      <4>1. N + (1 + 1) <= MaxDecls  BY <1>7, <2>5
      <4>2. QED  BY <1>1, <4>1
    <3>2. QED  BY <1>8, <2>3, <2>5, <3>1
  <2>6. QED  BY <2>4, <2>5
<1>10. moved' \in Nat /\ inGlobalScope' \in BOOLEAN
  <2>1. moved \in Nat /\ inGlobalScope \in BOOLEAN  BY DEF IInv, Shape
  <2>2. CASE taken
    <3>1. moved' = moved \/ moved' = moved + 1  BY <1>7, <2>2
    <3>2. moved' \in Nat  BY <2>1, <3>1
    <3>3. inGlobalScope' \in BOOLEAN  BY <1>7, <2>2
    <3>4. QED  BY <3>2, <3>3
  <2>3. CASE ~taken
    <3>1. moved' = moved /\ inGlobalScope' = inGlobalScope  BY <1>7, <2>3
    <3>2. QED  BY <2>1, <3>1
  <2>4. QED  BY <2>2, <2>3
<1>11. Beginning(proc, v, p, given)
  <2>1. Declarable(proc)  BY <1>2, <1>3 DEF Declarable
  <2>2. Visiting(v, proc)  BY <1>3, <1>5 DEF Visiting
  <2>3. given => ParamOf(p, proc)  BY <1>3, <1>4 DEF ParamOf
  <2>4. /\ proc.taken => curFunc' = [fn |-> N + 1, moved |-> moved'] /\ ~inGlobalScope'
        /\ ~proc.taken => curFunc' = curFunc /\ inGlobalScope' = inGlobalScope
    BY <1>1, <1>3, <1>7
  <2>5. QED
    BY <1>3, <1>5, <1>7, <1>8, <1>9, <1>10, <2>1, <2>2, <2>3, <2>4 DEF Beginning
<1>12. \A scopes, symbol : WithProc(scopes, name, symbol, param) =
                             Inner(scopes, proc, symbol, p, given)
  <2>1. New + 1 = Len(decls) + 2  BY <1>1
  <2>2. CASE ~given  BY <1>3, <2>2 DEF WithProc, Inner
  <2>3. CASE given
    <3>1. proc.name = name /\ p.name = param.name  BY <1>3, <1>4, <2>3
    <3>2. QED  BY <2>1, <2>3, <3>1, Zenon DEF WithProc, Inner
  <2>4. QED  BY <2>2, <2>3
<1>13. given \in BOOLEAN  OBVIOUS
<1> HIDE DEF given
<1>14. /\ semaScopes' = Inner(declare(proc.name), proc,
                              lookup(declare(proc.name), proc.name), p, given)
       /\ irScopes' = (IF proc.taken THEN Inner(irScopes, proc, s, p, given) ELSE irScopes)
       /\ symScopes' = (IF proc.taken THEN Inner(symScopes, proc, r, p, given) ELSE symScopes)
  BY <1>3, <1>7, <1>12
<1>15. QED  BY <1>6, <1>11, <1>13, <1>14, BeginningKeeps

-----------------------------------------------------------------------------
(* The other steps *)

(* What a body's beginning leaves of the visits. *)
Alike(op, op2) ==
  /\ Len(op2) = Len(op)
  /\ \A k \in 1..Len(op) : /\ op2[k].id = op[k].id /\ op2[k].taken = op[k].taken
                           /\ op2[k].hasReturn = op[k].hasReturn
                           /\ op2[k].curFunc = op[k].curFunc
                           /\ op2[k].inGlobalScope = op[k].inGlobalScope

(* Visits alike in all but the epilogue put aside are alike to the invariant. *)
LEMMA Reopened ==
  ASSUME NEW m \in Nat, NEW op \in Seq(VisitsTo(m)), op # <<>>, NEW e \in 0..m,
         NEW op2, op2 = [op EXCEPT ![Len(op)].epilogue = e]
  PROVE  op2 \in Seq(VisitsTo(m)) /\ Alike(op, op2) /\ op2 # <<>>
<1>1. Len(op) \in Nat \ {0} /\ op \in [1..Len(op) -> VisitsTo(m)]
  BY LenProperties, EmptySeq
<1>2. Len(op) \in 1..Len(op)  BY <1>1
<1>3. [op[Len(op)] EXCEPT !.epilogue = e] \in VisitsTo(m)
  <2>1. op[Len(op)] \in VisitsTo(m)  BY <1>1, <1>2
  <2>2. QED  BY <2>1 DEF VisitsTo
<1>4. op2 = [op EXCEPT ![Len(op)] = [op[Len(op)] EXCEPT !.epilogue = e]]
  BY <1>1, <1>2
<1>5. op2 \in [1..Len(op) -> VisitsTo(m)]  BY <1>1, <1>3, <1>4
<1>6. op2 \in Seq(VisitsTo(m)) /\ Len(op2) = Len(op)  BY <1>1, <1>5, SeqDef, LenProperties
<1>7. ASSUME NEW k \in 1..Len(op)
      PROVE  /\ op2[k].id = op[k].id /\ op2[k].taken = op[k].taken
             /\ op2[k].hasReturn = op[k].hasReturn /\ op2[k].curFunc = op[k].curFunc
             /\ op2[k].inGlobalScope = op[k].inGlobalScope
  <2>1. CASE k = Len(op)
    <3>1. op2[k] = [op[k] EXCEPT !.epilogue = e]  BY <1>1, <1>2, <1>4, <2>1
    <3>2. op[k] \in VisitsTo(m)  BY <1>1
    <3>3. QED  BY <3>1, <3>2 DEF VisitsTo
  <2>2. CASE k # Len(op)
    <3>1. op2[k] = op[k]  BY <1>1, <1>4, <2>2
    <3>2. QED  BY <3>1
  <2>3. QED  BY <2>1, <2>2
<1>8. op2 # <<>>  BY <1>1, <1>6, EmptySeq
<1>9. QED  BY <1>6, <1>7, <1>8 DEF Alike

(* The step to the statements of a body. *)
LEMMA BeginBodyKeeps ==
  ASSUME IInv, BeginBody
  PROVE  IInv'
<1> DEFINE N == Len(decls)
<1>1. /\ refused = "no" /\ ~inBody /\ inBody' = TRUE
      /\ at' = at /\ imports' = imports /\ decls' = decls /\ returns' = returns
      /\ semaScopes' = semaScopes /\ funcHasReturn' = funcHasReturn /\ refused' = refused
      /\ irScopes' = irScopes /\ constants' = constants /\ moved' = moved
      /\ symScopes' = symScopes
  BY DEF BeginBody, sema
<1>2. /\ N \in Nat /\ Len(open) \in Nat /\ Owner = OwnerAt(open, Len(open))
      /\ Owner \in 0..N /\ (Owner = 0 <=> open = <<>>) /\ (Len(open) = 0 <=> open = <<>>)
      /\ (open # <<>> => Current = open[Len(open)])
  BY Standing
<1>3. open \in Seq(VisitsTo(N)) /\ epilogue \in 0..N  BY DEF IInv, Shape
<1>4. open' \in Seq(VisitsTo(N)) /\ Alike(open, open') /\ (open' = <<>> <=> open = <<>>)
  <2>1. CASE open # <<>>
    <3>1. open' = [open EXCEPT ![Len(open)].epilogue = epilogue]  BY <2>1 DEF BeginBody
    <3>2. QED  BY <1>2, <1>3, <2>1, <3>1, Reopened
  <2>2. CASE open = <<>>
    <3>1. open' = open  BY <2>2 DEF BeginBody
    <3>2. QED  BY <1>3, <3>1 DEF Alike
  <2>3. QED  BY <2>1, <2>2
<1>5. /\ open # <<>> => /\ epilogue' = (IF Current.taken THEN Owner ELSE epilogue)
                        /\ curFunc' = curFunc /\ inGlobalScope' = inGlobalScope
      /\ open = <<>> /\ InMain => /\ curFunc' = MainBody /\ ~inGlobalScope'
                                  /\ inGlobalScope' \in BOOLEAN
      /\ open = <<>> /\ ~InMain => curFunc' = curFunc /\ inGlobalScope' = inGlobalScope
      /\ open = <<>> => epilogue' = epilogue
  BY DEF BeginBody
<1>6. /\ Len(open') = Len(open)
      /\ \A k \in 1..Len(open) :
           /\ open'[k].id = open[k].id /\ open'[k].taken = open[k].taken
           /\ open'[k].hasReturn = open[k].hasReturn /\ open'[k].curFunc = open[k].curFunc
           /\ open'[k].inGlobalScope = open[k].inGlobalScope
  BY <1>4 DEF Alike
<1>7. \A k \in 0..Len(open) : OwnerAt(open', k) = OwnerAt(open, k)
  BY <1>2, <1>6 DEF OwnerAt
<1>8. /\ Owner' = Owner /\ (TakenNow' <=> TakenNow) /\ Base' = Base /\ InMain' = InMain
      /\ Ids' = Ids
  <2>1. open # <<>> => Current'.id = Current.id /\ Current'.taken = Current.taken
    <3>1. Current' = open'[Len(open')]  BY DEF Current
    <3>2. open # <<>> => Len(open) \in 1..Len(open)  BY <1>2
    <3>3. QED  BY <1>2, <1>6, <3>1, <3>2
  <2>2. Owner' = Owner  BY <1>4, <2>1 DEF Owner
  <2>3. TakenNow' <=> TakenNow  BY <1>4, <2>1 DEF TakenNow
  <2>4. Ids' = Ids  BY <1>6 DEF Ids
  <2>5. Base' = Base /\ InMain' = InMain  BY <1>1 DEF Base, InMain
  <2>6. QED  BY <2>2, <2>3, <2>4, <2>5
<1>9. Shape'
  <2>1. epilogue' \in 0..N
    <3>1. CASE open = <<>>  BY <1>3, <1>5, <3>1
    <3>2. CASE open # <<>>
      <4>1. epilogue' = Owner \/ epilogue' = epilogue  BY <1>5, <3>2
      <4>2. QED  BY <1>2, <1>3, <4>1
    <3>3. QED  BY <3>1, <3>2
  <2>2. curFunc' \in FuncsTo(N)
    <3>1. MainBody \in FuncsTo(N)  BY <1>2 DEF MainBody, FuncsTo
    <3>2. QED  BY <1>5, <3>1 DEF IInv, Shape
  <2>3. inGlobalScope' \in BOOLEAN  BY <1>5 DEF IInv, Shape
  <2>4. QED  BY <1>1, <1>4, <2>1, <2>2, <2>3 DEF IInv, Shape
<1>10. DeclsNow' /\ ConstantsOK'  BY <1>1 DEF IInv, DeclsNow, ConstantsOK
<1>11. VisitsNow'
  <2>1. ASSUME NEW k \in 1..Len(open)  PROVE VisitOK(open', decls, Order[at], k)
    <3>1. VisitOK(open, decls, Order[at], k)  BY DEF IInv, VisitsNow, VisitsOK
    <3>2. OwnerAt(open', k - 1) = OwnerAt(open, k - 1)  BY <1>2, <1>7
    <3>3. \A j \in 1..(k - 1) : j \in 1..Len(open)  BY <1>2
    <3>4. QED  BY <1>6, <3>1, <3>2, <3>3 DEF VisitOK
  <2>2. QED  BY <1>1, <1>6, <2>1 DEF VisitsNow, VisitsOK
<1>12. Lengths'  BY <1>1, <1>6, <1>8 DEF IInv, Lengths
<1>13. AtHand'
  <2>1. AtHand  BY DEF IInv
  <2>2. ASSUME TakenNow'
        PROVE  /\ curFunc'.fn = Owner'
               /\ curFunc'.moved = moved' \/ HasInner(decls', Owner')
               /\ epilogue' = Owner'
    <3>1. TakenNow /\ open # <<>> /\ Current.taken  BY <1>8, <2>2 DEF TakenNow
    <3>2. QED  BY <1>1, <1>5, <1>8, <2>1, <3>1 DEF AtHand
  <2>3. ASSUME NEW k \in 2..Len(open'), open'[k].taken
        PROVE  open'[k].curFunc.fn = open'[k - 1].id
    <3>1. k \in 2..Len(open) /\ k \in 1..Len(open) /\ k - 1 \in 1..Len(open)  BY <1>2, <1>6
    <3>2. open[k].taken  BY <1>6, <2>3, <3>1
    <3>3. open[k].curFunc.fn = open[k - 1].id  BY <2>1, <3>1, <3>2 DEF AtHand
    <3>4. QED  BY <1>6, <3>1, <3>3
  <2>4. open' = <<>> /\ inBody' /\ InMain' => curFunc'.fn = 0
    BY <1>4, <1>5, <1>8 DEF MainBody
  <2>5. QED  BY <2>2, <2>3, <2>4 DEF AtHand
<1>14. GlobalOK'
  <2>1. GlobalOK /\ (TakenNow => open # <<>>)  BY DEF IInv, TakenNow
  <2>2. TakenNow' => ~inGlobalScope'  BY <1>5, <1>8, <2>1 DEF GlobalOK
  <2>3. ~TakenNow' /\ ~(open' = <<>> /\ inBody' /\ InMain') => inGlobalScope'
    <3>1. ~TakenNow => inGlobalScope  BY <1>1, <2>1 DEF GlobalOK
    <3>2. QED  BY <1>1, <1>4, <1>5, <1>8, <3>1
  <2>4. ASSUME NEW k \in 1..Len(open')
        PROVE  IF open'[k].taken THEN open'[k].inGlobalScope <=> k = 1
                                  ELSE open'[k].inGlobalScope
    <3>1. /\ k \in 1..Len(open) /\ open'[k].taken = open[k].taken
          /\ open'[k].inGlobalScope = open[k].inGlobalScope
      BY <1>6
    <3>2. IF open[k].taken THEN open[k].inGlobalScope <=> k = 1 ELSE open[k].inGlobalScope
      BY <2>1, <3>1, Zenon DEF GlobalOK
    <3>3. CASE open[k].taken
      <4>1. open[k].inGlobalScope <=> k = 1  BY <3>2, <3>3
      <4>2. open'[k].inGlobalScope <=> k = 1  BY <3>1, <4>1
      <4>3. open'[k].taken  BY <3>1, <3>3
      <4>4. QED  BY <4>2, <4>3
    <3>4. CASE ~open[k].taken
      <4>1. open'[k].inGlobalScope  BY <3>1, <3>2, <3>4
      <4>2. ~open'[k].taken  BY <3>1, <3>4
      <4>3. QED  BY <4>1, <4>2
    <3>5. QED  BY <3>3, <3>4
  <2>5. QED  BY <2>2, <2>3, <2>4, Zenon DEF GlobalOK
<1>15. ReturnsOK'
  <2>1. ReturnsOK  BY DEF IInv
  <2>2. NoReturn' <=> NoReturn  BY <1>1, <1>8 DEF NoReturn
  <2>3. ASSUME NEW k \in 2..Len(open')
        PROVE  open'[k].hasReturn <=> open'[k - 1].id \in returns'
    <3>1. k \in 2..Len(open) /\ k \in 1..Len(open) /\ k - 1 \in 1..Len(open)  BY <1>2, <1>6
    <3>2. open[k].hasReturn <=> open[k - 1].id \in returns  BY <2>1, <3>1 DEF ReturnsOK
    <3>3. QED  BY <1>1, <1>6, <3>1, <3>2
  <2>4. open' # <<>> => (funcHasReturn' <=> Owner' \in returns')
    BY <1>1, <1>4, <1>8, <2>1 DEF ReturnsOK
  <2>5. refused' = "return" <=> NoReturn'  BY <1>1, <2>1, <2>2 DEF ReturnsOK
  <2>6. QED  BY <2>3, <2>4, <2>5 DEF ReturnsOK
<1>16. SemaOK'
  <2>1. SemaOK /\ (Twice' <=> Twice)  BY <1>1 DEF IInv, Twice
  <2>2. SemaDescribes(semaScopes, decls, open, Order[at], imports[Order[at]])
    BY <1>1, <2>1 DEF SemaOK
  <2>3. SemaDescribes(semaScopes, decls, open', Order[at], imports[Order[at]])
    <3>1. Len(semaScopes) = Len(open) + 1 /\ Len(semaScopes) \in Nat  BY <1>2, Tables
    <3>2. \A k \in 1..(Len(semaScopes) - 1) : open[k].id = open'[k].id
      BY <1>2, <1>6, <3>1
    <3>3. Len(open') \in Nat /\ Len(semaScopes) <= Len(semaScopes)  BY <1>2, <1>6, <3>1
    <3>4. QED  BY <1>2, <2>2, <3>1, <3>2, <3>3, SemaBelow
  <2>4. QED  BY <1>1, <2>1, <2>3 DEF SemaOK
<1>17. BuilderOK' /\ DirectOK'
  <2>1. ASSUME NEW kinds, NEW procs \in BOOLEAN, NEW t, Len(t) \in Nat,
               Tells(t, decls, open, Base, kinds, procs)
        PROVE  Tells(t, decls, open', Base, kinds, procs)
    <3>1. Base \in Nat  BY Tables
    <3>2. QED  BY <1>2, <1>6, <2>1, <3>1, TellsBelow
  <2>2. Len(irScopes) \in Nat /\ Len(symScopes) \in Nat  BY Tables
  <2>3. Tells(irScopes, decls, open', Base, Stored, TRUE)
    BY <2>1, <2>2 DEF IInv, BuilderOK
  <2>4. Tells(symScopes, decls, open', Base, AnyKind, FALSE)
    BY <2>1, <2>2 DEF IInv, DirectOK
  <2>5. QED  BY <1>1, <1>8, <2>3, <2>4 DEF BuilderOK, DirectOK
<1>18. QED  BY <1>9, <1>10, <1>11, <1>12, <1>13, <1>14, <1>15, <1>16, <1>17 DEF IInv

(* The step of a RETURN. *)
LEMMA ReturnStmtKeeps ==
  ASSUME IInv, ReturnStmt
  PROVE  IInv'
<1> DEFINE N == Len(decls)
<1>1. /\ returns' = returns \cup {Owner} /\ funcHasReturn' = TRUE
      /\ at' = at /\ imports' = imports /\ decls' = decls /\ open' = open /\ inBody' = inBody
      /\ semaScopes' = semaScopes /\ refused' = refused /\ irScopes' = irScopes
      /\ constants' = constants /\ moved' = moved /\ curFunc' = curFunc
      /\ symScopes' = symScopes /\ epilogue' = epilogue /\ inGlobalScope' = inGlobalScope
      /\ refused = "no"
  BY DEF ReturnStmt, builder, direct
<1>2. /\ N \in Nat /\ Len(open) \in Nat /\ Owner = OwnerAt(open, Len(open))
      /\ Owner \in 0..N /\ IdsRise(open) /\ (Len(open) = 0 <=> open = <<>>)
  BY Standing
<1>3. /\ TakenNow' = TakenNow /\ Base' = Base /\ Owner' = Owner /\ Ids' = Ids
      /\ InMain' = InMain /\ Twice' = Twice
  BY <1>1 DEF TakenNow, Current, Base, InMain, Owner, Ids, Twice
<1>4. Shape'
  <2>1. returns' \subseteq 0..N  BY <1>1, <1>2 DEF IInv, Shape
  <2>2. QED  BY <1>1, <2>1 DEF IInv, Shape
<1>5. ReturnsOK'
  <2>1. ReturnsOK  BY DEF IInv
  <2>2. funcHasReturn' <=> Owner' \in returns'  BY <1>1, <1>3
  <2>3. ASSUME NEW k \in 2..Len(open')
        PROVE  open'[k].hasReturn <=> open'[k - 1].id \in returns'
    <3>1. k \in 2..Len(open) /\ k - 1 \in 1..Len(open) /\ Len(open) \in 1..Len(open)
          /\ k - 1 \in 1..(Len(open) - 1)
      BY <1>1, <1>2
    <3>2. open[k].hasReturn <=> open[k - 1].id \in returns  BY <2>1, <3>1 DEF ReturnsOK
    <3>3. open[k - 1].id < open[Len(open)].id  BY <3>1, <1>2 DEF IdsRise
    <3>4. Owner = open[Len(open)].id  BY <1>2, <3>1 DEF OwnerAt
    <3>5. open[k - 1].id # Owner
      <4>1. open[k - 1].id \in 1..N  BY <1>2, <3>1, VisitFields DEF IInv, Shape
      <4>2. QED  BY <1>2, <3>3, <3>4, <4>1
    <3>6. QED  BY <1>1, <3>2, <3>5
  <2>4. ~NoReturn'
    <3>1. ~NoReturn  BY <1>1, <2>1 DEF ReturnsOK
    <3>2. QED  BY <1>1, <1>3, <3>1 DEF NoReturn
  <2>5. QED  BY <1>1, <2>2, <2>3, <2>4 DEF ReturnsOK
<1>6. DeclsNow' /\ VisitsNow' /\ Lengths' /\ AtHand' /\ ConstantsOK'
  BY <1>1, <1>3 DEF IInv, DeclsNow, VisitsNow, Lengths, AtHand, ConstantsOK
<1>7. GlobalOK'
  <2>1. GlobalOK  BY DEF IInv
  <2>2. QED  BY <1>1, <1>3, <2>1, Zenon DEF GlobalOK
<1>8. SemaOK' /\ BuilderOK' /\ DirectOK'
  BY <1>1, <1>3 DEF IInv, SemaOK, BuilderOK, DirectOK
<1>9. QED  BY <1>4, <1>5, <1>6, <1>7, <1>8 DEF IInv

(* The step that ends a procedure: what was put aside is put back. *)
LEMMA EndProcKeeps ==
  ASSUME IInv, EndProc
  PROVE  IInv'
<1> DEFINE N == Len(decls)
           L == Len(open)
           last == open[L]
<1>1. /\ refused = "no" /\ inBody /\ open # <<>> /\ inBody' = FALSE
      /\ at' = at /\ imports' = imports /\ decls' = decls /\ returns' = returns
      /\ constants' = constants /\ moved' = moved
      /\ refused' = (IF decls[Owner].function /\ ~funcHasReturn THEN "return" ELSE refused)
      /\ funcHasReturn' = last.hasReturn
      /\ semaScopes' = SubSeq(semaScopes, 1, Len(semaScopes) - 1)
      /\ open' = SubSeq(open, 1, L - 1)
      /\ last.taken => /\ irScopes' = SubSeq(irScopes, 1, Len(irScopes) - 1)
                       /\ symScopes' = SubSeq(symScopes, 1, Len(symScopes) - 1)
                       /\ curFunc' = last.curFunc /\ inGlobalScope' = last.inGlobalScope
                       /\ epilogue' = last.epilogue
      /\ ~last.taken => /\ irScopes' = irScopes /\ symScopes' = symScopes
                        /\ curFunc' = curFunc /\ inGlobalScope' = inGlobalScope
                        /\ epilogue' = epilogue
  BY DEF EndProc, Current, Restore, pop
<1>2. /\ N \in Nat /\ L \in Nat \ {0} /\ Owner = last.id /\ IdsRise(open)
      /\ Owner \in 1..N /\ last \in VisitsTo(N) /\ last.taken \in BOOLEAN
      /\ Current = last /\ open \in Seq(VisitsTo(N)) /\ L \in 1..L
  <2>1. open # <<>>  BY <1>1
  <2>2. QED  BY <2>1, Standing DEF IInv, Shape
<1>0. L \in Nat \ {0} /\ (L # 1 => L \in 2..L /\ L - 1 \in 1..(L - 1) /\ L - 1 # 0)
  <2>1. L \in Nat \ {0}  BY <1>2
  <2> HIDE DEF L
  <2>2. QED  BY <2>1
<1>3. /\ open' \in Seq(VisitsTo(N)) /\ Len(open') = L - 1
      /\ \A k \in 1..(L - 1) : open'[k] = open[k]
  <2>1. open \in Seq(VisitsTo(N)) /\ open # <<>>  BY <1>1, <1>2
  <2>2. open' = SubSeq(open, 1, L - 1)  BY <1>1
  <2>3. QED  BY <2>1, <2>2, FrontGives
<1>4. open' = <<>> <=> L = 1  BY <1>2, <1>3, EmptySeq
<1>5. last.hasReturn \in BOOLEAN /\ last.curFunc \in FuncsTo(N) /\ last.epilogue \in 0..N
      /\ last.inGlobalScope \in BOOLEAN
  BY <1>2 DEF VisitsTo
<1>6. /\ decls[Owner].kind = "proc" /\ decls[Owner].owner = OwnerAt(open, L - 1)
      /\ \A j \in 1..(L - 1) : open[j].taken = last.taken /\ open[j].id < last.id
  BY <1>2 DEF IInv, VisitsNow, VisitsOK, VisitOK
<1>7. /\ Owner' = OwnerAt(open, L - 1)
      /\ TakenNow' <=> L # 1 /\ last.taken
      /\ Base' = Base /\ (InMain' <=> InMain)
  <2>1. CASE L = 1
    <3>1. open' = <<>>  BY <1>4, <2>1
    <3>2. Owner' = 0 /\ ~TakenNow'  BY <3>1 DEF Owner, TakenNow
    <3>3. OwnerAt(open, L - 1) = 0  BY <2>1 DEF OwnerAt
    <3>4. QED  BY <1>1, <2>1, <3>2, <3>3 DEF Base, InMain
  <2>2. CASE L # 1
    <3>1. L - 1 \in 1..(L - 1) /\ L - 1 # 0 /\ open' # <<>>  BY <1>0, <1>4, <2>2
    <3>2. Current' = open[L - 1]  BY <1>3, <3>1 DEF Current
    <3>3. Current'.taken = last.taken  BY <1>6, <3>1, <3>2
    <3>4. TakenNow' <=> last.taken  BY <3>1, <3>3 DEF TakenNow
    <3>5. Owner' = open[L - 1].id  BY <3>1, <3>2 DEF Owner
    <3>6. QED  BY <1>1, <2>2, <3>1, <3>4, <3>5 DEF Base, InMain, OwnerAt
  <2>3. QED  BY <2>1, <2>2
<1>8. TakenNow <=> last.taken  BY <1>1, <1>2 DEF TakenNow
<1>9. Ids' = Ids \ {Owner}
  <2>1. 1..L = (1..(L - 1)) \cup {L}  BY <1>2
  <2>2. \A k \in 1..(L - 1) : open[k].id # Owner
    <3>1. \A k \in 1..(L - 1) : open[k].id \in 1..N  BY <1>2, VisitFields
    <3>2. QED  BY <1>2, <1>6, <3>1
  <2>3. \A x : x \in Ids' <=> x \in Ids /\ x # Owner  BY <1>2, <1>3, <2>1, <2>2 DEF Ids
  <2>4. QED  BY <2>3
<1>10. /\ semaScopes' \in Seq(TablesTo(N)) /\ Len(semaScopes) = L + 1
       /\ Len(semaScopes') = L
       /\ \A l \in 1..L : semaScopes'[l] = semaScopes[l]
  <2>1. semaScopes \in Seq(TablesTo(N)) /\ semaScopes # <<>> /\ Len(semaScopes) = L + 1
    BY Tables
  <2>2. /\ semaScopes' \in Seq(TablesTo(N)) /\ Len(semaScopes') = Len(semaScopes) - 1
        /\ \A l \in 1..(Len(semaScopes) - 1) : semaScopes'[l] = semaScopes[l]
    BY <1>1, <2>1, FrontGives
  <2>3. Len(semaScopes) - 1 = L  BY <1>2, <2>1
  <2>4. QED  BY <2>1, <2>2, <2>3
<1>11. Base \in Nat /\ 1 <= Base /\ Len(irScopes) = Base + (IF last.taken THEN L ELSE 0)
  BY <1>8, Tables DEF IInv, Lengths
<1>12. ASSUME NEW kinds, NEW procs \in BOOLEAN, NEW t \in Seq(TablesTo(N)), t # <<>>,
              Len(t) = Len(irScopes), Tells(t, decls, open, Base, kinds, procs),
              NEW t2, t2 = IF last.taken THEN SubSeq(t, 1, Len(t) - 1) ELSE t
       PROVE  /\ t2 \in Seq(TablesTo(N))
              /\ Len(t2) = Base + (IF last.taken THEN L - 1 ELSE 0)
              /\ Tells(t2, decls, open', Base, kinds, procs)
  <2>1. /\ t2 \in Seq(TablesTo(N)) /\ Len(t2) \in Nat /\ Len(t) \in Nat
        /\ Len(t2) = Base + (IF last.taken THEN L - 1 ELSE 0)
        /\ Len(t2) <= Len(t) /\ \A l \in 1..Len(t2) : t2[l] = t[l]
    <3>1. CASE last.taken
      <4>1. t2 = SubSeq(t, 1, Len(t) - 1)  BY <1>12, <3>1
      <4>2. /\ t2 \in Seq(TablesTo(N)) /\ Len(t2) = Len(t) - 1
            /\ \A l \in 1..(Len(t) - 1) : t2[l] = t[l]
        BY <1>12, <4>1, FrontGives
      <4>3. Len(t) = Base + L  BY <1>11, <1>12, <3>1
      <4>4. QED  BY <1>2, <1>11, <3>1, <4>2, <4>3
    <3>2. CASE ~last.taken  BY <1>2, <1>11, <1>12, <3>2
    <3>3. QED  BY <3>1, <3>2
  <2>2. L \in Nat /\ Len(open') \in Nat /\ Len(t2) <= Base + (L - 1)
    BY <1>2, <1>3, <1>11, <2>1
  <2>3. \A k \in 1..L : Base + k <= Len(t2) => k \in 1..Len(open')
    BY <1>2, <1>3, <1>11, <2>1, <2>2
  <2>4. \A k \in 1..Len(open') : k \in 1..L /\ open[k].id = open'[k].id
    BY <1>2, <1>3
  <2>5. Tells(t2, decls, open', Base, kinds, procs)
    BY <1>11, <1>12, <2>1, <2>2, <2>3, <2>4, TellsBelow
  <2>6. QED  BY <2>1, <2>5
<1>13. /\ irScopes' \in Seq(TablesTo(N))
       /\ Len(irScopes') = Base + (IF last.taken THEN L - 1 ELSE 0)
       /\ Tells(irScopes', decls, open', Base, Stored, TRUE)
  <2>1. irScopes \in Seq(TablesTo(N)) /\ irScopes # <<>>  BY Tables
  <2>2. Tells(irScopes, decls, open, Base, Stored, TRUE)  BY DEF IInv, BuilderOK
  <2>3. irScopes' = IF last.taken THEN SubSeq(irScopes, 1, Len(irScopes) - 1) ELSE irScopes
    BY <1>1
  <2>4. QED  BY <1>12, <2>1, <2>2, <2>3
<1>14. /\ symScopes' \in Seq(TablesTo(N))
       /\ Len(symScopes') = Base + (IF last.taken THEN L - 1 ELSE 0)
       /\ Tells(symScopes', decls, open', Base, AnyKind, FALSE)
  <2>1. symScopes \in Seq(TablesTo(N)) /\ symScopes # <<>> /\ Len(symScopes) = Len(irScopes)
    BY Tables
  <2>2. Tells(symScopes, decls, open, Base, AnyKind, FALSE)  BY DEF IInv, DirectOK
  <2>3. symScopes' = IF last.taken THEN SubSeq(symScopes, 1, Len(symScopes) - 1)
                                    ELSE symScopes
    BY <1>1
  <2>4. QED  BY <1>12, <2>1, <2>2, <2>3
<1>15. Shape'
  <2>1. funcHasReturn' \in BOOLEAN /\ refused' \in {"no", "duplicate", "return"}
    BY <1>1, <1>5
  <2>2. curFunc' \in FuncsTo(N) /\ inGlobalScope' \in BOOLEAN /\ epilogue' \in 0..N
    BY <1>1, <1>2, <1>5 DEF IInv, Shape
  <2>3. QED  BY <1>1, <1>3, <1>10, <1>13, <1>14, <2>1, <2>2 DEF IInv, Shape
<1>16. DeclsNow' /\ ConstantsOK'  BY <1>1 DEF IInv, DeclsNow, ConstantsOK
<1>17. VisitsNow'
  <2>1. ASSUME NEW k \in 1..(L - 1)  PROVE VisitOK(open', decls, Order[at], k)
    <3>1. k \in 1..L  BY <1>2
    <3>2. VisitOK(open, decls, Order[at], k)  BY <3>1 DEF IInv, VisitsNow, VisitsOK
    <3>3. OwnerAt(open', k - 1) = OwnerAt(open, k - 1)
      <4>1. k - 1 # 0 => open'[k - 1] = open[k - 1]  BY <1>2, <1>3
      <4>2. QED  BY <4>1 DEF OwnerAt
    <3>4. \A j \in 1..(k - 1) : open'[j] = open[j]  BY <1>2, <1>3
    <3>5. QED  BY <1>3, <3>2, <3>3, <3>4 DEF VisitOK
  <2>2. QED  BY <1>1, <1>3, <2>1 DEF VisitsNow, VisitsOK
<1>18. Lengths'
  <2>1. TakenNow' => last.taken  BY <1>7
  <2>2. Base + (IF last.taken THEN L - 1 ELSE 0) = Base + (IF TakenNow' THEN L - 1 ELSE 0)
    BY <1>2, <1>7
  <2>3. QED  BY <1>2, <1>3, <1>7, <1>10, <1>13, <1>14, <2>2 DEF Lengths
<1>19. AtHand'
  <2>1. AtHand  BY DEF IInv
  <2>2. ASSUME TakenNow'
        PROVE  curFunc'.fn = Owner' /\ HasInner(decls', Owner')
    <3>1. L # 1 /\ last.taken /\ L \in 2..L  BY <1>0, <1>7, <2>2
    <3>2. curFunc' = last.curFunc  BY <1>1, <3>1
    <3>3. last.curFunc.fn = open[L - 1].id  BY <2>1, <3>1 DEF AtHand
    <3>4. Owner' = open[L - 1].id  BY <1>2, <1>7, <3>1 DEF OwnerAt
    <3>5. HasInner(decls', Owner')  BY <1>1, <1>2, <1>6, <1>7 DEF HasInner
    <3>6. QED  BY <3>2, <3>3, <3>4, <3>5
  <2>3. ASSUME NEW k \in 2..Len(open'), open'[k].taken
        PROVE  open'[k].curFunc.fn = open'[k - 1].id
    <3>1. /\ k \in 2..L /\ open'[k] = open[k] /\ open'[k - 1] = open[k - 1]
      BY <1>2, <1>3
    <3>2. QED  BY <2>1, <2>3, <3>1 DEF AtHand
  <2>4. QED  BY <1>1, <2>2, <2>3 DEF AtHand
<1>20. GlobalOK'
  <2>1. GlobalOK  BY DEF IInv
  <2>2. last.taken => (last.inGlobalScope <=> L = 1)
    <3>1. IF open[L].taken THEN open[L].inGlobalScope <=> L = 1 ELSE open[L].inGlobalScope
      BY <1>2, <2>1, Zenon DEF GlobalOK
    <3>2. QED  BY <3>1
  <2>3. ~last.taken => inGlobalScope  BY <1>1, <1>8, <2>1 DEF GlobalOK
  <2>4. TakenNow' => ~inGlobalScope'  BY <1>1, <1>7, <2>2
  <2>5. ~TakenNow' => inGlobalScope'  BY <1>1, <1>7, <2>2, <2>3
  <2>6. ASSUME NEW k \in 1..Len(open')
        PROVE  IF open'[k].taken THEN open'[k].inGlobalScope <=> k = 1
                                  ELSE open'[k].inGlobalScope
    <3>1. k \in 1..L /\ open'[k] = open[k]  BY <1>2, <1>3
    <3>2. IF open[k].taken THEN open[k].inGlobalScope <=> k = 1 ELSE open[k].inGlobalScope
      BY <2>1, <3>1, Zenon DEF GlobalOK
    <3>3. QED  BY <3>1, <3>2, Zenon
  <2>7. QED  BY <2>4, <2>5, <2>6, Zenon DEF GlobalOK
<1>21. ReturnsOK'
  <2>1. ReturnsOK  BY DEF IInv
  <2>2. ASSUME open' # <<>>  PROVE funcHasReturn' <=> Owner' \in returns'
    <3>1. L \in 2..L /\ L - 1 # 0  BY <1>0, <1>4, <2>2
    <3>2. open[L].hasReturn <=> open[L - 1].id \in returns  BY <2>1, <3>1 DEF ReturnsOK
    <3>3. Owner' = open[L - 1].id  BY <1>7, <3>1 DEF OwnerAt
    <3>4. QED  BY <1>1, <3>2, <3>3
  <2>3. ASSUME NEW k \in 2..Len(open')
        PROVE  open'[k].hasReturn <=> open'[k - 1].id \in returns'
    <3>1. /\ k \in 2..L /\ open'[k] = open[k] /\ open'[k - 1] = open[k - 1]
      BY <1>2, <1>3
    <3>2. QED  BY <1>1, <2>1, <3>1 DEF ReturnsOK
  <2>4. NoReturn' <=> decls[Owner].function /\ Owner \notin returns
    <3>1. ~NoReturn  BY <1>1, <2>1 DEF ReturnsOK
    <3>2. \A i \in 1..N : i \notin Ids' <=> i \notin Ids \/ i = Owner  BY <1>9
    <3>3. QED  BY <1>1, <1>2, <1>6, <3>1, <3>2 DEF NoReturn
  <2>5. funcHasReturn <=> Owner \in returns  BY <1>1, <2>1 DEF ReturnsOK
  <2>6. refused' = "return" <=> decls[Owner].function /\ ~funcHasReturn  BY <1>1
  <2>7. QED  BY <2>2, <2>3, <2>4, <2>5, <2>6 DEF ReturnsOK
<1>22. SemaOK'
  <2>1. SemaOK /\ (Twice' <=> Twice)  BY <1>1 DEF IInv, Twice
  <2>2. SemaDescribes(semaScopes, decls, open, Order[at], imports[Order[at]])
    BY <1>1, <2>1 DEF SemaOK
  <2>3. SemaDescribes(semaScopes', decls, open', Order[at], imports[Order[at]])
    <3>1. /\ Len(semaScopes) \in Nat /\ Len(semaScopes') \in Nat
          /\ Len(semaScopes') <= Len(semaScopes) /\ Len(open') \in Nat
      BY <1>2, <1>3, <1>10
    <3>2. \A l \in 1..Len(semaScopes') : semaScopes'[l] = semaScopes[l]  BY <1>10
    <3>3. \A k \in 1..(Len(semaScopes') - 1) : open[k].id = open'[k].id  BY <1>3, <1>10
    <3>4. QED  BY <1>2, <2>2, <3>1, <3>2, <3>3, SemaBelow
  <2>4. refused' # "duplicate" /\ ~Twice  BY <1>1, <2>1 DEF SemaOK
  <2>5. QED  BY <1>1, <2>1, <2>3, <2>4 DEF SemaOK
<1>23. BuilderOK' /\ DirectOK'
  BY <1>1, <1>7, <1>13, <1>14 DEF BuilderOK, DirectOK
<1>24. QED
  BY <1>15, <1>16, <1>17, <1>18, <1>19, <1>20, <1>21, <1>22, <1>23 DEF IInv

(* Sema's table when the visit of a module begins. *)
LEMMA ImportsEntered ==
  ASSUME NEW m \in Modules, imports \in ImportLists, NEW n \in Nat,
         NEW t, t = <<ImportScope(m)>>
  PROVE  /\ t \in Seq(TablesTo(n)) /\ Len(t) = 1
         /\ \A k \in Names : t[1][k] = NoSymbol
         /\ \A k \in Modules : t[1][k] = IF k \in imports[m] THEN Import ELSE NoSymbol
<1>1. imports[m] \subseteq Modules  BY ImportsAssumption
<1>2. Names \cap Modules = {}  BY KeysAssumption
<1>3. Import \in SymbolsTo(n) /\ NoSymbol \in SymbolsTo(n)
  BY DEF Import, NoSymbol, SymbolsTo
<1>4. ImportScope(m) \in TablesTo(n)  BY <1>3 DEF ImportScope, TablesTo
<1>5. t \in Seq(TablesTo(n)) /\ Len(t) = 1 /\ t[1] = ImportScope(m)  BY <1>4
<1>6. \A k \in Names : ImportScope(m)[k] = NoSymbol
  BY <1>1, <1>2 DEF ImportScope, Keys
<1>7. \A k \in Modules : ImportScope(m)[k] = IF k \in imports[m] THEN Import ELSE NoSymbol
  BY DEF ImportScope, Keys
<1>8. QED  BY <1>5, <1>6, <1>7

(* The main module gets a table of its own in the generators. *)
LEMMA MainOpens ==
  ASSUME NEW ds, NEW op, Len(op) = 0, NEW kinds, NEW procs \in BOOLEAN, NEW n \in Nat,
         NEW t \in Seq(TablesTo(n)), Len(t) = 1, Tells(t, ds, op, 1, kinds, procs),
         \A i \in 1..Len(ds) : ds[i].mod # Main
  PROVE  Tells(push(t), ds, op, 2, kinds, procs)
<1>1. ASSUME NEW i \in 1..Len(ds), NEW l \in Nat
      PROVE  /\ IsAt(ds, op, 2, i, l) <=> IsAt(ds, op, 1, i, l)
             /\ IsAt(ds, op, 2, i, l) => l = 1
  BY DEF IsAt
<1>2. \A l \in Nat : \A m : Lives(ds, op, 2, kinds, l, m) = Lives(ds, op, 1, kinds, l, m)
  BY <1>1, Zenon DEF Lives
<1>3. Tells(t, ds, op, 2, kinds, procs)
  <2>1. \A l \in 1..Len(t) : l \in Nat  OBVIOUS
  <2>2. QED  BY <1>2, <2>1 DEF Tells, Describes
<1>4. \A m \in Names : Lives(ds, op, 2, kinds, Len(t) + 1, m) = {}
  <2>1. Len(t) + 1 \in Nat /\ Len(t) + 1 # 1  OBVIOUS
  <2>2. QED  BY <1>1, <2>1 DEF Lives
<1>5. QED  BY <1>3, <1>4, TellsPushed

(* The step to the next module. *)
LEMMA EndModuleKeeps ==
  ASSUME IInv, EndModule
  PROVE  IInv'
<1> DEFINE N == Len(decls)
<1>1. /\ refused = "no" /\ inBody /\ open = <<>> /\ ~InMain
      /\ at' = at + 1 /\ inBody' = FALSE /\ returns' = returns \ {0}
      /\ semaScopes' = <<ImportScope(Order[at + 1])>>
      /\ at + 1 = Len(Order) => irScopes' = push(irScopes) /\ symScopes' = push(symScopes)
      /\ at + 1 # Len(Order) => irScopes' = irScopes /\ symScopes' = symScopes
      /\ imports' = imports /\ decls' = decls /\ open' = open /\ refused' = refused
      /\ funcHasReturn' = funcHasReturn /\ constants' = constants /\ moved' = moved
      /\ curFunc' = curFunc /\ epilogue' = epilogue /\ inGlobalScope' = inGlobalScope
  BY DEF EndModule
<1>2. /\ N \in Nat /\ at \in 1..Len(Order) /\ Len(Order) \in Nat /\ at < Len(Order)
      /\ at + 1 \in 1..Len(Order) /\ Len(open) = 0 /\ at + 1 # 1
  <2>1. N \in Nat /\ at \in 1..Len(Order) /\ Len(Order) \in Nat /\ Len(open) = 0
    BY <1>1, Standing
  <2>2. at # Len(Order)  BY <1>1 DEF InMain
  <2>3. QED  BY <2>1, <2>2
<1>3. Order[at + 1] \in Modules  BY <1>2 DEF Modules
<1>4. Base = 1 /\ Len(irScopes) = 1 /\ Len(symScopes) = 1
      /\ irScopes \in Seq(TablesTo(N)) /\ symScopes \in Seq(TablesTo(N))
  <2>1. Base = 1  BY <1>1 DEF Base
  <2>2. Len(irScopes) = Base + Len(open) /\ Len(symScopes) = Len(irScopes)
    BY <1>1, Tables
  <2>3. irScopes \in Seq(TablesTo(N)) /\ symScopes \in Seq(TablesTo(N))  BY Tables
  <2>4. QED  BY <1>2, <2>1, <2>2, <2>3
<1>5. /\ Base' = (IF at + 1 = Len(Order) THEN 2 ELSE 1)
      /\ ~TakenNow' /\ ~TakenNow /\ Ids' = Ids
  BY <1>1, <1>2 DEF Base, InMain, TakenNow, Ids
<1>6. \A i \in 1..N : decls[i].mod # Main  BY <1>2, MainLast
<1>7. /\ semaScopes' \in Seq(TablesTo(N)) /\ Len(semaScopes') = 1
      /\ \A k \in Names : semaScopes'[1][k] = NoSymbol
      /\ \A k \in Modules :
           semaScopes'[1][k] = IF k \in imports[Order[at + 1]] THEN Import ELSE NoSymbol
  BY <1>1, <1>2, <1>3, ImportsEntered DEF IInv, Shape
<1>8. ASSUME NEW kinds, NEW procs \in BOOLEAN, NEW t \in Seq(TablesTo(N)), Len(t) = 1,
             Tells(t, decls, open, 1, kinds, procs),
             NEW t2, t2 = IF at + 1 = Len(Order) THEN push(t) ELSE t
      PROVE  /\ t2 \in Seq(TablesTo(N)) /\ Len(t2) = Base'
             /\ Tells(t2, decls, open, Base', kinds, procs)
  <2>1. CASE at + 1 = Len(Order)
    <3>1. Tells(push(t), decls, open, 2, kinds, procs)  BY <1>2, <1>6, <1>8, MainOpens
    <3>2. push(t) \in Seq(TablesTo(N)) /\ Len(push(t)) = Len(t) + 1
      BY <1>2, <1>8, PushGives, Zenon
    <3>3. Base' = 2 /\ t2 = push(t)  BY <1>5, <1>8, <2>1
    <3>0. Len(t) = 1  BY <1>8, Zenon
    <3>4. t2 \in Seq(TablesTo(N)) /\ Len(t2) = Base'  BY <3>0, <3>2, <3>3
    <3>5. Tells(t2, decls, open, Base', kinds, procs)  BY <3>1, <3>3, Zenon
    <3>6. QED  BY <3>4, <3>5
  <2>2. CASE at + 1 # Len(Order)
    <3>1. Base' = 1 /\ t2 = t  BY <1>5, <1>8, <2>2
    <3>2. QED  BY <1>8, <3>1
  <2>3. QED  BY <2>1, <2>2
<1>9. /\ irScopes' \in Seq(TablesTo(N)) /\ Len(irScopes') = Base'
      /\ Tells(irScopes', decls, open, Base', Stored, TRUE)
  <2>1. Tells(irScopes, decls, open, 1, Stored, TRUE)  BY <1>4 DEF IInv, BuilderOK
  <2>2. irScopes' = IF at + 1 = Len(Order) THEN push(irScopes) ELSE irScopes  BY <1>1
  <2>3. QED  BY <1>4, <1>8, <2>1, <2>2
<1>10. /\ symScopes' \in Seq(TablesTo(N)) /\ Len(symScopes') = Base'
       /\ Tells(symScopes', decls, open, Base', AnyKind, FALSE)
  <2>1. Tells(symScopes, decls, open, 1, AnyKind, FALSE)  BY <1>4 DEF IInv, DirectOK
  <2>2. symScopes' = IF at + 1 = Len(Order) THEN push(symScopes) ELSE symScopes  BY <1>1
  <2>3. QED  BY <1>4, <1>8, <2>1, <2>2
<1>11. BuilderOK' /\ DirectOK'  BY <1>1, <1>9, <1>10 DEF BuilderOK, DirectOK
<1>12. Shape'
  <2>1. returns' \subseteq 0..N  BY <1>1 DEF IInv, Shape
  <2>2. QED  BY <1>1, <1>2, <1>7, <1>9, <1>10, <2>1 DEF IInv, Shape
<1>13. DeclsNow' /\ ConstantsOK'
  <2>1. ASSUME NEW i \in 1..N  PROVE DeclOK(decls, at + 1, i)
    <3>1. DeclOK(decls, at, i)  BY DEF IInv, DeclsNow, DeclsOK
    <3>2. 1..at \subseteq 1..(at + 1)  BY <1>2
    <3>3. QED  BY <3>1, <3>2 DEF DeclOK
  <2>2. QED  BY <1>1, <2>1 DEF IInv, DeclsNow, DeclsOK, ConstantsOK
<1>14. VisitsNow'  BY <1>1, <1>2 DEF VisitsNow, VisitsOK
<1>15. Lengths'  BY <1>1, <1>2, <1>5, <1>7, <1>9, <1>10 DEF Lengths
<1>16. AtHand'  BY <1>1, <1>2, <1>5 DEF AtHand
<1>17. GlobalOK'
  <2>1. inGlobalScope  BY <1>1, <1>5 DEF IInv, GlobalOK
  <2>2. \A k \in 1..Len(open') : FALSE  BY <1>1, <1>2
  <2>3. QED  BY <1>1, <1>5, <2>1, <2>2 DEF GlobalOK
<1>18. ReturnsOK'
  <2>1. NoReturn' <=> NoReturn
    <3>1. \A i \in 1..N : i \in returns' <=> i \in returns  BY <1>1, <1>2
    <3>2. QED  BY <1>1, <1>5, <3>1 DEF NoReturn
  <2>2. QED  BY <1>1, <1>2, <2>1 DEF IInv, ReturnsOK
<1>19. SemaOK'
  <2>1. SemaOK /\ (Twice' <=> Twice)  BY <1>1 DEF IInv, Twice
  <2>2. SemaDescribes(semaScopes', decls, open, Order[at + 1], imports[Order[at + 1]])
    <3>1. \A n : SemaLives(decls, open, Order[at + 1], 1, n) = {}
      <4>1. \A i \in 1..N : decls[i].mod # Order[at + 1]
        <5> SUFFICES ASSUME NEW i \in 1..N  PROVE decls[i].mod # Order[at + 1]  OBVIOUS
        <5>1. PICK a \in 1..at : decls[i].mod = Order[a]
          BY DEF IInv, DeclsNow, DeclsOK, DeclOK
        <5>2. a \in 1..Len(Order) /\ a # at + 1  BY <1>2
        <5>3. QED  BY <1>2, <5>1, <5>2, OrderAssumption
      <4>2. QED  BY <4>1 DEF SemaLives
    <3>2. NoSymbol.id = 0 /\ NoSymbol.global = FALSE  BY DEF NoSymbol
    <3>3. ASSUME NEW l \in 1..Len(semaScopes')
          PROVE  /\ \A n \in Names :
                      /\ Latest(semaScopes'[l][n].id,
                                SemaLives(decls, open, Order[at + 1], l, n))
                      /\ semaScopes'[l][n].global = FALSE
                 /\ \A k \in Modules :
                      semaScopes'[l][k] = IF l = 1 /\ k \in imports[Order[at + 1]]
                                          THEN Import ELSE NoSymbol
      <4>1. l = 1  BY <1>7, <3>3
      <4>2. \A k \in Modules :
              semaScopes'[l][k] = IF l = 1 /\ k \in imports[Order[at + 1]]
                                  THEN Import ELSE NoSymbol
        BY <1>7, <4>1
      <4>3. \A n \in Names : /\ Latest(semaScopes'[l][n].id,
                                       SemaLives(decls, open, Order[at + 1], l, n))
                             /\ semaScopes'[l][n].global = FALSE
        BY <1>7, <3>1, <3>2, <4>1 DEF Latest
      <4>4. QED  BY <4>2, <4>3
    <3>4. QED  BY <3>3, Zenon DEF SemaDescribes
  <2>3. QED  BY <1>1, <2>1, <2>2 DEF SemaOK
<1>20. QED
  BY <1>11, <1>12, <1>13, <1>14, <1>15, <1>16, <1>17, <1>18, <1>19 DEF IInv

(* The invariant holds at first, *)
LEMMA InitInv == Init => IInv
<1> SUFFICES ASSUME Init  PROVE IInv  OBVIOUS
<1>1. /\ at = 1 /\ imports \in ImportLists /\ decls = <<>> /\ open = <<>> /\ inBody = FALSE
      /\ returns = {} /\ refused = "no" /\ semaScopes = <<ImportScope(Order[1])>>
      /\ funcHasReturn = FALSE /\ irScopes = <<Scope>> /\ constants = [n \in Names |-> 0]
      /\ moved = 0 /\ curFunc = NoFunction /\ symScopes = <<Scope>> /\ epilogue = 0
      /\ inGlobalScope = TRUE
  BY DEF Init
<1>2. Len(decls) = 0 /\ Len(open) = 0 /\ Base = 1 /\ ~TakenNow
  BY <1>1 DEF Base, TakenNow
<1>3. at \in 1..Len(Order) /\ Order[1] \in Modules
  <2>1. Len(Order) \in Nat \ {0}  BY OrderAssumption, EmptySeq, LenProperties
  <2>2. QED  BY <1>1, <2>1 DEF Modules
<1>4. /\ semaScopes \in Seq(TablesTo(0)) /\ Len(semaScopes) = 1
      /\ \A k \in Names : semaScopes[1][k] = NoSymbol
      /\ \A k \in Modules :
           semaScopes[1][k] = IF k \in imports[Order[1]] THEN Import ELSE NoSymbol
  BY <1>1, <1>3, ImportsEntered
<1>5. NoSymbol.id = 0 /\ NoSymbol.global = FALSE  BY DEF NoSymbol
<1>6. /\ irScopes \in Seq(TablesTo(0)) /\ symScopes \in Seq(TablesTo(0))
      /\ Len(irScopes) = 1 /\ Len(symScopes) = 1
      /\ irScopes[1] = Scope /\ symScopes[1] = Scope
      /\ \A k \in Keys : Scope[k] = NoSymbol
  <2>1. Scope \in TablesTo(0)  BY DEF Scope, NoSymbol, TablesTo, SymbolsTo
  <2>2. \A k \in Keys : Scope[k] = NoSymbol  BY DEF Scope
  <2>3. QED  BY <1>1, <2>1, <2>2
<1>7. Shape
  <2>1. decls \in Seq(DeclType) /\ Len(decls) <= MaxDecls  BY <1>1, <1>2, BoundAssumption
  <2>2. open \in Seq(VisitsTo(0))  BY <1>1
  <2>3. curFunc \in FuncsTo(0)  BY <1>1 DEF NoFunction, FuncsTo
  <2>4. constants \in [Names -> 0..0] /\ returns \subseteq 0..0 /\ epilogue \in 0..0
    BY <1>1
  <2>5. QED  BY <1>1, <1>2, <1>3, <1>4, <1>6, <2>1, <2>2, <2>3, <2>4 DEF Shape
<1>8. DeclsNow /\ VisitsNow  BY <1>2 DEF DeclsNow, DeclsOK, VisitsNow, VisitsOK
<1>9. Lengths  BY <1>2, <1>4, <1>6 DEF Lengths
<1>10. AtHand /\ GlobalOK  BY <1>1, <1>2 DEF AtHand, GlobalOK
<1>11. ReturnsOK
  <2>1. ~NoReturn  BY <1>2 DEF NoReturn
  <2>2. QED  BY <1>1, <1>2, <2>1 DEF ReturnsOK
<1>12. SemaOK
  <2>1. ~Twice  BY <1>2 DEF Twice
  <2>2. \A l, n : SemaLives(decls, open, Order[1], l, n) = {}  BY <1>2 DEF SemaLives
  <2>3. ASSUME NEW l \in 1..Len(semaScopes)
        PROVE  /\ \A n \in Names :
                    /\ Latest(semaScopes[l][n].id, SemaLives(decls, open, Order[1], l, n))
                    /\ semaScopes[l][n].global = FALSE
               /\ \A k \in Modules :
                    semaScopes[l][k] = IF l = 1 /\ k \in imports[Order[1]]
                                       THEN Import ELSE NoSymbol
    <3>1. l = 1  BY <1>4
    <3>2. \A k \in Modules :
            semaScopes[l][k] = IF l = 1 /\ k \in imports[Order[1]] THEN Import ELSE NoSymbol
      BY <1>4, <3>1
    <3>3. \A n \in Names :
            /\ Latest(semaScopes[l][n].id, SemaLives(decls, open, Order[1], l, n))
            /\ semaScopes[l][n].global = FALSE
      BY <1>4, <1>5, <2>2, <3>1 DEF Latest
    <3>4. QED  BY <3>2, <3>3
  <2>4. SemaDescribes(semaScopes, decls, open, Order[1], imports[Order[1]])
    BY <2>3, Zenon DEF SemaDescribes
  <2>5. QED  BY <1>1, <2>1, <2>4 DEF SemaOK
<1>13. ASSUME NEW kinds, NEW procs \in BOOLEAN, NEW t, Len(t) = 1, t[1] = Scope
       PROVE  Tells(t, decls, open, Base, kinds, procs)
  <2>1. \A l, n : Lives(decls, open, Base, kinds, l, n) = {}  BY <1>2 DEF Lives
  <2>2. \A l \in 1..Len(t), k \in Keys : t[l][k] = NoSymbol  BY <1>6, <1>13
  <2>3. Describes(t, decls, open, Base, kinds)
    BY <1>5, <2>1, <2>2 DEF Describes, Latest, Keys
  <2>4. Marks(t, decls, procs)  BY <1>5, <2>2 DEF Marks, GlobalOf, Keys
  <2>5. QED  BY <2>3, <2>4 DEF Tells
<1>14. BuilderOK /\ DirectOK  BY <1>6, <1>13 DEF BuilderOK, DirectOK
<1>15. ConstantsOK
  <2>1. \A n : ConstsNamed(decls, n) = {}  BY <1>2 DEF ConstsNamed
  <2>2. QED  BY <1>1, <2>1 DEF ConstantsOK, Latest
<1>16. QED  BY <1>7, <1>8, <1>9, <1>10, <1>11, <1>12, <1>14, <1>15 DEF IInv

(* is kept by a step that changes nothing, *)
LEMMA StuttersKeep ==
  ASSUME IInv, UNCHANGED vars
  PROVE  IInv'
<1>1. /\ at' = at /\ imports' = imports /\ decls' = decls /\ open' = open /\ inBody' = inBody
      /\ returns' = returns /\ refused' = refused /\ semaScopes' = semaScopes
      /\ funcHasReturn' = funcHasReturn /\ irScopes' = irScopes /\ constants' = constants
      /\ moved' = moved /\ curFunc' = curFunc /\ symScopes' = symScopes
      /\ epilogue' = epilogue /\ inGlobalScope' = inGlobalScope
  BY DEF vars
<1>2. /\ TakenNow' = TakenNow /\ Base' = Base /\ Owner' = Owner /\ Ids' = Ids
      /\ InMain' = InMain /\ Twice' = Twice
  BY <1>1 DEF TakenNow, Current, Base, InMain, Owner, Ids, Twice
<1>3. NoReturn' = NoReturn  BY <1>1, <1>2 DEF NoReturn
<1>4. Shape' /\ DeclsNow' /\ VisitsNow' /\ Lengths' /\ AtHand' /\ ConstantsOK' /\ ReturnsOK'
  BY <1>1, <1>2, <1>3
     DEF IInv, Shape, DeclsNow, VisitsNow, Lengths, AtHand, ConstantsOK, ReturnsOK
<1>5. GlobalOK'
  <2>1. GlobalOK  BY DEF IInv
  <2>2. QED  BY <1>1, <1>2, <2>1, Zenon DEF GlobalOK
<1>6. SemaOK' /\ BuilderOK' /\ DirectOK'
  BY <1>1, <1>2 DEF IInv, SemaOK, BuilderOK, DirectOK
<1>7. QED  BY <1>4, <1>5, <1>6 DEF IInv

(* and by every other. *)
LEMMA StepKeeps == IInv /\ [Next]_vars => IInv'
<1> SUFFICES ASSUME IInv, [Next]_vars  PROVE IInv'  OBVIOUS
<1>1. MayExport \in BOOLEAN  BY DEF MayExport
<1>2. ASSUME NEW n \in Names, NEW e \in {FALSE, MayExport}, ConstDecl(n, e)  PROVE IInv'
  BY <1>1, <1>2, ConstDeclKeeps
<1>3. ASSUME NEW n \in Names, NEW e \in {FALSE, MayExport}, VarDecl(n, e)  PROVE IInv'
  BY <1>1, <1>3, VarDeclKeeps
<1>4. ASSUME NEW n \in Names, NEW e \in {FALSE, MayExport}, NEW sig \in Signatures,
             BeginProc(n, e, sig.function, sig.param)
      PROVE  IInv'
  <2>1. sig.function \in BOOLEAN /\ sig.param \in ParamLists  BY SignaturesAssumption
  <2>2. e \in BOOLEAN  BY <1>1
  <2>3. QED  BY <1>4, <2>1, <2>2, BeginProcKeeps
<1>5. CASE BeginBody  BY <1>5, BeginBodyKeeps
<1>6. CASE ReturnStmt  BY <1>6, ReturnStmtKeeps
<1>7. CASE EndProc  BY <1>7, EndProcKeeps
<1>8. CASE EndModule  BY <1>8, EndModuleKeeps
<1>9. CASE UNCHANGED vars  BY <1>9, StuttersKeep
<1>10. QED  BY <1>2, <1>3, <1>4, <1>5, <1>6, <1>7, <1>8, <1>9 DEF Next

(* The invariant holds of every program and at every point of its visit. *)
THEOREM Invariance == Spec => []IInv
<1>1. Init => IInv  BY InitInv
<1>2. IInv /\ [Next]_vars => IInv'  BY StepKeeps
<1>3. QED  BY <1>1, <1>2, PTL DEF Spec

(* Every variable has its type, whatever the program: no table, no visit   *)
(* and no constant refers to a declaration that is not there.              *)
THEOREM TypeSafety == Spec => []TypeOK
<1>1. IInv => TypeOK
  <2> SUFFICES ASSUME IInv  PROVE TypeOK  OBVIOUS
  <2>1. Shape /\ DeclsNow  BY DEF IInv
  <2>2. Len(decls) \in Nat /\ open \in Seq(VisitsTo(Len(decls)))  BY <2>1 DEF Shape
  <2>3. ASSUME NEW i \in 1..Len(decls)
        PROVE  /\ decls[i].kind \in AnyKind /\ decls[i].name \in Names
               /\ decls[i].mod \in Modules
               /\ decls[i].owner \in 0..(i - 1) /\ decls[i].params \in {0, 1}
               /\ \A b \in {decls[i].exported, decls[i].taken, decls[i].function,
                            decls[i].isVar} : b \in BOOLEAN
    <3>1. decls[i].owner < i  BY <2>1 DEF DeclsNow, DeclsOK, DeclOK
    <3>2. decls \in Seq(DeclType)  BY <2>1 DEF Shape
    <3>3. /\ decls[i].kind \in AnyKind /\ decls[i].name \in Names
          /\ decls[i].mod \in Modules /\ decls[i].owner \in Nat /\ decls[i].params \in {0, 1}
          /\ decls[i].exported \in BOOLEAN /\ decls[i].taken \in BOOLEAN
          /\ decls[i].function \in BOOLEAN /\ decls[i].isVar \in BOOLEAN
      BY <3>2, DeclFields
    <3>4. decls[i].owner \in 0..(i - 1)  BY <3>1, <3>3
    <3>5. QED  BY <3>3, <3>4, Zenon
  <2>4. Ids \subseteq 1..Len(decls)
    <3>1. \A k \in 1..Len(open) : open[k].id \in 1..Len(decls)  BY <2>2, VisitFields
    <3>2. QED  BY <3>1 DEF Ids
  <2>5. \A s \in {semaScopes, irScopes, symScopes} :
          s \in Seq([Keys -> [id : -1..Len(decls), global : BOOLEAN]])
    BY <2>1 DEF Shape, TablesTo, SymbolsTo
  <2>6. {inBody, funcHasReturn, inGlobalScope} \subseteq BOOLEAN  BY <2>1 DEF Shape
  <2>7. QED
    BY <2>1, <2>3, <2>4, <2>5, <2>6 DEF TypeOK, Shape, FuncsTo
<1>2. QED  BY <1>1, Invariance, PTL

(* Statements are generated into the function of their own procedure and a *)
(* RETURN jumps to its epilogue, however deep procedures are nested: what  *)
(* EndProc puts back is what was put aside (IRBuilder.cpp and              *)
(* RiscVCodeGen.cpp, visit of ProcDecl).                                   *)
THEOREM FunctionAtHandHolds == Spec => []FunctionAtHand
<1>1. IInv => FunctionAtHand
  <2> SUFFICES ASSUME IInv, Generating  PROVE /\ curFunc.fn = Owner
                                              /\ open # <<>> => epilogue = Owner
                                              /\ \/ Owner = 0 \/ curFunc.moved = moved
                                                 \/ HasInner(decls, Owner)
    BY DEF FunctionAtHand, HasInner
  <2>1. CASE open = <<>>
    <3>1. inBody /\ InMain  BY <2>1 DEF Generating
    <3>2. curFunc.fn = 0  BY <2>1, <3>1 DEF IInv, AtHand
    <3>3. QED  BY <2>1, <3>2 DEF Owner
  <2>2. CASE open # <<>>
    <3>1. inBody /\ TakenNow  BY <2>2 DEF Generating, TakenNow
    <3>2. QED  BY <3>1 DEF IInv, AtHand
  <2>3. QED  BY <2>1, <2>2
<1>2. QED  BY <1>1, Invariance, PTL

-----------------------------------------------------------------------------
(* The level of what is declared in the k-th visit is k. *)
LEMMA LevelIs ==
  ASSUME IInv, NEW i \in 1..Len(decls), NEW k \in 0..Len(open),
         decls[i].owner = OwnerAt(open, k)
  PROVE  Level(decls[i]) = k
<1>1. open \in Seq(VisitsTo(Len(decls))) /\ Len(decls) \in Nat /\ Len(open) \in Nat
      /\ IdsRise(open)
  BY Standing DEF IInv, Shape
<1>2. \A j \in 1..Len(open) : open[j].id # 0  BY <1>1, VisitFields
<1>3. CASE k = 0  BY <1>3 DEF OwnerAt, Level
<1>4. CASE k # 0
  <2>1. k \in 1..Len(open) /\ decls[i].owner = open[k].id  BY <1>1, <1>4 DEF OwnerAt
  <2>2. decls[i].owner # 0  BY <1>2, <2>1
  <2>3. ASSUME NEW j \in 1..Len(open), open[j].id = decls[i].owner  PROVE j = k
    <3>1. OwnerAt(open, j) = OwnerAt(open, k)  BY <1>1, <1>4, <2>1, <2>3 DEF OwnerAt
    <3>2. j \in 0..Len(open)  BY <1>1
    <3>3. QED  BY <1>1, <3>1, <3>2, OwnersDiffer
  <2>4. (CHOOSE j \in 1..Len(open) : open[j].id = decls[i].owner) = k  BY <2>1, <2>3
  <2>5. QED  BY <2>2, <2>4 DEF Level
<1>5. QED  BY <1>3, <1>4

(* Every scope around is that of a visit under way or of the module, *)
LEMMA Around ==
  ASSUME IInv, NEW o, o \in {0} \cup Ids
  PROVE  \E k \in 0..Len(open) : o = OwnerAt(open, k)
<1>1. Len(open) \in Nat  BY Standing
<1>2. CASE o = 0  BY <1>1, <1>2 DEF OwnerAt
<1>3. CASE o # 0
  <2>1. PICK k \in 1..Len(open) : o = open[k].id  BY <1>3 DEF Ids
  <2>2. k \in 0..Len(open) /\ o = OwnerAt(open, k)  BY <1>1, <2>1 DEF OwnerAt
  <2>3. QED  BY <2>2
<1>4. QED  BY <1>2, <1>3

(* and the other way round. *)
LEMMA AtIsAround ==
  ASSUME IInv, NEW k \in 0..Len(open)
  PROVE  OwnerAt(open, k) \in {0} \cup Ids
<1>1. Len(open) \in Nat  BY Standing
<1>2. CASE k = 0  BY <1>2 DEF OwnerAt
<1>3. CASE k # 0
  <2>1. k \in 1..Len(open)  BY <1>1, <1>3
  <2>2. QED  BY <1>3, <2>1 DEF OwnerAt, Ids
<1>4. QED  BY <1>2, <1>3

(* What is visible lives in one of Sema's tables. *)
LEMMA VisibleAt ==
  ASSUME IInv, NEW n, NEW i \in Visible(n)
  PROVE  \E k \in 0..Len(open) : /\ i \in SemaLives(decls, open, Order[at], k + 1, n)
                                 /\ decls[i].owner = OwnerAt(open, k)
<1>1. Len(open) \in Nat  BY Standing
<1>2. /\ i \in 1..Len(decls) /\ decls[i].name = n /\ decls[i].mod = Order[at]
      /\ decls[i].owner \in {0} \cup Ids
  BY DEF Visible
<1>3. PICK k \in 0..Len(open) : decls[i].owner = OwnerAt(open, k)  BY <1>2, Around
<1>4. (k + 1) - 1 = k  BY <1>1
<1>5. i \in SemaLives(decls, open, Order[at], k + 1, n)  BY <1>2, <1>3, <1>4 DEF SemaLives
<1>6. QED  BY <1>3, <1>5

(* Sema finds the innermost declaration visible, or there is none. *)
LEMMA OwnIs ==
  ASSUME IInv, refused = "no", NEW n \in Names
  PROVE  \/ lookup(semaScopes, n) = NoSymbol /\ Own(n) = 0
         \/ /\ lookup(semaScopes, n) # NoSymbol /\ lookup(semaScopes, n).id = Own(n)
            /\ Own(n) \in Visible(n)
<1> DEFINE Here(l) == SemaLives(decls, open, Order[at], l, n)
<1>1. /\ SemaDescribes(semaScopes, decls, open, Order[at], imports[Order[at]]) /\ ~Twice
      /\ refused # "duplicate"
  BY DEF IInv, SemaOK
<1>2. /\ semaScopes \in Seq(TablesTo(Len(decls))) /\ Len(semaScopes) = Len(open) + 1
      /\ Len(open) \in Nat /\ Len(decls) \in Nat
  BY Tables, Standing
<1>3. \A l \in 1..Len(semaScopes) : /\ Latest(semaScopes[l][n].id, Here(l))
                                    /\ semaScopes[l][n].global = FALSE
  BY <1>1 DEF SemaDescribes
<1>4. n \in Keys  BY DEF Keys
<1>5. ASSUME NEW l \in 1..Len(semaScopes)
      PROVE  /\ semaScopes[l][n] # NoSymbol <=> Here(l) # {}
             /\ semaScopes[l][n] # NoSymbol => semaScopes[l][n].id \in Here(l)
  <2>1. semaScopes[l][n] \in SymbolsTo(Len(decls))
    <3>1. semaScopes[l] \in TablesTo(Len(decls))  BY <1>2, ElementsHave
    <3>2. QED  BY <1>4, <3>1 DEF TablesTo
  <2>2. semaScopes[l][n] = NoSymbol <=> semaScopes[l][n].id = 0
    BY <1>3, <2>1, NoSymbolFields
  <2>3. \A i \in Here(l) : i # 0  BY DEF SemaLives
  <2>4. QED  BY <1>3, <2>2, <2>3 DEF Latest
<1>6. ASSUME \A l \in 1..Len(semaScopes) : semaScopes[l][n] = NoSymbol
      PROVE  Own(n) = 0
  <2>1. ASSUME NEW i \in Visible(n)  PROVE FALSE
    <3>1. PICK k \in 0..Len(open) : i \in Here(k + 1)  BY VisibleAt
    <3>2. k + 1 \in 1..Len(semaScopes)  BY <1>2
    <3>3. QED  BY <1>5, <1>6, <3>1, <3>2
  <2>2. QED  BY <2>1 DEF Own
<1>7. ASSUME NEW l \in 1..Len(semaScopes), semaScopes[l][n] # NoSymbol,
             \A j \in 1..Len(semaScopes) : semaScopes[j][n] # NoSymbol => j <= l
      PROVE  Own(n) = semaScopes[l][n].id /\ Own(n) \in Visible(n)
  <2> DEFINE f == semaScopes[l][n].id
  <2>1. f \in Here(l)  BY <1>5, <1>7
  <2>2. /\ f \in 1..Len(decls) /\ decls[f].name = n /\ decls[f].mod = Order[at]
        /\ decls[f].owner = OwnerAt(open, l - 1)
    BY <2>1 DEF SemaLives
  <2>3. l - 1 \in 0..Len(open)  BY <1>2
  <2> HIDE DEF f
  <2>4. Level(decls[f]) = l - 1  BY <2>2, <2>3, LevelIs
  <2>5. f \in Visible(n)
    <3>1. decls[f].owner \in {0} \cup Ids  BY <2>2, <2>3, AtIsAround
    <3>2. QED  BY <2>2, <3>1 DEF Visible
  <2>6. ASSUME NEW i \in Visible(n)
        PROVE  Level(decls[i]) <= Level(decls[f]) /\ (i # f => Level(decls[i]) # Level(decls[f]))
    <3>1. PICK k \in 0..Len(open) : i \in Here(k + 1) /\ decls[i].owner = OwnerAt(open, k)
      BY VisibleAt
    <3>2. i \in 1..Len(decls) /\ decls[i].name = n /\ decls[i].mod = Order[at]
      BY DEF Visible
    <3>3. Level(decls[i]) = k  BY <3>1, <3>2, LevelIs
    <3>4. k + 1 \in 1..Len(semaScopes)  BY <1>2
    <3>5. k + 1 <= l  BY <1>5, <1>7, <3>1, <3>4
    <3>6. ASSUME k = l - 1  PROVE i = f
      <4>1. decls[i].owner = decls[f].owner  BY <2>2, <3>1, <3>6
      <4>2. QED  BY <1>1, <2>2, <3>2, <4>1 DEF Twice
    <3>7. QED  BY <1>2, <2>4, <3>3, <3>5, <3>6
  <2>7. \A i \in Visible(n) : Level(decls[i]) \in Int
    <3> SUFFICES ASSUME NEW i \in Visible(n)  PROVE Level(decls[i]) \in Int  OBVIOUS
    <3>1. PICK k \in 0..Len(open) : decls[i].owner = OwnerAt(open, k)  BY VisibleAt
    <3>2. i \in 1..Len(decls)  BY DEF Visible
    <3>3. QED  BY <3>1, <3>2, LevelIs
  <2>8. ASSUME NEW i \in Visible(n), \A j \in Visible(n) : Level(decls[j]) <= Level(decls[i])
        PROVE  i = f
    BY <2>5, <2>6, <2>7, <2>8
  <2>9. Innermost(Visible(n)) = f  BY <2>5, <2>6, <2>8 DEF Innermost
  <2>10. Own(n) = f
    <3>1. Visible(n) # {}  BY <2>5
    <3>2. QED  BY <2>9, <3>1, Zenon DEF Own
  <2>11. f = semaScopes[l][n].id  BY DEF f
  <2>12. QED  BY <2>5, <2>10, <2>11, Zenon
<1>8. CASE \A l \in 1..Len(semaScopes) : semaScopes[l][n] = NoSymbol
  <2>1. lookup(semaScopes, n) = NoSymbol
    <3>1. Len(semaScopes) \in Nat  BY <1>2
    <3>2. QED  BY <1>8, <3>1, LookupCases, Zenon
  <2>2. QED  BY <1>6, <1>8, <2>1
<1>9. ASSUME NEW l \in 1..Len(semaScopes), semaScopes[l][n] # NoSymbol,
             \A j \in 1..Len(semaScopes) : semaScopes[j][n] # NoSymbol => j <= l,
             lookup(semaScopes, n) = semaScopes[l][n]
      PROVE  /\ lookup(semaScopes, n) # NoSymbol /\ lookup(semaScopes, n).id = Own(n)
             /\ Own(n) \in Visible(n)
  BY <1>7, <1>9, Zenon
<1>10. QED
  <2>1. Len(semaScopes) \in Nat  BY <1>2
  <2>2. QED  BY <1>8, <1>9, <2>1, LookupCases, Zenon

(* It finds a module exactly when that one is imported. *)
LEMMA SemaQualifies ==
  ASSUME IInv, refused = "no", NEW m \in Modules
  PROVE  lookup(semaScopes, m) # NoSymbol <=> m \in imports[Order[at]]
<1>1. SemaDescribes(semaScopes, decls, open, Order[at], imports[Order[at]])
  BY DEF IInv, SemaOK
<1>2. Len(semaScopes) \in Nat /\ 1 \in 1..Len(semaScopes)  BY Tables, Standing
<1>3. \A l \in 1..Len(semaScopes) :
        semaScopes[l][m] = IF l = 1 /\ m \in imports[Order[at]] THEN Import ELSE NoSymbol
  BY <1>1 DEF SemaDescribes
<1>4. Import # NoSymbol  BY DEF Import, NoSymbol
<1>5. QED  BY <1>2, <1>3, <1>4, LookupCases

(* Sema refuses a program exactly when a scope declares a name twice or a  *)
(* function ends without a RETURN of its own, and looks names up as its    *)
(* documentation says, for programs of every size and nesting (Sema.cpp).  *)
THEOREM SemaJudges == Spec => []SemaExact
<1>1. IInv => SemaExact
  <2> SUFFICES ASSUME IInv  PROVE SemaExact  OBVIOUS
  <2> DEFINE own == [n \in Names |-> Own(n)]
             found(u) == CASE u.q = ""        -> own[u.n] # 0
                           [] u.q \in Names   -> own[u.q] # 0
                           [] u.q \in Modules -> u.q \in imports[Order[at]]
             kind(u) == KindOf(own[u.n])
  <2>1. refused = "duplicate" <=> Twice  BY DEF IInv, SemaOK
  <2>2. refused = "return" <=> NoReturn  BY DEF IInv, ReturnsOK
  <2>3. ASSUME refused = "no", NEW u \in Uses
        PROVE  /\ SemaFinds(u) <=> found(u)
               /\ SemaAssigns(u) <=> found(u) /\ kind(u) # "const"
               /\ \A args \in {0, 1} :
                    SemaCalls(u, args) <=>
                      found(u) /\ (kind(u) = "proc" => decls[own[u.n]].params = args)
    <3>1. u.q \in {""} \cup Names \cup Modules /\ u.n \in Names  BY DEF Uses, Keys
    <3>2. "" \notin Names /\ "" \notin Modules /\ Names \cap Modules = {}  BY KeysAssumption
    <3>3. SemaFinds(u) <=> found(u)
      <4>1. CASE u.q = ""
        <5>1. own[u.n] = Own(u.n)  BY <3>1
        <5>2. Own(u.n) # 0 <=> lookup(semaScopes, u.n) # NoSymbol
          <6>1. \A i \in Visible(u.n) : i # 0  BY DEF Visible
          <6>2. QED  BY <2>3, <3>1, <6>1, OwnIs
        <5>3. QED  BY <3>2, <4>1, <5>1, <5>2 DEF SemaFinds, Qualified
      <4>2. CASE u.q \in Names
        <5>1. own[u.q] = Own(u.q)  BY <4>2
        <5>2. Own(u.q) # 0 <=> lookup(semaScopes, u.q) # NoSymbol
          <6>1. \A i \in Visible(u.q) : i # 0  BY DEF Visible
          <6>2. QED  BY <2>3, <4>2, <6>1, OwnIs
        <5>3. u.q # "" /\ u.q \notin Modules  BY <3>2, <4>2
        <5>4. QED  BY <4>2, <5>1, <5>2, <5>3 DEF SemaFinds, Qualified
      <4>3. CASE u.q \in Modules
        <5>1. u.q # "" /\ u.q \notin Names  BY <3>2, <4>3
        <5>2. lookup(semaScopes, u.q) # NoSymbol <=> u.q \in imports[Order[at]]
          BY <2>3, <4>3, SemaQualifies
        <5>3. QED  BY <4>3, <5>1, <5>2 DEF SemaFinds, Qualified
      <4>4. QED  BY <3>1, <4>1, <4>2, <4>3
    <3> HIDE DEF found
    <3>4. own[u.n] = Own(u.n)  BY <3>1
    <3>5. \/ lookup(semaScopes, u.n) = NoSymbol /\ kind(u) = "none"
          \/ /\ lookup(semaScopes, u.n) # NoSymbol /\ lookup(semaScopes, u.n).id = own[u.n]
             /\ kind(u) = decls[own[u.n]].kind
      <4>1. \A i \in Visible(u.n) : i # 0  BY DEF Visible
      <4>2. QED  BY <2>3, <3>1, <3>4, <4>1, OwnIs DEF KindOf
    <3> HIDE DEF own, kind
    <3>6. SemaAssigns(u) <=> found(u) /\ kind(u) # "const"  BY <3>3, <3>5 DEF SemaAssigns
    <3>7. ASSUME NEW args \in {0, 1}
          PROVE  SemaCalls(u, args) <=>
                   found(u) /\ (kind(u) = "proc" => decls[own[u.n]].params = args)
      BY <3>3, <3>5 DEF SemaCalls
    <3>8. QED  BY <3>3, <3>6, <3>7
  <2>4. refused = "no" /\ inBody =>
          \A u \in Uses :
            /\ SemaFinds(u) <=> found(u)
            /\ SemaAssigns(u) <=> found(u) /\ kind(u) # "const"
            /\ \A args \in {0, 1} :
                 SemaCalls(u, args) <=>
                   found(u) /\ (kind(u) = "proc" => decls[own[u.n]].params = args)
    BY <2>3
  <2>5. QED  BY <2>1, <2>2, <2>4, Zenon DEF SemaExact
<1>2. QED  BY <1>1, Invariance, PTL

-----------------------------------------------------------------------------
(* Where code is generated there is a table for every visit. *)
LEMMA GeneratingHas ==
  ASSUME IInv, Generating
  PROVE  /\ refused = "no" /\ inBody
         /\ irScopes \in Seq(TablesTo(Len(decls))) /\ Len(irScopes) = Base + Len(open)
         /\ symScopes \in Seq(TablesTo(Len(decls))) /\ Len(symScopes) = Base + Len(open)
<1>1. open = <<>> \/ TakenNow  BY DEF Generating, TakenNow
<1>2. Len(irScopes) = Base + Len(open)  BY <1>1, Tables
<1>3. QED  BY <1>2, Tables DEF Generating

(* What is in scope has its place in the generators' tables, *)
LEMMA ScopeIsAt ==
  ASSUME IInv, NEW i \in InScope
  PROVE  \E l \in 1..(Base + Len(open)) : IsAt(decls, open, Base, i, l)
<1>1. Len(open) \in Nat /\ Base \in {1, 2}  BY Standing, MainLast
<1>2. i \in 1..Len(decls) /\ decls[i].owner \in {0} \cup Ids  BY DEF InScope
<1>3. PICK k \in 0..Len(open) : decls[i].owner = OwnerAt(open, k)  BY <1>2, Around
<1>4. CASE decls[i].owner = 0
  <2>1. IsAt(decls, open, Base, i, IF decls[i].mod = Main THEN Base ELSE 1)
    BY <1>4 DEF IsAt
  <2>2. (IF decls[i].mod = Main THEN Base ELSE 1) \in 1..(Base + Len(open))  BY <1>1
  <2>3. QED  BY <2>1, <2>2
<1>5. CASE decls[i].owner # 0
  <2>1. k \in 1..Len(open) /\ decls[i].owner = open[k].id  BY <1>1, <1>3, <1>5 DEF OwnerAt
  <2>2. (Base + k) - Base = k /\ Base + k \in 1..(Base + Len(open))  BY <1>1, <2>1
  <2>3. IsAt(decls, open, Base, i, Base + k)  BY <1>5, <2>1, <2>2 DEF IsAt
  <2>4. QED  BY <2>2, <2>3
<1>6. QED  BY <1>4, <1>5

(* and what has a place there is in scope. *)
LEMMA AtIsScope ==
  ASSUME IInv, NEW i \in 1..Len(decls), NEW l, IsAt(decls, open, Base, i, l)
  PROVE  i \in InScope
<1>1. CASE decls[i].owner = 0  BY <1>1 DEF InScope
<1>2. CASE decls[i].owner # 0
  <2>1. l - Base \in 1..Len(open) /\ decls[i].owner = open[l - Base].id  BY <1>2 DEF IsAt
  <2>2. QED  BY <2>1 DEF InScope, Ids
<1>3. QED  BY <1>1, <1>2

(* The depth of a declaration and the number of its table. *)
LEMMA DepthIs ==
  ASSUME IInv, NEW i \in 1..Len(decls), NEW l \in Nat, IsAt(decls, open, Base, i, l)
  PROVE  /\ Depth(i) \in Nat
         /\ Depth(i) = 0 <=> decls[i].owner = 0 /\ decls[i].mod # Main
         /\ Depth(i) = IF decls[i].owner # 0 THEN (l + 1) - Base
                       ELSE IF decls[i].mod = Main THEN 1 ELSE 0
         /\ l = IF Depth(i) = 0 THEN 1 ELSE (Depth(i) + Base) - 1
<1>1. Len(open) \in Nat /\ Base \in {1, 2}  BY Standing, MainLast
<1>2. CASE decls[i].owner = 0
  <2>1. l = IF decls[i].mod = Main THEN Base ELSE 1  BY <1>2 DEF IsAt
  <2>2. Depth(i) = IF decls[i].mod = Main THEN 1 ELSE 0  BY <1>2 DEF Depth
  <2>3. QED  BY <1>1, <1>2, <2>1, <2>2
<1>3. CASE decls[i].owner # 0
  <2>1. l - Base \in 1..Len(open) /\ decls[i].owner = open[l - Base].id  BY <1>3 DEF IsAt
  <2>2. l - Base # 0 /\ l - Base \in 0..Len(open)  BY <1>1, <2>1
  <2>3. decls[i].owner = OwnerAt(open, l - Base)  BY <2>1, <2>2 DEF OwnerAt
  <2>4. Level(decls[i]) = l - Base  BY <2>2, <2>3, LevelIs
  <2>5. Depth(i) = 1 + (l - Base)  BY <1>3, <2>4 DEF Depth
  <2>6. QED  BY <1>1, <1>3, <2>1, <2>5
<1>4. QED  BY <1>2, <1>3

(* One declaration is deeper than another when its table is higher. *)
LEMMA DepthOrder ==
  ASSUME IInv, NEW i \in 1..Len(decls), NEW j \in 1..Len(decls),
         NEW l \in Nat, IsAt(decls, open, Base, i, l),
         NEW m \in Nat, IsAt(decls, open, Base, j, m)
  PROVE  /\ Depth(i) > Depth(j) <=> l > m
         /\ Depth(i) = Depth(j) <=> l = m
<1>1. Base \in {1, 2}  BY MainLast
<1>2. /\ Depth(i) \in Nat /\ Depth(j) \in Nat
      /\ l = IF Depth(i) = 0 THEN 1 ELSE (Depth(i) + Base) - 1
      /\ m = IF Depth(j) = 0 THEN 1 ELSE (Depth(j) + Base) - 1
  BY DepthIs
<1>3. CASE Base = 2  BY <1>2, <1>3
<1>4. CASE Base = 1
  <2>1. ~(Depth(i) = 0 /\ Depth(j) = 1) /\ ~(Depth(i) = 1 /\ Depth(j) = 0)
    <3>1. CASE at < Len(Order)
      <4>1. decls[i].mod # Main /\ decls[j].mod # Main  BY <3>1, MainLast
      <4>2. Depth(i) # 1 /\ Depth(j) # 1
        <5>1. ASSUME NEW a \in 1..Len(decls), NEW b \in Nat, decls[a].mod # Main,
                     IsAt(decls, open, Base, a, b)
              PROVE  Depth(a) # 1
          <6>1. Len(open) \in Nat  BY Standing
          <6>2. CASE decls[a].owner = 0
            <7>1. Depth(a) = 0  BY <5>1, <6>2, DepthIs
            <7>2. QED  BY <7>1
          <6>3. CASE decls[a].owner # 0
            <7>1. b - Base \in 1..Len(open)  BY <5>1, <6>3 DEF IsAt
            <7>2. Depth(a) = (b + 1) - Base  BY <5>1, <6>3, DepthIs
            <7>3. QED  BY <1>4, <6>1, <7>1, <7>2
          <6>4. QED  BY <6>2, <6>3
        <5>2. QED  BY <4>1, <5>1
      <4>3. QED  BY <4>2
    <3>2. CASE ~(at < Len(Order))
      <4>1. at \in 1..Len(Order) /\ Len(Order) \in Nat  BY Standing
      <4>2. at = Len(Order)  BY <3>2, <4>1
      <4>3. at = 1  BY <1>4, <4>2 DEF Base, InMain
      <4>4. ASSUME NEW a \in 1..Len(decls)  PROVE decls[a].mod = Main
        <5>1. PICK c \in 1..at : decls[a].mod = Order[c]
          BY DEF IInv, DeclsNow, DeclsOK, DeclOK
        <5>2. c = Len(Order)  BY <4>2, <4>3, <5>1
        <5>3. QED  BY <5>1, <5>2 DEF Main
      <4>5. Depth(i) # 0 /\ Depth(j) # 0  BY <4>4, DepthIs
      <4>6. QED  BY <4>5
    <3>3. QED  BY <3>1, <3>2
  <2>2. QED  BY <1>2, <1>4, <2>1
<1>5. QED  BY <1>1, <1>3, <1>4

(* What the generators find: the declaration nothing taken stands in front *)
(* of, or none.                                                            *)
Found(kinds, procs, n, s) ==
  \/ s = NoSymbol /\ Taking(kinds, n) = {}
  \/ /\ s # NoSymbol /\ s.id \in Taking(kinds, n)
     /\ s.global = GlobalOf(decls, s.id, procs)
     /\ \A j \in Taking(kinds, n) : /\ j # s.id => s.id \in InFrontOf(j)
                                    /\ j \notin InFrontOf(s.id)

(* What a table is about is in scope and taken. *)
LEMMA TakingIs ==
  ASSUME IInv, NEW kinds, NEW n, NEW l \in Nat,
         NEW i \in Lives(decls, open, Base, kinds, l, n)
  PROVE  i \in Taking(kinds, n) /\ i \in 1..Len(decls) /\ IsAt(decls, open, Base, i, l)
<1>1. /\ i \in 1..Len(decls) /\ decls[i].taken /\ decls[i].kind \in kinds
      /\ decls[i].name = n /\ IsAt(decls, open, Base, i, l)
  BY DEF Lives
<1>2. i \in InScope  BY <1>1, AtIsScope
<1>3. QED  BY <1>1, <1>2 DEF Taking

(* lookup in a stack of tables that tells the declarations. *)
LEMMA LooksUp ==
  ASSUME IInv, NEW kinds, NEW procs \in BOOLEAN, NEW t, t \in Seq(TablesTo(Len(decls))),
         Len(t) = Base + Len(open), Tells(t, decls, open, Base, kinds, procs),
         NEW n \in Names
  PROVE  Found(kinds, procs, n, lookup(t, n))
<1> DEFINE Here(l) == Lives(decls, open, Base, kinds, l, n)
<1>1. Len(t) \in Nat /\ Len(decls) \in Nat /\ n \in Keys  BY Standing DEF Keys
<1>2. ASSUME NEW l \in 1..Len(t)
      PROVE  /\ Latest(t[l][n].id, Here(l))
             /\ t[l][n].global = GlobalOf(decls, t[l][n].id, procs)
             /\ t[l][n] # NoSymbol <=> Here(l) # {}
             /\ t[l][n] # NoSymbol => t[l][n].id \in Here(l)
  <2>1. t[l][n] \in SymbolsTo(Len(decls))
    <3>1. t[l] \in TablesTo(Len(decls))  BY ElementsHave
    <3>2. QED  BY <1>1, <3>1 DEF TablesTo
  <2>2. Latest(t[l][n].id, Here(l))  BY DEF Tells, Describes
  <2>3. t[l][n].global = GlobalOf(decls, t[l][n].id, procs)  BY DEF Tells, Marks
  <2>4. t[l][n].id = 0 => t[l][n].global = FALSE  BY <2>3, Zenon DEF GlobalOf
  <2>5. t[l][n] = NoSymbol <=> t[l][n].id = 0  BY <2>1, <2>4, NoSymbolFields
  <2>6. \A i \in Here(l) : i # 0  BY DEF Lives
  <2>7. t[l][n] # NoSymbol <=> Here(l) # {}  BY <2>2, <2>5, <2>6 DEF Latest
  <2>8. t[l][n] # NoSymbol => t[l][n].id \in Here(l)  BY <2>2, <2>5 DEF Latest
  <2>9. QED  BY <2>2, <2>3, <2>7, <2>8, Zenon
<1>3. ASSUME NEW j \in Taking(kinds, n)
      PROVE  \E l \in 1..Len(t) : j \in Here(l)
  <2>1. /\ j \in InScope /\ j \in 1..Len(decls) /\ decls[j].taken /\ decls[j].kind \in kinds
        /\ decls[j].name = n
    BY DEF Taking, InScope
  <2>2. PICK l \in 1..(Base + Len(open)) : IsAt(decls, open, Base, j, l)
    BY <2>1, ScopeIsAt
  <2>3. l \in 1..Len(t) /\ j \in Here(l)  BY <2>1, <2>2 DEF Lives
  <2>4. QED  BY <2>3
<1>4. ASSUME \A l \in 1..Len(t) : t[l][n] = NoSymbol, lookup(t, n) = NoSymbol
      PROVE  Found(kinds, procs, n, lookup(t, n))
  <2>1. Taking(kinds, n) = {}  BY <1>2, <1>3, <1>4
  <2>2. QED  BY <1>4, <2>1 DEF Found
<1>5. ASSUME NEW l \in 1..Len(t), t[l][n] # NoSymbol,
             \A j \in 1..Len(t) : t[j][n] # NoSymbol => j <= l,
             lookup(t, n) = t[l][n]
      PROVE  Found(kinds, procs, n, lookup(t, n))
  <2> DEFINE f == t[l][n].id
  <2>1. f \in Here(l) /\ \A j \in Here(l) : j <= f
    <3>1. f \in Here(l)  BY <1>2, <1>5
    <3>2. QED  BY <1>2, <3>1 DEF Latest
  <2>2. l \in Nat  BY <1>1
  <2>3. f \in Taking(kinds, n) /\ f \in 1..Len(decls) /\ IsAt(decls, open, Base, f, l)
    BY <2>1, <2>2, TakingIs
  <2> HIDE DEF f
  <2>4. ASSUME NEW j \in Taking(kinds, n)
        PROVE  (j # f => f \in InFrontOf(j)) /\ j \notin InFrontOf(f)
    <3>1. PICK m \in 1..Len(t) : j \in Here(m)  BY <1>3
    <3>2. m \in Nat  BY <1>1
    <3>3. j \in 1..Len(decls) /\ IsAt(decls, open, Base, j, m)
      BY <3>1, <3>2, TakingIs
    <3>4. m <= l
      <4>1. t[m][n] # NoSymbol  BY <1>2, <3>1
      <4>2. QED  BY <1>5, <4>1
    <3>5. m = l => j <= f  BY <2>1, <3>1
    <3>6. /\ Depth(f) > Depth(j) <=> l > m
          /\ Depth(f) = Depth(j) <=> l = m
          /\ Depth(j) > Depth(f) <=> m > l
      BY <2>2, <2>3, <3>2, <3>3, DepthOrder
    <3>7. j \in InScope /\ f \in InScope  BY <2>3 DEF Taking
    <3>8. ASSUME j # f  PROVE f \in InFrontOf(j)
      BY <1>1, <2>2, <2>3, <3>2, <3>3, <3>4, <3>5, <3>6, <3>7, <3>8 DEF InFrontOf
    <3>9. j \notin InFrontOf(f)
      BY <1>1, <2>2, <2>3, <3>2, <3>3, <3>4, <3>5, <3>6, <3>7 DEF InFrontOf
    <3>10. QED  BY <3>8, <3>9
  <2>5. lookup(t, n).id = f /\ lookup(t, n) # NoSymbol  BY <1>5 DEF f
  <2>6. lookup(t, n).global = GlobalOf(decls, lookup(t, n).id, procs)  BY <1>2, <1>5, Zenon
  <2>7. QED  BY <2>3, <2>4, <2>5, <2>6, Zenon DEF Found
<1>6. QED  BY <1>1, <1>4, <1>5, LookupCases, Zenon

(* The generators enter no module. *)
LEMMA NoModule ==
  ASSUME IInv, NEW kinds, NEW procs \in BOOLEAN, NEW t, t \in Seq(TablesTo(Len(decls))),
         Tells(t, decls, open, Base, kinds, procs), NEW m \in Modules
  PROVE  lookup(t, m) = NoSymbol
<1>1. Len(t) \in Nat  BY LenProperties
<1>2. \A l \in 1..Len(t) : t[l][m] = NoSymbol  BY DEF Tells, Describes
<1>3. QED  BY <1>1, <1>2, LookupCases, Zenon

-----------------------------------------------------------------------------
(* The generators' lookups by what they find, whatever the table. *)
Finds(t, kinds, procs) ==
  /\ \A n \in Names : Found(kinds, procs, n, lookup(t, n))
  /\ \A m \in Modules : lookup(t, m) = NoSymbol

(* Both generators find what they should. *)
LEMMA BothFind ==
  ASSUME IInv, Generating
  PROVE  Finds(irScopes, Stored, TRUE) /\ Finds(symScopes, AnyKind, FALSE)
<1>1. TRUE \in BOOLEAN /\ FALSE \in BOOLEAN  OBVIOUS
<1>2. Tells(irScopes, decls, open, Base, Stored, TRUE)  BY DEF IInv, BuilderOK
<1>3. Tells(symScopes, decls, open, Base, AnyKind, FALSE)  BY DEF IInv, DirectOK
<1>4. /\ irScopes \in Seq(TablesTo(Len(decls))) /\ Len(irScopes) = Base + Len(open)
      /\ symScopes \in Seq(TablesTo(Len(decls))) /\ Len(symScopes) = Base + Len(open)
  BY GeneratingHas
<1>5. Finds(irScopes, Stored, TRUE)
  <2>1. \A n \in Names : Found(Stored, TRUE, n, lookup(irScopes, n))
    BY <1>1, <1>2, <1>4, LooksUp, Zenon
  <2>2. \A m \in Modules : lookup(irScopes, m) = NoSymbol
    BY <1>1, <1>2, <1>4, NoModule, Zenon
  <2>3. QED  BY <2>1, <2>2 DEF Finds
<1>6. Finds(symScopes, AnyKind, FALSE)
  <2>1. \A n \in Names : Found(AnyKind, FALSE, n, lookup(symScopes, n))
    BY <1>1, <1>3, <1>4, LooksUp, Zenon
  <2>2. \A m \in Modules : lookup(symScopes, m) = NoSymbol
    BY <1>1, <1>3, <1>4, NoModule, Zenon
  <2>3. QED  BY <2>1, <2>2 DEF Finds
<1>7. QED  BY <1>5, <1>6

(* The name under which the declaration meant was made. *)
KeyOf(u) == IF u.q \in Names THEN u.q ELSE u.n

(* The declaration a use is about is in scope, under the name looked up. *)
LEMMA MeantIs ==
  ASSUME IInv, refused = "no", NEW u \in Uses, NEW i, i = Meant(u), i # 0
  PROVE  /\ i \in InScope /\ i \in 1..Len(decls) /\ i # 0
         /\ decls[i].name = KeyOf(u) /\ KeyOf(u) \in Names
         /\ decls[i] \in DeclType
<1>1. u.q \in {""} \cup Names \cup Modules /\ u.n \in Names  BY DEF Uses, Keys
<1>2. KeyOf(u) \in Names  BY <1>1 DEF KeyOf
<1>3. ASSUME NEW n \in Names, i = Own(n)
      PROVE  i \in InScope /\ decls[i].name = n
  <2>1. i \in Visible(n)  BY <1>3, OwnIs
  <2>2. QED  BY <2>1 DEF Visible, InScope
<1>4. i \in InScope /\ decls[i].name = KeyOf(u)
  <2>1. CASE u.q \in Names
    <3>1. i = Own(u.q)
      <4>1. u.q \notin Modules  BY <2>1, KeysAssumption
      <4>2. QED  BY <2>1, <4>1 DEF Meant
    <3>2. QED  BY <1>3, <2>1, <3>1 DEF KeyOf
  <2>2. CASE u.q \notin Names /\ u.q \in Modules
    <3>1. Exported(u.q, u.n) # {} /\ i = CHOOSE j \in Exported(u.q, u.n) : TRUE
      BY <2>2 DEF Meant
    <3>2. i \in Exported(u.q, u.n)  BY <3>1
    <3>3. QED  BY <2>2, <3>2 DEF Exported, InScope, KeyOf
  <2>3. CASE u.q \notin Names /\ u.q \notin Modules
    <3>1. i = Own(u.n)  BY <2>3 DEF Meant
    <3>2. QED  BY <1>1, <1>3, <2>3, <3>1 DEF KeyOf
  <2>4. QED  BY <2>1, <2>2, <2>3
<1>5. i \in 1..Len(decls)  BY <1>4 DEF InScope
<1>6. decls[i] \in DeclType  BY <1>5, DeclFields DEF IInv, Shape
<1>7. QED  BY <1>2, <1>4, <1>5, <1>6

(* When a symbol is found for the name of a declaration, it is that one's  *)
(* exactly when the declaration was taken and nothing hides it.            *)
LEMMA FoundIs ==
  ASSUME IInv, NEW kinds, NEW procs, NEW i \in InScope, decls[i].kind \in kinds,
         NEW s, Found(kinds, procs, decls[i].name, s)
  PROVE  /\ s # NoSymbol /\ s.id = i <=> decls[i].taken /\ ~Hidden(kinds, i)
         /\ s # NoSymbol => /\ s.id \in 1..Len(decls) /\ s.id # 0 /\ decls[s.id].taken
                            /\ decls[s.id].kind \in kinds
<1> DEFINE T == Taking(kinds, decls[i].name)
<1>1. i \in T <=> decls[i].taken  BY DEF Taking
<1>2. CASE s = NoSymbol /\ T = {}  BY <1>1, <1>2
<1>3. CASE /\ s # NoSymbol /\ s.id \in T /\ s.global = GlobalOf(decls, s.id, procs)
           /\ \A j \in T : (j # s.id => s.id \in InFrontOf(j)) /\ j \notin InFrontOf(s.id)
  <2>1. /\ s.id \in 1..Len(decls) /\ s.id # 0 /\ decls[s.id].taken
        /\ decls[s.id].kind \in kinds
    BY <1>3 DEF Taking, InScope
  <2>2. s.id = i => decls[i].taken /\ ~Hidden(kinds, i)
    <3> SUFFICES ASSUME s.id = i  PROVE decls[i].taken /\ T \cap InFrontOf(i) = {}
      BY DEF Hidden
    <3>1. QED  BY <1>3, <2>1
  <2>3. decls[i].taken /\ ~Hidden(kinds, i) => s.id = i
    <3> SUFFICES ASSUME i \in T, T \cap InFrontOf(i) = {}  PROVE s.id = i
      BY <1>1 DEF Hidden
    <3>1. QED  BY <1>3
  <2>4. QED  BY <1>3, <2>1, <2>2, <2>3, Zenon
<1>4. Found(kinds, procs, decls[i].name, s)  OBVIOUS
<1>5. QED  BY <1>2, <1>3, <1>4, Zenon DEF Found

(* The first half of it. *)
LEMMA FoundHit ==
  ASSUME IInv, NEW kinds, NEW procs, NEW i \in InScope, decls[i].kind \in kinds,
         NEW s, Found(kinds, procs, decls[i].name, s)
  PROVE  (s # NoSymbol /\ s.id = i) = (decls[i].taken /\ ~Hidden(kinds, i))
<1>1. s # NoSymbol /\ s.id = i <=> decls[i].taken /\ ~Hidden(kinds, i)  BY FoundIs, Zenon
<1>2. QED  BY <1>1

(* A place that is not gone through. *)
LEMMA InPlaceIs ==
  ASSUME NEW i, NEW f, NEW b
  PROVE  InPlace(Place(i, f, b)) = Place(i, f, FALSE)
<1>1. ASSUME NEW z  PROVE [Place(i, f, b) EXCEPT !.through = z] = Place(i, f, z)
  BY DEF Place
<1>2. QED  BY <1>1, Zenon DEF InPlace

(* The storage found is that of the declaration exactly when it is in reach *)
(* and not hidden.                                                         *)
LEMMA StorageIs ==
  ASSUME IInv, NEW kinds, NEW procs, NEW i \in InScope,
         decls[i].kind \in kinds, decls[i].kind \in {"var", "param"},
         NEW s, Found(kinds, procs, decls[i].name, s), s # NoSymbol, NEW field
  PROVE  /\ Storage(s, field) = Place(i, field, decls[i].isVar) <=>
              InReach(i) /\ ~Hidden(kinds, i)
         /\ InPlace(Storage(s, field)) = Place(i, field, decls[i].isVar) <=>
              InReach(i) /\ ~Hidden(kinds, i) /\ ~decls[i].isVar
<1>0. /\ s # NoSymbol /\ s.id = i <=> decls[i].taken /\ ~Hidden(kinds, i)
      /\ s # NoSymbol => /\ s.id \in 1..Len(decls) /\ s.id # 0 /\ decls[s.id].taken
                         /\ decls[s.id].kind \in kinds
  BY FoundIs
<1>1. s.id = i <=> decls[i].taken /\ ~Hidden(kinds, i)  BY <1>0, Zenon
<1>2. s.global = GlobalOf(decls, s.id, procs) /\ s.id # 0  BY <1>0, Zenon DEF Found
<1>3. i \in 1..Len(decls) /\ i # 0  BY DEF InScope
<1>4. decls[i].isVar \in BOOLEAN /\ decls[i].owner \in Nat
  BY <1>3, DeclFields DEF IInv, Shape
<1>5. decls[i].isVar => decls[i].owner # 0
  BY <1>3 DEF IInv, DeclsNow, DeclsOK, DeclOK
<1>6. CASE s.id # i
  <2>1. Storage(s, field).id # i /\ InPlace(Storage(s, field)).id # i
    BY <1>3, <1>6 DEF Storage, Place, Nothing, InPlace
  <2>2. Place(i, field, decls[i].isVar).id = i  BY DEF Place
  <2>3. ~(decls[i].taken /\ ~Hidden(kinds, i))  BY <1>1, <1>6, Zenon
  <2>4. ~(InReach(i) /\ ~Hidden(kinds, i))  BY <2>3, Zenon DEF InReach
  <2>5. /\ Storage(s, field) # Place(i, field, decls[i].isVar)
        /\ InPlace(Storage(s, field)) # Place(i, field, decls[i].isVar)
    BY <2>1, <2>2, Zenon
  <2>6. QED  BY <2>4, <2>5, Zenon
<1>7. CASE s.id = i
  <2>1. s.global <=> decls[i].owner = 0  BY <1>2, <1>3, <1>7 DEF GlobalOf
  <2>2. decls[i].kind # "proc"  OBVIOUS
  <2>3. CASE decls[i].owner \notin {0, Owner}
    <3>1. Storage(s, field) = Nothing  BY <1>7, <2>1, <2>3 DEF Storage
    <3>2. Nothing.id # i /\ InPlace(Nothing).id # i  BY <1>3 DEF Nothing, Place, InPlace
    <3>3. Place(i, field, decls[i].isVar).id = i  BY DEF Place
    <3>4. QED  BY <2>3, <3>1, <3>2, <3>3 DEF InReach
  <2>4. CASE decls[i].owner \in {0, Owner}
    <3>1. Storage(s, field) = Place(i, field, ~s.global /\ decls[i].isVar)
      BY <1>7, <2>1, <2>2, <2>4 DEF Storage
    <3>2. (~s.global /\ decls[i].isVar) = decls[i].isVar  BY <1>4, <1>5, <2>1
    <3>3. Storage(s, field) = Place(i, field, decls[i].isVar)  BY <3>1, <3>2, Zenon
    <3>4. InPlace(Storage(s, field)) = Place(i, field, FALSE)
      BY <3>3, InPlaceIs, Zenon
    <3>5. Place(i, field, FALSE) = Place(i, field, decls[i].isVar) <=> ~decls[i].isVar
      BY <1>4 DEF Place
    <3>6. decls[i].taken /\ ~Hidden(kinds, i) /\ InReach(i)  BY <1>1, <1>7, <2>4 DEF InReach
    <3>7. QED  BY <3>3, <3>4, <3>5, <3>6, Zenon
  <2>5. QED  BY <2>3, <2>4
<1>8. QED  BY <1>6, <1>7

Clear(kinds, u) == /\ Qualified(u) /\ u.q \in Names => Taking(kinds, u.n) = {}
                   /\ ~Hidden(kinds, Meant(u))

(* Nothing is found when nothing is taken. *)
LEMMA FoundNone ==
  ASSUME NEW kinds, NEW procs, NEW n, NEW s, Found(kinds, procs, n, s)
  PROVE  s = NoSymbol <=> Taking(kinds, n) = {}
BY Zenon DEF Found

(* The last part of a qualified name shadows the first. *)
LEMMA ResolvedIs ==
  ASSUME NEW kinds, NEW procs, NEW t, Finds(t, kinds, procs), NEW u \in Uses
  PROVE  /\ u.q \notin Names \/ lookup(t, u.n) = NoSymbol =>
              /\ Resolved(t, u).symbol = lookup(t, KeyOf(u))
              /\ lookup(t, KeyOf(u)) # NoSymbol => Resolved(t, u).field = FieldOf(u)
         /\ u.q \in Names /\ lookup(t, u.n) # NoSymbol =>
              Resolved(t, u).symbol = lookup(t, u.n) /\ Resolved(t, u).field = ""
<1> DEFINE last == lookup(t, u.n)
           head == lookup(t, u.q)
           r == Resolved(t, u)
<1>1. u.q \in {""} \cup Names \cup Modules /\ u.n \in Names  BY DEF Uses, Keys
<1>2. "" \notin Names /\ "" \notin Modules /\ Names \cap Modules = {}  BY KeysAssumption
<1>3. \A m \in Modules : lookup(t, m) = NoSymbol  BY DEF Finds
<1>4. r = IF last # NoSymbol \/ u.q = "" THEN [symbol |-> last, field |-> ""]
          ELSE [symbol |-> head, field |-> u.n]
  BY DEF Resolved, Qualified
<1> HIDE DEF r, last, head
<1>5. CASE u.q \in Names
  <2>1. u.q # "" /\ KeyOf(u) = u.q /\ FieldOf(u) = u.n  BY <1>2, <1>5 DEF KeyOf, FieldOf
  <2>2. last = NoSymbol => r.symbol = head /\ r.field = u.n  BY <1>4, <2>1
  <2>3. last # NoSymbol => r.symbol = last /\ r.field = ""  BY <1>4
  <2>4. QED  BY <1>5, <2>1, <2>2, <2>3 DEF r, last, head
<1>6. CASE u.q \notin Names
  <2>1. KeyOf(u) = u.n /\ FieldOf(u) = ""  BY <1>6 DEF KeyOf, FieldOf
  <2>2. last # NoSymbol => r.symbol = last /\ r.field = ""  BY <1>4
  <2>3. last = NoSymbol => r.symbol = last
    <3>1. CASE u.q = ""  BY <1>4, <3>1
    <3>2. CASE u.q # ""
      <4>1. head = NoSymbol  BY <1>1, <1>3, <1>6, <3>2 DEF head
      <4>2. QED  BY <1>4, <3>2, <4>1
    <3>3. QED  BY <3>1, <3>2
  <2>4. QED  BY <1>6, <2>1, <2>2, <2>3 DEF r, last
<1>7. QED  BY <1>5, <1>6

(* An address is that of the symbol found, or none. *)
LEMMA AddressHas ==
  ASSUME NEW t, NEW u
  PROVE  Address(t, u).id \in {0, Resolved(t, u).symbol.id}
<1> DEFINE s == Resolved(t, u).symbol
           f == Resolved(t, u).field
<1>1. Address(t, u) = IF s = NoSymbol THEN Nothing ELSE Storage(s, f)  BY DEF Address
<1> HIDE DEF s, f
<1>2. Storage(s, f).id \in {0, s.id} /\ Nothing.id = 0
  BY DEF Storage, Place, Nothing
<1>3. Address(t, u).id \in {0, s.id}
  <2>1. CASE s = NoSymbol  BY <1>1, <1>2, <2>1
  <2>2. CASE s # NoSymbol  BY <1>1, <1>2, <2>2
  <2>3. QED  BY <2>1, <2>2
<1>4. QED  BY <1>3 DEF s

(* The address of a variable or of a field is right exactly under the      *)
(* condition the properties state.                                         *)
LEMMA AddressIs ==
  ASSUME IInv, Generating, NEW kinds, NEW procs, {"var", "param"} \subseteq kinds,
         NEW t, Finds(t, kinds, procs), NEW u \in Uses, NEW i, i = Meant(u), Variable(u)
  PROVE  /\ Address(t, u) = Right(u) <=> InReach(i) /\ Clear(kinds, u)
         /\ InReach(i) /\ Clear(kinds, u) => Resolved(t, u).symbol.id = i
<1> DEFINE s == lookup(t, KeyOf(u))
           r == Resolved(t, u)
<1>1. i # 0 /\ decls[i].kind \in {"var", "param"}  BY DEF Variable, KindOf
<1>2. refused = "no"  BY DEF Generating
<1>3. i \in InScope /\ decls[i].name = KeyOf(u) /\ KeyOf(u) \in Names
  BY <1>1, <1>2, MeantIs
<1>4. Found(kinds, procs, decls[i].name, s)  BY <1>3 DEF Finds
<1>5. u.n \in Names /\ u.q \in {""} \cup Keys  BY DEF Uses
<1>6. lookup(t, u.n) = NoSymbol <=> Taking(kinds, u.n) = {}
  <2>1. Found(kinds, procs, u.n, lookup(t, u.n))  BY <1>5 DEF Finds
  <2>2. QED  BY <2>1, FoundNone, Zenon
<1>7. Right(u) = Place(i, FieldOf(u), decls[i].isVar)  BY DEF Right
<1>8. Address(t, u) = IF r.symbol = NoSymbol THEN Nothing ELSE Storage(r.symbol, r.field)
  BY DEF Address
<1>9. Nothing # Right(u)
  <2>1. Nothing.id = 0 /\ Place(i, FieldOf(u), decls[i].isVar).id = i  BY DEF Nothing, Place
  <2>2. QED  BY <1>1, <1>7, <2>1
<1>10. decls[i].kind \in kinds  BY <1>1
<1>11. /\ u.q \notin Names \/ lookup(t, u.n) = NoSymbol =>
             r.symbol = s /\ (s # NoSymbol => r.field = FieldOf(u))
       /\ u.q \in Names /\ lookup(t, u.n) # NoSymbol =>
             r.symbol = lookup(t, u.n) /\ r.field = ""
  BY ResolvedIs
<1> HIDE DEF s, r
<1>12. CASE u.q \notin Names \/ lookup(t, u.n) = NoSymbol
  <2>1. r.symbol = s /\ (s # NoSymbol => r.field = FieldOf(u))  BY <1>11, <1>12
  <2>2. Clear(kinds, u) <=> ~Hidden(kinds, i)  BY <1>6, <1>12 DEF Clear
  <2>3. s # NoSymbol /\ s.id = i <=> decls[i].taken /\ ~Hidden(kinds, i)
    <3>1. i \in InScope  BY <1>3
    <3>2. QED  BY <1>4, <1>10, <3>1, FoundHit, Zenon
  <2>4. CASE s = NoSymbol
    <3>1. Address(t, u) = Nothing  BY <1>8, <2>1, <2>4
    <3>2. ~(InReach(i) /\ Clear(kinds, u))  BY <2>2, <2>3, <2>4, Zenon DEF InReach
    <3>3. QED  BY <1>9, <3>1, <3>2, Zenon
  <2>5. CASE s # NoSymbol
    <3>1. Address(t, u) = Storage(s, FieldOf(u))  BY <1>8, <2>1, <2>5
    <3>2. Storage(s, FieldOf(u)) = Place(i, FieldOf(u), decls[i].isVar) <=>
            InReach(i) /\ ~Hidden(kinds, i)
      <4>1. i \in InScope  BY <1>3
      <4>2. QED  BY <1>1, <1>4, <1>10, <2>5, <4>1, StorageIs
    <3>3. InReach(i) /\ Clear(kinds, u) => s.id = i
      BY <2>2, <2>3, Zenon DEF InReach
    <3>4. QED  BY <1>7, <2>1, <2>2, <3>1, <3>2, <3>3, Zenon DEF r
  <2>6. QED  BY <2>4, <2>5
<1>13. CASE u.q \in Names /\ lookup(t, u.n) # NoSymbol
  <2>1. Address(t, u) = Storage(lookup(t, u.n), "")
    BY <1>8, <1>11, <1>13
  <2>2. u.q # "" /\ u.n # ""  BY <1>5, <1>13, KeysAssumption
  <2>3. Storage(lookup(t, u.n), "").field = ""
    BY DEF Storage, Nothing, Place
  <2>4. Right(u).field = u.n  BY <1>7, <1>13 DEF Place, FieldOf
  <2>5. ~Clear(kinds, u)  BY <1>6, <1>13, <2>2 DEF Clear, Qualified
  <2>6. Address(t, u) # Right(u)  BY <2>1, <2>2, <2>3, <2>4
  <2>7. QED  BY <2>5, <2>6, Zenon
<1>14. QED  BY <1>12, <1>13, Zenon

(* And so is the place of the variable of a FOR, unless it is a reference. *)
LEMMA ForIs ==
  ASSUME IInv, Generating, NEW kinds, NEW procs, {"var", "param"} \subseteq kinds,
         NEW t, Finds(t, kinds, procs), NEW u \in Uses, NEW i, i = Meant(u), Variable(u),
         ~Qualified(u)
  PROVE  ForVariable(t, u.n) = Right(u) <=>
           InReach(i) /\ Clear(kinds, u) /\ ~decls[i].isVar
<1> DEFINE s == lookup(t, u.n)
<1>1. i # 0 /\ decls[i].kind \in {"var", "param"}  BY DEF Variable, KindOf
<1>2. refused = "no"  BY DEF Generating
<1>3. u.q = "" /\ u.q \notin Names  BY KeysAssumption DEF Qualified
<1>4. i \in InScope /\ decls[i].name = u.n /\ u.n \in Names
  BY <1>1, <1>2, <1>3, MeantIs DEF KeyOf
<1>5. Found(kinds, procs, decls[i].name, s)  BY <1>4 DEF Finds
<1>6. Right(u) = Place(i, "", decls[i].isVar)  BY <1>3 DEF Right, FieldOf
<1>7. decls[i].kind \in kinds  BY <1>1
<1>8. Clear(kinds, u) <=> ~Hidden(kinds, i)  BY <1>3 DEF Clear
<1>9. ForVariable(t, u.n) = IF s = NoSymbol THEN Nothing ELSE InPlace(Storage(s, ""))
  BY DEF ForVariable
<1> HIDE DEF s
<1>10. CASE s = NoSymbol
  <2>1. Nothing # Right(u)
    <3>1. Nothing.id = 0 /\ Place(i, "", decls[i].isVar).id = i  BY DEF Nothing, Place
    <3>2. QED  BY <1>1, <1>6, <3>1
  <2>2. s # NoSymbol /\ s.id = i <=> decls[i].taken /\ ~Hidden(kinds, i)
    <3>1. i \in InScope  BY <1>4
    <3>2. QED  BY <1>5, <1>7, <3>1, FoundHit, Zenon
  <2>3. ~(InReach(i) /\ Clear(kinds, u))  BY <1>8, <1>10, <2>2, Zenon DEF InReach
  <2>4. ForVariable(t, u.n) = Nothing  BY <1>9, <1>10
  <2>5. QED  BY <2>1, <2>3, <2>4, Zenon
<1>11. CASE s # NoSymbol
  <2>1. ForVariable(t, u.n) = InPlace(Storage(s, ""))  BY <1>9, <1>11
  <2>2. ASSUME NEW field
        PROVE  InPlace(Storage(s, field)) = Place(i, field, decls[i].isVar) <=>
                 InReach(i) /\ ~Hidden(kinds, i) /\ ~decls[i].isVar
    <3>1. i \in InScope  BY <1>4
    <3>2. QED  BY <1>1, <1>5, <1>7, <1>11, <3>1, StorageIs
  <2>3. QED  BY <1>6, <1>8, <2>1, <2>2, Zenon
<1>12. QED  BY <1>10, <1>11

(* A use of a constant or of a procedure is a plain lookup of the name.    *)
LEMMA PlainIs ==
  ASSUME IInv, Generating, NEW kinds, NEW procs, NEW t, Finds(t, kinds, procs),
         NEW u \in Uses, NEW i, i = Meant(u), i # 0, u.q \notin Names
  PROVE  /\ i \in InScope /\ i \in 1..Len(decls) /\ decls[i].name = u.n
         /\ Found(kinds, procs, decls[i].name, lookup(t, u.n))
         /\ Resolved(t, u).symbol = lookup(t, u.n)
         /\ Clear(kinds, u) <=> ~Hidden(kinds, i)
<1>1. refused = "no"  BY DEF Generating
<1>2. KeyOf(u) = u.n  BY DEF KeyOf
<1>3. i \in InScope /\ i \in 1..Len(decls) /\ decls[i].name = u.n /\ u.n \in Names
  BY <1>1, <1>2, MeantIs
<1>4. Found(kinds, procs, decls[i].name, lookup(t, u.n))  BY <1>3 DEF Finds
<1>5. Resolved(t, u).symbol = lookup(t, u.n)
  <2>1. Resolved(t, u).symbol = lookup(t, KeyOf(u))  BY ResolvedIs
  <2>2. QED  BY <1>2, <2>1
<1>6. Clear(kinds, u) <=> ~Hidden(kinds, i)  BY DEF Clear
<1>7. QED  BY <1>3, <1>4, <1>5, <1>6

(* The direct generator: variables and fields, *)
LEMMA DirectVariable ==
  ASSUME IInv, Generating, NEW u \in Uses, NEW i, i = Meant(u), Variable(u)
  PROVE  /\ symLoad(u) = Right(u) <=> InReach(i) /\ Clear(AnyKind, u)
         /\ symAddress(u) = Right(u) <=> InReach(i) /\ Clear(AnyKind, u)
<1> DEFINE c == symConst(u)
           a == Address(symScopes, u)
           good == InReach(i) /\ Clear(AnyKind, u)
<1>1. Finds(symScopes, AnyKind, FALSE)  BY BothFind
<1>2. {"var", "param"} \subseteq AnyKind  BY DEF AnyKind
<1>3. /\ a = Right(u) <=> good
      /\ good => Resolved(symScopes, u).symbol.id = i
  BY <1>1, <1>2, AddressIs
<1>4. i # 0 /\ decls[i].kind \in {"var", "param"}  BY DEF Variable, KindOf
<1>5. /\ symAddress(u) = IF c # 0 THEN Nothing ELSE a
      /\ symLoad(u) = IF c # 0 THEN ValueOf(c) ELSE symAddress(u)
  BY DEF symAddress, symLoad
<1>6. c # 0 => decls[c].kind = "const" /\ c = Resolved(symScopes, u).symbol.id
  BY DEF symConst
<1>7. Right(u).id = i /\ Nothing.id = 0 /\ ValueOf(c).id = c
  BY DEF Right, Nothing, ValueOf, Place
<1> HIDE DEF c, a, good
<1>8. CASE c = 0
  <2>1. symAddress(u) = a /\ symLoad(u) = a  BY <1>5, <1>8
  <2>2. QED  BY <1>3, <2>1, Zenon DEF good
<1>9. CASE c # 0
  <2>1. c # i  BY <1>4, <1>6, <1>9
  <2>2. ~good  BY <1>3, <1>6, <1>9, <2>1
  <2>3. symAddress(u) = Nothing /\ symLoad(u) = ValueOf(c)  BY <1>5, <1>9
  <2>4. symAddress(u) # Right(u) /\ symLoad(u) # Right(u)
    BY <1>4, <1>7, <2>1, <2>3
  <2>5. QED  BY <2>2, <2>4, Zenon DEF good
<1>10. QED  BY <1>8, <1>9

(* and constants, which it keeps in the same tables. *)
LEMMA DirectValue ==
  ASSUME IInv, Generating, NEW u \in Uses, NEW i, i = Meant(u), Value(u)
  PROVE  symLoad(u) = ValueOf(i) <=> decls[i].taken /\ Clear(AnyKind, u)
<1> DEFINE s == lookup(symScopes, u.n)
           c == symConst(u)
           id == Resolved(symScopes, u).symbol.id
           procs == FALSE
<1>1. Finds(symScopes, AnyKind, procs)  BY BothFind
<1> HIDE DEF procs
<1>2. i # 0 /\ decls[i].kind = "const" /\ u.q \notin Names  BY DEF Value, KindOf
<1>3. /\ i \in InScope /\ i \in 1..Len(decls)
      /\ Found(AnyKind, procs, decls[i].name, s)
      /\ Resolved(symScopes, u).symbol = s
      /\ Clear(AnyKind, u) <=> ~Hidden(AnyKind, i)
  BY <1>1, <1>2, PlainIs
<1>4. decls[i].kind \in AnyKind  BY <1>2 DEF AnyKind
<1>5. s # NoSymbol /\ s.id = i <=> decls[i].taken /\ ~Hidden(AnyKind, i)
  BY <1>3, <1>4, FoundHit, Zenon
<1>6. c = IF id # 0 /\ decls[id].kind = "const" THEN id ELSE 0  BY DEF symConst
<1>7. id = s.id  BY <1>3
<1>8. s = NoSymbol => s.id = 0  BY DEF NoSymbol
<1>9. ValueOf(i).id = i /\ ValueOf(c).id = c /\ Nothing.id = 0
  BY DEF ValueOf, Place, Nothing
<1>10. Address(symScopes, u).id \in {0, id}  BY AddressHas
<1>11. symLoad(u) = IF c # 0 THEN ValueOf(c) ELSE Address(symScopes, u)
  BY DEF symLoad, symAddress
<1> HIDE DEF s, c, id
<1>12. s.id = i <=> decls[i].taken /\ Clear(AnyKind, u)
  BY <1>2, <1>3, <1>5, <1>8, Zenon
<1>13. symLoad(u) = ValueOf(i) <=> s.id = i
  <2>1. CASE s.id = i
    <3>1. c = i  BY <1>2, <1>6, <1>7, <2>1
    <3>2. QED  BY <1>2, <1>11, <2>1, <3>1
  <2>2. CASE s.id # i
    <3>1. c # i /\ id # i  BY <1>2, <1>6, <1>7, <2>2
    <3>2. symLoad(u).id # i  BY <1>2, <1>9, <1>10, <1>11, <3>1
    <3>3. QED  BY <1>9, <2>2, <3>2
  <2>3. QED  BY <2>1, <2>2
<1>14. QED  BY <1>12, <1>13, Zenon

(* The direct generator's addresses, constants and FOR variables are right *)
(* under exactly the conditions DirectFinds states, for programs of every  *)
(* size (RiscVCodeGen.cpp, emitAddress and its callers).                   *)
THEOREM DirectFindsHolds == Spec => []DirectFinds
<1>1. IInv => DirectFinds
  <2> SUFFICES ASSUME IInv, Generating, NEW u \in Uses, NEW i, i = Meant(u)
               PROVE  /\ Variable(u) =>
                           /\ symLoad(u) = Right(u) <=> InReach(i) /\ Clear(AnyKind, u)
                           /\ symAddress(u) = Right(u) <=> InReach(i) /\ Clear(AnyKind, u)
                      /\ Value(u) =>
                           (symLoad(u) = ValueOf(i) <=> decls[i].taken /\ Clear(AnyKind, u))
                      /\ Variable(u) /\ ~Qualified(u) =>
                           (symFor(u.n) = Right(u) <=>
                              InReach(i) /\ Clear(AnyKind, u) /\ ~decls[i].isVar)
    BY Zenon DEF DirectFinds, Clear
  <2>1. ASSUME Variable(u)
        PROVE  /\ symLoad(u) = Right(u) <=> InReach(i) /\ Clear(AnyKind, u)
               /\ symAddress(u) = Right(u) <=> InReach(i) /\ Clear(AnyKind, u)
    BY <2>1, DirectVariable
  <2>2. ASSUME Value(u)
        PROVE  symLoad(u) = ValueOf(i) <=> decls[i].taken /\ Clear(AnyKind, u)
    BY <2>2, DirectValue
  <2>3. ASSUME Variable(u), ~Qualified(u)
        PROVE  symFor(u.n) = Right(u) <=>
                 InReach(i) /\ Clear(AnyKind, u) /\ ~decls[i].isVar
    <3>1. Finds(symScopes, AnyKind, FALSE)  BY BothFind
    <3>2. {"var", "param"} \subseteq AnyKind  BY DEF AnyKind
    <3>3. QED  BY <2>3, <3>1, <3>2, ForIs DEF symFor
  <2>4. QED  BY <2>1, <2>2, <2>3, Zenon
<1>2. QED  BY <1>1, Invariance, PTL

(* The constant kept for a name is the latest one declared under it. *)
LEMMA ConstantHas ==
  ASSUME IInv, NEW n \in Names
  PROVE  /\ Latest(constants[n], ConstsNamed(decls, n))
         /\ constants[n] = 0 <=> ConstsNamed(decls, n) = {}
         /\ constants[n] # 0 => decls[constants[n]].kind = "const"
<1>1. Latest(constants[n], ConstsNamed(decls, n))  BY DEF IInv, ConstantsOK
<1>2. \A j \in ConstsNamed(decls, n) : j # 0 /\ decls[j].kind = "const"
  BY DEF ConstsNamed
<1>3. QED  BY <1>1, <1>2 DEF Latest

(* The generator from the IR: variables and fields, *)
LEMMA BuilderVariable ==
  ASSUME IInv, Generating, NEW u \in Uses, NEW i, i = Meant(u), Variable(u)
  PROVE  /\ irAddress(u) = Right(u) <=> InReach(i) /\ Clear(Stored, u)
         /\ irLoad(u) = Right(u) <=>
              InReach(i) /\ Clear(Stored, u) /\ ConstsNamed(decls, u.n) = {}
<1> DEFINE c == constants[u.n]
           good == InReach(i) /\ Clear(Stored, u)
<1>1. Finds(irScopes, Stored, TRUE)  BY BothFind
<1>2. {"var", "param"} \subseteq Stored  BY DEF Stored, AnyKind
<1>3. irAddress(u) = Right(u) <=> good
  <2>1. Address(irScopes, u) = Right(u) <=> good  BY <1>1, <1>2, AddressIs
  <2>2. QED  BY <2>1, Zenon DEF irAddress
<1>4. i # 0 /\ decls[i].kind \in {"var", "param"}  BY DEF Variable, KindOf
<1>5. u.n \in Names  BY DEF Uses
<1>6. irLoad(u) = IF c # 0 THEN ValueOf(c) ELSE irAddress(u)  BY DEF irLoad
<1>7. (c = 0 <=> ConstsNamed(decls, u.n) = {}) /\ (c # 0 => decls[c].kind = "const")
  BY <1>5, ConstantHas
<1>8. Right(u).id = i /\ ValueOf(c).id = c  BY DEF Right, ValueOf, Place
<1> HIDE DEF c, good
<1>9. CASE c = 0
  <2>1. irLoad(u) = irAddress(u) /\ ConstsNamed(decls, u.n) = {}  BY <1>6, <1>7, <1>9
  <2>2. QED  BY <1>3, <2>1, Zenon DEF good
<1>10. CASE c # 0
  <2>1. c # i  BY <1>4, <1>7, <1>10
  <2>2. irLoad(u) # Right(u)  BY <1>6, <1>8, <1>10, <2>1
  <2>3. ConstsNamed(decls, u.n) # {}  BY <1>7, <1>10
  <2>4. QED  BY <1>3, <2>2, <2>3, Zenon DEF good
<1>11. QED  BY <1>9, <1>10

(* and constants, which IRBuilder keeps without scopes. *)
LEMMA BuilderValue ==
  ASSUME IInv, Generating, NEW u \in Uses, NEW i, i = Meant(u), Value(u)
  PROVE  irLoad(u) = ValueOf(i) <=>
           /\ i \in ConstsNamed(decls, u.n)
           /\ \A j \in ConstsNamed(decls, u.n) : j <= i
<1> DEFINE c == constants[u.n]
           S == ConstsNamed(decls, u.n)
           s == lookup(irScopes, u.n)
           procs == TRUE
<1>1. Finds(irScopes, Stored, procs)  BY BothFind
<1> HIDE DEF procs
<1>2. i # 0 /\ decls[i].kind = "const" /\ u.q \notin Names  BY DEF Value, KindOf
<1>3. i \in 1..Len(decls) /\ Resolved(irScopes, u).symbol = s
  BY <1>1, <1>2, PlainIs
<1>4. u.n \in Names  BY DEF Uses
<1>5. irLoad(u) = IF c # 0 THEN ValueOf(c) ELSE irAddress(u)  BY DEF irLoad
<1>6. Latest(c, S) /\ (c = 0 <=> S = {})  BY <1>4, ConstantHas
<1>7. irAddress(u).id \in {0, s.id}  BY <1>3, AddressHas DEF irAddress
<1>8. s.id # i
  <2>1. Found(Stored, procs, u.n, s)  BY <1>1, <1>4 DEF Finds
  <2>2. s = NoSymbol => s.id = 0  BY DEF NoSymbol
  <2>3. s # NoSymbol => decls[s.id].kind \in Stored
    BY <2>1 DEF Found, Taking
  <2>4. "const" \notin Stored  BY DEF Stored
  <2>5. QED  BY <1>2, <2>2, <2>3, <2>4
<1>9. ValueOf(i).id = i /\ ValueOf(c).id = c  BY DEF ValueOf, Place
<1>10. \A j \in S : j \in Int  BY DEF ConstsNamed
<1> HIDE DEF c, S, s
<1>11. CASE c = 0
  <2>1. irLoad(u) # ValueOf(i)  BY <1>2, <1>5, <1>7, <1>8, <1>9, <1>11
  <2>2. S = {}  BY <1>6, <1>11
  <2>3. QED  BY <2>1, <2>2 DEF S
<1>12. CASE c # 0
  <2>1. irLoad(u) = ValueOf(i) <=> c = i  BY <1>5, <1>9, <1>12
  <2>2. c \in S /\ \A j \in S : j <= c  BY <1>6, <1>12 DEF Latest
  <2>3. (i \in S /\ \A j \in S : j <= i) <=> c = i  BY <1>10, <2>2
  <2>4. QED  BY <2>1, <2>3, Zenon DEF S
<1>13. QED  BY <1>11, <1>12

(* The same of the generator from the IR and the conditions IRFinds states *)
(* (IRBuilder.cpp, emitAddress and its callers).                           *)
THEOREM BuilderFindsHolds == Spec => []IRFinds
<1>1. IInv => IRFinds
  <2> SUFFICES ASSUME IInv, Generating, NEW u \in Uses, NEW i, i = Meant(u)
               PROVE  /\ Variable(u) =>
                           /\ irAddress(u) = Right(u) <=> InReach(i) /\ Clear(Stored, u)
                           /\ irLoad(u) = Right(u) <=>
                                InReach(i) /\ Clear(Stored, u) /\ ConstsNamed(decls, u.n) = {}
                      /\ Value(u) =>
                           (irLoad(u) = ValueOf(i) <=>
                              /\ i \in ConstsNamed(decls, u.n)
                              /\ \A j \in ConstsNamed(decls, u.n) : j <= i)
                      /\ Variable(u) /\ ~Qualified(u) =>
                           (irFor(u.n) = Right(u) <=>
                              InReach(i) /\ Clear(Stored, u) /\ ~decls[i].isVar)
    BY Zenon DEF IRFinds, Clear, ConstsNamed
  <2>1. ASSUME Variable(u)
        PROVE  /\ irAddress(u) = Right(u) <=> InReach(i) /\ Clear(Stored, u)
               /\ irLoad(u) = Right(u) <=>
                    InReach(i) /\ Clear(Stored, u) /\ ConstsNamed(decls, u.n) = {}
    BY <2>1, BuilderVariable
  <2>2. ASSUME Value(u)
        PROVE  irLoad(u) = ValueOf(i) <=> /\ i \in ConstsNamed(decls, u.n)
                                          /\ \A j \in ConstsNamed(decls, u.n) : j <= i
    BY <2>2, BuilderValue
  <2>3. ASSUME Variable(u), ~Qualified(u)
        PROVE  irFor(u.n) = Right(u) <=>
                 InReach(i) /\ Clear(Stored, u) /\ ~decls[i].isVar
    <3>1. Finds(irScopes, Stored, TRUE)  BY BothFind
    <3>2. {"var", "param"} \subseteq Stored  BY DEF Stored, AnyKind
    <3>3. QED  BY <2>3, <3>1, <3>2, ForIs DEF irFor
  <2>4. QED  BY <2>1, <2>2, <2>3, Zenon
<1>2. QED  BY <1>1, Invariance, PTL

(* Calls. *)
Only(i) == decls[i].taken /\ \A j \in (1..Len(decls)) \ {i} :
             LabelOf(decls[j]) = LabelOf(decls[i]) => ~decls[j].taken
Front(kinds, n, i) == {j \in Taking(kinds, n) : j = i \/ j \in InFrontOf(i)}
FirstOf(kinds, n, i) ==
  CHOOSE j \in Front(kinds, n, i) : Front(kinds, n, i) \cap InFrontOf(j) = {}

(* The parts of a label. *)
LEMMA LabelFields ==
  ASSUME NEW d, NEW e
  PROVE  /\ LabelOf(d).proc = (d.kind = "proc") /\ LabelOf(d).mod = d.mod
         /\ LabelOf(d).name = d.name
         /\ LabelOf(d) = LabelOf(e) <=>
              ((d.kind = "proc") = (e.kind = "proc")) /\ d.mod = e.mod /\ d.name = e.name
BY DEF LabelOf, Label

(* A label is that of one procedure and of no other. *)
LEMMA BehindIs ==
  ASSUME NEW i \in 1..Len(decls), decls[i].kind = "proc", NEW label
  PROVE  Behind(label) = {i} <=> Only(i) /\ LabelOf(decls[i]) = label
<1>1. \A j \in 1..Len(decls) :
        j \in Behind(label) <=>
          decls[j].kind = "proc" /\ decls[j].taken /\ LabelOf(decls[j]) = label
  BY DEF Behind
<1>2. Behind(label) \subseteq 1..Len(decls)  BY DEF Behind
<1>3. \A j \in 1..Len(decls) : LabelOf(decls[j]) = LabelOf(decls[i]) => decls[j].kind = "proc"
  BY LabelFields
<1>4. ASSUME Behind(label) = {i}
      PROVE  Only(i) /\ LabelOf(decls[i]) = label
  <2>1. decls[i].taken /\ LabelOf(decls[i]) = label  BY <1>1, <1>4
  <2>2. ASSUME NEW j \in (1..Len(decls)) \ {i}, LabelOf(decls[j]) = LabelOf(decls[i]),
               decls[j].taken
        PROVE  FALSE
    <3>1. j \in Behind(label)  BY <1>1, <1>3, <2>1, <2>2
    <3>2. QED  BY <1>4, <2>2, <3>1
  <2>3. QED  BY <2>1, <2>2 DEF Only
<1>5. ASSUME Only(i), LabelOf(decls[i]) = label
      PROVE  Behind(label) = {i}
  <2>1. i \in Behind(label)  BY <1>1, <1>5 DEF Only
  <2>2. ASSUME NEW j \in Behind(label)  PROVE j = i
    <3>1. j \in 1..Len(decls) /\ decls[j].taken /\ LabelOf(decls[j]) = LabelOf(decls[i])
      BY <1>1, <1>2, <1>5
    <3>2. QED  BY <1>5, <3>1 DEF Only
  <2>3. QED  BY <2>1, <2>2
<1>6. QED  BY <1>4, <1>5

(* The declaration nothing stands in front of is the one looked up. *)
LEMMA FirstIs ==
  ASSUME NEW kinds, NEW procs, NEW i, NEW n, i \in Taking(kinds, n),
         NEW s, Found(kinds, procs, n, s)
  PROVE  s # NoSymbol /\ FirstOf(kinds, n, i) = s.id
<1>1. /\ s # NoSymbol /\ s.id \in Taking(kinds, n)
      /\ \A j \in Taking(kinds, n) : /\ j # s.id => s.id \in InFrontOf(j)
                                     /\ j \notin InFrontOf(s.id)
  BY Zenon DEF Found
<1>2. s.id \in Front(kinds, n, i)  BY <1>1 DEF Front
<1>3. Front(kinds, n, i) \cap InFrontOf(s.id) = {}  BY <1>1 DEF Front
<1>4. ASSUME NEW j \in Front(kinds, n, i), Front(kinds, n, i) \cap InFrontOf(j) = {}
      PROVE  j = s.id
  <2>1. j \in Taking(kinds, n)  BY DEF Front
  <2>2. QED  BY <1>1, <1>2, <1>4, <2>1
<1>5. QED  BY <1>1, <1>2, <1>3, <1>4 DEF FirstOf

(* The two labels a call may jump to. *)
LEMMA CallLabelled ==
  ASSUME NEW i \in 1..Len(decls), decls[i].kind = "proc",
         NEW f \in 1..Len(decls), decls[f].taken
  PROVE  Behind(LabelOf(decls[f])) = {i} <=> Only(i) /\ f = i
<1>1. Behind(LabelOf(decls[f])) = {i} <=> Only(i) /\ LabelOf(decls[i]) = LabelOf(decls[f])
  BY BehindIs
<1>2. Only(i) /\ LabelOf(decls[i]) = LabelOf(decls[f]) => f = i  BY DEF Only
<1>3. QED  BY <1>1, <1>2

(* A label made of a name and a module. *)
LEMMA CallPlain ==
  ASSUME NEW i \in 1..Len(decls), decls[i].kind = "proc", NEW m
  PROVE  Behind(Label(TRUE, m, decls[i].name)) = {i} <=> Only(i) /\ decls[i].mod = m
<1> DEFINE n == decls[i].name
<1>1. Behind(Label(TRUE, m, n)) = {i} <=> Only(i) /\ LabelOf(decls[i]) = Label(TRUE, m, n)
  BY BehindIs
<1>2. (decls[i].kind = "proc") = TRUE  OBVIOUS
<1>3. LabelOf(decls[i]) = Label(TRUE, decls[i].mod, n)  BY <1>2, Zenon DEF LabelOf
<1>4. \A p, q : Label(p, q, n).mod = q  BY DEF Label
<1>5. ASSUME LabelOf(decls[i]) = Label(TRUE, m, n)  PROVE decls[i].mod = m
  <2>1. Label(TRUE, m, n).mod = m  BY <1>4
  <2>2. LabelOf(decls[i]).mod = decls[i].mod  BY LabelFields
  <2>3. QED  BY <1>5, <2>1, <2>2, Zenon
<1>6. decls[i].mod = m => LabelOf(decls[i]) = Label(TRUE, m, n)  BY <1>3, Zenon
<1>7. QED  BY <1>1, <1>5, <1>6, Zenon

(* The calls of the direct generator, *)
LEMMA DirectCall ==
  ASSUME IInv, Generating, NEW u \in Uses, NEW i, i = Meant(u), Call(u)
  PROVE  Behind(symCall(u)) = {i} <=>
           Only(i) /\ (FirstOf(AnyKind, u.n, i) = i \/
                       (decls[i].mod = Order[at] /\ KindOf(FirstOf(AnyKind, u.n, i)) # "proc"))
<1> DEFINE s == lookup(symScopes, u.n)
           f == FirstOf(AnyKind, u.n, i)
           procs == FALSE
<1>1. Finds(symScopes, AnyKind, procs)  BY BothFind
<1> HIDE DEF procs
<1>2. i # 0 /\ decls[i].kind = "proc" /\ u.q \notin Names  BY DEF Call, KindOf
<1>3. /\ i \in InScope /\ i \in 1..Len(decls) /\ decls[i].name = u.n
      /\ Found(AnyKind, procs, decls[i].name, s)
  BY <1>1, <1>2, PlainIs
<1>4. symCall(u) = IF s # NoSymbol /\ decls[s.id].kind = "proc" THEN LabelOf(decls[s.id])
                   ELSE Label(TRUE, Order[at], u.n)
  BY DEF symCall
<1> HIDE DEF s, f
<1>5. CASE ~decls[i].taken
  <2>1. ~Only(i)  BY <1>5 DEF Only
  <2>2. QED  BY <1>2, <1>3, <2>1, BehindIs, Zenon
<1>6. CASE decls[i].taken
  <2>1. i \in Taking(AnyKind, u.n)  BY <1>2, <1>3, <1>6 DEF Taking, AnyKind
  <2>2. Found(AnyKind, procs, u.n, s)  BY <1>3
  <2>3. s # NoSymbol /\ f = s.id  BY <2>1, <2>2, FirstIs DEF f
  <2>4. f \in 1..Len(decls) /\ decls[f].taken /\ f # 0
    <3>1. f \in Taking(AnyKind, u.n)  BY <2>2, <2>3 DEF Found
    <3>2. QED  BY <3>1 DEF Taking, InScope
  <2>5. symCall(u) = IF decls[f].kind = "proc" THEN LabelOf(decls[f])
                     ELSE Label(TRUE, Order[at], u.n)
    BY <1>4, <2>3
  <2>6. Behind(symCall(u)) = {i} <=>
          Only(i) /\ (f = i \/ (decls[i].mod = Order[at] /\ decls[f].kind # "proc"))
    <3>1. CASE decls[f].kind = "proc"
      <4>1. symCall(u) = LabelOf(decls[f])  BY <2>5, <3>1
      <4>2. Behind(LabelOf(decls[f])) = {i} <=> Only(i) /\ f = i
        BY <1>2, <1>3, <2>4, CallLabelled
      <4>3. QED  BY <3>1, <4>1, <4>2, Zenon
    <3>2. CASE decls[f].kind # "proc"
      <4>1. symCall(u) = Label(TRUE, Order[at], decls[i].name)  BY <1>3, <2>5, <3>2, Zenon
      <4>2. Behind(Label(TRUE, Order[at], decls[i].name)) = {i} <=>
              Only(i) /\ decls[i].mod = Order[at]
        BY <1>2, <1>3, CallPlain
      <4>3. f # i  BY <1>2, <3>2
      <4>4. QED  BY <3>2, <4>1, <4>2, <4>3, Zenon
    <3>3. QED  BY <3>1, <3>2
  <2>7. KindOf(f) = decls[f].kind  BY <2>4 DEF KindOf
  <2>8. QED  BY <2>6, <2>7, Zenon DEF f
<1>7. QED  BY <1>5, <1>6

(* and those of the generator from the IR. *)
LEMMA BuilderCall ==
  ASSUME IInv, Generating, NEW u \in Uses, NEW i, i = Meant(u), Call(u)
  PROVE  Behind(irCall(u)) = {i} <=>
           Only(i) /\ (FirstOf(Stored, u.n, i) = i \/
                       (decls[i].mod = Order[at] /\ decls[FirstOf(Stored, u.n, i)].owner # 0
                          /\ KindOf(FirstOf(Stored, u.n, i)) # "proc"))
<1> DEFINE s == lookup(irScopes, u.n)
           f == FirstOf(Stored, u.n, i)
           procs == TRUE
<1>0. procs  OBVIOUS
<1>1. Finds(irScopes, Stored, procs)  BY BothFind
<1> HIDE DEF procs
<1>2. i # 0 /\ decls[i].kind = "proc" /\ u.q \notin Names  BY DEF Call, KindOf
<1>3. /\ i \in InScope /\ i \in 1..Len(decls) /\ decls[i].name = u.n
      /\ Found(Stored, procs, decls[i].name, s)
  BY <1>1, <1>2, PlainIs
<1>4. irCall(u) = IF s.global THEN LabelOf(decls[s.id]) ELSE Label(TRUE, Order[at], u.n)
  BY DEF irCall
<1> HIDE DEF s, f
<1>5. CASE ~decls[i].taken
  <2>1. ~Only(i)  BY <1>5 DEF Only
  <2>2. QED  BY <1>2, <1>3, <2>1, BehindIs, Zenon
<1>6. CASE decls[i].taken
  <2>1. i \in Taking(Stored, u.n)  BY <1>2, <1>3, <1>6 DEF Taking, AnyKind, Stored
  <2>2. Found(Stored, procs, u.n, s)  BY <1>3
  <2>3. s # NoSymbol /\ f = s.id  BY <2>1, <2>2, FirstIs DEF f
  <2>4. f \in 1..Len(decls) /\ decls[f].taken /\ f # 0
    <3>1. f \in Taking(Stored, u.n)  BY <2>2, <2>3 DEF Found
    <3>2. QED  BY <3>1 DEF Taking, InScope
  <2>5. s.global = GlobalOf(decls, f, procs)  BY <2>2, <2>3, Zenon DEF Found
  <2>6. GlobalOf(decls, f, procs) <=> decls[f].kind = "proc" \/ decls[f].owner = 0
    BY <1>0, <2>4, Zenon DEF GlobalOf
  <2>7. Behind(irCall(u)) = {i} <=>
          Only(i) /\ (f = i \/ (decls[i].mod = Order[at] /\ ~GlobalOf(decls, f, procs)))
    <3>1. CASE GlobalOf(decls, f, procs)
      <4>1. irCall(u) = LabelOf(decls[f])  BY <1>4, <2>3, <2>5, <3>1, Zenon
      <4>2. Behind(LabelOf(decls[f])) = {i} <=> Only(i) /\ f = i
        BY <1>2, <1>3, <2>4, CallLabelled
      <4>3. QED  BY <3>1, <4>1, <4>2, Zenon
    <3>2. CASE ~GlobalOf(decls, f, procs)
      <4>1. irCall(u) = Label(TRUE, Order[at], decls[i].name)
        BY <1>3, <1>4, <2>3, <2>5, <3>2, Zenon
      <4>2. Behind(Label(TRUE, Order[at], decls[i].name)) = {i} <=>
              Only(i) /\ decls[i].mod = Order[at]
        BY <1>2, <1>3, CallPlain
      <4>3. f # i  BY <1>2, <2>6, <3>2
      <4>4. QED  BY <3>2, <4>1, <4>2, <4>3, Zenon
    <3>3. QED  BY <3>1, <3>2
  <2>8. KindOf(f) = decls[f].kind  BY <2>4 DEF KindOf
  <2>9. QED  BY <2>6, <2>7, <2>8, Zenon DEF f
<1>7. QED  BY <1>5, <1>6

(* A call jumps to the procedure it means and to no other under exactly the *)
(* conditions CallsReach states, for programs of every size (the visits of *)
(* calls in IRBuilder.cpp and RiscVCodeGen.cpp).                           *)
THEOREM CallsReachHolds == Spec => []CallsReach
<1>1. IInv => CallsReach
  <2> SUFFICES ASSUME IInv, Generating, NEW u \in Uses, NEW i, i = Meant(u), Call(u)
      PROVE  /\ Behind(symCall(u)) = {i} <=>
                  Only(i) /\ (FirstOf(AnyKind, u.n, i) = i \/
                              (decls[i].mod = Order[at]
                                 /\ KindOf(FirstOf(AnyKind, u.n, i)) # "proc"))
             /\ Behind(irCall(u)) = {i} <=>
                  Only(i) /\ (FirstOf(Stored, u.n, i) = i \/
                              (decls[i].mod = Order[at]
                                 /\ decls[FirstOf(Stored, u.n, i)].owner # 0
                                 /\ KindOf(FirstOf(Stored, u.n, i)) # "proc"))
    BY Zenon DEF CallsReach, Only, FirstOf, Front
  <2>1. QED  BY DirectCall, BuilderCall
<1>2. QED  BY <1>1, Invariance, PTL
=============================================================================

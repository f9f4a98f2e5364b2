--------------------------- MODULE Layout_proofs ---------------------------
(***************************************************************************)
(* For all types, dimensions and bounds: whichever way a program is        *)
(* compiled, two components of its variable share no byte, and each lies   *)
(* inside the variable or inside what NEW has allocated.                   *)
(*                                                                         *)
(* The types of a program are data of any depth, and nothing is proved by  *)
(* induction over them.  Instead a set is carried along in which every     *)
(* type is put as it is built: pairs of a type and the TypeInfo the direct *)
(* generator has for it, triples of a type, a name and a size for          *)
(* IRBuilder.  The invariant says that the set is closed: what a member    *)
(* says of its parts, of their places and sizes, only mentions members.    *)
(* Each declaration adds a member or two and leaves the rest as it was.    *)
(*                                                                         *)
(* With that, the components the designators of a variable stand for are a *)
(* family: each but the first is a part of another, lies inside it, and    *)
(* beside the other parts of it.  Two members of a family that have no     *)
(* parts are the same or share no byte (FamilyRelated), and to get at all  *)
(* designators takes only an induction on the number of selectors          *)
(* (ReachedInduction).                                                     *)
(***************************************************************************)
EXTENDS Layout, TLAPS, FiniteSetTheorems, SequenceTheorems, WellFoundedInduction

-----------------------------------------------------------------------------
(* Tables and sums.                                                        *)

(* No fields take no bytes.                                                *)
LEMMA TotalNone ==
  ASSUME NEW f
  PROVE  Total(f, 0) = 0
<1>1. 1..0 = {}
  OBVIOUS
<1>2. QED
  BY <1>1 DEF Total, SumFunctionOnSet, FoldFunctionOnSet, MapThenFoldSet

Summing(f, S, g) ==
  g = [s \in SUBSET S |->
         IF s = {} THEN 0 ELSE LET x == CHOOSE y \in s : TRUE IN f[x] + g[s \ {x}]]

(* One step of a recursive sum over a set.                                 *)
LEMMA SummingStep ==
  ASSUME NEW f, NEW S, NEW g, Summing(f, S, g), NEW s \in SUBSET S, s # {}
  PROVE  \E x \in s : g[s] = f[x] + g[s \ {x}]
<1>. DEFINE x == CHOOSE y \in s : TRUE
<1>1. x \in s
  OBVIOUS
<1>2. g[s] = f[x] + g[s \ {x}]
  BY DEF Summing
<1>3. QED
  BY <1>1, <1>2

Integral(f, S) == \A x \in S : f[x] \in Int

SumsUp(f, S, g) ==
  /\ g[{}] = 0
  /\ \A x \in S : g[{x}] = f[x]
  /\ \A x, y \in S : x # y => g[{x, y}] = f[x] + f[y]

(* A recursive sum over one place, and over two.                           *)
LEMMA SummingOf ==
  ASSUME NEW f, NEW S, NEW g, Summing(f, S, g), Integral(f, S)
  PROVE  SumsUp(f, S, g)
<1>1. g[{}] = 0
  BY DEF Summing
<1>2. \A x \in S : g[{x}] = f[x]
  <2>. SUFFICES ASSUME NEW x \in S  PROVE g[{x}] = f[x]
    OBVIOUS
  <2>1. PICK z \in {x} : g[{x}] = f[z] + g[{x} \ {z}]
    <3>. {x} \in SUBSET S /\ {x} # {}
      OBVIOUS
    <3>. QED
      BY SummingStep
  <2>2. z = x /\ {x} \ {z} = {} /\ f[x] \in Int
    BY DEF Integral
  <2>3. g[{x}] = f[x] + 0
    BY <2>1, <2>2, <1>1
  <2>4. QED
    BY <2>2, <2>3
<1>3. ASSUME NEW x \in S, NEW y \in S, x # y
      PROVE  g[{x, y}] = f[x] + f[y]
  <2>1. PICK z \in {x, y} : g[{x, y}] = f[z] + g[{x, y} \ {z}]
    <3>. {x, y} \in SUBSET S /\ {x, y} # {}
      OBVIOUS
    <3>. QED
      BY SummingStep
  <2>2. {x, y} \ {x} = {y} /\ {x, y} \ {y} = {x}
    BY <1>3
  <2>a. g[{x}] = f[x] /\ g[{y}] = f[y] /\ f[x] \in Int /\ f[y] \in Int
    BY <1>2 DEF Integral
  <2>3. CASE z = x
    BY <2>1, <2>2, <2>3, <2>a
  <2>4. CASE z = y
    <3>1. g[{x, y}] = f[y] + g[{x}]
      BY <2>1, <2>2, <2>4
    <3>2. QED
      BY <3>1, <2>a
  <2>5. QED
    BY <2>3, <2>4
<1>4. QED
  BY <1>1, <1>2, <1>3 DEF SumsUp

(* The recursion of the sum has a solution.                                *)
LEMMA SummingExists ==
  ASSUME NEW f, NEW x, NEW y, f[x] \in Int, f[y] \in Int, NEW S \in SUBSET {x, y}
  PROVE  \E g : Summing(f, S, g)
<1>. DEFINE At(s, z) == IF z \in s THEN f[z] ELSE 0
            G == [s \in SUBSET S |-> At(s, x) + (IF y = x THEN 0 ELSE At(s, y))]
<1>0. SUFFICES Summing(f, S, G)
  OBVIOUS
<1>. SUFFICES ASSUME NEW s \in SUBSET S
              PROVE  G[s] = IF s = {} THEN 0
                            ELSE LET z == CHOOSE w \in s : TRUE IN f[z] + G[s \ {z}]
  BY DEF Summing
<1>1. CASE s = {}
  BY <1>1
<1>2. CASE s # {}
  <2>. DEFINE z == CHOOSE w \in s : TRUE
  <2>1. z \in s /\ z \in {x, y}
    BY <1>2
  <2>2. /\ G[s] = At(s, x) + (IF y = x THEN 0 ELSE At(s, y))
        /\ G[s \ {z}] = At(s \ {z}, x) + (IF y = x THEN 0 ELSE At(s \ {z}, y))
    OBVIOUS
  <2>. HIDE DEF z
  <2>3. G[s] = f[z] + G[s \ {z}]
    <3>. HIDE DEF G
    <3>1. CASE z = x
      BY <3>1, <2>1, <2>2
    <3>2. CASE z = y
      BY <3>2, <2>1, <2>2
    <3>3. QED
      BY <3>1, <3>2, <2>1
  <2>4. QED
    BY <2>3, <1>2 DEF z
<1>3. QED
  BY <1>1, <1>2

SumAt(f, S, v) == \E g : Summing(f, S, g) /\ v = g[S]

(* The sum over one place is the value there.                              *)
LEMMA SumOfOne ==
  ASSUME NEW f, NEW x, f[x] \in Int, NEW v, SumAt(f, {x}, v)
  PROVE  v = f[x]
<1>1. PICK g : Summing(f, {x}, g) /\ v = g[{x}]
  BY DEF SumAt
<1>2. Integral(f, {x})
  BY DEF Integral
<1>3. SumsUp(f, {x}, g)
  BY <1>1, <1>2, SummingOf
<1>4. QED
  BY <1>1, <1>3 DEF SumsUp

(* The sum over two places is the sum of the two values.                   *)
LEMMA SumOfTwo ==
  ASSUME NEW f, NEW x, NEW y, x # y, f[x] \in Int, f[y] \in Int, NEW v, SumAt(f, {x, y}, v)
  PROVE  v = f[x] + f[y]
<1>1. PICK g : Summing(f, {x, y}, g) /\ v = g[{x, y}]
  BY DEF SumAt
<1>2. Integral(f, {x, y})
  BY DEF Integral
<1>3. SumsUp(f, {x, y}, g)
  BY <1>1, <1>2, SummingOf
<1>4. x \in {x, y} /\ y \in {x, y}
  OBVIOUS
<1>5. QED
  BY <1>1, <1>3, <1>4 DEF SumsUp

(* Total is the recursive sum.                                             *)
LEMMA TotalIs ==
  ASSUME NEW f, NEW n, \E g : Summing(f, 1..n, g)
  PROVE  SumAt(f, 1..n, Total(f, n))
<1>. DEFINE It == CHOOSE g : g = [s \in SUBSET (1..n) |->
               IF s = {} THEN 0 ELSE LET x == CHOOSE y \in s : TRUE IN f[x] + g[s \ {x}]]
<1>1. Total(f, n) = It[1..n]
  BY DEF Total, SumFunctionOnSet, FoldFunctionOnSet, MapThenFoldSet
<1>2. Summing(f, 1..n, It)
  <2>1. It = CHOOSE g : Summing(f, 1..n, g)
    BY DEF Summing
  <2>. HIDE DEF It
  <2>2. QED
    BY <2>1
<1>. HIDE DEF It
<1>3. QED
  BY <1>1, <1>2 DEF SumAt

(* A sum over nothing, over one place, over two places.                    *)
LEMMA Totals ==
  ASSUME NEW f, f[1] \in Int
  PROVE  /\ Total(f, 0) = 0
         /\ Total(f, 1) = f[1]
         /\ f[2] \in Int => Total(f, 2) = f[1] + f[2]
<1>1. Total(f, 0) = 0
  BY TotalNone
<1>2. Total(f, 1) = f[1]
  <2>1. 1..1 = {1} /\ 1..1 \in SUBSET {1, 1}
    OBVIOUS
  <2>2. \E g : Summing(f, 1..1, g)
    BY <2>1, SummingExists
  <2>3. SumAt(f, 1..1, Total(f, 1))
    BY <2>2, TotalIs
  <2>4. SumAt(f, {1}, Total(f, 1))
    BY <2>1, <2>3
  <2>5. QED
    BY <2>4, SumOfOne
<1>3. ASSUME f[2] \in Int  PROVE Total(f, 2) = f[1] + f[2]
  <2>1. 1..2 = {1, 2} /\ 1..2 \in SUBSET {1, 2}
    OBVIOUS
  <2>2. \E g : Summing(f, 1..2, g)
    BY <2>1, <1>3, SummingExists
  <2>3. SumAt(f, 1..2, Total(f, 2))
    BY <2>2, TotalIs
  <2>4. SumAt(f, {1, 2}, Total(f, 2))
    BY <2>1, <2>3
  <2>5. 1 # 2
    OBVIOUS
  <2>6. QED
    BY <2>4, <2>5, <1>3, SumOfTwo, Zenon
<1>4. QED
  BY <1>1, <1>2, <1>3

(* Induction, for sets of numbers.                                         *)
LEMMA AllNumbers ==
  ASSUME NEW S, 0 \in S, \A n \in Nat : n \in S => n + 1 \in S
  PROVE  Nat \subseteq S
  <1> DEFINE R == OpToRel(<, Nat)
             T == {n \in Nat : n \notin S}
  <1> HIDE DEF R
  <1>0. R = {ss \in Nat \X Nat : ss[1] < ss[2]}
    BY DEF R, OpToRel
  <1>1. \A a, b \in Nat : a < b => <<a, b>> \in R
    BY <1>0
  <1>2. IsWellFoundedOn(R, Nat)
    BY NatLessThanWellFounded, Zenon DEF R
  <1>3. ASSUME T # {}
        PROVE  FALSE
    <2>1. T \subseteq Nat
      OBVIOUS
    <2>2. PICK x \in T : \A y \in T : ~ (<<y, x>> \in R)
      BY <1>2, <1>3, <2>1, WFMin, Zenon
    <2>3. x \in Nat /\ x # 0
      OBVIOUS
    <2>4. x - 1 \in Nat /\ x - 1 < x
      BY <2>3
    <2>5. x - 1 \in S
      BY <1>1, <2>2, <2>3, <2>4
    <2>6. (x - 1) + 1 \in S
      BY <2>4, <2>5
    <2> QED BY <2>3, <2>6
  <1> QED BY <1>3

-----------------------------------------------------------------------------
(* Paths: what Append makes of them.                                       *)
IsPath(p) == \E S : p \in Seq(S)

(* A path with one more selector.                                          *)
LEMMA PathAppend ==
  ASSUME NEW p, IsPath(p), NEW s
  PROVE  /\ IsPath(Append(p, s)) /\ Len(p) \in Nat /\ Len(Append(p, s)) = Len(p) + 1
         /\ \A i \in 1..Len(p) : Append(p, s)[i] = p[i]
         /\ Append(p, s)[Len(p) + 1] = s
<1>1. PICK S : p \in Seq(S)
  BY DEF IsPath
<1>2. p \in Seq(S \cup {s}) /\ s \in S \cup {s}
  BY <1>1
<1>. DEFINE T == S \cup {s}
<1>. HIDE DEF T
<1>3. Append(p, s) \in Seq(T) /\ Len(p) \in Nat /\ Len(Append(p, s)) = Len(p) + 1
      /\ (\A i \in 1..Len(p) : Append(p, s)[i] = p[i]) /\ Append(p, s)[Len(p) + 1] = s
  BY <1>2 DEF T
<1>4. QED
  BY <1>3 DEF IsPath

-----------------------------------------------------------------------------
(* Places: a component has a path and extends from off over size bytes.    *)
Within(c, k) == c.off <= k.off /\ k.off + k.size <= c.off + c.size
Disjoint(c, k) == c.off + c.size <= k.off \/ k.off + k.size <= c.off

(* Bytes within others and bytes beside others: the two go together.       *)
LEMMA WithinFar ==
  ASSUME NEW c, NEW k, NEW e, c.off \in Int, c.size \in Int, k.off \in Int, k.size \in Int,
         e.off \in Int, e.size \in Int
  PROVE  /\ Within(c, k) /\ Within(k, e) => Within(c, e)
         /\ Disjoint(c, e) /\ Within(c, k) => Disjoint(k, e)
         /\ Disjoint(e, c) /\ Within(c, k) => Disjoint(e, k)
         /\ Disjoint(c, e) => Disjoint(e, c)
         /\ Within(c, c)
BY DEF Within, Disjoint

(* A family of components: all but the first are a part of another.        *)
Placed(c) == IsPath(c.path) /\ c.off \in Int /\ c.size \in Int
Longer(p, q) == \E s : q = Append(p, s)
Family(A, Parts, base) ==
  /\ base \in A
  /\ \A c \in A : Placed(c)
  /\ \A c \in A : c # base => \E k \in A : <<k, c>> \in Parts
  /\ \A k, c \in A : <<k, c>> \in Parts => Longer(k.path, c.path) /\ Within(k, c)
  /\ \A k, c, e \in A : <<k, c>> \in Parts /\ <<k, e>> \in Parts /\ c # e =>
       c.path # e.path /\ Disjoint(c, e)

(* How two of them lie to each other.                                      *)
Below(A, Parts, c, e) ==
  /\ Len(c.path) < Len(e.path) /\ \A i \in 1..Len(c.path) : c.path[i] = e.path[i]
  /\ Within(c, e)
  /\ \E k \in A : <<c, k>> \in Parts
Apart(c, e) ==
  /\ \E i \in 1..Len(c.path) : i <= Len(e.path) /\ c.path[i] # e.path[i]
  /\ Disjoint(c, e)
Related(A, Parts, c, e) ==
  c = e \/ Below(A, Parts, c, e) \/ Below(A, Parts, e, c) \/ Apart(c, e)

(* A longer path goes on where the shorter one ends.                       *)
LEMMA LongerLen ==
  ASSUME NEW p, NEW q, IsPath(p), Longer(p, q)
  PROVE  /\ Len(p) \in Nat /\ Len(q) = Len(p) + 1 /\ \A i \in 1..Len(p) : q[i] = p[i]
BY PathAppend DEF Longer

(* Two continuations of a path differ in the last selector.                *)
LEMMA PathsDiffer ==
  ASSUME NEW p, NEW q, NEW r, IsPath(p), Longer(p, q), Longer(p, r), q # r
  PROVE  Len(q) = Len(r) /\ Len(q) \in 1..Len(q) /\ q[Len(q)] # r[Len(q)]
<1>1. PICK s : q = Append(p, s)
  BY DEF Longer
<1>2. PICK u : r = Append(p, u)
  BY DEF Longer
<1>3. s # u
  BY <1>1, <1>2
<1>4. Len(p) \in Nat /\ Len(q) = Len(p) + 1 /\ Len(r) = Len(p) + 1 /\ q[Len(p) + 1] = s
      /\ r[Len(p) + 1] = u
  BY <1>1, <1>2, PathAppend
<1>5. QED
  BY <1>3, <1>4

(* How two components lie to each other does not depend on their order.    *)
LEMMA RelatedSym ==
  ASSUME NEW A, NEW Parts, NEW c, NEW e, Placed(c), Placed(e), Related(A, Parts, c, e)
  PROVE  Related(A, Parts, e, c)
<1>1. CASE Apart(c, e)
  <2>1. PICK i \in 1..Len(c.path) : i <= Len(e.path) /\ c.path[i] # e.path[i]
    BY <1>1 DEF Apart
  <2>2. Len(c.path) \in Nat /\ Len(e.path) \in Nat
    BY PathAppend DEF Placed
  <2>3. Disjoint(e, c)
    BY <1>1, WithinFar DEF Apart, Placed
  <2>4. i \in 1..Len(e.path) /\ i <= Len(c.path)
    BY <2>1, <2>2
  <2>5. QED
    BY <2>1, <2>3, <2>4 DEF Apart, Related
<1>2. QED
  BY <1>1 DEF Related

(* What is below or apart stays so in its parts.                           *)
LEMMA BelowPart ==
  ASSUME NEW A, NEW Parts, NEW base, Family(A, Parts, base),
         NEW c \in A, NEW e \in A, NEW k \in A, <<e, k>> \in Parts
  PROVE  /\ c = e \/ Below(A, Parts, c, e) => Below(A, Parts, c, k)
         /\ Apart(c, e) => Apart(c, k)
<1>1. /\ Placed(c) /\ Placed(e) /\ Placed(k) /\ Longer(e.path, k.path) /\ Within(e, k)
  BY DEF Family
<1>2. /\ Len(e.path) \in Nat /\ Len(k.path) = Len(e.path) + 1
      /\ \A i \in 1..Len(e.path) : k.path[i] = e.path[i]
  BY <1>1, LongerLen DEF Placed
<1>3. Len(c.path) \in Nat
  BY <1>1, PathAppend DEF Placed
<1>4. ASSUME c = e  PROVE Below(A, Parts, c, k)
  BY <1>1, <1>2, <1>4 DEF Below
<1>5. ASSUME Below(A, Parts, c, e)  PROVE Below(A, Parts, c, k)
  <2>1. Within(c, k)
    BY <1>1, <1>5, WithinFar DEF Below, Placed
  <2>2. Len(c.path) < Len(k.path) /\ \A i \in 1..Len(c.path) : c.path[i] = k.path[i]
    BY <1>2, <1>3, <1>5 DEF Below
  <2>3. QED
    BY <1>5, <2>1, <2>2 DEF Below
<1>6. ASSUME Apart(c, e)  PROVE Apart(c, k)
  <2>1. Disjoint(c, k)
    BY <1>1, <1>6, WithinFar DEF Apart, Placed
  <2>2. PICK i \in 1..Len(c.path) : i <= Len(e.path) /\ c.path[i] # e.path[i]
    BY <1>6 DEF Apart
  <2>3. i <= Len(k.path) /\ c.path[i] # k.path[i]
    BY <1>2, <1>3, <2>2
  <2>4. QED
    BY <2>1, <2>2, <2>3 DEF Apart
<1>7. QED
  BY <1>4, <1>5, <1>6

(* Parts of related components are related.                                *)
LEMMA PartsRelated ==
  ASSUME NEW A, NEW Parts, NEW base, Family(A, Parts, base),
         NEW x \in A, NEW c \in A, <<x, c>> \in Parts,
         NEW y \in A, NEW e \in A, <<y, e>> \in Parts,
         Related(A, Parts, x, y), Related(A, Parts, x, e), Related(A, Parts, c, y)
  PROVE  Related(A, Parts, c, e)
<1>1. /\ Placed(x) /\ Placed(c) /\ Placed(y) /\ Placed(e)
      /\ Longer(x.path, c.path) /\ Longer(y.path, e.path)
  BY DEF Family
<1>2. /\ Len(x.path) \in Nat /\ Len(c.path) = Len(x.path) + 1
      /\ Len(y.path) \in Nat /\ Len(e.path) = Len(y.path) + 1
  BY <1>1, LongerLen DEF Placed
<1>3. CASE x = y
  <2>1. CASE c = e
    BY <2>1 DEF Related
  <2>2. CASE c # e
    <3>1. c.path # e.path /\ Disjoint(c, e)
      BY <1>3, <2>2 DEF Family
    <3>2. /\ Len(c.path) = Len(e.path) /\ Len(c.path) \in 1..Len(c.path)
          /\ c.path[Len(c.path)] # e.path[Len(c.path)]
      BY <1>1, <1>3, <3>1, PathsDiffer DEF Placed
    <3>3. Len(c.path) <= Len(e.path)
      BY <3>2
    <3>4. QED
      BY <3>1, <3>2, <3>3 DEF Apart, Related
  <2>3. QED
    BY <2>1, <2>2
<1>4. CASE Apart(x, y)
  <2>1. Apart(x, e)
    BY <1>4, BelowPart
  <2>2. Related(A, Parts, e, x) /\ Apart(e, x)
    <3>1. PICK i \in 1..Len(x.path) : i <= Len(e.path) /\ x.path[i] # e.path[i]
      BY <2>1 DEF Apart
    <3>2. Disjoint(e, x)
      BY <1>1, <2>1, WithinFar DEF Apart, Placed
    <3>3. i \in 1..Len(e.path) /\ i <= Len(x.path)
      BY <1>2, <3>1
    <3>4. Apart(e, x)
      BY <3>1, <3>2, <3>3 DEF Apart
    <3>5. QED
      BY <3>4 DEF Related
  <2>3. Apart(e, c)
    BY <2>2, BelowPart
  <2>4. Related(A, Parts, e, c)
    BY <2>3 DEF Related
  <2>5. QED
    BY <1>1, <2>4, RelatedSym
<1>5. CASE Below(A, Parts, x, y)
  <2>1. ~ Below(A, Parts, y, c)
    BY <1>2, <1>5 DEF Below
  <2>2. CASE c = y \/ Below(A, Parts, c, y)
    <3>1. Below(A, Parts, c, e)
      BY <2>2, BelowPart
    <3>2. QED
      BY <3>1 DEF Related
  <2>3. CASE Apart(c, y)
    <3>1. Apart(c, e)
      BY <2>3, BelowPart
    <3>2. QED
      BY <3>1 DEF Related
  <2>4. QED
    BY <2>1, <2>2, <2>3 DEF Related
<1>6. CASE Below(A, Parts, y, x)
  <2>1. ~ Below(A, Parts, x, e)
    BY <1>2, <1>6 DEF Below
  <2>0. Related(A, Parts, e, x)
    BY <1>1, RelatedSym
  <2>2. CASE e = x \/ Below(A, Parts, e, x)
    <3>1. Below(A, Parts, e, c)
      BY <2>2, BelowPart
    <3>2. QED
      BY <3>1 DEF Related
  <2>3. CASE Apart(e, x)
    <3>1. Apart(e, c)
      BY <2>3, BelowPart
    <3>2. Related(A, Parts, e, c)
      BY <3>1 DEF Related
    <3>3. QED
      BY <1>1, <3>2, RelatedSym
  <2>4. QED
    BY <2>0, <2>1, <2>2, <2>3 DEF Related
<1>7. QED
  BY <1>3, <1>4, <1>5, <1>6 DEF Related

PartOf(A, Parts, k, d) ==
  k \in A /\ <<k, d>> \in Parts /\ Len(k.path) \in Nat /\ Len(d.path) = Len(k.path) + 1

(* All but the first of a family are a part of one with a shorter path.    *)
LEMMA FamilyParent ==
  ASSUME NEW A, NEW Parts, NEW base, Family(A, Parts, base), NEW d \in A
  PROVE  /\ Len(d.path) \in Nat
         /\ d = base \/ \E k : PartOf(A, Parts, k, d)
<1>1. Len(d.path) \in Nat
  BY PathAppend DEF Family, Placed
<1>2. ASSUME d # base  PROVE \E k : PartOf(A, Parts, k, d)
  <2>1. PICK k \in A : <<k, d>> \in Parts
    BY <1>2 DEF Family
  <2>2. IsPath(k.path) /\ Longer(k.path, d.path)
    BY <2>1 DEF Family, Placed
  <2>3. QED
    BY <2>1, <2>2, LongerLen DEF PartOf
<1>3. QED
  BY <1>1, <1>2

(* The first of a family is the one with the shortest path.                *)
LEMMA FamilyFirst ==
  ASSUME NEW A, NEW Parts, NEW base, Family(A, Parts, base), NEW d \in A, Len(d.path) <= 0
  PROVE  d = base
<1>1. CASE \E k : PartOf(A, Parts, k, d)
  <2>1. PICK k : PartOf(A, Parts, k, d)
    BY <1>1
  <2>2. QED
    BY <2>1 DEF PartOf
<1>2. QED
  BY <1>1, FamilyParent

(* All of a family are the first or below it.                              *)
LEMMA FamilyBelow ==
  ASSUME NEW A, NEW Parts, NEW base, Family(A, Parts, base), NEW c \in A
  PROVE  c = base \/ Below(A, Parts, base, c)
<1>. DEFINE Q(d) == base = d \/ Below(A, Parts, base, d)
            S == {n \in Nat : \A d \in A : Len(d.path) <= n => Q(d)}
<1>1. \A d \in A : Len(d.path) \in Nat
  BY FamilyParent
<1>2. \A d \in A : d = base \/ \E k : PartOf(A, Parts, k, d)
  BY FamilyParent
<1>0. \A d \in A : Len(d.path) <= 0 => d = base
  BY FamilyFirst
<1>3. 0 \in S
  BY <1>0
<1>4. ASSUME NEW n \in Nat, n \in S  PROVE n + 1 \in S
  <2>1. ASSUME NEW d \in A, Len(d.path) <= n + 1, d # base  PROVE Q(d)
    <3>1. PICK k \in A : <<k, d>> \in Parts /\ Len(d.path) = Len(k.path) + 1
      BY <1>2, <2>1 DEF PartOf
    <3>2. Len(k.path) <= n
      BY <1>1, <2>1, <3>1
    <3>3. Q(k)
      BY <1>4, <3>2
    <3>. base \in A
      BY DEF Family
    <3>4. QED
      BY <3>1, <3>3, BelowPart
  <2>. HIDE DEF Q
  <2>2. \A d \in A : d = base => Q(d)
    BY DEF Q
  <2>3. QED
    BY <2>1, <2>2
<1>. HIDE DEF S
<1>5. Nat \subseteq S
  BY <1>3, <1>4, AllNumbers
<1>6. Len(c.path) \in S /\ Len(c.path) <= Len(c.path)
  BY <1>1, <1>5
<1>7. Q(c)
  BY <1>6 DEF S
<1>8. QED
  BY <1>7

(* Any two of a family are the same, one below the other, or apart.        *)
LEMMA FamilyRelated ==
  ASSUME NEW A, NEW Parts, NEW base, Family(A, Parts, base), NEW c \in A, NEW e \in A
  PROVE  Related(A, Parts, c, e)
<1>. DEFINE Q(d, f) == Related(A, Parts, d, f)
            S == {n \in Nat : \A d \in A : Len(d.path) <= n => \A f \in A : Q(d, f)}
<1>1. \A d \in A : Len(d.path) \in Nat
  BY FamilyParent
<1>2. \A d \in A : d = base \/ \E k : PartOf(A, Parts, k, d)
  BY FamilyParent
<1>0. \A d \in A : Len(d.path) <= 0 => d = base
  BY FamilyFirst
<1>3. \A d \in A : Q(base, d) /\ Q(d, base)
  BY FamilyBelow DEF Related
<1>. HIDE DEF Q
<1>4. 0 \in S
  BY <1>0, <1>3
<1>5. ASSUME NEW n \in Nat, n \in S  PROVE n + 1 \in S
  <2>. SUFFICES ASSUME NEW d \in A, Len(d.path) <= n + 1  PROVE \A f \in A : Q(d, f)
    OBVIOUS
  <2>1. CASE d = base
    BY <1>3, <2>1
  <2>2. CASE d # base
    <3>1. PICK x \in A : <<x, d>> \in Parts /\ Len(d.path) = Len(x.path) + 1
      BY <1>2, <2>2 DEF PartOf
    <3>2. Len(x.path) <= n
      BY <1>1, <3>1
    <3>3. \A f \in A : Q(x, f)
      BY <1>5, <3>2
    <3>. DEFINE T == {m \in Nat : \A f \in A : Len(f.path) <= m => Q(d, f)}
    <3>4. 0 \in T
      BY <1>0, <1>3
    <3>5. ASSUME NEW m \in Nat, m \in T  PROVE m + 1 \in T
      <4>. SUFFICES ASSUME NEW f \in A, Len(f.path) <= m + 1, f # base  PROVE Q(d, f)
        BY <1>3
      <4>1. PICK y \in A : <<y, f>> \in Parts /\ Len(f.path) = Len(y.path) + 1
        BY <1>2 DEF PartOf
      <4>2. Len(y.path) <= m
        BY <1>1, <4>1
      <4>3. Q(d, y) /\ Q(x, y) /\ Q(x, f)
        BY <3>3, <3>5, <4>2
      <4>4. QED
        BY <3>1, <4>1, <4>3, PartsRelated DEF Q
    <3>. HIDE DEF T
    <3>6. Nat \subseteq T
      BY <3>4, <3>5, AllNumbers
    <3>7. \A f \in A : Len(f.path) \in T /\ Len(f.path) <= Len(f.path)
      BY <1>1, <3>6
    <3>8. QED
      BY <3>7 DEF T
  <2>3. QED
    BY <2>1, <2>2
<1>. HIDE DEF S
<1>6. Nat \subseteq S
  BY <1>4, <1>5, AllNumbers
<1>7. Len(c.path) \in S /\ Len(c.path) <= Len(c.path)
  BY <1>1, <1>6
<1>8. Q(c, e)
  BY <1>7 DEF S
<1>9. QED
  BY <1>8 DEF Q

-----------------------------------------------------------------------------
(* UpTo is what its definition says: a set of designators, then those and  *)
(* the ones a selector makes of them.                                      *)
More(D) == D \cup UNION {Selected(d) : d \in D}
Grows(g, k) == \A n \in 0..k : g[n] = IF n = 0 THEN {Start} ELSE More(g[n - 1])

(* The recursion of UpTo has a solution on every initial segment.          *)
LEMMA GrowsOn ==
  ASSUME NEW k \in Nat
  PROVE  \E g : Grows(g, k)
<1>. DEFINE S == {n \in Nat : \E g : Grows(g, n)}
<1>1. 0 \in S
  <2>. DEFINE g == [n \in {0} |-> {Start}]
  <2>1. \A n \in 0..0 : n = 0 /\ g[0] = {Start}
    OBVIOUS
  <2>. HIDE DEF g
  <2>2. Grows(g, 0)
    BY <2>1 DEF Grows
  <2>3. QED
    BY <2>2
<1>2. ASSUME NEW n \in Nat, n \in S  PROVE n + 1 \in S
  <2>1. PICK g : Grows(g, n)
    BY <1>2
  <2>. DEFINE h == [m \in 0..(n + 1) |-> IF m = n + 1 THEN More(g[n]) ELSE g[m]]
  <2>2. h[n + 1] = More(g[n]) /\ \A m \in 0..n : h[m] = g[m]
    OBVIOUS
  <2>. HIDE DEF h
  <2>3. ASSUME NEW m \in 0..(n + 1)
        PROVE  h[m] = IF m = 0 THEN {Start} ELSE More(h[m - 1])
    <3>1. CASE m = n + 1
      <4>1. m # 0 /\ m - 1 = n /\ n \in 0..n
        BY <3>1
      <4>2. QED
        BY <2>2, <3>1, <4>1
    <3>2. CASE m # n + 1
      <4>1. m \in 0..n /\ (m # 0 => m - 1 \in 0..n)
        BY <3>2
      <4>2. g[m] = IF m = 0 THEN {Start} ELSE More(g[m - 1])
        BY <2>1, <4>1 DEF Grows
      <4>3. QED
        BY <2>2, <4>1, <4>2
    <3>3. QED
      BY <3>1, <3>2
  <2>4. Grows(h, n + 1)
    BY <2>3 DEF Grows
  <2>5. QED
    BY <2>4
<1>. HIDE DEF S
<1>3. k \in S
  BY <1>1, <1>2, AllNumbers
<1>4. QED
  BY <1>3 DEF S

(* UpTo satisfies the equation it is defined by.                           *)
LEMMA UpToIs ==
  \A n \in 0..MaxPath : UpTo[n] = IF n = 0 THEN {Start} ELSE More(UpTo[n - 1])
<1>. DEFINE F(g) == [n \in 0..MaxPath |-> IF n = 0 THEN {Start} ELSE More(g[n - 1])]
            u == CHOOSE g : g = F(g)
<1>1. UpTo = u
  BY DEF UpTo, More
<1>2. PICK g : Grows(g, MaxPath)
  BY GrowsOn, BoundAssumption
<1>. DEFINE h == [n \in 0..MaxPath |-> g[n]]
<1>3. h = F(h)
  <2>1. \A n \in 0..MaxPath : h[n] = g[n]
    OBVIOUS
  <2>2. ASSUME NEW n \in 0..MaxPath
        PROVE  h[n] = IF n = 0 THEN {Start} ELSE More(h[n - 1])
    <3>1. n # 0 => n - 1 \in 0..MaxPath
      BY BoundAssumption
    <3>. HIDE DEF h
    <3>2. g[n] = IF n = 0 THEN {Start} ELSE More(g[n - 1])
      BY <1>2 DEF Grows
    <3>3. QED
      BY <2>1, <3>1, <3>2
  <2>3. h = [n \in 0..MaxPath |-> h[n]]
    OBVIOUS
  <2>. HIDE DEF h
  <2>4. QED
    BY <2>2, <2>3
<1>. HIDE DEF h
<1>4. u = F(u)
  <2>. HIDE DEF F
  <2>1. QED
    BY <1>3
<1>. HIDE DEF u
<1>5. QED
  BY <1>1, <1>4

(* An induction over the selectors of a designator.                        *)
Reached == UNION {UpTo[n] : n \in 0..MaxPath}

(* What holds of the bare variable and survives every selector holds of    *)
(* all designators.                                                        *)
LEMMA ReachedInduction ==
  ASSUME NEW S, Start \in S,
         \A d \in S \cap Reached : \A e \in Selected(d) \cap Reached : e \in S
  PROVE  Reached \subseteq S
<1>. DEFINE T == {n \in Nat : n <= MaxPath => UpTo[n] \subseteq S}
<1>1. 0 \in T
  <2>1. 0 \in 0..MaxPath
    BY BoundAssumption
  <2>2. UpTo[0] = {Start}
    BY <2>1, UpToIs
  <2>3. QED
    BY <2>2
<1>2. ASSUME NEW n \in Nat, n \in T  PROVE n + 1 \in T
  <2>. SUFFICES ASSUME n + 1 <= MaxPath  PROVE UpTo[n + 1] \subseteq S
    OBVIOUS
  <2>1. n + 1 \in 0..MaxPath /\ n + 1 # 0 /\ (n + 1) - 1 = n /\ n <= MaxPath /\ n \in 0..MaxPath
    BY BoundAssumption
  <2>2. UpTo[n + 1] = More(UpTo[n])
    BY <2>1, UpToIs
  <2>3. UpTo[n] \subseteq S
    BY <1>2, <2>1
  <2>4. UpTo[n] \subseteq Reached /\ UpTo[n + 1] \subseteq Reached
    BY <2>1 DEF Reached
  <2>. HIDE DEF T
  <2>5. ASSUME NEW e \in UpTo[n + 1]  PROVE e \in S
    <3>1. CASE e \in UpTo[n]
      BY <2>3, <3>1
    <3>2. CASE \E d \in UpTo[n] : e \in Selected(d)
      <4>1. PICK d \in UpTo[n] : e \in Selected(d)
        BY <3>2
      <4>2. d \in S \cap Reached /\ e \in Selected(d) \cap Reached
        BY <2>3, <2>4, <4>1
      <4>3. QED
        BY <4>2
    <3>3. QED
      BY <2>2, <3>1, <3>2 DEF More
  <2>6. QED
    BY <2>5
<1>. HIDE DEF T
<1>3. Nat \subseteq T
  BY <1>1, <1>2, AllNumbers
<1>4. ASSUME NEW n \in 0..MaxPath  PROVE UpTo[n] \subseteq S
  BY <1>3, BoundAssumption DEF T
<1>5. QED
  BY <1>4 DEF Reached

(* The variable without selectors is a designator.                         *)
LEMMA StartReached == Start \in Reached
<1>1. 0 \in 0..MaxPath
  BY BoundAssumption
<1>2. UpTo[0] = {Start}
  BY <1>1, UpToIs
<1>3. QED
  BY <1>1, <1>2 DEF Reached

(* The designators that are read and written are reached.                  *)
LEMMA DesignatorsReached == Designators \subseteq Reached
BY BoundAssumption DEF Designators, Reached

-----------------------------------------------------------------------------
(* Designators as records: what each step of a selector leaves alone.      *)
IsDesignator(d) ==
  DOMAIN d = {"path", "type", "first", "last", "sym", "info", "ir", "name", "symPlain", "irPlain"}
IsPlace(p) == DOMAIN p = {"block", "depth", "room", "offset"}

SameSym(d, e) == e.sym = d.sym /\ e.info = d.info
SameIR(d, e) == e.ir = d.ir /\ e.name = d.name
SameMeaning(d, e) ==
  e.path = d.path /\ e.type = d.type /\ e.symPlain = d.symPlain /\ e.irPlain = d.irPlain
SameSelectors(d, e) == e.first = d.first /\ e.last = d.last

(* What ^ means to the language.                                           *)
LEMMA MeansDerefIs ==
  ASSUME NEW d, IsDesignator(d), NEW e, e = MeansDeref(d)
  PROVE  /\ IsDesignator(e) /\ SameSym(d, e) /\ SameIR(d, e) /\ SameSelectors(d, e)
         /\ e.path = Append(d.path, <<"deref">>)
         /\ e.type = [kind |-> "named", name |-> Meaning(d.type).to]
         /\ e.symPlain => d.symPlain /\ d.path = <<>> /\ ~Meaning(d.type).early
         /\ e.irPlain => d.irPlain /\ d.path = <<>>
BY DEF MeansDeref, IsDesignator, SameSym, SameIR, SameSelectors

(* What a field means to the language.                                     *)
LEMMA MeansFieldIs ==
  ASSUME NEW d, IsDesignator(d), NEW n, NEW e, e = MeansField(d, n)
  PROVE  /\ IsDesignator(e) /\ SameSym(d, e) /\ SameIR(d, e) /\ SameSelectors(d, e)
         /\ e.path = Append(d.path, <<"field", n>>)
         /\ e.type = Meaning(d.type).fields[n]
         /\ e.symPlain => d.symPlain
         /\ e.irPlain => d.irPlain /\ d.type.kind = "named" /\ ~Meaning(d.type).extends
BY DEF MeansField, IsDesignator, SameSym, SameIR, SameSelectors

(* What an index means to the language.                                    *)
LEMMA MeansIndexIs ==
  ASSUME NEW d, IsDesignator(d), NEW i, NEW e, e = MeansIndex(d, i)
  PROVE  /\ IsDesignator(e) /\ SameSym(d, e) /\ SameIR(d, e) /\ SameSelectors(d, e)
         /\ e.path = Append(d.path, <<"index", i>>)
         /\ e.type = Meaning(d.type).elem
         /\ e.symPlain => d.symPlain /\ ~Meaning(d.type).within
         /\ e.irPlain => /\ d.irPlain /\ d.type.kind # "named"
                         /\ \/ Meaning(Meaning(d.type).elem).kind \in {"word", "pointer"}
                            \/ d.path = <<>> /\ Meaning(Meaning(d.type).elem).kind = "char"
BY DEF MeansIndex, IsDesignator, SameSym, SameIR, SameSelectors

(* Noting the selector changes nothing else.                               *)
LEMMA GoesIs ==
  ASSUME NEW d, IsDesignator(d), NEW kind, NEW e, e = Goes(d, kind)
  PROVE  /\ IsDesignator(e) /\ SameSym(d, e) /\ SameIR(d, e) /\ SameMeaning(d, e)
         /\ e.last = kind
BY DEF Goes, IsDesignator, SameSym, SameIR, SameMeaning

(* The direct generator follows a pointer.                                 *)
LEMMA symDerefIs ==
  ASSUME NEW d, IsDesignator(d), NEW e, e = symDeref(d)
  PROVE  /\ IsDesignator(e) /\ SameIR(d, e) /\ SameMeaning(d, e) /\ SameSelectors(d, e)
         /\ e.sym = Behind(d.sym, symAllocSize(d))
         /\ d.info.kind = "pointer" => e.info = d.info.pointee
BY DEF symDeref, IsDesignator, SameIR, SameMeaning, SameSelectors

(* IRBuilder follows a pointer.                                            *)
LEMMA irDerefIs ==
  ASSUME NEW d, IsDesignator(d), NEW e, e = irDeref(d)
  PROVE  /\ IsDesignator(e) /\ SameSym(d, e) /\ SameMeaning(d, e) /\ SameSelectors(d, e)
         /\ e.ir = Behind(d.ir, irAllocSize(d))
         /\ d.name \in DOMAIN typeLayouts /\ typeLayouts[d.name].kind = "pointer" =>
              e.name = typeLayouts[d.name].pointee
BY DEF irDeref, IsDesignator, SameSym, SameMeaning, SameSelectors

(* The direct generator selects a field of a record, or of the record      *)
(* behind a pointer.                                                       *)
LEMMA symFieldIs ==
  ASSUME NEW d, IsDesignator(d), NEW n, NEW e, e = symField(d, n)
  PROVE  /\ IsDesignator(e) /\ SameIR(d, e) /\ SameMeaning(d, e) /\ SameSelectors(d, e)
         /\ d.info.kind = "record" /\ n \in DOMAIN d.info.fields =>
              /\ e.sym = Shift(d.sym, d.info.fields[n].offset)
              /\ e.info = d.info.fields[n].info
         /\ d.info.kind = "pointer" /\ d.info.pointee.kind = "record"
              /\ n \in DOMAIN d.info.pointee.fields =>
              /\ e.sym = Shift(Behind(d.sym, symAllocSize(d)), d.info.pointee.fields[n].offset)
              /\ e.info = d.info.pointee.fields[n].info
<1>. DEFINE r == IF d.info.kind = "pointer" THEN symDeref(d) ELSE d
<1>1. /\ IsDesignator(r) /\ SameIR(d, r) /\ SameMeaning(d, r) /\ SameSelectors(d, r)
      /\ d.info.kind # "pointer" => r = d
      /\ d.info.kind = "pointer" =>
           r.sym = Behind(d.sym, symAllocSize(d)) /\ r.info = d.info.pointee
  BY symDerefIs DEF SameIR, SameMeaning, SameSelectors
<1>2. e = IF r.info.kind = "record" /\ n \in DOMAIN r.info.fields
          THEN [r EXCEPT !.sym = Shift(@, r.info.fields[n].offset), !.info = r.info.fields[n].info]
          ELSE r
  BY DEF symField
<1>. HIDE DEF r
<1>3. /\ IsDesignator(e) /\ SameIR(r, e) /\ SameMeaning(r, e) /\ SameSelectors(r, e)
      /\ r.info.kind = "record" /\ n \in DOMAIN r.info.fields =>
              /\ e.sym = Shift(r.sym, r.info.fields[n].offset)
              /\ e.info = r.info.fields[n].info
  BY <1>1, <1>2 DEF IsDesignator, SameIR, SameMeaning, SameSelectors
<1>4. /\ IsDesignator(e) /\ SameIR(d, e) /\ SameMeaning(d, e) /\ SameSelectors(d, e)
  BY <1>1, <1>3 DEF SameIR, SameMeaning, SameSelectors
<1>5. QED
  BY <1>1, <1>3, <1>4

IsLaid(name, kind) == name \in DOMAIN typeLayouts /\ typeLayouts[name].kind = kind
PointsTo(name, to) == IsLaid(name, "pointer") /\ typeLayouts[name].pointee = to

(* IRBuilder selects a field of a record, or of the record behind a        *)
(* pointer.                                                                *)
LEMMA irFieldIs ==
  ASSUME NEW d, IsDesignator(d), NEW n, NEW e, e = irField(d, n)
  PROVE  /\ IsDesignator(e) /\ SameSym(d, e) /\ SameMeaning(d, e) /\ SameSelectors(d, e)
         /\ IsLaid(d.name, "record") /\ n \in DOMAIN typeLayouts[d.name].fields =>
              /\ e.ir = Shift(d.ir, typeLayouts[d.name].fields[n].offset)
              /\ e.name = typeLayouts[d.name].fields[n].name
         /\ \A to : PointsTo(d.name, to) /\ IsLaid(to, "record")
                      /\ n \in DOMAIN typeLayouts[to].fields =>
              /\ e.ir = Shift(Behind(d.ir, irAllocSize(d)), typeLayouts[to].fields[n].offset)
              /\ e.name = typeLayouts[to].fields[n].name
<1>. DEFINE r == IF IsLaid(d.name, "pointer") THEN irDeref(d) ELSE d
<1>1. /\ IsDesignator(r) /\ SameSym(d, r) /\ SameMeaning(d, r) /\ SameSelectors(d, r)
      /\ ~IsLaid(d.name, "pointer") => r = d
      /\ IsLaid(d.name, "pointer") =>
           r.ir = Behind(d.ir, irAllocSize(d)) /\ r.name = typeLayouts[d.name].pointee
  BY irDerefIs DEF SameSym, SameMeaning, SameSelectors, IsLaid
<1>2. e = IF IsLaid(r.name, "record") /\ n \in DOMAIN typeLayouts[r.name].fields
          THEN [r EXCEPT !.ir = Shift(@, typeLayouts[r.name].fields[n].offset),
                         !.name = typeLayouts[r.name].fields[n].name]
          ELSE r
  BY DEF irField, IsLaid
<1>. HIDE DEF r
<1>3. /\ IsDesignator(e) /\ SameSym(r, e) /\ SameMeaning(r, e) /\ SameSelectors(r, e)
      /\ IsLaid(r.name, "record") /\ n \in DOMAIN typeLayouts[r.name].fields =>
              /\ e.ir = Shift(r.ir, typeLayouts[r.name].fields[n].offset)
              /\ e.name = typeLayouts[r.name].fields[n].name
  BY <1>1, <1>2 DEF IsDesignator, SameSym, SameMeaning, SameSelectors
<1>4. /\ IsDesignator(e) /\ SameSym(d, e) /\ SameMeaning(d, e) /\ SameSelectors(d, e)
  BY <1>1, <1>3 DEF SameSym, SameMeaning, SameSelectors
<1>5. IsLaid(d.name, "record") => ~IsLaid(d.name, "pointer")
  BY DEF IsLaid
<1>6. QED
  BY <1>1, <1>3, <1>4, <1>5 DEF PointsTo

(* The direct generator indexes an array.                                  *)
LEMMA symIndexIs ==
  ASSUME NEW d, IsDesignator(d), NEW i, NEW e, e = symIndex(d, i)
  PROVE  /\ IsDesignator(e) /\ SameIR(d, e) /\ SameMeaning(d, e) /\ SameSelectors(d, e)
         /\ d.info.kind = "array" =>
              e.sym = Shift(d.sym, i * d.info.elem.size) /\ e.info = d.info.elem
BY DEF symIndex, IsDesignator, SameIR, SameMeaning, SameSelectors

Step == IF TheVariable.len > 0 THEN TheVariable.step ELSE 4

(* IRBuilder indexes, by the step of the variable.                         *)
LEMMA irIndexIs ==
  ASSUME NEW d, IsDesignator(d), NEW i, NEW e, e = irIndex(d, i)
  PROVE  /\ IsDesignator(e) /\ SameSym(d, e) /\ SameMeaning(d, e) /\ SameSelectors(d, e)
         /\ e.ir = Shift(d.ir, i * Step) /\ e.name = d.name
BY DEF irIndex, IsDesignator, SameSym, SameMeaning, SameSelectors, Step

-----------------------------------------------------------------------------
(* What an index, ^ and a field make of a designator.                      *)
LEMMA IndexIs ==
  ASSUME NEW d, IsDesignator(d), NEW i, NEW e, e = Index(d, i)
  PROVE  /\ IsDesignator(e) /\ e.last = "index"
         /\ e.path = Append(d.path, <<"index", i>>)
         /\ e.type = Meaning(d.type).elem
         /\ e.symPlain => d.symPlain /\ ~Meaning(d.type).within
         /\ d.info.kind = "array" =>
              e.sym = Shift(d.sym, i * d.info.elem.size) /\ e.info = d.info.elem
         /\ e.irPlain => /\ d.irPlain /\ d.type.kind # "named"
                         /\ \/ Meaning(Meaning(d.type).elem).kind \in {"word", "pointer"}
                            \/ d.path = <<>> /\ Meaning(Meaning(d.type).elem).kind = "char"
         /\ e.ir = Shift(d.ir, i * Step) /\ e.name = d.name
<1>. DEFINE a == MeansIndex(d, i)
            b == symIndex(a, i)
            c == irIndex(b, i)
<1>1. e = Goes(c, "index")
  BY DEF Index
<1>2. /\ IsDesignator(a) /\ SameSym(d, a) /\ SameIR(d, a) /\ SameSelectors(d, a)
      /\ a.path = Append(d.path, <<"index", i>>)
      /\ a.type = Meaning(d.type).elem
      /\ a.symPlain => d.symPlain /\ ~Meaning(d.type).within
      /\ a.irPlain => /\ d.irPlain /\ d.type.kind # "named"
                      /\ \/ Meaning(Meaning(d.type).elem).kind \in {"word", "pointer"}
                         \/ d.path = <<>> /\ Meaning(Meaning(d.type).elem).kind = "char"
  BY MeansIndexIs
<1>. HIDE DEF a
<1>3. /\ IsDesignator(b) /\ SameIR(a, b) /\ SameMeaning(a, b) /\ SameSelectors(a, b)
      /\ a.info.kind = "array" =>
           b.sym = Shift(a.sym, i * a.info.elem.size) /\ b.info = a.info.elem
  BY <1>2, symIndexIs
<1>. HIDE DEF b
<1>4. /\ IsDesignator(c) /\ SameSym(b, c) /\ SameMeaning(b, c) /\ SameSelectors(b, c)
      /\ c.ir = Shift(b.ir, i * Step) /\ c.name = b.name
  BY <1>3, irIndexIs
<1>. HIDE DEF c
<1>5. /\ IsDesignator(e) /\ SameSym(c, e) /\ SameIR(c, e) /\ SameMeaning(c, e)
      /\ e.last = "index"
  BY <1>1, <1>4, GoesIs
<1>6. QED
  BY <1>2, <1>3, <1>4, <1>5 DEF SameSym, SameIR, SameMeaning, SameSelectors

(* What ^ makes of a designator.                                           *)
LEMMA DerefIs ==
  ASSUME NEW d, IsDesignator(d), NEW e, e = Deref(d)
  PROVE  /\ IsDesignator(e) /\ e.last = "deref"
         /\ e.path = Append(d.path, <<"deref">>)
         /\ e.type = [kind |-> "named", name |-> Meaning(d.type).to]
         /\ e.symPlain => d.symPlain /\ d.path = <<>> /\ ~Meaning(d.type).early
         /\ e.sym = Behind(d.sym, symAllocSize(d))
         /\ d.info.kind = "pointer" => e.info = d.info.pointee
         /\ e.irPlain => d.irPlain /\ d.path = <<>>
         /\ e.ir = Behind(d.ir, irAllocSize(d))
         /\ IsLaid(d.name, "pointer") => e.name = typeLayouts[d.name].pointee
<1>. DEFINE a == MeansDeref(d)
            b == symDeref(a)
            c == irDeref(b)
<1>1. e = Goes(c, "deref")
  BY DEF Deref
<1>2. /\ IsDesignator(a) /\ SameSym(d, a) /\ SameIR(d, a) /\ SameSelectors(d, a)
      /\ a.path = Append(d.path, <<"deref">>)
      /\ a.type = [kind |-> "named", name |-> Meaning(d.type).to]
      /\ a.symPlain => d.symPlain /\ d.path = <<>> /\ ~Meaning(d.type).early
      /\ a.irPlain => d.irPlain /\ d.path = <<>>
  BY MeansDerefIs
<1>. HIDE DEF a
<1>3. /\ IsDesignator(b) /\ SameIR(a, b) /\ SameMeaning(a, b) /\ SameSelectors(a, b)
      /\ b.sym = Behind(a.sym, symAllocSize(a))
      /\ a.info.kind = "pointer" => b.info = a.info.pointee
  BY <1>2, symDerefIs
<1>. HIDE DEF b
<1>4. /\ IsDesignator(c) /\ SameSym(b, c) /\ SameMeaning(b, c) /\ SameSelectors(b, c)
      /\ c.ir = Behind(b.ir, irAllocSize(b))
      /\ IsLaid(b.name, "pointer") => c.name = typeLayouts[b.name].pointee
  BY <1>3, irDerefIs DEF IsLaid
<1>. HIDE DEF c
<1>5. /\ IsDesignator(e) /\ SameSym(c, e) /\ SameIR(c, e) /\ SameMeaning(c, e)
      /\ e.last = "deref"
  BY <1>1, <1>4, GoesIs
<1>6. symAllocSize(a) = symAllocSize(d) /\ irAllocSize(b) = irAllocSize(d)
  <2>1. a.first = d.first /\ b.first = d.first
    BY <1>2, <1>3 DEF SameSelectors
  <2>2. QED
    BY <2>1 DEF symAllocSize, irAllocSize
<1>7. QED
  BY <1>2, <1>3, <1>4, <1>5, <1>6 DEF SameSym, SameIR, SameMeaning, SameSelectors

(* A field of a record, and p.x, which is p^.x.                            *)
FieldIs(d, m, n, e) ==
  /\ IsDesignator(e) /\ e.last = "field"
  /\ e.path = Append(m.path, <<"field", n>>)
  /\ e.type = Meaning(m.type).fields[n]
  /\ e.symPlain => m.symPlain
  /\ d.info.kind = "record" /\ n \in DOMAIN d.info.fields =>
       e.sym = Shift(d.sym, d.info.fields[n].offset) /\ e.info = d.info.fields[n].info
  /\ d.info.kind = "pointer" /\ d.info.pointee.kind = "record"
       /\ n \in DOMAIN d.info.pointee.fields =>
       /\ e.sym = Shift(Behind(d.sym, symAllocSize(d)), d.info.pointee.fields[n].offset)
       /\ e.info = d.info.pointee.fields[n].info
  /\ e.irPlain => m.irPlain /\ m.type.kind = "named" /\ ~Meaning(m.type).extends
  /\ IsLaid(d.name, "record") /\ n \in DOMAIN typeLayouts[d.name].fields =>
       /\ e.ir = Shift(d.ir, typeLayouts[d.name].fields[n].offset)
       /\ e.name = typeLayouts[d.name].fields[n].name
  /\ \A to : PointsTo(d.name, to) /\ IsLaid(to, "record")
               /\ n \in DOMAIN typeLayouts[to].fields =>
       /\ e.ir = Shift(Behind(d.ir, irAllocSize(d)), typeLayouts[to].fields[n].offset)
       /\ e.name = typeLayouts[to].fields[n].name

(* What a field makes of a designator, of a record or of a pointer to      *)
(* one.                                                                    *)
LEMMA FieldOfIs ==
  ASSUME NEW d, IsDesignator(d), NEW n, NEW e, e = FieldOf(d, n), NEW m,
         m = IF Meaning(d.type).kind = "pointer" THEN MeansDeref(d) ELSE d
  PROVE  FieldIs(d, m, n, e)
<1>. DEFINE a == MeansField(m, n)
            b == symField(a, n)
            c == irField(b, n)
<1>1. e = Goes(c, "field")
  BY DEF FieldOf
<1>0. IsDesignator(m) /\ SameSym(d, m) /\ SameIR(d, m) /\ SameSelectors(d, m)
  <2>1. CASE m = d
    BY <2>1 DEF SameSym, SameIR, SameSelectors
  <2>2. CASE m = MeansDeref(d)
    BY <2>2, MeansDerefIs
  <2>3. QED
    BY <2>1, <2>2
<1>2. /\ IsDesignator(a) /\ SameSym(m, a) /\ SameIR(m, a) /\ SameSelectors(m, a)
      /\ a.path = Append(m.path, <<"field", n>>)
      /\ a.type = Meaning(m.type).fields[n]
      /\ a.symPlain => m.symPlain
      /\ a.irPlain => m.irPlain /\ m.type.kind = "named" /\ ~Meaning(m.type).extends
  BY <1>0, MeansFieldIs
<1>. HIDE DEF a
<1>3. /\ IsDesignator(b) /\ SameIR(a, b) /\ SameMeaning(a, b) /\ SameSelectors(a, b)
      /\ a.info.kind = "record" /\ n \in DOMAIN a.info.fields =>
           b.sym = Shift(a.sym, a.info.fields[n].offset) /\ b.info = a.info.fields[n].info
      /\ a.info.kind = "pointer" /\ a.info.pointee.kind = "record"
           /\ n \in DOMAIN a.info.pointee.fields =>
           /\ b.sym = Shift(Behind(a.sym, symAllocSize(a)), a.info.pointee.fields[n].offset)
           /\ b.info = a.info.pointee.fields[n].info
  BY <1>2, symFieldIs
<1>. HIDE DEF b
<1>4. /\ IsDesignator(c) /\ SameSym(b, c) /\ SameMeaning(b, c) /\ SameSelectors(b, c)
      /\ IsLaid(b.name, "record") /\ n \in DOMAIN typeLayouts[b.name].fields =>
           /\ c.ir = Shift(b.ir, typeLayouts[b.name].fields[n].offset)
           /\ c.name = typeLayouts[b.name].fields[n].name
      /\ \A to : PointsTo(b.name, to) /\ IsLaid(to, "record")
                   /\ n \in DOMAIN typeLayouts[to].fields =>
           /\ c.ir = Shift(Behind(b.ir, irAllocSize(b)), typeLayouts[to].fields[n].offset)
           /\ c.name = typeLayouts[to].fields[n].name
  BY <1>3, irFieldIs
<1>. HIDE DEF c
<1>5. /\ IsDesignator(e) /\ SameSym(c, e) /\ SameIR(c, e) /\ SameMeaning(c, e)
      /\ e.last = "field"
  BY <1>1, <1>4, GoesIs
<1>6. symAllocSize(a) = symAllocSize(d) /\ irAllocSize(b) = irAllocSize(d)
  <2>1. a.first = d.first /\ b.first = d.first
    BY <1>0, <1>2, <1>3 DEF SameSelectors
  <2>2. QED
    BY <2>1 DEF symAllocSize, irAllocSize
<1>t. /\ SameSym(d, m) /\ SameSym(m, a) /\ SameSym(b, c) /\ SameSym(c, e)
      /\ SameIR(d, m) /\ SameIR(m, a) /\ SameIR(a, b) /\ SameIR(c, e)
      /\ SameMeaning(a, b) /\ SameMeaning(b, c) /\ SameMeaning(c, e)
  BY <1>0, <1>2, <1>3, <1>4, <1>5
<1>s. /\ d.sym = a.sym /\ d.info = a.info /\ d.ir = b.ir /\ d.name = b.name
      /\ e.sym = b.sym /\ e.info = b.info /\ e.ir = c.ir /\ e.name = c.name
      /\ e.path = a.path /\ e.type = a.type /\ e.symPlain = a.symPlain /\ e.irPlain = a.irPlain
  BY <1>t DEF SameSym, SameIR, SameMeaning
<1>7. QED
  BY <1>2, <1>3, <1>4, <1>5, <1>6, <1>s DEF FieldIs

-----------------------------------------------------------------------------
(* Multiples of a word.                                                    *)
Positive == Nat \ {0}
Four(x) == \E k \in Nat : x = 4 * k

(* Multiples of a word: sums, products, remainders.                        *)
LEMMA FourIs ==
  /\ Four(0) /\ Four(4)
  /\ \A x, y \in Nat : Four(x) /\ Four(y) => Four(x + y)
  /\ \A x, y \in Nat : Four(y) => Four(x * y)
  /\ \A x \in Nat : x % 4 = 0 => Four(x)
  /\ \A x \in Nat : Four(x) => x % 4 = 0
<1>1. Four(0) /\ Four(4)
  <2>1. 0 = 4 * 0 /\ 4 = 4 * 1
    OBVIOUS
  <2>2. QED
    BY <2>1 DEF Four
<1>2. ASSUME NEW x \in Nat, NEW y \in Nat, Four(x), Four(y)  PROVE Four(x + y)
  <2>1. PICK k \in Nat, l \in Nat : x = 4 * k /\ y = 4 * l
    BY <1>2 DEF Four
  <2>2. x + y = 4 * (k + l) /\ k + l \in Nat
    BY <2>1
  <2>3. QED
    BY <2>2 DEF Four
<1>3. ASSUME NEW x \in Nat, NEW y \in Nat, Four(y)  PROVE Four(x * y)
  <2>1. PICK l \in Nat : y = 4 * l
    BY <1>3 DEF Four
  <2>2. x * l \in Nat
    OBVIOUS
  <2>3. x * y = 4 * (x * l)
    BY <2>1
  <2>4. QED
    BY <2>2, <2>3 DEF Four
<1>4. ASSUME NEW x \in Nat, x % 4 = 0  PROVE Four(x)
  <2>1. x = 4 * (x \div 4) + (x % 4) /\ x \div 4 \in Nat
    OBVIOUS
  <2>2. x = 4 * (x \div 4)
    BY <1>4, <2>1
  <2>3. QED
    BY <2>1, <2>2 DEF Four
<1>5. ASSUME NEW x \in Nat, Four(x)  PROVE x % 4 = 0
  BY <1>5 DEF Four
<1>6. QED
  BY <1>1, <1>2, <1>3, <1>4, <1>5

(* A product of positive numbers is positive.                              *)
LEMMA ProductIs ==
  \A x, y \in Positive : x * y \in Positive
  BY DEF Positive

-----------------------------------------------------------------------------
(* A type and the TypeInfo the direct generator has for it: M holds the    *)
(* pairs of them that belong together, V is what the named types mean, and *)
(* whole says that the arrays of characters fill whole words.              *)
FieldsGood(M, whole, meant, known, lo, hi) ==
  /\ DOMAIN known = DOMAIN meant
  /\ \A n \in DOMAIN meant :
       /\ <<meant[n], known[n].info>> \in M
       /\ known[n].offset \in Nat /\ known[n].info.size \in Nat
       /\ lo <= known[n].offset /\ known[n].offset + known[n].info.size <= hi
       /\ whole => Four(known[n].offset)
  /\ \A n, m \in DOMAIN meant : n # m =>
       \/ known[n].offset + known[n].info.size <= known[m].offset
       \/ known[m].offset + known[m].info.size <= known[n].offset

ElementGood(M, whole, t, i) ==
  \/ <<t, i>> \in M
  \/ t.kind = "char" /\ i = Char8
  \/ /\ t.kind = "array" /\ t.within
     /\ i.size \in Positive /\ (whole => Four(i.size) \/ i = Char8)

ArrayGood(M, whole, t, i) ==
  /\ i.kind = "array" /\ t.len \in Positive /\ ~t.within
  /\ i.size = t.len * i.elem.size
  /\ ElementGood(M, whole, t.elem, i.elem)

PointerGood(M, V, t, i) ==
  /\ i.kind = "pointer" /\ i.size = 4
  /\ ~t.early => t.to \in DOMAIN V /\ <<[kind |-> "named", name |-> t.to], i.pointee>> \in M

Good(M, V, whole, t, i) ==
  /\ i.size \in Positive /\ (whole => Four(i.size))
  /\ t.kind \in {"word", "char", "named", "array", "record", "pointer"}
  /\ t.kind = "word" => i = Word
  /\ t.kind = "char" => i = [kind |-> "char", size |-> 4]
  /\ t.kind = "named" => t.name \in DOMAIN V /\ <<V[t.name], i>> \in M
  /\ t.kind = "array" => ArrayGood(M, whole, t, i)
  /\ t.kind = "record" => i.kind = "record" /\ FieldsGood(M, whole, t.fields, i.fields, 0, i.size)
  /\ t.kind = "pointer" => PointerGood(M, V, t, i)

Closed(M, V, whole) == \A t, i : <<t, i>> \in M => Good(M, V, whole, t, i)
Pairs(M, entries) == \A e \in entries : <<e.type, e.info>> \in M

Extends(V, W) == DOMAIN V \subseteq DOMAIN W /\ \A n \in DOMAIN V : W[n] = V[n]

(* What is known of a type stays true when more pairs and names are        *)
(* known.                                                                  *)
LEMMA GoodStays ==
  ASSUME NEW M, NEW N, M \subseteq N, NEW V, NEW W, Extends(V, W), NEW whole, NEW all,
         all => whole, NEW t, NEW i, Good(M, V, whole, t, i)
  PROVE  Good(N, W, all, t, i)
<1>1. t.kind = "array" => ArrayGood(N, all, t, i)
  BY DEF Good, ArrayGood, ElementGood
<1>2. t.kind = "record" => i.kind = "record" /\ FieldsGood(N, all, t.fields, i.fields, 0, i.size)
  BY DEF Good, FieldsGood
<1>3. t.kind = "pointer" => PointerGood(N, W, t, i)
  BY DEF Good, PointerGood, Extends
<1>4. t.kind = "named" => t.name \in DOMAIN W /\ <<W[t.name], i>> \in N
  BY DEF Good, Extends
<1>5. QED
  BY <1>1, <1>2, <1>3, <1>4 DEF Good

(* The fields of an extension, laid over those of its base, lie well if    *)
(* both do.                                                                *)
LEMMA FieldsOver ==
  ASSUME NEW M, NEW whole, NEW ownMeant, NEW ownKnown, NEW meant, NEW known,
         NEW lo \in Nat, NEW hi \in Nat, lo <= hi,
         FieldsGood(M, whole, ownMeant, ownKnown, lo, hi),
         FieldsGood(M, whole, meant, known, 0, lo)
  PROVE  FieldsGood(M, whole, Over(ownMeant, meant), Over(ownKnown, known), 0, hi)
<1>. DEFINE a == Over(ownMeant, meant)
            b == Over(ownKnown, known)
<1>1. /\ DOMAIN a = DOMAIN ownMeant \cup DOMAIN meant
      /\ DOMAIN b = DOMAIN a
      /\ \A n \in DOMAIN ownMeant : a[n] = ownMeant[n] /\ b[n] = ownKnown[n]
      /\ \A n \in DOMAIN meant : n \notin DOMAIN ownMeant => a[n] = meant[n] /\ b[n] = known[n]
  <2>1. DOMAIN ownKnown = DOMAIN ownMeant /\ DOMAIN known = DOMAIN meant
    BY DEF FieldsGood
  <2>2. QED
    BY <2>1 DEF Over
<1>. HIDE DEF a, b
<1>2. ASSUME NEW n \in DOMAIN a
      PROVE  /\ <<a[n], b[n].info>> \in M
             /\ b[n].offset \in Nat /\ b[n].info.size \in Nat
             /\ 0 <= b[n].offset /\ b[n].offset + b[n].info.size <= hi
             /\ whole => Four(b[n].offset)
  <2>1. CASE n \in DOMAIN ownMeant
    BY <1>1, <2>1 DEF FieldsGood
  <2>2. CASE n \notin DOMAIN ownMeant
    BY <1>1, <2>2 DEF FieldsGood
  <2>3. QED
    BY <2>1, <2>2
<1>3. ASSUME NEW n \in DOMAIN a, NEW m \in DOMAIN a, n # m
      PROVE  \/ b[n].offset + b[n].info.size <= b[m].offset
             \/ b[m].offset + b[m].info.size <= b[n].offset
  <2>1. CASE n \in DOMAIN ownMeant /\ m \in DOMAIN ownMeant
    BY <1>1, <1>3, <2>1 DEF FieldsGood
  <2>2. CASE n \in DOMAIN ownMeant /\ m \notin DOMAIN ownMeant
    <3>1. b[n] = ownKnown[n] /\ b[m] = known[m] /\ m \in DOMAIN meant
      BY <1>1, <2>2
    <3>2. lo <= b[n].offset /\ b[m].offset + b[m].info.size <= lo /\ b[n].offset \in Nat
          /\ b[m].offset \in Nat /\ b[m].info.size \in Nat
      BY <2>2, <3>1 DEF FieldsGood
    <3>3. QED
      BY <3>2
  <2>3. CASE n \notin DOMAIN ownMeant /\ m \in DOMAIN ownMeant
    <3>1. b[m] = ownKnown[m] /\ b[n] = known[n] /\ n \in DOMAIN meant
      BY <1>1, <2>3
    <3>2. lo <= b[m].offset /\ b[n].offset + b[n].info.size <= lo /\ b[m].offset \in Nat
          /\ b[n].offset \in Nat /\ b[n].info.size \in Nat
      BY <2>3, <3>1 DEF FieldsGood
    <3>3. QED
      BY <3>2
  <2>4. CASE n \notin DOMAIN ownMeant /\ m \notin DOMAIN ownMeant
    BY <1>1, <1>3, <2>4 DEF FieldsGood
  <2>5. QED
    BY <2>1, <2>2, <2>3, <2>4
<1>4. FieldsGood(M, whole, a, b, 0, hi)
  BY <1>1, <1>2, <1>3 DEF FieldsGood
<1>5. QED
  BY <1>4 DEF a, b

(* Entries, and what they are made of.                                     *)
EntryGood(M, V, whole, e) == Good(M, V, whole, e.type, e.info)

(* INTEGER and CHAR are known for what they are.                           *)
LEMMA BasicEntries ==
  ASSUME NEW M, NEW V, NEW whole
  PROVE  EntryGood(M, V, whole, INTEGER) /\ EntryGood(M, V, whole, CHAR)
<1>1. INTEGER.type = [kind |-> "word"] /\ INTEGER.info = Word
      /\ CHAR.type = [kind |-> "char"] /\ CHAR.info = [kind |-> "char", size |-> 4]
  BY DEF INTEGER, CHAR, Entry
<1>2. QED
  BY <1>1, FourIs DEF EntryGood, Good, Word, Positive

(* The entry that an array makes.                                          *)
LEMMA ArrayShape ==
  ASSUME NEW d \in Dimensions, NEW e, NEW x, x = Array(d, e)
  PROVE  /\ d[1] \in Positive
         /\ x.type.kind = "array" /\ x.type.len = d[1] /\ ~x.type.within
         /\ x.type.elem = e.type \/ (x.type.elem.kind = "array" /\ x.type.elem.within)
         /\ x.info.kind = "array"
         /\ e = CHAR => x.info.elem = Char8 /\ x.info.size = d[1] * 1 /\ x.step = 1
                        /\ x.size = d[1] * 1
         /\ e # CHAR => x.info.elem = e.info /\ x.info.size = d[1] * e.info.size /\ x.step = 4
                        /\ x.size = d[1] * e.size
         /\ x.len = d[1] /\ x.name = <<>>
<1>1. d[1] \in Positive
  <2>1. d \in Seq(Nat \ {0}) /\ d # <<>>
    BY DimensionsAssumption
  <2>2. QED
    BY <2>1 DEF Positive
<1>2. /\ x.type = ArrayOf(e.type, d)
      /\ x.info = makeArray(d[1], IF e = CHAR THEN Char8 ELSE e.info)
      /\ x.size = d[1] * (IF e = CHAR THEN 1 ELSE e.size)
      /\ x.step = IF e = CHAR THEN 1 ELSE 4
      /\ x.len = d[1] /\ x.name = <<>>
  BY DEF Array, Entry
<1>3. /\ x.type.kind = "array" /\ x.type.len = d[1] /\ ~x.type.within
      /\ x.type.elem = e.type \/ (x.type.elem.kind = "array" /\ x.type.elem.within)
  BY <1>2 DEF ArrayOf
<1>4. Char8.size = 1
  BY DEF Char8
<1>5. QED
  BY <1>1, <1>2, <1>3, <1>4 DEF makeArray

(* The direct generator knows an array for what it is, if it knows its     *)
(* elements.                                                               *)
LEMMA ArrayEntryGood ==
  ASSUME NEW M, NEW V, NEW whole, NEW d \in Dimensions, NEW e, <<e.type, e.info>> \in M,
         EntryGood(M, V, whole, e), NEW x, x = Array(d, e),
         whole => ~(x.step = 1 /\ x.len % 4 # 0)
  PROVE  EntryGood(M, V, whole, x)
<1>1. /\ d[1] \in Positive
      /\ x.type.kind = "array" /\ x.type.len = d[1] /\ ~x.type.within
      /\ x.type.elem = e.type \/ (x.type.elem.kind = "array" /\ x.type.elem.within)
      /\ x.info.kind = "array"
      /\ e = CHAR => x.info.elem = Char8 /\ x.info.size = d[1] * 1 /\ x.step = 1
      /\ e # CHAR => x.info.elem = e.info /\ x.info.size = d[1] * e.info.size
      /\ x.len = d[1]
  BY ArrayShape
<1>2. d[1] \in Nat /\ d[1] # 0
  BY <1>1 DEF Positive
<1>3. Char8.size = 1 /\ 1 \in Positive
  BY DEF Char8, Positive
<1>4. CASE e = CHAR
  <2>1. x.info.size = d[1]
    BY <1>1, <1>2, <1>4
  <2>2. whole => Four(x.info.size)
    BY <1>1, <1>2, <1>4, <2>1, FourIs
  <2>3. e.type.kind = "char"
    BY <1>4 DEF CHAR, Entry
  <2>4. ElementGood(M, whole, x.type.elem, x.info.elem)
    BY <1>1, <1>3, <1>4, <2>3 DEF ElementGood
  <2>5. x.info.size = x.type.len * x.info.elem.size
    BY <1>1, <1>3, <1>4
  <2>6. ArrayGood(M, whole, x.type, x.info)
    BY <1>1, <2>4, <2>5 DEF ArrayGood
  <2>7. QED
    BY <1>1, <2>1, <2>2, <2>6 DEF EntryGood, Good
<1>5. CASE e # CHAR
  <2>0. e.info.size \in Positive /\ e.info.size \in Nat /\ (whole => Four(e.info.size))
    BY DEF EntryGood, Good, Positive
  <2>1. x.info.size = d[1] * e.info.size /\ x.info.size \in Positive
    BY <1>1, <1>5, <2>0, ProductIs
  <2>2. whole => Four(x.info.size)
    BY <1>2, <2>0, <2>1, FourIs
  <2>4. ElementGood(M, whole, x.type.elem, x.info.elem)
    BY <1>1, <1>5, <2>0 DEF ElementGood
  <2>5. x.info.size = x.type.len * x.info.elem.size
    BY <1>1, <1>5
  <2>6. ArrayGood(M, whole, x.type, x.info)
    BY <1>1, <2>4, <2>5 DEF ArrayGood
  <2>7. QED
    BY <1>1, <2>1, <2>2, <2>6 DEF EntryGood, Good
<1>6. QED
  BY <1>4, <1>5

(* The entry that a pointer makes.                                         *)
LEMMA PointerShape ==
  ASSUME NEW n, NEW x, x = Pointer(n)
  PROVE  /\ x.type.kind = "pointer" /\ x.type.to = n
         /\ ~x.type.early => n \in DOMAIN namedTypes /\ x.info.pointee = namedTypes[n]
         /\ x.info.kind = "pointer" /\ x.info.size = 4
         /\ x.size = 4 /\ x.name = <<"PTR", n>> /\ x.step = 4 /\ x.len = 1
BY DEF Pointer, Entry

(* The direct generator knows a pointer for what it is.                    *)
LEMMA PointerEntryGood ==
  ASSUME NEW M, NEW whole, NEW n, NEW x, x = Pointer(n), DOMAIN namedTypes = DOMAIN env,
         \A m \in DOMAIN env : <<[kind |-> "named", name |-> m], namedTypes[m]>> \in M
  PROVE  EntryGood(M, env, whole, x)
<1>1. PointerGood(M, env, x.type, x.info)
  BY PointerShape DEF PointerGood
<1>2. QED
  BY <1>1, PointerShape, FourIs DEF EntryGood, Good, Positive

-----------------------------------------------------------------------------
(* Nothing lies below the fields of a record without a base.               *)
LEMMA OverEmpty ==
  ASSUME NEW f
  PROVE  DOMAIN Over(f, Empty) = DOMAIN f /\ \A n \in DOMAIN f : Over(f, Empty)[n] = f[n]
<1>1. DOMAIN Empty = {}
  BY DEF Empty
<1>2. QED
  BY <1>1 DEF Over

(* Records of one and of two fields.                                       *)
Double(fields, a, e, b, g) == a # b /\ fields = <<Field(a, e), Field(b, g)>>

(* The names and the places of two fields.                                 *)
LEMMA TwoFields ==
  ASSUME NEW a, NEW b, NEW e, NEW g, NEW fields, Double(fields, a, e, b, g)
  PROVE  /\ Len(fields) = 2 /\ DOMAIN fields = {1, 2}
         /\ fields[1].name = a /\ fields[1].entry = e /\ fields[2].name = b /\ fields[2].entry = g
         /\ NamesOf(fields) = {a, b}
         /\ Nth(fields, a) = 1 /\ Nth(fields, b) = 2
<1>1. /\ Len(fields) = 2 /\ DOMAIN fields = {1, 2}
      /\ fields[1] = Field(a, e) /\ fields[2] = Field(b, g)
  BY DEF Double
<1>2. fields[1].name = a /\ fields[1].entry = e /\ fields[2].name = b /\ fields[2].entry = g
  BY <1>1 DEF Field
<1>3. NamesOf(fields) = {a, b}
  BY <1>1, <1>2 DEF NamesOf
<1>4. Nth(fields, a) = 1 /\ Nth(fields, b) = 2
  BY <1>1, <1>2 DEF Nth, Double
<1>5. QED
  BY <1>1, <1>2, <1>3, <1>4

Single(fields, a, e) == fields = <<Field(a, e)>>

(* The name and the place of one field.                                    *)
LEMMA OneField ==
  ASSUME NEW a, NEW e, NEW fields, Single(fields, a, e)
  PROVE  /\ Len(fields) = 1 /\ DOMAIN fields = {1}
         /\ fields[1].name = a /\ fields[1].entry = e
         /\ NamesOf(fields) = {a}
         /\ Nth(fields, a) = 1
<1>1. Len(fields) = 1 /\ DOMAIN fields = {1} /\ fields[1] = Field(a, e)
  BY DEF Single
<1>2. fields[1].name = a /\ fields[1].entry = e
  BY <1>1 DEF Field
<1>3. NamesOf(fields) = {a}
  BY <1>1, <1>2 DEF NamesOf
<1>4. Nth(fields, a) = 1
  BY <1>1, <1>2 DEF Nth
<1>5. QED
  BY <1>1, <1>2, <1>3, <1>4

(* The offsets of two fields, and of one.                                  *)
TwoLaid(known, a, b, from, first) ==
  /\ DOMAIN known = {a, b}
  /\ known[a].offset = from /\ known[b].offset = from + first

OfTwo(x, a, e, b, g) == a # b /\ x = Record(<<Field(a, e), Field(b, g)>>, "none")
OfOne(x, a, e, base) == x = Record(<<Field(a, e)>>, base)

(* The entry that a record of two fields makes.                            *)
LEMMA RecordOfTwo ==
  ASSUME NEW a, NEW b, NEW e, NEW g, NEW x, OfTwo(x, a, e, b, g),
         e.info.size \in Nat, g.info.size \in Nat
  PROVE  /\ x.type.kind = "record" /\ ~x.type.extends
         /\ DOMAIN x.type.fields = {a, b}
         /\ x.type.fields[a] = e.type /\ x.type.fields[b] = g.type
         /\ x.info.kind = "record" /\ x.info.size = e.info.size + g.info.size
         /\ \E own : /\ x.info.fields = Over(own, Empty)
                     /\ TwoLaid(own, a, b, 0, e.info.size)
                     /\ own[a].info = e.info /\ own[b].info = g.info
         /\ e.size \in Nat /\ g.size \in Nat =>
              /\ x.size = IF e.size + g.size > 0 THEN e.size + g.size ELSE 4
              /\ TwoLaid(x.fields, a, b, 0, e.size)
         /\ x.fields[a].name = e.name /\ x.fields[b].name = g.name
         /\ x.name = <<>> /\ x.step = 4 /\ x.len = 1
<1>. DEFINE fields == <<Field(a, e), Field(b, g)>>
            sizes == [i \in DOMAIN fields |-> fields[i].entry.size]
            infos == [i \in DOMAIN fields |-> fields[i].entry.info.size]
            own == [n \in NamesOf(fields) |-> fields[Nth(fields, n)].entry.type]
            known == [n \in NamesOf(fields) |->
                [offset |-> fieldOffset(NoBase, infos, Nth(fields, n)),
                 info |-> fields[Nth(fields, n)].entry.info]]
            laid == [n \in NamesOf(fields) |-> [offset |-> layoutOffset(sizes, Nth(fields, n)),
                                  name |-> fields[Nth(fields, n)].entry.name]]
<1>0. Double(fields, a, e, b, g)
  BY DEF Double, OfTwo
<1>2. /\ x.type = [kind |-> "record", extends |-> FALSE, fields |-> own]
      /\ x.info = makeRecord(fields, NoBase)
      /\ x.size = IF Total(sizes, Len(fields)) > 0 THEN Total(sizes, Len(fields)) ELSE 4
      /\ x.name = <<>> /\ x.step = 4 /\ x.len = 1
      /\ x.fields = layoutFields(fields)
  BY DEF Record, Entry, OfTwo
<1>3. x.info = [kind |-> "record", size |-> NoBase.size + Total(infos, Len(fields)),
                fields |-> Over(known, NoBase.fields)]
  BY <1>2 DEF makeRecord
<1>4. x.fields = laid
  BY <1>2 DEF layoutFields
<1>. HIDE DEF fields
<1>1. /\ Len(fields) = 2 /\ DOMAIN fields = {1, 2}
      /\ fields[1].name = a /\ fields[1].entry = e /\ fields[2].name = b /\ fields[2].entry = g
      /\ NamesOf(fields) = {a, b}
      /\ Nth(fields, a) = 1 /\ Nth(fields, b) = 2
  BY <1>0, TwoFields
<1>5. sizes[1] = e.size /\ sizes[2] = g.size /\ infos[1] = e.info.size /\ infos[2] = g.info.size
  BY <1>1
<1>. HIDE DEF sizes, infos
<1>6. /\ e.size \in Nat /\ g.size \in Nat =>
           Total(sizes, 0) = 0 /\ Total(sizes, 1) = e.size /\ Total(sizes, 2) = e.size + g.size
      /\ Total(infos, 0) = 0 /\ Total(infos, 1) = e.info.size
      /\ Total(infos, 2) = e.info.size + g.info.size
  BY <1>5, Totals
<1>7. NoBase.size = 0 /\ NoBase.fields = Empty
  BY DEF NoBase
<1>8. /\ DOMAIN own = {a, b} /\ own[a] = e.type /\ own[b] = g.type
  BY <1>1
<1>9. /\ DOMAIN known = {a, b} /\ known[a].info = e.info /\ known[b].info = g.info
      /\ known[a].offset = fieldOffset(NoBase, infos, 1)
      /\ known[b].offset = fieldOffset(NoBase, infos, 2)
  BY <1>1
<1>10. fieldOffset(NoBase, infos, 1) = 0 /\ fieldOffset(NoBase, infos, 2) = e.info.size
  BY <1>6, <1>7 DEF fieldOffset
<1>11. /\ DOMAIN laid = {a, b} /\ laid[a].name = e.name /\ laid[b].name = g.name
       /\ laid[a].offset = layoutOffset(sizes, 1)
       /\ laid[b].offset = layoutOffset(sizes, 2)
  BY <1>1
<1>12. e.size \in Nat /\ g.size \in Nat =>
         layoutOffset(sizes, 1) = 0 /\ layoutOffset(sizes, 2) = e.size
  BY <1>6 DEF layoutOffset
<1>. HIDE DEF own, known, laid
<1>13. /\ TwoLaid(known, a, b, 0, e.info.size)
       /\ e.size \in Nat /\ g.size \in Nat => TwoLaid(laid, a, b, 0, e.size)
  BY <1>9, <1>10, <1>11, <1>12 DEF TwoLaid
<1>14. /\ x.type.kind = "record" /\ ~x.type.extends /\ x.type.fields = own
       /\ x.info.kind = "record" /\ x.info.size = NoBase.size + Total(infos, Len(fields))
       /\ x.info.fields = Over(known, NoBase.fields)
  BY <1>2, <1>3
<1>15. x.info.size = e.info.size + g.info.size /\ x.info.fields = Over(known, Empty)
  BY <1>1, <1>6, <1>7, <1>14
<1>16. e.size \in Nat /\ g.size \in Nat =>
         x.size = IF e.size + g.size > 0 THEN e.size + g.size ELSE 4
  BY <1>1, <1>2, <1>6
<1>17. QED
  BY <1>2, <1>4, <1>8, <1>9, <1>11, <1>13, <1>14, <1>15, <1>16

(* What a record extends, as the direct generator knows it and as meant.   *)
Under(base) == IF base = "none" THEN NoBase ELSE namedTypes[base]
UnderMeant(base) == IF base = "none" THEN Empty ELSE env[base].fields
OneMeant(own, a, type) == DOMAIN own = {a} /\ own[a] = type
OneKnown(own, a, info) == own[a].info = info
OneLaid(known, a, from) == DOMAIN known = {a} /\ known[a].offset = from

(* The entry that a record of one field makes, with a base or without.     *)
LEMMA RecordOfOne ==
  ASSUME NEW a, NEW e, NEW base, NEW x, OfOne(x, a, e, base),
         e.info.size \in Nat, Under(base).size \in Nat
  PROVE  /\ x.type.kind = "record" /\ (base # "none" => x.type.extends)
         /\ \E own : /\ x.type.fields = Over(own, UnderMeant(base))
                     /\ OneMeant(own, a, e.type)
         /\ x.info.kind = "record" /\ x.info.size = Under(base).size + e.info.size
         /\ \E own : /\ x.info.fields = Over(own, Under(base).fields)
                     /\ OneLaid(own, a, Under(base).size) /\ OneKnown(own, a, e.info)
         /\ e.size \in Nat => x.size = IF e.size > 0 THEN e.size ELSE 4
         /\ OneLaid(x.fields, a, 0) /\ x.fields[a].name = e.name
         /\ x.name = <<>> /\ x.step = 4 /\ x.len = 1
<1>. DEFINE fields == <<Field(a, e)>>
            under == Under(base)
            sizes == [i \in DOMAIN fields |-> fields[i].entry.size]
            infos == [i \in DOMAIN fields |-> fields[i].entry.info.size]
            own == [n \in NamesOf(fields) |-> fields[Nth(fields, n)].entry.type]
            known == [n \in NamesOf(fields) |->
                [offset |-> fieldOffset(under, infos, Nth(fields, n)),
                 info |-> fields[Nth(fields, n)].entry.info]]
            laid == [n \in NamesOf(fields) |-> [offset |-> layoutOffset(sizes, Nth(fields, n)),
                                  name |-> fields[Nth(fields, n)].entry.name]]
            meant == IF base = "none" THEN own ELSE Over(own, env[base].fields)
<1>0. Single(fields, a, e)
  BY DEF Single
<1>2. /\ x.type = [kind |-> "record", extends |-> base # "none", fields |-> meant]
      /\ x.info = makeRecord(fields, under)
      /\ x.size = IF Total(sizes, Len(fields)) > 0 THEN Total(sizes, Len(fields)) ELSE 4
      /\ x.name = <<>> /\ x.step = 4 /\ x.len = 1
      /\ x.fields = layoutFields(fields)
  BY DEF Record, Entry, OfOne, Under
<1>3. x.info = [kind |-> "record", size |-> under.size + Total(infos, Len(fields)),
                fields |-> Over(known, under.fields)]
  BY <1>2 DEF makeRecord
<1>4. x.fields = laid
  BY <1>2 DEF layoutFields
<1>m. meant = Over(own, UnderMeant(base))
  <2>1. CASE base # "none"
    BY <2>1 DEF UnderMeant
  <2>2. CASE base = "none"
    <3>1. meant = own /\ UnderMeant(base) = Empty
      BY <2>2 DEF UnderMeant
    <3>2. own = [n \in DOMAIN own |-> own[n]]
      OBVIOUS
    <3>3. DOMAIN Over(own, Empty) = DOMAIN own /\ \A n \in DOMAIN own : Over(own, Empty)[n] = own[n]
      BY OverEmpty
    <3>4. Over(own, Empty) = [n \in DOMAIN Over(own, Empty) |-> Over(own, Empty)[n]]
      BY DEF Over
    <3>. HIDE DEF own
    <3>5. QED
      BY <3>1, <3>2, <3>3, <3>4
  <2>3. QED
    BY <2>1, <2>2
<1>. HIDE DEF fields, meant
<1>1. /\ Len(fields) = 1 /\ DOMAIN fields = {1}
      /\ fields[1].name = a /\ fields[1].entry = e
      /\ NamesOf(fields) = {a} /\ Nth(fields, a) = 1
  BY <1>0, OneField
<1>5. sizes[1] = e.size /\ infos[1] = e.info.size
  BY <1>1
<1>. HIDE DEF sizes, infos
<1>6. /\ Total(sizes, 0) = 0 /\ (e.size \in Nat => Total(sizes, 1) = e.size)
      /\ Total(infos, 0) = 0 /\ Total(infos, 1) = e.info.size
  BY <1>5, Totals, TotalNone
<1>7. under.size \in Nat /\ under.size + 0 = under.size
  OBVIOUS
<1>. HIDE DEF under
<1>8. DOMAIN own = {a} /\ own[a] = e.type
  BY <1>1
<1>9. /\ DOMAIN known = {a} /\ known[a].info = e.info
      /\ known[a].offset = fieldOffset(under, infos, 1)
  BY <1>1
<1>10. fieldOffset(under, infos, 1) = under.size
  BY <1>6, <1>7 DEF fieldOffset
<1>11. /\ DOMAIN laid = {a} /\ laid[a].name = e.name
       /\ laid[a].offset = layoutOffset(sizes, 1)
  BY <1>1
<1>12. layoutOffset(sizes, 1) = 0
  BY <1>6 DEF layoutOffset
<1>. HIDE DEF own, known, laid
<1>14. /\ x.type.kind = "record" /\ (base # "none" => x.type.extends)
       /\ x.type.fields = meant
       /\ x.info.kind = "record" /\ x.info.size = under.size + Total(infos, Len(fields))
       /\ x.info.fields = Over(known, under.fields)
  <2>1. /\ x.type.kind = "record"
        /\ x.type.fields = meant
        /\ x.info.kind = "record" /\ x.info.size = under.size + Total(infos, Len(fields))
        /\ x.info.fields = Over(known, under.fields)
    BY <1>2, <1>3
  <2>2. x.type.extends = (base # "none")
    BY <1>2
  <2>3. QED
    BY <2>1, <2>2
<1>15. x.info.size = under.size + e.info.size
  BY <1>1, <1>6, <1>14
<1>16. e.size \in Nat => x.size = IF e.size > 0 THEN e.size ELSE 4
  BY <1>1, <1>2, <1>6
<1>17. OneLaid(known, a, under.size) /\ OneLaid(laid, a, 0)
       /\ OneMeant(own, a, e.type) /\ OneKnown(known, a, e.info)
  BY <1>8, <1>9, <1>10, <1>11, <1>12 DEF OneLaid, OneMeant, OneKnown
<1>20. QED
  BY <1>2, <1>4, <1>8, <1>9, <1>11, <1>14, <1>15, <1>16, <1>17, <1>m DEF under

(* The direct generator knows a record for what it is, if it knows its     *)
(* fields.                                                                 *)
LEMMA RecordEntryGood ==
  ASSUME NEW M, NEW V, NEW whole, NEW e, <<e.type, e.info>> \in M, EntryGood(M, V, whole, e),
         <<INTEGER.type, INTEGER.info>> \in M, NEW x, OfTwo(x, "f", e, "g", INTEGER)
  PROVE  EntryGood(M, V, whole, x)
<1>1. /\ e.info.size \in Positive /\ e.info.size \in Nat /\ (whole => Four(e.info.size))
      /\ INTEGER.info.size = 4 /\ 4 \in Nat /\ 4 \in Positive
  BY DEF EntryGood, Good, Positive, INTEGER, Entry, Word
<1>2. /\ x.type.kind = "record"
      /\ DOMAIN x.type.fields = {"f", "g"}
      /\ x.type.fields["f"] = e.type /\ x.type.fields["g"] = INTEGER.type
      /\ x.info.kind = "record" /\ x.info.size = e.info.size + INTEGER.info.size
      /\ \E own : /\ x.info.fields = Over(own, Empty)
                  /\ TwoLaid(own, "f", "g", 0, e.info.size)
                  /\ own["f"].info = e.info /\ own["g"].info = INTEGER.info
  BY <1>1, RecordOfTwo
<1>3. PICK own : /\ x.info.fields = Over(own, Empty)
                 /\ TwoLaid(own, "f", "g", 0, e.info.size)
                 /\ own["f"].info = e.info /\ own["g"].info = INTEGER.info
  BY <1>2
<1>. DEFINE known == x.info.fields
            hi == x.info.size
            meant == x.type.fields
            full == e.info
            word == INTEGER.info
<1>4. DOMAIN known = DOMAIN own /\ \A n \in DOMAIN own : known[n] = own[n]
  BY <1>3, OverEmpty
<1>5. /\ DOMAIN known = {"f", "g"} /\ known["f"].offset = 0 /\ known["g"].offset = e.info.size
      /\ known["f"].info = e.info /\ known["g"].info = INTEGER.info
  BY <1>1, <1>3, <1>4 DEF TwoLaid
<1>6. hi = e.info.size + 4 /\ hi \in Positive /\ (whole => Four(hi))
  BY <1>1, <1>2, FourIs DEF Positive
<1>a. DOMAIN meant = {"f", "g"} /\ meant["f"] = e.type /\ meant["g"] = INTEGER.type
  BY <1>2
<1>. HIDE DEF known, hi, meant
<1>7. ASSUME NEW n \in {"f", "g"}
      PROVE  /\ <<meant[n], known[n].info>> \in M
             /\ known[n].offset \in Nat /\ known[n].info.size \in Nat
             /\ 0 <= known[n].offset /\ known[n].offset + known[n].info.size <= hi
             /\ whole => Four(known[n].offset)
  <2>0. Four(0)
    BY FourIs
  <2>1. CASE n = "f"
    BY <1>1, <1>5, <1>6, <1>a, <2>0, <2>1
  <2>2. CASE n = "g"
    BY <1>1, <1>5, <1>6, <1>a, <2>2
  <2>3. QED
    BY <2>1, <2>2
<1>8. ASSUME NEW n \in {"f", "g"}, NEW m \in {"f", "g"}, n # m
      PROVE  \/ known[n].offset + known[n].info.size <= known[m].offset
             \/ known[m].offset + known[m].info.size <= known[n].offset
  <2>1. 0 + known["f"].info.size <= known["g"].offset
    BY <1>1, <1>5
  <2>2. QED
    BY <1>5, <1>8, <2>1
<1>9. FieldsGood(M, whole, meant, known, 0, hi)
  BY <1>5, <1>a, <1>7, <1>8 DEF FieldsGood
<1>10. QED
  BY <1>2, <1>6, <1>9 DEF EntryGood, Good, hi, known, meant

(* The direct generator knows an extension for what it is, if it knows     *)
(* its base.                                                               *)
LEMMA ExtensionEntryGood ==
  ASSUME NEW M, NEW V, NEW whole, NEW e, <<e.type, e.info>> \in M, EntryGood(M, V, whole, e),
         NEW b, NEW x, OfOne(x, "h", e, b),
         b # "none" => /\ Good(M, V, whole, env[b], namedTypes[b])
                       /\ env[b].kind = "record"
  PROVE  EntryGood(M, V, whole, x)
<1>. DEFINE lo == Under(b).size
            hi == lo + e.info.size
            meant == UnderMeant(b)
            known == Under(b).fields
<1>1. /\ e.info.size \in Positive /\ e.info.size \in Nat /\ (whole => Four(e.info.size))
  BY DEF EntryGood, Good, Positive
<1>2. lo \in Nat /\ (whole => Four(lo)) /\ FieldsGood(M, whole, meant, known, 0, lo)
  <2>1. CASE b = "none"
    <3>1. DOMAIN Empty = {} /\ meant = Empty /\ known = Empty /\ lo = 0
      BY <2>1 DEF Empty, Under, UnderMeant, NoBase
    <3>. HIDE DEF meant, known
    <3>2. FieldsGood(M, whole, meant, known, 0, lo)
      BY <3>1 DEF FieldsGood
    <3>3. QED
      BY <3>1, <3>2, FourIs
  <2>2. CASE b # "none"
    BY <2>2 DEF Good, Positive, Under, UnderMeant
  <2>3. QED
    BY <2>1, <2>2
<1>3. /\ x.type.kind = "record"
      /\ \E own : /\ x.type.fields = Over(own, UnderMeant(b))
                  /\ OneMeant(own, "h", e.type)
      /\ x.info.kind = "record" /\ x.info.size = Under(b).size + e.info.size
      /\ \E own : /\ x.info.fields = Over(own, Under(b).fields)
                  /\ OneLaid(own, "h", Under(b).size) /\ OneKnown(own, "h", e.info)
  BY <1>1, <1>2, RecordOfOne
<1>4. PICK m : /\ x.type.fields = Over(m, meant)
               /\ OneMeant(m, "h", e.type)
  BY <1>3
<1>5. PICK k : /\ x.info.fields = Over(k, known)
               /\ OneLaid(k, "h", lo) /\ OneKnown(k, "h", e.info)
  BY <1>3
<1>. HIDE DEF lo, meant, known
<1>6. FieldsGood(M, whole, m, k, lo, hi)
  BY <1>1, <1>2, <1>4, <1>5 DEF FieldsGood, OneLaid, OneMeant, OneKnown
<1>8. hi \in Positive /\ hi \in Nat /\ lo <= hi /\ (whole => Four(hi))
  <2>1. hi \in Positive /\ hi \in Nat /\ lo <= hi
    BY <1>1, <1>2 DEF Positive
  <2>2. whole => Four(hi)
    BY <1>1, <1>2, FourIs
  <2>3. QED
    BY <2>1, <2>2
<1>7. x.info.size = hi
  BY <1>3 DEF lo
<1>. HIDE DEF hi
<1>9. FieldsGood(M, whole, Over(m, meant), Over(k, known), 0, hi)
  BY <1>2, <1>6, <1>8, FieldsOver
<1>12. QED
  BY <1>3, <1>4, <1>5, <1>7, <1>8, <1>9 DEF EntryGood, Good

-----------------------------------------------------------------------------
(* The pairs of types and infos of a state: V and T are what the names     *)
(* mean to the language and to the direct generator.                       *)
NamedType(n) == [kind |-> "named", name |-> n]
Constructors == {"array", "record", "pointer"}

NamesPaired(M, V, T) ==
  /\ DOMAIN T = DOMAIN V
  /\ \A n \in DOMAIN V : /\ <<V[n], T[n]>> \in M /\ <<NamedType(n), T[n]>> \in M
                         /\ V[n].kind \in Constructors
BasicsPaired(M) == <<INTEGER.type, INTEGER.info>> \in M /\ <<CHAR.type, CHAR.info>> \in M
Modelled(M, V, T, inn, var, whole) ==
  /\ Closed(M, V, whole) /\ NamesPaired(M, V, T) /\ BasicsPaired(M)
  /\ Pairs(M, inn) /\ Pairs(M, var)

(* What a type is built from is among the pairs.                           *)
LEMMA ElementsPaired ==
  ASSUME NEW M, Modelled(M, env, namedTypes, inner, variable, ~ragged),
         NEW e \in Elements \cup Known
  PROVE  <<e.type, e.info>> \in M
<1>1. CASE e \in inner
  BY <1>1 DEF Modelled, Pairs
<1>2. CASE e \in {INTEGER, CHAR}
  BY <1>2 DEF Modelled, BasicsPaired
<1>3. ASSUME NEW n \in DOMAIN namedTypes, e = Named(n)  PROVE <<e.type, e.info>> \in M
  <2>1. e.type = NamedType(n) /\ e.info = namedTypes[n]
    BY <1>3 DEF Named, Entry, NamedType
  <2>2. QED
    BY <2>1 DEF Modelled, NamesPaired
<1>4. QED
  BY <1>1, <1>2, <1>3 DEF Elements, Known

(* What a type is built from is known for what it is.                      *)
LEMMA ElementsGood ==
  ASSUME NEW M, Modelled(M, env, namedTypes, inner, variable, ~ragged),
         NEW whole, whole => ~ragged, NEW e \in Elements \cup Known
  PROVE  <<e.type, e.info>> \in M /\ EntryGood(M, env, whole, e)
<1>1. <<e.type, e.info>> \in M
  BY ElementsPaired
<1>2. Good(M, env, ~ragged, e.type, e.info)
  BY <1>1 DEF Modelled, Closed
<1>3. M \subseteq M /\ Extends(env, env)
  BY DEF Extends
<1>4. Good(M, env, whole, e.type, e.info)
  BY <1>2, <1>3, GoodStays
<1>5. QED
  BY <1>1, <1>4 DEF EntryGood

WordsFilled(x, whole) == whole => ~(x.step = 1 /\ x.len % 4 # 0)

(* The four ways to build a type.                                          *)
LEMMA ConstructedIs ==
  ASSUME NEW x \in Constructed
  PROVE  \/ \E d \in Dimensions, e \in Elements : x = Array(d, e)
         \/ \E e \in Elements : OfTwo(x, "f", e, "g", INTEGER)
         \/ \E e \in Elements, b \in Bases : OfOne(x, "h", e, b)
         \/ \E n \in TypeNames : x = Pointer(n)
<1>. DEFINE A == {Array(d, e) : d \in Dimensions, e \in Elements}
            R == {Record(<<Field("f", e), Field("g", INTEGER)>>, "none") : e \in Elements}
            X == {Record(<<Field("h", e)>>, b) : e \in Elements, b \in Bases}
            P == {Pointer(n) : n \in TypeNames}
            Q == \/ \E d \in Dimensions, e \in Elements : x = Array(d, e)
                 \/ \E e \in Elements : OfTwo(x, "f", e, "g", INTEGER)
                 \/ \E e \in Elements, b \in Bases : OfOne(x, "h", e, b)
                 \/ \E n \in TypeNames : x = Pointer(n)
<1>1. ASSUME x \in R  PROVE Q
  <2>1. PICK e \in Elements : x = Record(<<Field("f", e), Field("g", INTEGER)>>, "none")
    BY <1>1
  <2>2. "f" # "g"
    OBVIOUS
  <2>3. OfTwo(x, "f", e, "g", INTEGER)
    BY <2>1, <2>2 DEF OfTwo
  <2>4. QED
    BY <2>3
<1>2. ASSUME x \in X  PROVE Q
  <2>1. PICK e \in Elements, b \in Bases : x = Record(<<Field("h", e)>>, b)
    BY <1>2
  <2>2. OfOne(x, "h", e, b)
    BY <2>1 DEF OfOne
  <2>3. QED
    BY <2>2
<1>3. ASSUME x \in A  PROVE Q
  BY <1>3
<1>4. ASSUME x \in P  PROVE Q
  BY <1>4
<1>5. Constructed = A \cup R \cup X \cup (IF inner = {} THEN P ELSE {})
  BY DEF Constructed
<1>. HIDE DEF A, R, X, P, Q
<1>6. x \in A \/ x \in R \/ x \in X \/ x \in P
  BY <1>5
<1>7. Q
  BY <1>1, <1>2, <1>3, <1>4, <1>6
<1>8. QED
  BY <1>7 DEF Q

(* A type just built is known for what it is.                              *)
LEMMA ConstructedGood ==
  ASSUME NEW M, Modelled(M, env, namedTypes, inner, variable, ~ragged),
         NEW whole, whole => ~ragged, NEW x \in Constructed, WordsFilled(x, whole)
  PROVE  EntryGood(M, env, whole, x) /\ x.type.kind \in Constructors
<1>1. ASSUME NEW d \in Dimensions, NEW e \in Elements, x = Array(d, e)
      PROVE  EntryGood(M, env, whole, x) /\ x.type.kind \in Constructors
  <2>1. <<e.type, e.info>> \in M /\ EntryGood(M, env, whole, e)
    BY ElementsGood
  <2>2. EntryGood(M, env, whole, x)
    BY <1>1, <2>1, ArrayEntryGood DEF WordsFilled
  <2>3. QED
    BY <1>1, <2>2, ArrayShape DEF Constructors
<1>2. ASSUME NEW e \in Elements, OfTwo(x, "f", e, "g", INTEGER)
      PROVE  EntryGood(M, env, whole, x) /\ x.type.kind \in Constructors
  <2>1. <<e.type, e.info>> \in M /\ EntryGood(M, env, whole, e)
    BY ElementsGood
  <2>3. <<INTEGER.type, INTEGER.info>> \in M
    BY DEF Modelled, BasicsPaired
  <2>4. EntryGood(M, env, whole, x)
    BY <1>2, <2>1, <2>3, RecordEntryGood
  <2>5. x.type.kind = "record"
    BY <1>2 DEF Record, Entry, OfTwo
  <2>6. QED
    BY <2>4, <2>5 DEF Constructors
<1>3. ASSUME NEW e \in Elements, NEW b \in Bases, OfOne(x, "h", e, b)
      PROVE  EntryGood(M, env, whole, x) /\ x.type.kind \in Constructors
  <2>1. <<e.type, e.info>> \in M /\ EntryGood(M, env, whole, e)
    BY ElementsGood
  <2>3. env[b].kind = "record" /\ <<env[b], namedTypes[b]>> \in M
    BY DEF Bases, Modelled, NamesPaired
  <2>4. Good(M, env, ~ragged, env[b], namedTypes[b])
    BY <2>3 DEF Modelled, Closed
  <2>5. M \subseteq M /\ Extends(env, env)
    BY DEF Extends
  <2>6. Good(M, env, whole, env[b], namedTypes[b])
    BY <2>4, <2>5, GoodStays
  <2>7. EntryGood(M, env, whole, x)
    BY <1>3, <2>1, <2>3, <2>6, ExtensionEntryGood
  <2>8. x.type.kind = "record"
    BY <1>3 DEF Record, Entry, OfOne
  <2>9. QED
    BY <2>7, <2>8 DEF Constructors
<1>4. ASSUME NEW n \in TypeNames, x = Pointer(n)
      PROVE  EntryGood(M, env, whole, x) /\ x.type.kind \in Constructors
  <2>1. DOMAIN namedTypes = DOMAIN env
        /\ \A m \in DOMAIN env : <<[kind |-> "named", name |-> m], namedTypes[m]>> \in M
    BY DEF Modelled, NamesPaired, NamedType
  <2>2. EntryGood(M, env, whole, x)
    BY <1>4, <2>1, PointerEntryGood
  <2>3. QED
    BY <1>4, <2>2, PointerShape DEF Constructors
<1>5. QED
  BY <1>1, <1>2, <1>3, <1>4, ConstructedIs

(* What a declaration adds to the pairs.                                   *)
LEMMA PairAdded ==
  ASSUME NEW M, NEW V, NEW T, NEW inn, NEW var, NEW whole, NEW all,
         Modelled(M, V, T, inn, var, whole), all => whole,
         NEW x, EntryGood(M, V, all, x)
  PROVE  \E N : Modelled(N, V, T, {x}, var, all) /\ Modelled(N, V, T, {}, {x}, all)
<1>0. PICK N : N = M \cup {<<x.type, x.info>>}
  OBVIOUS
<1>1. M \subseteq N /\ Extends(V, V)
  BY <1>0 DEF Extends
<1>2. Closed(N, V, all)
  <2>. SUFFICES ASSUME NEW t, NEW i, <<t, i>> \in N  PROVE Good(N, V, all, t, i)
    BY DEF Closed
  <2>1. CASE <<t, i>> \in M
    <3>1. Good(M, V, whole, t, i)
      BY <2>1 DEF Modelled, Closed
    <3>2. QED
      BY <1>1, <3>1, GoodStays
  <2>2. CASE t = x.type /\ i = x.info
    <3>1. Good(M, V, all, t, i)
      BY <2>2 DEF EntryGood
    <3>2. QED
      BY <1>1, <3>1, GoodStays
  <2>3. QED
    BY <1>0, <2>1, <2>2
<1>3. NamesPaired(N, V, T) /\ BasicsPaired(N)
  BY <1>1 DEF Modelled, NamesPaired, BasicsPaired
<1>4. Pairs(N, var) /\ Pairs(N, {x}) /\ Pairs(N, {})
  BY <1>0, <1>1 DEF Modelled, Pairs
<1>5. QED
  BY <1>2, <1>3, <1>4 DEF Modelled

(* A type that gets a name stays known for what it is.                     *)
LEMMA NameAdded ==
  ASSUME NEW M, NEW V, NEW T, NEW inn, NEW var, NEW whole, NEW all,
         Modelled(M, V, T, inn, var, whole), all => whole,
         NEW x, EntryGood(M, V, all, x), x.type.kind \in Constructors,
         NEW n, n \notin DOMAIN V
  PROVE  \E N : Modelled(N, With(V, n, x.type), With(T, n, x.info), {}, var, all)
<1>. DEFINE W == With(V, n, x.type)
            U == With(T, n, x.info)
<1>0. PICK N : N = M \cup {<<x.type, x.info>>, <<NamedType(n), x.info>>}
  OBVIOUS
<1>1. M \subseteq N
  BY <1>0
<1>2. /\ DOMAIN W = DOMAIN V \cup {n} /\ W[n] = x.type /\ \A m \in DOMAIN V : W[m] = V[m]
      /\ DOMAIN U = DOMAIN T \cup {n} /\ U[n] = x.info /\ \A m \in DOMAIN V : U[m] = T[m]
  <2>0. DOMAIN T = DOMAIN V
    BY DEF Modelled, NamesPaired
  <2>1. DOMAIN W = DOMAIN V \cup {n} /\ W[n] = x.type /\ \A m \in DOMAIN V : W[m] = V[m]
    BY DEF With
  <2>2. DOMAIN U = DOMAIN T \cup {n} /\ U[n] = x.info /\ \A m \in DOMAIN T : U[m] = T[m]
    BY <2>0 DEF With
  <2>3. QED
    BY <2>0, <2>1, <2>2
<1>. HIDE DEF W, U
<1>3. Extends(V, W)
  BY <1>2 DEF Extends
<1>4. Closed(N, W, all)
  <2>. SUFFICES ASSUME NEW t, NEW i, <<t, i>> \in N  PROVE Good(N, W, all, t, i)
    BY DEF Closed
  <2>1. CASE <<t, i>> \in M
    <3>1. Good(M, V, whole, t, i)
      BY <2>1 DEF Modelled, Closed
    <3>2. QED
      BY <1>1, <1>3, <3>1, GoodStays
  <2>2. CASE t = x.type /\ i = x.info
    <3>1. Good(M, V, all, t, i)
      BY <2>2 DEF EntryGood
    <3>2. QED
      BY <1>1, <1>3, <3>1, GoodStays
  <2>3. CASE t = NamedType(n) /\ i = x.info
    <3>1. i.size \in Positive /\ (all => Four(i.size))
      BY <2>3 DEF EntryGood, Good
    <3>2. t.kind = "named" /\ t.name = n
      BY <2>3 DEF NamedType
    <3>3. n \in DOMAIN W /\ <<W[n], i>> \in N
      BY <1>0, <1>2, <2>3
    <3>4. QED
      BY <3>1, <3>2, <3>3 DEF Good
  <2>4. QED
    BY <1>0, <2>1, <2>2, <2>3
<1>5. NamesPaired(N, W, U)
  <2>1. DOMAIN U = DOMAIN W
    BY <1>2 DEF Modelled, NamesPaired
  <2>2. ASSUME NEW m \in DOMAIN W
        PROVE  /\ <<W[m], U[m]>> \in N /\ <<NamedType(m), U[m]>> \in N
               /\ W[m].kind \in Constructors
    <3>1. CASE m = n
      BY <1>0, <1>2, <3>1
    <3>2. CASE m # n
      BY <1>1, <1>2, <3>2 DEF Modelled, NamesPaired
    <3>3. QED
      BY <3>1, <3>2
  <2>3. QED
    BY <2>1, <2>2 DEF NamesPaired
<1>6. BasicsPaired(N) /\ Pairs(N, var) /\ Pairs(N, {})
  BY <1>1 DEF Modelled, BasicsPaired, Pairs
<1>7. Modelled(N, W, U, {}, var, all)
  BY <1>4, <1>5, <1>6 DEF Modelled
<1>8. QED
  BY <1>7 DEF W, U

-----------------------------------------------------------------------------
(* The inductive invariant of the direct generator.                        *)
DirectInv ==
  /\ ragged \in BOOLEAN
  /\ \E M : Modelled(M, env, namedTypes, inner, variable, ~ragged)

(* The tables of the direct generator are right at the start.              *)
LEMMA DirectInit == Init => DirectInv
<1>. SUFFICES ASSUME Init  PROVE DirectInv
  OBVIOUS
<1>. DEFINE M == {<<INTEGER.type, INTEGER.info>>, <<CHAR.type, CHAR.info>>}
<1>1. /\ DOMAIN env = {} /\ namedTypes = env /\ inner = {} /\ variable = {} /\ ragged = FALSE
  BY DEF Init, Empty
<1>2. EntryGood(M, env, ~ragged, INTEGER) /\ EntryGood(M, env, ~ragged, CHAR)
  BY BasicEntries
<1>3. Closed(M, env, ~ragged)
  BY <1>2 DEF EntryGood, Closed
<1>4. NamesPaired(M, env, namedTypes) /\ BasicsPaired(M) /\ Pairs(M, inner) /\ Pairs(M, variable)
  BY <1>1 DEF NamesPaired, BasicsPaired, Pairs
<1>. HIDE DEF M
<1>5. Modelled(M, env, namedTypes, inner, variable, ~ragged)
  BY <1>3, <1>4 DEF Modelled
<1>6. QED
  BY <1>1, <1>5 DEF DirectInv

(* What building a type does to the note on ragged arrays.                 *)
LEMMA WriteIs ==
  ASSUME NEW x, Write(x), ragged \in BOOLEAN
  PROVE  /\ ragged' \in BOOLEAN /\ (~ragged' => ~ragged) /\ WordsFilled(x, ~ragged')
         /\ variable = {}
<1>. DEFINE fills == x.step = 1 /\ x.len % 4 # 0
<1>1. ragged' = (ragged \/ fills)
  BY DEF Write
<1>2. WordsFilled(x, ~ragged') <=> (~ragged' => ~fills)
  BY DEF WordsFilled
<1>3. variable = {}
  BY DEF Write
<1>. HIDE DEF fills
<1>4. QED
  BY <1>1, <1>2, <1>3

(* They stay right when the inside of a declaration is resolved.           *)
LEMMA DirectInner ==
  ASSUME DirectInv, NEW x \in Constructed, Inner(x)
  PROVE  DirectInv'
<1>1. /\ Write(x) /\ inner' = {x}
      /\ env' = env /\ namedTypes' = namedTypes /\ variable' = variable
  BY DEF Inner
<1>2. /\ ragged' \in BOOLEAN /\ (~ragged' => ~ragged) /\ WordsFilled(x, ~ragged')
  BY <1>1, WriteIs DEF DirectInv
<1>3. PICK M : Modelled(M, env, namedTypes, inner, variable, ~ragged)
  BY DEF DirectInv
<1>4. EntryGood(M, env, ~ragged', x)
  BY <1>2, <1>3, ConstructedGood
<1>5. \E N : Modelled(N, env, namedTypes, {x}, variable, ~ragged')
  BY <1>2, <1>3, <1>4, PairAdded
<1>6. \E N : Modelled(N, env', namedTypes', inner', variable', ~ragged')
  BY <1>1, <1>5
<1>7. QED
  BY <1>1, <1>2, <1>6 DEF DirectInv

(* They stay right when a type gets a name.                                *)
LEMMA DirectTypeDecl ==
  ASSUME DirectInv, NEW x \in Constructed, NEW n, TypeDecl(n, x)
  PROVE  DirectInv'
<1>1. /\ Write(x) /\ inner' = {} /\ n \notin DOMAIN env
      /\ env' = With(env, n, x.type) /\ namedTypes' = With(namedTypes, n, x.info)
      /\ variable' = variable
  BY DEF TypeDecl
<1>2. /\ ragged' \in BOOLEAN /\ (~ragged' => ~ragged) /\ WordsFilled(x, ~ragged')
  BY <1>1, WriteIs DEF DirectInv
<1>3. PICK M : Modelled(M, env, namedTypes, inner, variable, ~ragged)
  BY DEF DirectInv
<1>4. EntryGood(M, env, ~ragged', x) /\ x.type.kind \in Constructors
  BY <1>2, <1>3, ConstructedGood
<1>5. \E N : Modelled(N, With(env, n, x.type), With(namedTypes, n, x.info), {}, variable, ~ragged')
  BY <1>1, <1>2, <1>3, <1>4, NameAdded
<1>6. \E N : Modelled(N, env', namedTypes', inner', variable', ~ragged')
  BY <1>1, <1>5
<1>7. QED
  BY <1>1, <1>2, <1>6 DEF DirectInv

(* They stay right when the variable is declared.                          *)
LEMMA DirectVarDecl ==
  ASSUME DirectInv, NEW x \in Constructed \cup Known, VarDecl(x)
  PROVE  DirectInv'
<1>1. /\ inner' = {} /\ env' = env /\ namedTypes' = namedTypes /\ variable' = {x}
  BY DEF VarDecl
<1>2. PICK M : Modelled(M, env, namedTypes, inner, variable, ~ragged)
  BY DEF DirectInv
<1>3. CASE x \in Known
  <2>1. ragged' = ragged
    BY <1>3 DEF VarDecl
  <2>2. EntryGood(M, env, ~ragged, x)
    BY <1>2, <1>3, ElementsGood
  <2>3. \E N : Modelled(N, env, namedTypes, {}, {x}, ~ragged)
    BY <1>2, <2>2, PairAdded
  <2>4. \E N : Modelled(N, env', namedTypes', inner', variable', ~ragged')
    BY <1>1, <2>1, <2>3
  <2>5. QED
    BY <1>1, <2>1, <2>4 DEF DirectInv
<1>4. CASE x \notin Known
  <2>1. Write(x)
    BY <1>4 DEF VarDecl
  <2>2. /\ ragged' \in BOOLEAN /\ (~ragged' => ~ragged) /\ WordsFilled(x, ~ragged')
    BY <2>1, WriteIs DEF DirectInv
  <2>3. EntryGood(M, env, ~ragged', x)
    BY <1>2, <1>4, <2>2, ConstructedGood
  <2>4. \E N : Modelled(N, env, namedTypes, {}, {x}, ~ragged')
    BY <1>2, <2>2, <2>3, PairAdded
  <2>5. \E N : Modelled(N, env', namedTypes', inner', variable', ~ragged')
    BY <1>1, <2>4
  <2>6. QED
    BY <1>1, <2>2, <2>5 DEF DirectInv
<1>5. QED
  BY <1>3, <1>4

(* They stay right in every step.                                          *)
LEMMA DirectNext == DirectInv /\ [Next]_vars => DirectInv'
<1>. SUFFICES ASSUME DirectInv, [Next]_vars  PROVE DirectInv'
  OBVIOUS
<1>1. ASSUME NEW x \in Constructed, Inner(x)  PROVE DirectInv'
  BY <1>1, DirectInner
<1>2. ASSUME NEW n \in TypeNames, NEW x \in Constructed, TypeDecl(n, x)  PROVE DirectInv'
  BY <1>2, DirectTypeDecl
<1>3. ASSUME NEW x \in Constructed, VarDecl(x)  PROVE DirectInv'
  BY <1>3, DirectVarDecl
<1>4. ASSUME NEW x \in Known, VarDecl(x)  PROVE DirectInv'
  BY <1>4, DirectVarDecl
<1>5. CASE UNCHANGED vars
  <2>1. /\ env' = env /\ namedTypes' = namedTypes /\ inner' = inner /\ variable' = variable
        /\ ragged' = ragged
    BY <1>5 DEF vars
  <2>2. QED
    BY <2>1 DEF DirectInv
<1>6. QED
  BY <1>1, <1>2, <1>3, <1>4, <1>5 DEF Next

(* The direct generator knows every type of the program for what it is:    *)
(* resolveType.                                                            *)
THEOREM DirectInvariant == Spec => []DirectInv
BY DirectInit, DirectNext, PTL DEF Spec

-----------------------------------------------------------------------------
(* Components of a variable: where one lies, what it is to the language,   *)
(* and what the direct generator takes it for.                             *)
Whole == ~ragged
Ready(M) ==
  /\ Closed(M, env, Whole) /\ NamesPaired(M, env, namedTypes)
  /\ <<TheVariable.type, TheVariable.info>> \in M

Component(path, off, type, info) ==
  [path |-> path, off |-> off, size |-> info.size, type |-> type, info |-> info]
Comp(d) == Component(d.path, d.sym.offset, d.type, d.info)

FieldComp(k, n) ==
  Component(Append(k.path, <<"field", n>>), k.off + k.info.fields[n].offset,
            Meaning(k.type).fields[n], k.info.fields[n].info)
IndexComp(k, i) ==
  Component(Append(k.path, <<"index", i>>), k.off + i * k.info.elem.size,
            Meaning(k.type).elem, k.info.elem)

FieldPart(k, n, c) ==
  Meaning(k.type).kind = "record" /\ n \in DOMAIN Meaning(k.type).fields /\ c = FieldComp(k, n)
IndexPart(k, i, c) ==
  /\ Meaning(k.type).kind = "array" /\ ~Meaning(k.type).within
  /\ i \in 0..(Meaning(k.type).len - 1) /\ c = IndexComp(k, i)
IsPart(k, c) == (\E n : FieldPart(k, n, c)) \/ (\E i : IndexPart(k, i, c))

CompGood(M, c) ==
  /\ IsPath(c.path) /\ c.off \in Nat /\ c.size = c.info.size /\ c.size \in Positive
  /\ ElementGood(M, Whole, c.type, c.info)
  /\ Whole => Four(c.off) \/ c.info = Char8

(* A name may be replaced by what it means.                                *)
LEMMA MeaningPaired ==
  ASSUME NEW M, Ready(M), NEW t, NEW i, <<t, i>> \in M
  PROVE  /\ <<Meaning(t), i>> \in M /\ Meaning(t).kind # "named"
         /\ Good(M, env, Whole, Meaning(t), i)
<1>1. Good(M, env, Whole, t, i)
  BY DEF Ready, Closed
<1>2. <<Meaning(t), i>> \in M /\ Meaning(t).kind # "named"
  <2>1. CASE t.kind = "named"
    BY <1>1, <2>1 DEF Good, Meaning, Ready, NamesPaired, Constructors
  <2>2. CASE t.kind # "named"
    BY <2>2 DEF Meaning
  <2>3. QED
    BY <2>1, <2>2
<1>3. QED
  BY <1>2 DEF Ready, Closed

(* An element is of a pair, a character of a byte, or an array inside one. *)
LEMMA ElementPaired ==
  ASSUME NEW M, Ready(M), NEW t, NEW i, ElementGood(M, Whole, t, i)
  PROVE  /\ i.size \in Positive /\ (Whole => Four(i.size) \/ i = Char8)
         /\ \/ <<Meaning(t), i>> \in M /\ Good(M, env, Whole, Meaning(t), i)
            \/ Meaning(t).kind = "char" /\ i = Char8
            \/ Meaning(t).kind = "array" /\ Meaning(t).within
<1>1. CASE <<t, i>> \in M
  BY <1>1, MeaningPaired DEF Good
<1>2. CASE t.kind = "char" /\ i = Char8
  BY <1>2 DEF Meaning, Char8, Positive
<1>3. CASE /\ t.kind = "array" /\ t.within /\ i.size \in Positive
           /\ Whole => Four(i.size) \/ i = Char8
  BY <1>3 DEF Meaning
<1>4. QED
  BY <1>1, <1>2, <1>3 DEF ElementGood

(* An element of an array ends before the next one starts.                 *)
LEMMA Multiples ==
  ASSUME NEW i \in Nat, NEW j \in Nat, i < j, NEW s \in Nat
  PROVE  i * s \in Nat /\ j * s \in Nat /\ i * s + s <= j * s
<1>1. PICK k \in Nat : j = i + 1 + k
  <2>1. j - i - 1 \in Nat /\ j = i + 1 + (j - i - 1)
    OBVIOUS
  <2>2. QED
    BY <2>1
<1>2. j * s = i * s + s + k * s /\ k * s \in Nat /\ i * s \in Nat
  BY <1>1
<1>3. QED
  BY <1>2

(* Two elements of an array share nothing.                                 *)
LEMMA StepsApart ==
  ASSUME NEW c, NEW e, NEW i \in Nat, NEW j \in Nat, i # j, NEW s \in Nat, NEW off \in Nat,
         c.off = off + i * s, c.size = s, e.off = off + j * s, e.size = s
  PROVE  Disjoint(c, e)
<1>. DEFINE x == i * s
            y == j * s
<1>1. c.off = off + x /\ e.off = off + y
  OBVIOUS
<1>2. CASE i < j
  <2>1. x \in Nat /\ y \in Nat /\ x + s <= y
    BY <1>2, Multiples
  <2>. HIDE DEF x, y
  <2>2. c.off + c.size <= e.off
    BY <1>1, <2>1
  <2>3. QED
    BY <2>2 DEF Disjoint
<1>3. CASE j < i
  <2>1. x \in Nat /\ y \in Nat /\ y + s <= x
    BY <1>3, Multiples
  <2>. HIDE DEF x, y
  <2>2. e.off + e.size <= c.off
    BY <1>1, <2>1
  <2>3. QED
    BY <2>2 DEF Disjoint
<1>4. i < j \/ j < i
  OBVIOUS
<1>5. QED
  BY <1>2, <1>3, <1>4

(* The parts of a component as a record.                                   *)
LEMMA ComponentIs ==
  ASSUME NEW path, NEW off, NEW type, NEW info, NEW c, c = Component(path, off, type, info)
  PROVE  c.path = path /\ c.off = off /\ c.size = info.size /\ c.type = type /\ c.info = info
BY DEF Component

(* A field of a component is a component inside it.                        *)
LEMMA FieldPartGood ==
  ASSUME NEW M, Ready(M), NEW k, CompGood(M, k), NEW n, NEW c, FieldPart(k, n, c)
  PROVE  /\ CompGood(M, c) /\ c.path = Append(k.path, <<"field", n>>) /\ Within(k, c)
         /\ n \in DOMAIN Meaning(k.type).fields
         /\ c.off = k.off + k.info.fields[n].offset /\ c.size = k.info.fields[n].info.size
         /\ FieldsGood(M, Whole, Meaning(k.type).fields, k.info.fields, 0, k.info.size)
         /\ k.off \in Nat
<1>. DEFINE t == Meaning(k.type)
            f == k.info.fields[n]
<1>1. t.kind = "record" /\ n \in DOMAIN t.fields /\ c = FieldComp(k, n)
  BY DEF FieldPart
<1>2. Good(M, env, Whole, t, k.info)
  BY <1>1, ElementPaired DEF CompGood
<1>3. FieldsGood(M, Whole, t.fields, k.info.fields, 0, k.info.size)
  BY <1>1, <1>2 DEF Good
<1>4. /\ c.path = Append(k.path, <<"field", n>>) /\ c.off = k.off + f.offset
      /\ c.size = f.info.size /\ c.type = t.fields[n] /\ c.info = f.info
  <2>. DEFINE P == Append(k.path, <<"field", n>>)
              O == k.off + f.offset
              T == t.fields[n]
              I == f.info
  <2>1. c = Component(P, O, T, I)
    BY <1>1 DEF FieldComp
  <2>. HIDE DEF P, O, T, I
  <2>2. c.path = P /\ c.off = O /\ c.size = I.size /\ c.type = T /\ c.info = I
    BY <2>1, ComponentIs
  <2>3. QED
    BY <2>2 DEF P, O, T, I
<1>5. /\ <<t.fields[n], f.info>> \in M
      /\ f.offset \in Nat /\ f.info.size \in Nat
      /\ 0 <= f.offset /\ f.offset + f.info.size <= k.info.size
      /\ Whole => Four(f.offset)
  BY <1>1, <1>3 DEF FieldsGood
<1>6. k.off \in Nat /\ k.size = k.info.size /\ k.info.size \in Nat /\ IsPath(k.path)
      /\ k.info # Char8
  <2>1. k.info # Char8
    BY <1>1, <1>2 DEF Good, Char8
  <2>2. QED
    BY <2>1 DEF CompGood, Positive
<1>. HIDE DEF t, f
<1>7. Within(k, c)
  BY <1>4, <1>5, <1>6 DEF Within
<1>8. IsPath(c.path)
  BY <1>4, <1>6, PathAppend
<1>9. f.info.size \in Positive
  BY <1>5 DEF Ready, Closed, Good
<1>10. Whole => Four(c.off)
  BY <1>4, <1>5, <1>6, FourIs DEF CompGood
<1>11. ElementGood(M, Whole, c.type, c.info)
  BY <1>4, <1>5 DEF ElementGood
<1>12. c.off \in Nat
  BY <1>4, <1>5, <1>6
<1>13. CompGood(M, c)
  BY <1>4, <1>8, <1>9, <1>10, <1>11, <1>12 DEF CompGood
<1>14. QED
  BY <1>1, <1>3, <1>4, <1>6, <1>7, <1>13 DEF t, f

(* An element of a component is a component inside it.                     *)
LEMMA IndexPartGood ==
  ASSUME NEW M, Ready(M), NEW k, CompGood(M, k), NEW i, NEW c, IndexPart(k, i, c)
  PROVE  /\ CompGood(M, c) /\ c.path = Append(k.path, <<"index", i>>) /\ Within(k, c)
         /\ i \in Nat /\ c.off = k.off + i * k.info.elem.size /\ c.size = k.info.elem.size
         /\ c.size \in Nat /\ k.off \in Nat
<1>. DEFINE t == Meaning(k.type)
            s == k.info.elem.size
<1>1. t.kind = "array" /\ ~t.within /\ i \in 0..(t.len - 1) /\ c = IndexComp(k, i)
  BY DEF IndexPart
<1>2. Good(M, env, Whole, t, k.info)
  BY <1>1, ElementPaired DEF CompGood
<1>3. /\ k.info.kind = "array" /\ t.len \in Positive
      /\ k.info.size = t.len * s
      /\ ElementGood(M, Whole, t.elem, k.info.elem)
  BY <1>1, <1>2 DEF Good, ArrayGood
<1>4. /\ c.path = Append(k.path, <<"index", i>>) /\ c.off = k.off + i * s
      /\ c.size = s /\ c.type = t.elem /\ c.info = k.info.elem
  <2>. DEFINE P == Append(k.path, <<"index", i>>)
              O == k.off + i * s
              T == t.elem
              I == k.info.elem
  <2>1. c = Component(P, O, T, I)
    BY <1>1 DEF IndexComp
  <2>. HIDE DEF P, O, T, I
  <2>2. c.path = P /\ c.off = O /\ c.size = I.size /\ c.type = T /\ c.info = I
    BY <2>1, ComponentIs
  <2>3. QED
    BY <2>2 DEF P, O, T, I
<1>5. s \in Positive /\ (Whole => Four(s) \/ k.info.elem = Char8)
  BY <1>3, ElementPaired
<1>6. k.off \in Nat /\ k.size = k.info.size /\ k.info.size \in Nat /\ IsPath(k.path)
      /\ k.info # Char8
  <2>1. k.info # Char8
    BY <1>3 DEF Char8
  <2>2. QED
    BY <2>1 DEF CompGood, Positive
<1>7. s \in Nat /\ i \in Nat /\ t.len \in Nat /\ i < t.len
  <2>1. s \in Nat /\ t.len \in Nat
    BY <1>3, <1>5 DEF Positive
  <2>. HIDE DEF s, t
  <2>2. QED
    BY <1>1, <2>1
<1>. HIDE DEF s, t
<1>8. i * s \in Nat /\ i * s + s <= t.len * s
  BY <1>7, Multiples
<1>9. Within(k, c)
  BY <1>3, <1>4, <1>6, <1>7, <1>8 DEF Within
<1>10. IsPath(c.path)
  BY <1>4, <1>6, PathAppend
<1>11. Whole => Four(c.off) \/ c.info = Char8
  <2>1. ASSUME Whole, Four(s)  PROVE Four(c.off)
    <3>1. Four(i * s)
      BY <1>7, <2>1, FourIs
    <3>2. Four(k.off)
      BY <1>6, <2>1 DEF CompGood
    <3>3. QED
      BY <1>4, <1>6, <1>8, <3>1, <3>2, FourIs
  <2>2. QED
    BY <1>4, <1>5, <2>1
<1>12. c.off \in Nat
  BY <1>4, <1>6, <1>8
<1>12a. ElementGood(M, Whole, c.type, c.info)
  BY <1>3, <1>4
<1>13. CompGood(M, c)
  <2>1. c.size = c.info.size /\ c.size \in Positive
    BY <1>4, <1>5 DEF s
  <2>2. QED
    BY <1>10, <1>11, <1>12, <1>12a, <2>1 DEF CompGood
<1>14. QED
  BY <1>4, <1>6, <1>7, <1>9, <1>13 DEF s

(* A part of a component is a component inside it.                         *)
LEMMA PartGood ==
  ASSUME NEW M, Ready(M), NEW k, CompGood(M, k), NEW c, IsPart(k, c)
  PROVE  CompGood(M, c) /\ Longer(k.path, c.path) /\ Within(k, c)
<1>1. CASE \E n : FieldPart(k, n, c)
  <2>1. PICK n : FieldPart(k, n, c)
    BY <1>1
  <2>2. CompGood(M, c) /\ c.path = Append(k.path, <<"field", n>>) /\ Within(k, c)
    BY <2>1, FieldPartGood
  <2>3. QED
    BY <2>2, Zenon DEF Longer
<1>2. CASE \E i : IndexPart(k, i, c)
  <2>1. PICK i : IndexPart(k, i, c)
    BY <1>2
  <2>2. CompGood(M, c) /\ c.path = Append(k.path, <<"index", i>>) /\ Within(k, c)
    BY <2>1, IndexPartGood
  <2>3. QED
    BY <2>2, Zenon DEF Longer
<1>3. QED
  BY <1>1, <1>2 DEF IsPart

(* Paths that go on alike have the same last selector.                     *)
LEMMA AppendSame ==
  ASSUME NEW p, IsPath(p), NEW s, NEW u, Append(p, s) = Append(p, u)
  PROVE  s = u
BY PathAppend

(* Two parts of the same component share nothing.                          *)
LEMMA SiblingsApart ==
  ASSUME NEW M, Ready(M), NEW k, CompGood(M, k),
         NEW c, IsPart(k, c), NEW e, IsPart(k, e), c # e
  PROVE  c.path # e.path /\ Disjoint(c, e)
<1>0. IsPath(k.path)
  BY DEF CompGood
<1>1. CASE Meaning(k.type).kind = "record"
  <2>1. PICK n : FieldPart(k, n, c)
    BY <1>1 DEF IsPart, IndexPart
  <2>2. PICK m : FieldPart(k, m, e)
    BY <1>1 DEF IsPart, IndexPart
  <2>3. n # m
    BY <2>1, <2>2 DEF FieldPart
  <2>. DEFINE f == k.info.fields
  <2>4. /\ c.path = Append(k.path, <<"field", n>>)
        /\ c.off = k.off + f[n].offset /\ c.size = f[n].info.size
        /\ n \in DOMAIN Meaning(k.type).fields /\ k.off \in Nat
        /\ FieldsGood(M, Whole, Meaning(k.type).fields, f, 0, k.info.size)
    BY <2>1, FieldPartGood
  <2>5. /\ e.path = Append(k.path, <<"field", m>>)
        /\ e.off = k.off + f[m].offset /\ e.size = f[m].info.size
        /\ m \in DOMAIN Meaning(k.type).fields
    BY <2>2, FieldPartGood
  <2>. HIDE DEF f
  <2>6. /\ \/ f[n].offset + f[n].info.size <= f[m].offset
           \/ f[m].offset + f[m].info.size <= f[n].offset
        /\ f[n].offset \in Nat /\ f[n].info.size \in Nat
        /\ f[m].offset \in Nat /\ f[m].info.size \in Nat
    BY <2>3, <2>4, <2>5 DEF FieldsGood
  <2>7. Disjoint(c, e)
    BY <2>4, <2>5, <2>6 DEF Disjoint
  <2>8. <<"field", n>> # <<"field", m>>
    BY <2>3
  <2>9. QED
    BY <1>0, <2>4, <2>5, <2>7, <2>8, AppendSame
<1>2. CASE Meaning(k.type).kind # "record"
  <2>1. PICK i : IndexPart(k, i, c)
    BY <1>2 DEF IsPart, FieldPart
  <2>2. PICK j : IndexPart(k, j, e)
    BY <1>2 DEF IsPart, FieldPart
  <2>3. i # j
    BY <2>1, <2>2 DEF IndexPart
  <2>. DEFINE s == k.info.elem.size
  <2>4. /\ c.path = Append(k.path, <<"index", i>>)
        /\ i \in Nat /\ c.off = k.off + i * s /\ c.size = s /\ s \in Nat /\ k.off \in Nat
    BY <2>1, IndexPartGood
  <2>5. /\ e.path = Append(k.path, <<"index", j>>)
        /\ j \in Nat /\ e.off = k.off + j * s /\ e.size = s
    BY <2>2, IndexPartGood
  <2>. HIDE DEF s
  <2>7. Disjoint(c, e)
    BY <2>3, <2>4, <2>5, StepsApart
  <2>8. <<"index", i>> # <<"index", j>>
    BY <2>3
  <2>9. QED
    BY <1>0, <2>4, <2>5, <2>7, <2>8, AppendSame
<1>3. QED
  BY <1>1, <1>2

-----------------------------------------------------------------------------
(* What the designators that keep to the limits start from: the variable,  *)
(* or what is behind it.                                                   *)
RootMeaning == Meaning(TheVariable.type)
Heap == RootMeaning.kind = "pointer"
Base == IF Heap THEN Component(<<<<"deref">>>>, 0, NamedType(RootMeaning.to),
                               TheVariable.info.pointee)
        ELSE Component(<<>>, 0, TheVariable.type, TheVariable.info)
Block == IF Heap THEN <<<<>>, 0>> ELSE <<>>
Depth == IF Heap THEN 1 ELSE 0
Room == IF Heap THEN Bytes(TheVariable.info.pointee.size) ELSE TheVariable.info.size
Derefs == IF Heap THEN {1} ELSE {}
DerefsOf(p) == {i \in 1..Len(p) : p[i] = <<"deref">>}

AtHome(p) == IsPlace(p) /\ p.block = Block /\ p.depth = Depth /\ p.room = Room
AtRoot(d) == Heap /\ d = Start
In(d) ==
  /\ AtHome(d.sym) /\ DerefsOf(d.path) = Derefs /\ (Heap => ~RootMeaning.early)
  /\ d.info = Char8 => d.last = "index"
All == {Comp(d) : d \in {e \in Reached : e.symPlain /\ ~AtRoot(e)}} \cup {Base}

Placing(M, d) ==
  /\ In(d) /\ CompGood(M, Comp(d))
  /\ Comp(d) = Base \/ \E k \in All : IsPart(k, Comp(d))
SymOK(M, d) ==
  /\ IsDesignator(d) /\ IsPath(d.path) /\ (d.path = <<>> => d = Start)
  /\ d.symPlain => AtRoot(d) \/ Placing(M, d)

(* A place some bytes further on, in the same block.                       *)
LEMMA ShiftIs ==
  ASSUME NEW p, IsPlace(p), NEW by, NEW q, q = Shift(p, by)
  PROVE  /\ IsPlace(q) /\ q.offset = p.offset + by
         /\ q.block = p.block /\ q.depth = p.depth /\ q.room = p.room
BY DEF Shift, IsPlace

(* The start of the block behind a pointer.                                *)
LEMMA BehindIs ==
  ASSUME NEW p, NEW room, NEW q, q = Behind(p, room)
  PROVE  /\ IsPlace(q) /\ q.offset = 0 /\ q.room = room
         /\ q.block = <<p.block, p.offset>> /\ q.depth = p.depth + 1
BY DEF Behind, IsPlace

(* An index or a field follows no pointer.                                 *)
LEMMA DerefsAppend ==
  ASSUME NEW p, IsPath(p), NEW s, s # <<"deref">>, NEW q, q = Append(p, s)
  PROVE  IsPath(q) /\ q # <<>> /\ DerefsOf(q) = DerefsOf(p)
<1>1. /\ IsPath(q) /\ Len(p) \in Nat /\ Len(q) = Len(p) + 1
      /\ (\A i \in 1..Len(p) : q[i] = p[i]) /\ q[Len(p) + 1] = s
  BY PathAppend
<1>2. q # <<>>
  BY <1>1
<1>3. ASSUME NEW i \in 1..Len(q)  PROVE i \in 1..Len(p) \/ i = Len(p) + 1
  BY <1>1
<1>4. \A i \in 1..Len(p) : i \in 1..Len(q)
  BY <1>1
<1>5. DerefsOf(q) = DerefsOf(p)
  BY <1>1, <1>3, <1>4 DEF DerefsOf
<1>6. QED
  BY <1>1, <1>2, <1>5

(* Only elements of arrays take a byte.                                    *)
LEMMA PairsNoByte ==
  ASSUME NEW M, Ready(M), NEW t, NEW i, <<t, i>> \in M
  PROVE  i # Char8
<1>1. Meaning(t).kind # "named" /\ Good(M, env, Whole, Meaning(t), i)
  BY MeaningPaired
<1>2. QED
  BY <1>1 DEF Good, ArrayGood, PointerGood, Char8, Word

(* The direct generator finds the fields of a record.                      *)
LEMMA FieldKnown ==
  ASSUME NEW M, Ready(M), NEW k, CompGood(M, k), Meaning(k.type).kind = "record",
         NEW n \in DOMAIN Meaning(k.type).fields
  PROVE  /\ k.info.kind = "record" /\ n \in DOMAIN k.info.fields
         /\ k.info.fields[n].info # Char8
<1>0. ElementGood(M, Whole, k.type, k.info)
  BY DEF CompGood
<1>1. Good(M, env, Whole, Meaning(k.type), k.info)
  BY <1>0, ElementPaired
<1>2. /\ k.info.kind = "record"
      /\ FieldsGood(M, Whole, Meaning(k.type).fields, k.info.fields, 0, k.info.size)
  BY <1>1 DEF Good
<1>3. n \in DOMAIN k.info.fields /\ <<Meaning(k.type).fields[n], k.info.fields[n].info>> \in M
  BY <1>2 DEF FieldsGood
<1>4. QED
  BY <1>2, <1>3, PairsNoByte

(* The direct generator takes an array for an array.                       *)
LEMMA ArrayKnown ==
  ASSUME NEW M, Ready(M), NEW k, CompGood(M, k), Meaning(k.type).kind = "array",
         ~Meaning(k.type).within
  PROVE  k.info.kind = "array"
<1>0. ElementGood(M, Whole, k.type, k.info)
  BY DEF CompGood
<1>1. Good(M, env, Whole, Meaning(k.type), k.info)
  BY <1>0, ElementPaired
<1>2. QED
  BY <1>1 DEF Good, ArrayGood

(* A type of the program at the start of a block is a component.           *)
LEMMA PairComponent ==
  ASSUME NEW M, Ready(M), NEW path, IsPath(path), NEW t, NEW i, <<t, i>> \in M,
         NEW c, c = Component(path, 0, t, i)
  PROVE  CompGood(M, c)
<1>1. c.path = path /\ c.off = 0 /\ c.size = i.size /\ c.type = t /\ c.info = i
  BY ComponentIs
<1>2. i.size \in Positive
  BY DEF Ready, Closed, Good
<1>3. ElementGood(M, Whole, t, i)
  BY DEF ElementGood
<1>4. Four(0) /\ 0 \in Nat
  BY FourIs
<1>5. QED
  BY <1>1, <1>2, <1>3, <1>4 DEF CompGood

(* What is behind the variable, if that is a pointer, is known for what    *)
(* it is.                                                                  *)
LEMMA RootPaired ==
  ASSUME NEW M, Ready(M)
  PROVE  /\ <<RootMeaning, TheVariable.info>> \in M
         /\ Heap => /\ TheVariable.info.kind = "pointer" /\ TheVariable.info.size = 4
                    /\ ~RootMeaning.early =>
                         /\ <<NamedType(RootMeaning.to), TheVariable.info.pointee>> \in M
                         /\ Meaning(NamedType(RootMeaning.to)) = env[RootMeaning.to]
<1>1. <<RootMeaning, TheVariable.info>> \in M
      /\ Good(M, env, Whole, RootMeaning, TheVariable.info)
  BY MeaningPaired DEF Ready, RootMeaning
<1>2. Heap => PointerGood(M, env, RootMeaning, TheVariable.info)
  BY <1>1 DEF Heap, Good
<1>3. Meaning(NamedType(RootMeaning.to)) = env[RootMeaning.to]
  BY DEF Meaning, NamedType
<1>4. QED
  BY <1>1, <1>2, <1>3 DEF PointerGood, NamedType

(* The variable, or what is behind it, is a component.                     *)
LEMMA BaseGood ==
  ASSUME NEW M, Ready(M), Heap => ~RootMeaning.early
  PROVE  CompGood(M, Base)
<1>0. IsPath(<<>>) /\ IsPath(<<<<"deref">>>>)
  <2>1. <<>> \in Seq({}) /\ <<<<"deref">>>> \in Seq({<<"deref">>})
    OBVIOUS
  <2>2. QED
    BY <2>1 DEF IsPath
<1>1. CASE Heap
  <2>1. <<NamedType(RootMeaning.to), TheVariable.info.pointee>> \in M
    BY <1>1, RootPaired
  <2>2. Base = Component(<<<<"deref">>>>, 0, NamedType(RootMeaning.to), TheVariable.info.pointee)
    BY <1>1 DEF Base
  <2>. DEFINE P == <<<<"deref">>>>
  <2>. HIDE DEF P
  <2>3. QED
    BY <1>0, <2>1, <2>2, PairComponent DEF P
<1>2. CASE ~Heap
  <2>1. <<TheVariable.type, TheVariable.info>> \in M
    BY DEF Ready
  <2>2. Base = Component(<<>>, 0, TheVariable.type, TheVariable.info)
    BY <1>2 DEF Base
  <2>3. QED
    BY <1>0, <2>1, <2>2, PairComponent
<1>3. QED
  BY <1>1, <1>2

(* The designator without selectors.                                       *)
LEMMA StartIs ==
  /\ IsDesignator(Start) /\ Start.path = <<>> /\ IsPath(Start.path)
  /\ Start.type = TheVariable.type /\ Start.info = TheVariable.info
  /\ Start.sym = Variable(TheVariable.info.size) /\ IsPlace(Start.sym)
  /\ Start.sym.block = <<>> /\ Start.sym.depth = 0 /\ Start.sym.offset = 0
  /\ Start.sym.room = TheVariable.info.size
  /\ Start.first = "none" /\ Start.last = "none" /\ Start.name = TheVariable.name
  /\ Start.ir = Variable(TheVariable.size) /\ IsPlace(Start.ir)
  /\ Start.ir.block = <<>> /\ Start.ir.depth = 0 /\ Start.ir.offset = 0
  /\ Start.ir.room = TheVariable.size
<1>1. IsPath(<<>>)
  <2>1. <<>> \in Seq({})
    OBVIOUS
  <2>2. QED
    BY <2>1 DEF IsPath
<1>2. QED
  BY <1>1 DEF Start, IsDesignator, Variable, IsPlace

(* The component a designator stands for.                                  *)
LEMMA CompIs ==
  ASSUME NEW d, NEW c, c = Comp(d)
  PROVE  c.path = d.path /\ c.off = d.sym.offset /\ c.size = d.info.size /\ c.type = d.type
         /\ c.info = d.info
<1>1. c = Component(d.path, d.sym.offset, d.type, d.info)
  BY DEF Comp
<1>2. QED
  BY <1>1, ComponentIs

(* The designator without selectors is placed well.                        *)
LEMMA StartSymOK ==
  ASSUME NEW M, Ready(M)
  PROVE  SymOK(M, Start)
<1>1. CASE Heap
  BY <1>1, StartIs DEF SymOK, AtRoot
<1>2. CASE ~Heap
  <2>1. Comp(Start) = Base
    BY <1>2, StartIs DEF Comp, Base
  <2>2. CompGood(M, Comp(Start))
    BY <1>2, <2>1, BaseGood
  <2>3. AtHome(Start.sym)
    BY <1>2, StartIs DEF AtHome, Block, Depth, Room
  <2>4. DerefsOf(Start.path) = Derefs
    <3>1. Len(Start.path) = 0 /\ 1..0 = {}
      BY StartIs
    <3>2. QED
      BY <1>2, <3>1 DEF DerefsOf, Derefs
  <2>5. Start.info # Char8
    BY StartIs, PairsNoByte DEF Ready
  <2>6. Placing(M, Start)
    BY <1>2, <2>1, <2>2, <2>3, <2>4, <2>5 DEF Placing, In
  <2>7. QED
    BY <2>6, StartIs DEF SymOK
<1>3. QED
  BY <1>1, <1>2

(* A part of a component, as an index or a field makes it.                 *)
LEMMA PartPlaced ==
  ASSUME NEW M, Ready(M), NEW k \in All, CompGood(M, k), NEW e,
         IsPart(k, Comp(e)), In(e)
  PROVE  Placing(M, e)
<1>1. CompGood(M, Comp(e))
  BY PartGood
<1>2. QED
  BY <1>1 DEF Placing

(* An index leaves a designator placed well.                               *)
LEMMA IndexSymOK ==
  ASSUME NEW M, Ready(M), NEW d \in Reached, SymOK(M, d), Meaning(d.type).kind = "array",
         NEW i \in 0..(Meaning(d.type).len - 1), NEW e, e = Index(d, i)
  PROVE  SymOK(M, e)
<1>0. IsDesignator(d) /\ IsPath(d.path)
  BY DEF SymOK
<1>1. /\ IsDesignator(e) /\ e.last = "index"
      /\ e.path = Append(d.path, <<"index", i>>)
      /\ e.type = Meaning(d.type).elem
      /\ e.symPlain => d.symPlain /\ ~Meaning(d.type).within
      /\ d.info.kind = "array" =>
           e.sym = Shift(d.sym, i * d.info.elem.size) /\ e.info = d.info.elem
  BY <1>0, IndexIs
<1>2. <<"index", i>> # <<"deref">>
  OBVIOUS
<1>3. IsPath(e.path) /\ e.path # <<>> /\ DerefsOf(e.path) = DerefsOf(d.path)
  BY <1>0, <1>1, <1>2, DerefsAppend
<1>4. ASSUME e.symPlain  PROVE Placing(M, e)
  <2>1. d.symPlain /\ ~Meaning(d.type).within
    BY <1>1, <1>4
  <2>2. ~AtRoot(d)
    BY StartIs DEF AtRoot, Heap, RootMeaning
  <2>3. Placing(M, d)
    BY <2>1, <2>2 DEF SymOK
  <2>. DEFINE k == Comp(d)
              c == Comp(e)
  <2>4. k \in All /\ CompGood(M, k)
    BY <2>1, <2>2, <2>3 DEF All, Placing
  <2>5. k.path = d.path /\ k.off = d.sym.offset /\ k.type = d.type /\ k.info = d.info
    BY CompIs
  <2>. HIDE DEF k
  <2>6. d.info.kind = "array"
    BY <2>1, <2>4, <2>5, ArrayKnown
  <2>7. e.sym = Shift(d.sym, i * d.info.elem.size) /\ e.info = d.info.elem /\ IsPlace(d.sym)
    BY <1>1, <2>3, <2>6 DEF Placing, In, AtHome
  <2>8. /\ e.sym.offset = d.sym.offset + i * d.info.elem.size /\ IsPlace(e.sym)
        /\ e.sym.block = d.sym.block /\ e.sym.depth = d.sym.depth /\ e.sym.room = d.sym.room
    BY <2>7, ShiftIs
  <2>9. c = IndexComp(k, i)
    BY <1>1, <2>5, <2>7, <2>8 DEF Comp, IndexComp
  <2>10. IndexPart(k, i, c)
    BY <2>1, <2>5, <2>9 DEF IndexPart
  <2>11. In(e)
    BY <1>1, <1>3, <2>3, <2>8 DEF Placing, In, AtHome
  <2>12. IsPart(k, c)
    BY <2>10 DEF IsPart
  <2>13. QED
    BY <2>4, <2>11, <2>12, PartPlaced
<1>5. QED
  BY <1>1, <1>3, <1>4 DEF SymOK

(* A field of a record leaves a designator placed well.                    *)
LEMMA RecordSymOK ==
  ASSUME NEW M, Ready(M), NEW d \in Reached, SymOK(M, d), Meaning(d.type).kind = "record",
         NEW n \in DOMAIN Meaning(d.type).fields, NEW e, e = FieldOf(d, n)
  PROVE  SymOK(M, e)
<1>0. IsDesignator(d) /\ IsPath(d.path)
  BY DEF SymOK
<1>1. FieldIs(d, d, n, e)
  BY <1>0, FieldOfIs
<1>2. <<"field", n>> # <<"deref">>
  OBVIOUS
<1>3. IsPath(e.path) /\ e.path # <<>> /\ DerefsOf(e.path) = DerefsOf(d.path)
  BY <1>0, <1>1, <1>2, DerefsAppend DEF FieldIs
<1>4. ASSUME e.symPlain  PROVE Placing(M, e)
  <2>1. d.symPlain
    BY <1>1, <1>4 DEF FieldIs
  <2>2. ~AtRoot(d)
    BY StartIs DEF AtRoot, Heap, RootMeaning
  <2>3. Placing(M, d)
    BY <2>1, <2>2 DEF SymOK
  <2>. DEFINE k == Comp(d)
              c == Comp(e)
  <2>4. k \in All /\ CompGood(M, k)
    BY <2>1, <2>2, <2>3 DEF All, Placing
  <2>5. k.path = d.path /\ k.off = d.sym.offset /\ k.type = d.type /\ k.info = d.info
    BY CompIs
  <2>. HIDE DEF k
  <2>6. d.info.kind = "record" /\ n \in DOMAIN d.info.fields /\ d.info.fields[n].info # Char8
    BY <2>4, <2>5, FieldKnown
  <2>7. /\ e.sym = Shift(d.sym, d.info.fields[n].offset) /\ e.info = d.info.fields[n].info
        /\ IsPlace(d.sym)
    BY <1>1, <2>3, <2>6 DEF Placing, In, AtHome, FieldIs
  <2>8. /\ e.sym.offset = d.sym.offset + d.info.fields[n].offset /\ IsPlace(e.sym)
        /\ e.sym.block = d.sym.block /\ e.sym.depth = d.sym.depth /\ e.sym.room = d.sym.room
    BY <2>7, ShiftIs
  <2>8a. e.path = Append(d.path, <<"field", n>>) /\ e.type = Meaning(d.type).fields[n]
    BY <1>1 DEF FieldIs
  <2>9. c = FieldComp(k, n)
    BY <2>5, <2>7, <2>8, <2>8a DEF Comp, FieldComp
  <2>10. FieldPart(k, n, c)
    BY <2>5, <2>9 DEF FieldPart
  <2>11. In(e)
    BY <1>3, <2>3, <2>6, <2>7, <2>8 DEF Placing, In, AtHome
  <2>12. IsPart(k, c)
    BY <2>10 DEF IsPart
  <2>13. QED
    BY <2>4, <2>11, <2>12, PartPlaced
<1>5. QED
  BY <1>1, <1>3, <1>4 DEF SymOK, FieldIs

(* Through the variable, if that is a pointer: p^ and p.x.                 *)
LEMMA RootDeref ==
  ASSUME NEW M, Ready(M), Heap, ~RootMeaning.early,
         NEW q, q = Behind(Start.sym, symAllocSize(Start))
  PROVE  AtHome(q) /\ q.offset = 0 /\ DerefsOf(<<<<"deref">>>>) = Derefs
<1>1. TheVariable.info.kind = "pointer"
  BY RootPaired
<1>2. symAllocSize(Start) = Bytes(TheVariable.info.pointee.size)
  BY <1>1, StartIs DEF symAllocSize
<1>3. /\ IsPlace(q) /\ q.offset = 0 /\ q.room = Bytes(TheVariable.info.pointee.size)
      /\ q.block = <<Start.sym.block, Start.sym.offset>> /\ q.depth = Start.sym.depth + 1
  BY <1>2, BehindIs
<1>4. AtHome(q)
  BY <1>3, StartIs DEF AtHome, Block, Depth, Room
<1>5. DerefsOf(<<<<"deref">>>>) = Derefs
  <2>. DEFINE p == <<<<"deref">>>>
  <2>1. Len(p) = 1 /\ p[1] = <<"deref">> /\ 1..1 = {1}
    OBVIOUS
  <2>. HIDE DEF p
  <2>2. DerefsOf(p) = {1}
    BY <2>1 DEF DerefsOf
  <2>3. QED
    BY <2>2 DEF Derefs, p
<1>6. QED
  BY <1>3, <1>4, <1>5

(* A pointer that a plain designator follows is the variable.              *)
LEMMA FromRoot ==
  ASSUME NEW M, NEW d, SymOK(M, d), Meaning(d.type).kind = "pointer", d.path = <<>>
  PROVE  d = Start /\ Heap /\ Meaning(d.type) = RootMeaning
BY StartIs DEF SymOK, Heap, RootMeaning

(* ^ leaves a designator placed well.                                      *)
LEMMA DerefSymOK ==
  ASSUME NEW M, Ready(M), NEW d \in Reached, SymOK(M, d), Meaning(d.type).kind = "pointer",
         NEW e, e = Deref(d)
  PROVE  SymOK(M, e)
<1>0. IsDesignator(d) /\ IsPath(d.path)
  BY DEF SymOK
<1>1. /\ IsDesignator(e)
      /\ e.path = Append(d.path, <<"deref">>)
      /\ e.type = NamedType(Meaning(d.type).to)
      /\ e.symPlain => d.symPlain /\ d.path = <<>> /\ ~Meaning(d.type).early
      /\ e.sym = Behind(d.sym, symAllocSize(d))
      /\ d.info.kind = "pointer" => e.info = d.info.pointee
  BY <1>0, DerefIs DEF NamedType
<1>2. IsPath(e.path) /\ e.path # <<>>
  <2>1. IsPath(e.path) /\ Len(d.path) \in Nat /\ Len(e.path) = Len(d.path) + 1
    BY <1>0, <1>1, PathAppend
  <2>2. QED
    BY <2>1
<1>3. ASSUME e.symPlain  PROVE Placing(M, e)
  <2>1. d = Start /\ Heap /\ ~RootMeaning.early /\ Meaning(d.type) = RootMeaning
    BY <1>1, <1>3, FromRoot
  <2>2. /\ TheVariable.info.kind = "pointer"
        /\ <<NamedType(RootMeaning.to), TheVariable.info.pointee>> \in M
    BY <2>1, RootPaired
  <2>3. AtHome(e.sym) /\ e.sym.offset = 0 /\ DerefsOf(<<<<"deref">>>>) = Derefs
    BY <1>1, <2>1, RootDeref
  <2>4. e.path = <<<<"deref">>>>
    BY <1>1, <2>1, StartIs
  <2>5. e.info = TheVariable.info.pointee /\ e.info # Char8 /\ e.type = NamedType(RootMeaning.to)
    BY <1>1, <2>1, <2>2, StartIs, PairsNoByte
  <2>6. Comp(e) = Base
    BY <2>1, <2>3, <2>4, <2>5 DEF Comp, Base
  <2>7. In(e)
    BY <2>1, <2>3, <2>4, <2>5 DEF In
  <2>8. CompGood(M, Comp(e))
    BY <2>1, <2>6, BaseGood
  <2>9. QED
    BY <2>6, <2>7, <2>8 DEF Placing
<1>4. QED
  BY <1>1, <1>2, <1>3 DEF SymOK

(* A field of what is behind a pointer leaves a designator placed well.    *)
LEMMA ThroughSymOK ==
  ASSUME NEW M, Ready(M), NEW d \in Reached, SymOK(M, d), Meaning(d.type).kind = "pointer",
         env[Meaning(d.type).to].kind = "record",
         NEW n \in DOMAIN env[Meaning(d.type).to].fields, NEW e, e = FieldOf(d, n)
  PROVE  SymOK(M, e)
<1>0. IsDesignator(d) /\ IsPath(d.path)
  BY DEF SymOK
<1>. DEFINE m == MeansDeref(d)
<1>1. FieldIs(d, m, n, e)
  BY <1>0, FieldOfIs
<1>2. /\ m.path = Append(d.path, <<"deref">>)
      /\ m.type = NamedType(Meaning(d.type).to)
      /\ m.symPlain => d.symPlain /\ d.path = <<>> /\ ~Meaning(d.type).early
  BY <1>0, MeansDerefIs DEF NamedType
<1>. HIDE DEF m
<1>3. <<"field", n>> # <<"deref">>
  OBVIOUS
<1>4. IsPath(m.path)
  BY <1>0, <1>2, PathAppend
<1>5. IsPath(e.path) /\ e.path # <<>> /\ DerefsOf(e.path) = DerefsOf(m.path)
  BY <1>1, <1>3, <1>4, DerefsAppend DEF FieldIs
<1>6. ASSUME e.symPlain  PROVE Placing(M, e)
  <2>0. m.symPlain
    BY <1>1, <1>6 DEF FieldIs
  <2>1. d = Start /\ Heap /\ ~RootMeaning.early /\ Meaning(d.type) = RootMeaning
    BY <1>2, <2>0, FromRoot
  <2>2. /\ TheVariable.info.kind = "pointer"
        /\ Meaning(NamedType(RootMeaning.to)) = env[RootMeaning.to]
    BY <2>1, RootPaired
  <2>. DEFINE k == Base
              c == Comp(e)
              q == Behind(d.sym, symAllocSize(d))
  <2>3. AtHome(q) /\ q.offset = 0 /\ DerefsOf(<<<<"deref">>>>) = Derefs
    BY <2>1, RootDeref
  <2>4. m.path = <<<<"deref">>>> /\ m.type = NamedType(RootMeaning.to)
    BY <1>2, <2>1, StartIs
  <2>5. k = Component(m.path, 0, m.type, TheVariable.info.pointee)
    BY <2>1, <2>4 DEF Base
  <2>6. k \in All /\ CompGood(M, k)
    BY <2>1, BaseGood DEF All
  <2>. HIDE DEF k, q
  <2>7. k.path = m.path /\ k.off = 0 /\ k.type = m.type /\ k.info = TheVariable.info.pointee
    BY <2>5, ComponentIs
  <2>8. Meaning(k.type).kind = "record" /\ n \in DOMAIN Meaning(k.type).fields
    BY <2>1, <2>2, <2>4, <2>7
  <2>9. k.info.kind = "record" /\ n \in DOMAIN k.info.fields /\ k.info.fields[n].info # Char8
    BY <2>6, <2>8, FieldKnown
  <2>10. d.info = TheVariable.info
    BY <2>1, StartIs
  <2>11. /\ e.sym = Shift(q, k.info.fields[n].offset) /\ e.info = k.info.fields[n].info
    BY <1>1, <2>2, <2>7, <2>9, <2>10 DEF FieldIs, q
  <2>12. /\ e.sym.offset = q.offset + k.info.fields[n].offset /\ IsPlace(e.sym)
         /\ e.sym.block = q.block /\ e.sym.depth = q.depth /\ e.sym.room = q.room
    BY <2>3, <2>11, ShiftIs DEF AtHome
  <2>13. e.path = Append(k.path, <<"field", n>>) /\ e.type = Meaning(k.type).fields[n]
    BY <1>1, <2>7 DEF FieldIs
  <2>14. c = FieldComp(k, n)
    BY <2>3, <2>7, <2>11, <2>12, <2>13 DEF Comp, FieldComp
  <2>15. FieldPart(k, n, c)
    BY <2>8, <2>14 DEF FieldPart
  <2>16. In(e)
    BY <1>5, <2>1, <2>3, <2>4, <2>9, <2>11, <2>12 DEF In, AtHome
  <2>17. IsPart(k, c)
    BY <2>15 DEF IsPart
  <2>18. QED
    BY <2>6, <2>16, <2>17, PartPlaced
<1>7. QED
  BY <1>1, <1>5, <1>6 DEF SymOK, FieldIs

(* All designators are placed well.                                        *)
LEMMA AllSymOK ==
  ASSUME NEW M, Ready(M)
  PROVE  \A d \in Reached : SymOK(M, d)
<1>. DEFINE S == {d \in Reached : SymOK(M, d)}
<1>1. Start \in S
  BY StartSymOK, StartReached
<1>2. ASSUME NEW d \in S \cap Reached, NEW e \in Selected(d) \cap Reached  PROVE e \in S
  <2>0. d \in Reached /\ SymOK(M, d) /\ e \in Reached /\ e \in Selected(d)
    OBVIOUS
  <2>. DEFINE t == Meaning(d.type)
  <2>1. CASE t.kind = "array"
    <3>1. PICK i \in 0..(t.len - 1) : e = Index(d, i)
      BY <2>0, <2>1 DEF Selected
    <3>2. QED
      BY <2>0, <2>1, <3>1, IndexSymOK
  <2>2. CASE t.kind = "record"
    <3>1. PICK n \in DOMAIN t.fields : e = FieldOf(d, n)
      BY <2>0, <2>2 DEF Selected
    <3>2. QED
      BY <2>0, <2>2, <3>1, RecordSymOK
  <2>3. CASE t.kind = "pointer"
    <3>1. \/ e = Deref(d)
          \/ env[t.to].kind = "record" /\ \E n \in DOMAIN env[t.to].fields : e = FieldOf(d, n)
      BY <2>0, <2>3 DEF Selected
    <3>2. CASE e = Deref(d)
      BY <2>0, <2>3, <3>2, DerefSymOK
    <3>3. CASE env[t.to].kind = "record" /\ \E n \in DOMAIN env[t.to].fields : e = FieldOf(d, n)
      <4>1. PICK n \in DOMAIN env[t.to].fields : e = FieldOf(d, n)
        BY <3>3
      <4>2. QED
        BY <2>0, <2>3, <3>3, <4>1, ThroughSymOK
    <3>4. QED
      BY <3>1, <3>2, <3>3
  <2>4. t.kind \in {"array", "record", "pointer"}
    BY <2>0 DEF Selected
  <2>5. QED
    BY <2>1, <2>2, <2>3, <2>4
<1>. HIDE DEF S
<1>3. Reached \subseteq S
  BY <1>1, <1>2, ReachedInduction
<1>4. QED
  BY <1>3 DEF S

-----------------------------------------------------------------------------
(* The components that designators reach are a family, if anything is.     *)
Parts == {p \in All \X All : IsPart(p[1], p[2])}

(* What designators stand for are components, and parts of one another.    *)
LEMMA AllGood ==
  ASSUME NEW M, Ready(M), Heap => ~RootMeaning.early, NEW c \in All
  PROVE  /\ CompGood(M, c)
         /\ c = Base \/ \E k \in All : IsPart(k, c)
<1>1. CASE c = Base
  BY <1>1, BaseGood
<1>2. CASE c # Base
  <2>1. PICK d \in Reached : d.symPlain /\ ~AtRoot(d) /\ c = Comp(d)
    BY <1>2 DEF All
  <2>2. SymOK(M, d)
    BY AllSymOK
  <2>3. QED
    BY <2>1, <2>2 DEF SymOK, Placing
<1>3. QED
  BY <1>1, <1>2

(* The components that designators stand for are a family.                 *)
LEMMA AllFamily ==
  ASSUME NEW M, Ready(M), Heap => ~RootMeaning.early
  PROVE  Family(All, Parts, Base)
<1>1. Base \in All
  BY DEF All
<1>2. ASSUME NEW c \in All  PROVE CompGood(M, c) /\ Placed(c)
  <2>1. CompGood(M, c)
    BY AllGood
  <2>2. QED
    BY <2>1 DEF CompGood, Placed, Positive
<1>3. ASSUME NEW k \in All, NEW c \in All  PROVE <<k, c>> \in Parts <=> IsPart(k, c)
  BY DEF Parts
<1>4. ASSUME NEW c \in All, c # Base  PROVE \E k \in All : <<k, c>> \in Parts
  BY <1>3, <1>4, AllGood
<1>5. ASSUME NEW k \in All, NEW c \in All, <<k, c>> \in Parts
      PROVE  Longer(k.path, c.path) /\ Within(k, c)
  BY <1>2, <1>3, <1>5, PartGood
<1>6. ASSUME NEW k \in All, NEW c \in All, NEW e \in All,
             <<k, c>> \in Parts, <<k, e>> \in Parts, c # e
      PROVE  c.path # e.path /\ Disjoint(c, e)
  BY <1>2, <1>3, <1>6, SiblingsApart
<1>. HIDE DEF All, Parts, Base
<1>7. QED
  BY <1>1, <1>2, <1>4, <1>5, <1>6 DEF Family

(* A designator that may be read or written.                               *)
Ends(d) == Meaning(d.type).kind \in {"word", "char", "pointer"}

(* What a designator reads or writes is its component, and that has no     *)
(* parts.                                                                  *)
LEMMA EndsWhere ==
  ASSUME NEW M, Ready(M), NEW d, d.symPlain, Placing(M, d), Ends(d)
  PROVE  /\ symBytes(d) = Comp(d).size /\ symBytes(d) \in {1, 4}
         /\ Comp(d).off = d.sym.offset /\ Comp(d).path = d.path /\ d.sym.offset \in Nat
         /\ Whole => d.sym.offset % symBytes(d) = 0
         /\ \A c : ~IsPart(Comp(d), c)
<1>. DEFINE k == Comp(d)
<1>1. k.path = d.path /\ k.off = d.sym.offset /\ k.size = d.info.size /\ k.type = d.type
      /\ k.info = d.info
  BY CompIs
<1>2. CompGood(M, k)
  BY DEF Placing
<1>. HIDE DEF k
<1>3. /\ ElementGood(M, Whole, d.type, d.info) /\ d.sym.offset \in Nat
      /\ Whole => Four(d.sym.offset) \/ d.info = Char8
  BY <1>1, <1>2 DEF CompGood
<1>4. \A c : ~IsPart(k, c)
  BY <1>1 DEF IsPart, FieldPart, IndexPart, Ends
<1>5. CASE d.info = Char8
  <2>1. d.last = "index" /\ d.info.kind = "char" /\ d.info.size = 1
    BY <1>5 DEF Placing, In, Char8
  <2>2. symBytes(d) = 1 /\ k.size = 1
    BY <1>1, <2>1 DEF symBytes
  <2>3. QED
    BY <1>1, <1>3, <1>4, <2>2 DEF k
<1>6. CASE d.info # Char8
  <2>1. Good(M, env, Whole, Meaning(d.type), d.info)
    <3>1. \/ Good(M, env, Whole, Meaning(d.type), d.info)
          \/ Meaning(d.type).kind = "char" /\ d.info = Char8
          \/ Meaning(d.type).kind = "array"
      BY <1>3, ElementPaired
    <3>2. QED
      BY <1>6, <3>1 DEF Ends
  <2>2. d.info.size = 4
    BY <2>1 DEF Ends, Good, PointerGood, Word
  <2>3. symBytes(d) = 4 /\ k.size = 4
    BY <1>1, <2>2 DEF symBytes
  <2>4. Whole => d.sym.offset % 4 = 0
    BY <1>3, <1>6, FourIs
  <2>5. QED
    BY <1>1, <1>3, <1>4, <2>3, <2>4 DEF k
<1>7. QED
  BY <1>5, <1>6

(* The pointers followed are those of the designator.                      *)
LEMMA DerefsCounted ==
  ASSUME NEW d, DerefsOf(d.path) = Derefs
  PROVE  Follows(d) = Depth
<1>1. Follows(d) = Cardinality(Derefs)
  BY DEF Follows, DerefsOf
<1>2. Cardinality({}) = 0 /\ Cardinality({1}) = 1
  BY FS_EmptySet, FS_Singleton
<1>3. QED
  BY <1>1, <1>2 DEF Derefs, Depth

(* There is room for what designators start from: what NEW allocates is    *)
(* enough.                                                                 *)
LEMMA RoomFor ==
  ASSUME NEW M, Ready(M), Heap => ~RootMeaning.early
  PROVE  Base.off = 0 /\ Base.size \in Nat /\ Room \in Nat /\ Base.size <= Room
<1>1. CompGood(M, Base)
  BY BaseGood
<1>2. CASE Heap
  <2>1. Base.off = 0 /\ Base.size = TheVariable.info.pointee.size
    BY <1>2 DEF Base, Component
  <2>2. Base.size \in Nat /\ Room = Bytes(Base.size)
    BY <1>1, <1>2, <2>1 DEF CompGood, Positive, Room
  <2>. HIDE DEF Base, Room
  <2>3. QED
    BY <2>1, <2>2 DEF Bytes
<1>3. CASE ~Heap
  <2>1. Base.off = 0 /\ Base.size = Room
    BY <1>3 DEF Base, Component, Room
  <2>2. Base.size \in Nat
    BY <1>1 DEF CompGood, Positive
  <2>. HIDE DEF Base, Room
  <2>3. QED
    BY <2>1, <2>2
<1>4. QED
  BY <1>2, <1>3

(* A designator is inside its block, behind the pointers it names, at its  *)
(* alignment.                                                              *)
LEMMA PlacedWell ==
  ASSUME NEW M, Ready(M), NEW d \in Designators, d.symPlain
  PROVE  WellPlaced(d, d.sym, symBytes(d))
<1>0. d \in Reached /\ Ends(d)
  BY DesignatorsReached DEF Designators, Ends
<1>1. SymOK(M, d)
  BY <1>0, AllSymOK
<1>2. CASE AtRoot(d)
  <2>1. Heap /\ d = Start
    BY <1>2 DEF AtRoot
  <2>2. TheVariable.info.kind = "pointer" /\ TheVariable.info.size = 4
    BY <2>1, RootPaired
  <2>3. symBytes(d) = 4 /\ d.sym.offset = 0 /\ d.sym.room = 4 /\ d.sym.depth = 0 /\ d.path = <<>>
    BY <2>1, <2>2, StartIs DEF symBytes
  <2>4. Follows(d) = 0
    <3>1. Len(d.path) = 0 /\ 1..0 = {}
      BY <2>3
    <3>2. Follows(d) = Cardinality({})
      BY <3>1 DEF Follows
    <3>3. QED
      BY <3>2, FS_EmptySet
  <2>5. QED
    BY <2>3, <2>4 DEF WellPlaced
<1>3. CASE ~AtRoot(d)
  <2>1. Placing(M, d)
    BY <1>1, <1>3 DEF SymOK
  <2>2. /\ symBytes(d) = Comp(d).size /\ symBytes(d) \in {1, 4}
        /\ Comp(d).off = d.sym.offset /\ d.sym.offset \in Nat
        /\ Whole => d.sym.offset % symBytes(d) = 0
    BY <1>0, <2>1, EndsWhere
  <2>3. (Heap => ~RootMeaning.early) /\ d.sym.depth = Depth /\ d.sym.room = Room
        /\ DerefsOf(d.path) = Derefs
    BY <2>1 DEF Placing, In, AtHome
  <2>4. Family(All, Parts, Base) /\ Comp(d) \in All
    BY <1>0, <1>3, <2>3, AllFamily DEF All
  <2>5. Comp(d) = Base \/ Below(All, Parts, Base, Comp(d))
    BY <2>4, FamilyBelow
  <2>6. Base.off = 0 /\ Base.size \in Nat /\ Room \in Nat /\ Base.size <= Room
    BY <2>3, RoomFor
  <2>7. Comp(d).off + Comp(d).size <= Base.off + Base.size
    <3>1. CASE Comp(d) = Base
      BY <2>2, <2>6, <3>1
    <3>2. CASE Below(All, Parts, Base, Comp(d))
      BY <3>2 DEF Below, Within
    <3>3. QED
      BY <2>5, <3>1, <3>2
  <2>8. d.sym.offset + symBytes(d) <= d.sym.room
    <3>. HIDE DEF Base, Room
    <3>1. QED
      BY <2>2, <2>3, <2>6, <2>7
  <2>9. d.sym.depth = Follows(d)
    BY <2>3, DerefsCounted
  <2>10. QED
    BY <2>2, <2>8, <2>9 DEF WellPlaced, Whole
<1>4. QED
  BY <1>2, <1>3

(* Two designators share a byte exactly when they mean the same            *)
(* component.                                                              *)
LEMMA SharedWhenSame ==
  ASSUME NEW M, Ready(M), NEW d \in Designators, d.symPlain, NEW e \in Designators, e.symPlain
  PROVE  Share(d.sym, symBytes(d), e.sym, symBytes(e)) <=> d.path = e.path
<1>0. d \in Reached /\ Ends(d) /\ e \in Reached /\ Ends(e)
  BY DesignatorsReached DEF Designators, Ends
<1>1. SymOK(M, d) /\ SymOK(M, e)
  BY <1>0, AllSymOK
<1>2. CASE AtRoot(d) /\ AtRoot(e)
  <2>1. d = Start /\ e = Start
    BY <1>2 DEF AtRoot
  <2>2. symBytes(Start) \in {1, 4} /\ Start.sym.offset = 0
    BY StartIs DEF symBytes
  <2>3. QED
    BY <2>1, <2>2 DEF Share
<1>3. ASSUME NEW x, NEW y, SymOK(M, x), SymOK(M, y), x.symPlain, y.symPlain,
             AtRoot(x), ~AtRoot(y)
      PROVE  x.path # y.path /\ x.sym.block # y.sym.block
  <2>1. x = Start /\ Heap
    BY <1>3 DEF AtRoot
  <2>2. y.path # <<>>
    BY <1>3, <2>1 DEF SymOK, AtRoot
  <2>3. y.sym.block = <<<<>>, 0>>
    BY <1>3, <2>1 DEF SymOK, Placing, In, AtHome, Block
  <2>4. <<>> # <<<<>>, 0>>
    OBVIOUS
  <2>5. x.path = <<>> /\ x.sym.block = <<>>
    BY <2>1, StartIs
  <2>6. QED
    BY <2>2, <2>3, <2>4, <2>5
<1>4. CASE AtRoot(d) /\ ~AtRoot(e)
  BY <1>1, <1>3, <1>4 DEF Share
<1>5. CASE ~AtRoot(d) /\ AtRoot(e)
  BY <1>1, <1>3, <1>5 DEF Share
<1>6. CASE ~AtRoot(d) /\ ~AtRoot(e)
  <2>1. Placing(M, d) /\ Placing(M, e)
    BY <1>1, <1>6 DEF SymOK
  <2>. DEFINE c == Comp(d)
              k == Comp(e)
  <2>2. /\ symBytes(d) = c.size /\ symBytes(d) \in {1, 4}
        /\ c.off = d.sym.offset /\ c.path = d.path /\ d.sym.offset \in Nat
        /\ \A x : ~IsPart(c, x)
    BY <1>0, <2>1, EndsWhere
  <2>3. /\ symBytes(e) = k.size /\ symBytes(e) \in {1, 4}
        /\ k.off = e.sym.offset /\ k.path = e.path /\ e.sym.offset \in Nat
        /\ \A x : ~IsPart(k, x)
    BY <1>0, <2>1, EndsWhere
  <2>4. Heap => ~RootMeaning.early
    BY <2>1 DEF Placing, In
  <2>5. d.sym.block = e.sym.block
    BY <2>1 DEF Placing, In, AtHome
  <2>6. Family(All, Parts, Base) /\ c \in All /\ k \in All
    BY <1>0, <1>6, <2>4, AllFamily DEF All
  <2>7. Related(All, Parts, c, k)
    BY <2>6, FamilyRelated
  <2>8. ~Below(All, Parts, c, k) /\ ~Below(All, Parts, k, c)
    BY <2>2, <2>3 DEF Below, Parts
  <2>. HIDE DEF c, k, All, Parts, Base
  <2>9. CASE c = k
    <3>1. d.path = e.path /\ d.sym.offset = e.sym.offset /\ symBytes(d) = symBytes(e)
      BY <2>2, <2>3, <2>9
    <3>2. QED
      BY <2>2, <2>3, <2>5, <3>1 DEF Share
  <2>10. CASE Apart(c, k)
    <3>1. c.path # k.path /\ Disjoint(c, k)
      BY <2>10 DEF Apart
    <3>2. d.path # e.path
      BY <2>2, <2>3, <3>1
    <3>3. \/ d.sym.offset + symBytes(d) <= e.sym.offset
          \/ e.sym.offset + symBytes(e) <= d.sym.offset
      BY <2>2, <2>3, <3>1 DEF Disjoint
    <3>4. ~Share(d.sym, symBytes(d), e.sym, symBytes(e))
      BY <2>2, <2>3, <3>3 DEF Share
    <3>5. QED
      BY <3>2, <3>4
  <2>11. QED
    BY <2>7, <2>8, <2>9, <2>10 DEF Related
<1>7. QED
  BY <1>2, <1>4, <1>5, <1>6

(* Once the variable is declared its type is among the pairs.              *)
LEMMA VariableReady ==
  ASSUME NEW M, Modelled(M, env, namedTypes, inner, variable, ~ragged), variable # {}
  PROVE  Ready(M)
<1>1. TheVariable \in variable
  BY DEF TheVariable
<1>2. <<TheVariable.type, TheVariable.info>> \in M
  BY <1>1 DEF Modelled, Pairs
<1>3. QED
  BY <1>2 DEF Ready, Modelled, Whole

(* The direct generator keeps the components of a variable apart: the      *)
(* addresses emitAddress of codegen/RiscVCodeGen.cpp computes, for all     *)
(* types and designators.                                                  *)
THEOREM DirectGenerator == Spec => []DirectApart
<1>1. DirectInv => DirectApart
  <2>. SUFFICES ASSUME DirectInv, variable # {}
                PROVE  LET all == {d \in Designators : d.symPlain}
                       IN  \A d \in all :
                             /\ WellPlaced(d, d.sym, symBytes(d))
                             /\ \A e \in all :
                                  Share(d.sym, symBytes(d), e.sym, symBytes(e)) <=> d.path = e.path
    BY DEF DirectApart
  <2>1. PICK M : Modelled(M, env, namedTypes, inner, variable, ~ragged)
    BY DEF DirectInv
  <2>2. Ready(M)
    BY <2>1, VariableReady
  <2>3. \A d \in Designators : d.symPlain => WellPlaced(d, d.sym, symBytes(d))
    BY <2>2, PlacedWell
  <2>4. \A d, e \in Designators : d.symPlain /\ e.symPlain =>
          (Share(d.sym, symBytes(d), e.sym, symBytes(e)) <=> d.path = e.path)
    BY <2>2, SharedWhenSame
  <2>5. QED
    BY <2>3, <2>4
<1>2. QED
  BY <1>1, DirectInvariant, PTL

-----------------------------------------------------------------------------
(* A type with the name and the size IRBuilder has for it: N holds the     *)
(* triples that belong together, L is what has a layout, owing is what     *)
(* pointers point to.                                                      *)
LaidBy(N, whole, meant, laid, sizes, hi) ==
  /\ DOMAIN laid = DOMAIN meant
  /\ \A n \in DOMAIN meant :
       /\ <<meant[n], laid[n].name, sizes[n]>> \in N
       /\ laid[n].offset \in Nat /\ sizes[n] \in Nat
       /\ laid[n].offset + sizes[n] <= hi
       /\ whole => Four(laid[n].offset)
  /\ \A n, m \in DOMAIN meant : n # m =>
       \/ laid[n].offset + sizes[n] <= laid[m].offset
       \/ laid[m].offset + sizes[m] <= laid[n].offset
LaidGood(N, whole, meant, laid, hi) == \E sizes : LaidBy(N, whole, meant, laid, sizes, hi)

(* What Named takes a name's size for, and two layouts that agree on it.   *)
SizeOf(L, n) == IF <<n>> \in DOMAIN L THEN L[<<n>>].size ELSE 4
SameSizes(V, L, K) == \A n \in DOMAIN V : SizeOf(K, n) = SizeOf(L, n)

Has(L, name, kind) == name \in DOMAIN L /\ L[name].kind = kind

NamedLaid(N, V, L, owing, whole, n, size) ==
  /\ n \in DOMAIN V /\ V[n].kind \in Constructors /\ size = SizeOf(L, n)
  /\ V[n].kind = "record" =>
       /\ Has(L, <<n>>, "record")
       /\ ~V[n].extends => LaidGood(N, whole, V[n].fields, L[<<n>>].fields, size)
  /\ V[n].kind = "pointer" =>
       /\ Has(L, <<n>>, "pointer") /\ L[<<n>>].pointee = <<V[n].to>> /\ size = 4
       /\ V[n].to \in owing

ArraySized(N, t, size) ==
  /\ t.len \in Positive
  /\ \/ t.elem.kind = "char" /\ size = t.len
     \/ \E name, one : <<t.elem, name, one>> \in N /\ t.elem.kind # "char" /\ size = t.len * one
     \/ t.elem.kind = "array" /\ t.elem.within

Sized(N, V, L, owing, whole, t, name, size) ==
  /\ size \in Positive /\ (whole => Four(size))
  /\ t.kind \in {"word", "char", "named", "array", "record", "pointer"}
  /\ t.kind \in {"word", "char"} => size = 4
  /\ t.kind = "named" => name = <<t.name>> /\ NamedLaid(N, V, L, owing, whole, t.name, size)
  /\ t.kind = "array" => ArraySized(N, t, size)
  /\ t.kind = "pointer" => name = <<"PTR", t.to>> /\ size = 4 /\ t.to \in owing

AllSized(N, V, L, owing, whole) ==
  \A t, name, size : <<t, name, size>> \in N => Sized(N, V, L, owing, whole, t, name, size)
Triples(N, entries) == \A e \in entries : <<e.type, e.name, e.size>> \in N

(* A layout stays right when more triples are known.                       *)
LEMMA LaidStays ==
  ASSUME NEW N, NEW O, N \subseteq O, NEW whole, NEW all, all => whole,
         NEW meant, NEW laid, NEW hi, LaidGood(N, whole, meant, laid, hi)
  PROVE  LaidGood(O, all, meant, laid, hi)
<1>1. PICK sizes : LaidBy(N, whole, meant, laid, sizes, hi)
  BY DEF LaidGood
<1>2. LaidBy(O, all, meant, laid, sizes, hi)
  BY <1>1 DEF LaidBy
<1>3. QED
  BY <1>2 DEF LaidGood

(* The layout of a name stays right when more is declared.                 *)
LEMMA NamedStays ==
  ASSUME NEW N, NEW O, N \subseteq O, NEW V, NEW W, Extends(V, W), NEW L, NEW K, Extends(L, K),
         SameSizes(V, L, K),
         NEW owing, NEW more, owing \subseteq more, NEW whole, NEW all, all => whole,
         NEW n, NEW size, NamedLaid(N, V, L, owing, whole, n, size)
  PROVE  NamedLaid(O, W, K, more, all, n, size)
<1>1. /\ n \in DOMAIN W /\ W[n] = V[n] /\ V[n].kind \in Constructors
      /\ size = SizeOf(K, n)
  BY DEF NamedLaid, Extends, SameSizes
<1>2. ASSUME V[n].kind = "record"
      PROVE  /\ Has(K, <<n>>, "record")
             /\ ~V[n].extends => LaidGood(O, all, V[n].fields, K[<<n>>].fields, size)
  <2>1. Has(K, <<n>>, "record") /\ K[<<n>>] = L[<<n>>]
    BY <1>2 DEF NamedLaid, Has, Extends
  <2>2. ~V[n].extends => LaidGood(N, whole, V[n].fields, L[<<n>>].fields, size)
    BY <1>2 DEF NamedLaid
  <2>3. QED
    BY <2>1, <2>2, LaidStays
<1>3. ASSUME V[n].kind = "pointer"
      PROVE  /\ Has(K, <<n>>, "pointer") /\ K[<<n>>].pointee = <<V[n].to>> /\ size = 4
             /\ V[n].to \in more
  BY <1>3 DEF NamedLaid, Has, Extends
<1>4. QED
  BY <1>1, <1>2, <1>3 DEF NamedLaid

(* A size stays right when more is declared.                               *)
LEMMA SizedStays ==
  ASSUME NEW N, NEW O, N \subseteq O, NEW V, NEW W, Extends(V, W), NEW L, NEW K, Extends(L, K),
         SameSizes(V, L, K),
         NEW owing, NEW more, owing \subseteq more, NEW whole, NEW all, all => whole,
         NEW t, NEW name, NEW size, Sized(N, V, L, owing, whole, t, name, size)
  PROVE  Sized(O, W, K, more, all, t, name, size)
<1>1. t.kind = "named" => name = <<t.name>> /\ NamedLaid(O, W, K, more, all, t.name, size)
  BY NamedStays DEF Sized
<1>2. t.kind = "array" => ArraySized(O, t, size)
  BY DEF Sized, ArraySized
<1>3. t.kind = "pointer" => name = <<"PTR", t.to>> /\ size = 4 /\ t.to \in more
  BY DEF Sized
<1>4. /\ size \in Positive /\ (all => Four(size))
      /\ t.kind \in {"word", "char", "named", "array", "record", "pointer"}
      /\ t.kind \in {"word", "char"} => size = 4
  BY DEF Sized
<1>5. QED
  BY <1>1, <1>2, <1>3, <1>4 DEF Sized

-----------------------------------------------------------------------------
(* The triples of a state.                                                 *)
PointerLayout(n) == [kind |-> "pointer", size |-> 4, pointee |-> <<n>>]
NamesSized(N, V, L) == \A n \in DOMAIN V : <<NamedType(n), <<n>>, SizeOf(L, n)>> \in N
KeysKnown(V, L) ==
  \A k \in DOMAIN L : \/ \E n \in DOMAIN V : k = <<n>>
                      \/ \E n : k = <<"PTR", n>> /\ L[k] = PointerLayout(n)
IRModelled(N, V, L, owing, inn, var, whole) ==
  /\ AllSized(N, V, L, owing, whole) /\ NamesSized(N, V, L) /\ KeysKnown(V, L)
  /\ Triples(N, {INTEGER, CHAR}) /\ Triples(N, inn) /\ Triples(N, var)

EntrySized(N, V, L, owing, whole, e) == Sized(N, V, L, owing, whole, e.type, e.name, e.size)

(* What only the entry of a fresh type expression, or of the variable, has *)
RecordLaid(N, whole, e) ==
  e.type.kind = "record" /\ ~e.type.extends => LaidGood(N, whole, e.type.fields, e.fields, e.size)
StepRight(e) ==
  /\ e.len \in Positive /\ e.step \in {1, 4}
  /\ e.step = 1 => e.type.kind = "array" /\ e.type.elem.kind \in {"char", "array"}
  /\ e.type.kind = "array" /\ e.type.elem.kind = "char" => e.step = 1

(* What a type is built from has its size.                                 *)
LEMMA ElementsSized ==
  ASSUME NEW N, NEW V, NEW L, NEW owing, NEW more, owing \subseteq more,
         NEW whole, NEW all, all => whole,
         IRModelled(N, V, L, owing, inner, variable, whole),
         V = env, L = typeLayouts, DOMAIN namedTypes = DOMAIN env,
         NEW e \in Elements \cup Known
  PROVE  /\ <<e.type, e.name, e.size>> \in N
         /\ EntrySized(N, V, L, more, all, e)
<1>1. <<e.type, e.name, e.size>> \in N
  <2>1. CASE e \in inner
    BY <2>1 DEF IRModelled, Triples
  <2>2. CASE e \in {INTEGER, CHAR}
    BY <2>2 DEF IRModelled, Triples
  <2>3. ASSUME NEW n \in DOMAIN namedTypes, e = Named(n)
        PROVE  <<e.type, e.name, e.size>> \in N
    <3>1. e.type = NamedType(n) /\ e.name = <<n>> /\ e.size = SizeOf(L, n)
      BY <2>3 DEF Named, Entry, NamedType, SizeOf
    <3>2. QED
      BY <3>1 DEF IRModelled, NamesSized
  <2>4. QED
    BY <2>1, <2>2, <2>3 DEF Elements, Known
<1>2. Sized(N, V, L, owing, whole, e.type, e.name, e.size)
  BY <1>1 DEF IRModelled, AllSized
<1>3. Extends(V, V) /\ Extends(L, L) /\ SameSizes(V, L, L)
  BY DEF Extends, SameSizes
<1>4. Sized(N, V, L, more, all, e.type, e.name, e.size)
  BY <1>2, <1>3, SizedStays
<1>5. QED
  BY <1>1, <1>4 DEF EntrySized

ElementKnown(e) == e.type.kind = "char" => e = CHAR

(* An entry as IRBuilder has it: sized, laid out if it is a record.        *)
IREntryGood(N, V, L, owing, whole, e) ==
  EntrySized(N, V, L, owing, whole, e) /\ RecordLaid(N, whole, e) /\ StepRight(e)

(* IRBuilder has the size of an array, if it has that of its elements.     *)
LEMMA ArraySizedGood ==
  ASSUME NEW N, NEW V, NEW L, NEW owing, NEW whole, NEW d \in Dimensions, NEW e,
         <<e.type, e.name, e.size>> \in N, EntrySized(N, V, L, owing, whole, e), ElementKnown(e),
         NEW x, x = Array(d, e), WordsFilled(x, whole)
  PROVE  IREntryGood(N, V, L, owing, whole, x)
<1>1. /\ d[1] \in Positive
      /\ x.type.kind = "array" /\ x.type.len = d[1] /\ ~x.type.within
      /\ x.type.elem = e.type \/ (x.type.elem.kind = "array" /\ x.type.elem.within)
      /\ e = CHAR => x.size = d[1] * 1 /\ x.step = 1
      /\ e # CHAR => x.size = d[1] * e.size /\ x.step = 4
      /\ x.len = d[1]
  BY ArrayShape
<1>2. d[1] \in Nat /\ d[1] # 0
  BY <1>1 DEF Positive
<1>3. e.size \in Positive /\ e.size \in Nat /\ (whole => Four(e.size))
  BY DEF EntrySized, Sized, Positive
<1>4. RecordLaid(N, whole, x)
  BY <1>1 DEF RecordLaid
<1>5. CASE e = CHAR
  <2>1. x.size = d[1]
    BY <1>1, <1>2, <1>5
  <2>2. whole => Four(x.size)
    BY <1>1, <1>2, <1>5, <2>1, FourIs DEF WordsFilled
  <2>3. e.type.kind = "char"
    BY <1>5 DEF CHAR, Entry
  <2>4. ArraySized(N, x.type, x.size)
    BY <1>1, <2>1, <2>3 DEF ArraySized
  <2>5. StepRight(x)
    BY <1>1, <1>5, <2>3 DEF StepRight
  <2>6. EntrySized(N, V, L, owing, whole, x)
    BY <1>1, <2>1, <2>2, <2>4 DEF EntrySized, Sized
  <2>7. QED
    BY <1>4, <2>5, <2>6 DEF IREntryGood
<1>6. CASE e # CHAR
  <2>1. x.size = d[1] * e.size /\ x.size \in Positive /\ x.step = 4
    BY <1>1, <1>3, <1>6, ProductIs
  <2>2. whole => Four(x.size)
    BY <1>2, <1>3, <2>1, FourIs
  <2>3. e.type.kind # "char"
    BY <1>6 DEF ElementKnown
  <2>4. ArraySized(N, x.type, x.size)
    BY <1>1, <2>1, <2>3 DEF ArraySized
  <2>5. StepRight(x)
    BY <1>1, <2>1, <2>3 DEF StepRight
  <2>6. EntrySized(N, V, L, owing, whole, x)
    BY <1>1, <2>1, <2>2, <2>4 DEF EntrySized, Sized
  <2>7. QED
    BY <1>4, <2>5, <2>6 DEF IREntryGood
<1>7. QED
  BY <1>5, <1>6

(* IRBuilder has the size and the layout of a record, if it has the sizes  *)
(* of its fields.                                                          *)
LEMMA RecordSizedGood ==
  ASSUME NEW N, NEW V, NEW L, NEW owing, NEW whole, NEW e,
         <<e.type, e.name, e.size>> \in N, EntrySized(N, V, L, owing, whole, e),
         e.info.size \in Nat, Triples(N, {INTEGER, CHAR}),
         NEW x, OfTwo(x, "f", e, "g", INTEGER)
  PROVE  IREntryGood(N, V, L, owing, whole, x)
<1>1. /\ e.size \in Positive /\ e.size \in Nat /\ (whole => Four(e.size))
      /\ INTEGER.info.size = 4 /\ INTEGER.size = 4 /\ 4 \in Nat
      /\ <<INTEGER.type, INTEGER.name, 4>> \in N
  BY DEF EntrySized, Sized, Positive, INTEGER, Entry, Word, Triples
<1>2. /\ x.type.kind = "record"
      /\ DOMAIN x.type.fields = {"f", "g"}
      /\ x.type.fields["f"] = e.type /\ x.type.fields["g"] = INTEGER.type
      /\ x.size = IF e.size + INTEGER.size > 0 THEN e.size + INTEGER.size ELSE 4
      /\ TwoLaid(x.fields, "f", "g", 0, e.size)
      /\ x.fields["f"].name = e.name /\ x.fields["g"].name = INTEGER.name
      /\ x.step = 4 /\ x.len = 1
  BY <1>1, RecordOfTwo
<1>. DEFINE laid == x.fields
            hi == x.size
            meant == x.type.fields
            sizes == [n \in {"f", "g"} |-> IF n = "f" THEN e.size ELSE 4]
<1>3. /\ DOMAIN laid = {"f", "g"} /\ laid["f"].offset = 0 /\ laid["g"].offset = e.size
      /\ laid["f"].name = e.name /\ laid["g"].name = INTEGER.name
  BY <1>1, <1>2 DEF TwoLaid
<1>4. sizes["f"] = e.size /\ sizes["g"] = 4
  OBVIOUS
<1>5. hi = e.size + 4
  BY <1>1, <1>2
<1>5a. hi \in Positive /\ (whole => Four(hi))
  BY <1>1, <1>5, FourIs DEF Positive
<1>6. DOMAIN meant = {"f", "g"} /\ meant["f"] = e.type /\ meant["g"] = INTEGER.type
  BY <1>2
<1>. HIDE DEF laid, hi, meant, sizes
<1>7. ASSUME NEW n \in {"f", "g"}
      PROVE  /\ <<meant[n], laid[n].name, sizes[n]>> \in N
             /\ laid[n].offset \in Nat /\ sizes[n] \in Nat
             /\ laid[n].offset + sizes[n] <= hi
             /\ whole => Four(laid[n].offset)
  <2>0. Four(0)
    BY FourIs
  <2>1. CASE n = "f"
    BY <1>1, <1>3, <1>4, <1>5, <1>6, <2>0, <2>1
  <2>2. CASE n = "g"
    BY <1>1, <1>3, <1>4, <1>5, <1>6, <2>2
  <2>3. QED
    BY <2>1, <2>2
<1>8. ASSUME NEW n \in {"f", "g"}, NEW m \in {"f", "g"}, n # m
      PROVE  \/ laid[n].offset + sizes[n] <= laid[m].offset
             \/ laid[m].offset + sizes[m] <= laid[n].offset
  <2>1. 0 + sizes["f"] <= laid["g"].offset
    BY <1>1, <1>3, <1>4
  <2>2. QED
    BY <1>3, <1>8, <2>1
<1>9. LaidBy(N, whole, meant, laid, sizes, hi)
  BY <1>3, <1>6, <1>7, <1>8 DEF LaidBy
<1>10. LaidGood(N, whole, meant, laid, hi)
  BY <1>9 DEF LaidGood
<1>11. RecordLaid(N, whole, x)
  BY <1>10 DEF RecordLaid, meant, laid, hi
<1>12. StepRight(x)
  BY <1>2 DEF StepRight, Positive
<1>13. EntrySized(N, V, L, owing, whole, x)
  BY <1>2, <1>5a DEF EntrySized, Sized, hi
<1>14. QED
  BY <1>11, <1>12, <1>13 DEF IREntryGood

(* The same for a record of one field, with a base or without.             *)
LEMMA ExtensionSizedGood ==
  ASSUME NEW N, NEW V, NEW L, NEW owing, NEW whole, NEW e,
         <<e.type, e.name, e.size>> \in N, EntrySized(N, V, L, owing, whole, e),
         e.info.size \in Nat, NEW b, b # "none" => namedTypes[b].size \in Nat,
         NEW x, OfOne(x, "h", e, b)
  PROVE  IREntryGood(N, V, L, owing, whole, x)
<1>1. /\ e.size \in Positive /\ e.size \in Nat /\ e.size > 0 /\ (whole => Four(e.size))
  BY DEF EntrySized, Sized, Positive
<1>2. Under(b).size \in Nat
  BY DEF Under, NoBase
<1>3. /\ x.type.kind = "record" /\ (b # "none" => x.type.extends)
      /\ \E own : /\ x.type.fields = Over(own, UnderMeant(b))
                  /\ OneMeant(own, "h", e.type)
      /\ x.size = IF e.size > 0 THEN e.size ELSE 4
      /\ OneLaid(x.fields, "h", 0) /\ x.fields["h"].name = e.name
      /\ x.step = 4 /\ x.len = 1
  BY <1>1, <1>2, RecordOfOne
<1>4. x.size = e.size
  BY <1>1, <1>3
<1>5. ASSUME b = "none"  PROVE LaidGood(N, whole, x.type.fields, x.fields, x.size)
  <2>1. PICK own : x.type.fields = Over(own, Empty) /\ OneMeant(own, "h", e.type)
    BY <1>3, <1>5 DEF UnderMeant
  <2>. DEFINE meant == x.type.fields
              laid == x.fields
              hi == x.size
              sizes == [n \in {"h"} |-> e.size]
  <2>2. DOMAIN meant = DOMAIN own /\ \A n \in DOMAIN own : meant[n] = own[n]
    BY <2>1, OverEmpty
  <2>3. DOMAIN meant = {"h"} /\ meant["h"] = e.type
    BY <2>1, <2>2 DEF OneMeant
  <2>4. DOMAIN laid = {"h"} /\ laid["h"].offset = 0 /\ laid["h"].name = e.name
    BY <1>3 DEF OneLaid
  <2>5. sizes["h"] = e.size /\ hi = e.size /\ Four(0)
    BY <1>4, FourIs
  <2>. HIDE DEF meant, laid, hi, sizes
  <2>6. LaidBy(N, whole, meant, laid, sizes, hi)
    BY <1>1, <2>3, <2>4, <2>5 DEF LaidBy
  <2>7. LaidGood(N, whole, meant, laid, hi)
    BY <2>6 DEF LaidGood
  <2>8. QED
    BY <2>7 DEF meant, laid, hi
<1>6. RecordLaid(N, whole, x)
  BY <1>3, <1>5 DEF RecordLaid
<1>7. StepRight(x)
  BY <1>3 DEF StepRight, Positive
<1>8. EntrySized(N, V, L, owing, whole, x)
  BY <1>1, <1>3, <1>4 DEF EntrySized, Sized
<1>9. QED
  BY <1>6, <1>7, <1>8 DEF IREntryGood

(* IRBuilder has the size of a pointer.                                    *)
LEMMA PointerSizedGood ==
  ASSUME NEW N, NEW V, NEW L, NEW owing, NEW whole, NEW n \in owing, NEW x, x = Pointer(n)
  PROVE  IREntryGood(N, V, L, owing, whole, x)
<1>1. /\ x.type.kind = "pointer" /\ x.type.to = n
      /\ x.size = 4 /\ x.name = <<"PTR", n>> /\ x.step = 4 /\ x.len = 1
  BY PointerShape
<1>2. EntrySized(N, V, L, owing, whole, x)
  BY <1>1, FourIs DEF EntrySized, Sized, Positive
<1>3. RecordLaid(N, whole, x) /\ StepRight(x)
  BY <1>1 DEF RecordLaid, StepRight, Positive
<1>4. QED
  BY <1>2, <1>3 DEF IREntryGood

(* IRBuilder has the size of a type just built.                            *)
LEMMA ConstructedSized ==
  ASSUME NEW M, Modelled(M, env, namedTypes, inner, variable, ~ragged),
         NEW N, IRModelled(N, env, typeLayouts, owed, inner, variable, ~ragged),
         \A e \in inner : e.type.kind \in Constructors,
         NEW whole, whole => ~ragged, NEW more, owed \subseteq more,
         NEW x \in Constructed, WordsFilled(x, whole), x.type.kind = "pointer" => x.type.to \in more
  PROVE  IREntryGood(N, env, typeLayouts, more, whole, x)
<1>0. DOMAIN namedTypes = DOMAIN env
  BY DEF Modelled, NamesPaired
<1>1. ASSUME NEW e \in Elements
      PROVE  /\ <<e.type, e.name, e.size>> \in N
             /\ EntrySized(N, env, typeLayouts, more, whole, e)
             /\ ElementKnown(e) /\ e.info.size \in Nat
  <2>1. /\ <<e.type, e.name, e.size>> \in N
        /\ EntrySized(N, env, typeLayouts, more, whole, e)
    BY <1>0, ElementsSized
  <2>2. e.info.size \in Nat
    BY ElementsGood DEF EntryGood, Good, Positive
  <2>3. ElementKnown(e)
    <3>1. CASE e \in inner
      BY <3>1 DEF ElementKnown, Constructors
    <3>2. CASE e = INTEGER \/ e = CHAR
      BY <3>2 DEF ElementKnown, INTEGER, CHAR, Entry
    <3>3. ASSUME NEW n \in DOMAIN namedTypes, e = Named(n)
          PROVE  ElementKnown(e)
      <4>1. e.type.kind = "named"
        BY <3>3 DEF Named, Entry
      <4>2. QED
        BY <4>1 DEF ElementKnown
    <3>4. QED
      BY <3>1, <3>2, <3>3 DEF Elements, Known
  <2>4. QED
    BY <2>1, <2>2, <2>3
<1>2. ASSUME NEW d \in Dimensions, NEW e \in Elements, x = Array(d, e)
      PROVE  IREntryGood(N, env, typeLayouts, more, whole, x)
  BY <1>1, <1>2, ArraySizedGood
<1>3. ASSUME NEW e \in Elements, OfTwo(x, "f", e, "g", INTEGER)
      PROVE  IREntryGood(N, env, typeLayouts, more, whole, x)
  <2>1. Triples(N, {INTEGER, CHAR})
    BY DEF IRModelled
  <2>2. QED
    BY <1>1, <1>3, <2>1, RecordSizedGood
<1>4. ASSUME NEW e \in Elements, NEW b \in Bases, OfOne(x, "h", e, b)
      PROVE  IREntryGood(N, env, typeLayouts, more, whole, x)
  <2>1. <<env[b], namedTypes[b]>> \in M
    BY DEF Bases, Modelled, NamesPaired
  <2>2. namedTypes[b].size \in Nat
    BY <2>1 DEF Modelled, Closed, Good, Positive
  <2>3. QED
    BY <1>1, <1>4, <2>2, ExtensionSizedGood
<1>5. ASSUME NEW n \in TypeNames, x = Pointer(n)
      PROVE  IREntryGood(N, env, typeLayouts, more, whole, x)
  <2>1. n \in more
    BY <1>5, PointerShape
  <2>2. QED
    BY <1>5, <2>1, PointerSizedGood
<1>6. QED
  BY <1>2, <1>3, <1>4, <1>5, ConstructedIs

-----------------------------------------------------------------------------
(* What a declaration adds to the triples and the layouts.                 *)
LEMMA TripleAdded ==
  ASSUME NEW N, NEW V, NEW L, NEW owing, NEW inn, NEW var, NEW whole,
         IRModelled(N, V, L, owing, inn, var, whole),
         NEW K, Extends(L, K), SameSizes(V, L, K), KeysKnown(V, K),
         NEW more, owing \subseteq more, NEW all, all => whole,
         NEW x, EntrySized(N, V, L, more, all, x)
  PROVE  \E O : IRModelled(O, V, K, more, {x}, var, all) /\ IRModelled(O, V, K, more, {}, {x}, all)
<1>0. PICK O : O = N \cup {<<x.type, x.name, x.size>>}
  OBVIOUS
<1>1. N \subseteq O /\ Extends(V, V) /\ more \subseteq more
  BY <1>0 DEF Extends
<1>2. AllSized(O, V, K, more, all)
  <2>. SUFFICES ASSUME NEW t, NEW name, NEW size, <<t, name, size>> \in O
                PROVE  Sized(O, V, K, more, all, t, name, size)
    BY DEF AllSized
  <2>1. CASE <<t, name, size>> \in N
    <3>1. Sized(N, V, L, owing, whole, t, name, size)
      BY <2>1 DEF IRModelled, AllSized
    <3>2. QED
      BY <1>1, <3>1, SizedStays
  <2>2. CASE t = x.type /\ name = x.name /\ size = x.size
    <3>1. Sized(N, V, L, more, all, t, name, size)
      BY <2>2 DEF EntrySized
    <3>2. QED
      BY <1>1, <3>1, SizedStays
  <2>3. QED
    BY <1>0, <2>1, <2>2
<1>3. NamesSized(O, V, K)
  BY <1>1 DEF IRModelled, NamesSized, SameSizes
<1>4. Triples(O, {INTEGER, CHAR}) /\ Triples(O, var) /\ Triples(O, {x}) /\ Triples(O, {})
  BY <1>0, <1>1 DEF IRModelled, Triples
<1>5. QED
  BY <1>2, <1>3, <1>4 DEF IRModelled

(* Names of types and of pointer types do not meet in typeLayouts.         *)
LEMMA KeyFacts ==
  ASSUME NEW V, NEW L, KeysKnown(V, L)
  PROVE  /\ \A n : n \notin DOMAIN V => <<n>> \notin DOMAIN L
         /\ \A n : <<"PTR", n>> \in DOMAIN L => L[<<"PTR", n>>] = PointerLayout(n)
         /\ \A n, m : <<n>> # <<"PTR", m>>
<1>1. \A n, m : <<n>> # <<"PTR", m>> /\ (<<n>> = <<m>> => n = m)
               /\ (<<"PTR", n>> = <<"PTR", m>> => n = m)
  OBVIOUS
<1>2. ASSUME NEW n, n \notin DOMAIN V, <<n>> \in DOMAIN L  PROVE FALSE
  BY <1>1, <1>2 DEF KeysKnown
<1>3. ASSUME NEW n, <<"PTR", n>> \in DOMAIN L  PROVE L[<<"PTR", n>>] = PointerLayout(n)
  BY <1>1, <1>3 DEF KeysKnown
<1>4. QED
  BY <1>1, <1>2, <1>3

(* registerTypeLayout under the name of a type overwrites nothing it       *)
(* should not.                                                             *)
LEMMA RegisterName ==
  ASSUME NEW V, NEW L, KeysKnown(V, L), NEW n, n \notin DOMAIN V,
         NEW x, x.type.kind \in Constructors,
         x.type.kind = "pointer" => x.name = <<"PTR", x.type.to>>,
         NEW K, K = registerTypeLayout(L, <<n>>, x),
         NEW W, DOMAIN W = DOMAIN V \cup {n}
  PROVE  /\ Extends(L, K) /\ SameSizes(V, L, K) /\ KeysKnown(W, K)
         /\ x.type.kind = "record" =>
              Has(K, <<n>>, "record") /\ K[<<n>>].fields = x.fields /\ SizeOf(K, n) = x.size
         /\ x.type.kind = "pointer" =>
              Has(K, <<n>>, "pointer") /\ K[<<n>>].pointee = <<x.type.to>> /\ SizeOf(K, n) = 4
         /\ x.type.kind = "array" => SizeOf(K, n) = 4
<1>. DEFINE key == <<n>>
            ptr == <<"PTR", x.type.to>>
<1>1. /\ key \notin DOMAIN L
      /\ ptr \in DOMAIN L => L[ptr] = PointerLayout(x.type.to)
      /\ key # ptr
  BY KeyFacts
<1>2. \A m \in DOMAIN V : <<m>> # key /\ <<m>> # ptr
  OBVIOUS
<1>3. CASE x.type.kind = "array"
  <2>1. K = L
    BY <1>3 DEF registerTypeLayout
  <2>2. QED
    BY <1>1, <1>3, <2>1 DEF Extends, SameSizes, KeysKnown, SizeOf
<1>4. CASE x.type.kind = "record"
  <2>. DEFINE lay == [kind |-> "record", size |-> x.size, fields |-> x.fields]
  <2>1. K = With(L, key, lay)
    BY <1>4 DEF registerTypeLayout
  <2>2. lay.kind = "record" /\ lay.size = x.size /\ lay.fields = x.fields
    OBVIOUS
  <2>. HIDE DEF lay
  <2>3. DOMAIN K = DOMAIN L \cup {key} /\ K[key] = lay /\ \A k \in DOMAIN L : K[k] = L[k]
    BY <1>1, <2>1 DEF With
  <2>4. Extends(L, K)
    BY <2>3 DEF Extends
  <2>. HIDE DEF ptr
  <2>5. SameSizes(V, L, K)
    BY <1>2, <2>3 DEF SameSizes, SizeOf
  <2>6. KeysKnown(W, K)
    BY <2>3 DEF KeysKnown
  <2>7. Has(K, key, "record") /\ K[key].fields = x.fields /\ SizeOf(K, n) = x.size
    BY <2>2, <2>3 DEF Has, SizeOf
  <2>8. QED
    BY <1>4, <2>4, <2>5, <2>6, <2>7
<1>5. CASE x.type.kind = "pointer"
  <2>. DEFINE lay == PointerLayout(x.type.to)
  <2>1. K = With(With(L, key, lay), ptr, lay)
    BY <1>5 DEF registerTypeLayout, PointerLayout
  <2>2. lay.kind = "pointer" /\ lay.size = 4 /\ lay.pointee = <<x.type.to>>
    BY DEF PointerLayout
  <2>. HIDE DEF lay
  <2>3. DOMAIN K = DOMAIN L \cup {key, ptr} /\ K[key] = lay /\ K[ptr] = lay
        /\ \A k \in DOMAIN L : k # ptr => K[k] = L[k]
    <3>. DEFINE J == With(L, key, lay)
    <3>1. DOMAIN J = DOMAIN L \cup {key} /\ J[key] = lay /\ \A k \in DOMAIN L : J[k] = L[k]
      BY <1>1 DEF With
    <3>. HIDE DEF J, key, ptr
    <3>2. /\ DOMAIN K = DOMAIN J \cup {ptr}
          /\ K[ptr] = lay
          /\ \A k \in DOMAIN J : k # ptr => K[k] = J[k]
      BY <2>1 DEF With, J
    <3>3. QED
      BY <1>1, <3>1, <3>2
  <2>4. ptr \in DOMAIN L => L[ptr] = lay
    BY <1>1 DEF lay
  <2>5. Extends(L, K)
    BY <2>3, <2>4 DEF Extends
  <2>6. SameSizes(V, L, K)
    BY <1>2, <2>3 DEF SameSizes, SizeOf
  <2>7. KeysKnown(W, K)
    <3>. SUFFICES ASSUME NEW k \in DOMAIN K
                  PROVE  \/ \E m \in DOMAIN W : k = <<m>>
                         \/ \E m : k = <<"PTR", m>> /\ K[k] = PointerLayout(m)
      BY DEF KeysKnown
    <3>1. CASE k = key
      BY <3>1
    <3>2. CASE k = ptr
      BY <2>3, <3>2 DEF lay
    <3>3. CASE k \in DOMAIN L /\ k # ptr /\ k # key
      <4>1. K[k] = L[k]
        BY <2>3, <3>3
      <4>2. QED
        BY <3>3, <4>1 DEF KeysKnown
    <3>4. QED
      BY <2>3, <3>1, <3>2, <3>3
  <2>8. Has(K, key, "pointer") /\ K[key].pointee = <<x.type.to>> /\ SizeOf(K, n) = 4
    <3>1. key \in DOMAIN K /\ K[key] = lay
      BY <2>3
    <3>2. QED
      BY <2>2, <3>1 DEF Has, SizeOf
  <2>9. QED
    BY <1>5, <2>5, <2>6, <2>7, <2>8
<1>6. QED
  BY <1>3, <1>4, <1>5 DEF Constructors

(* The declaration of a type called n.                                     *)
Declares(n, x, V, W, L, K) ==
  /\ n \notin DOMAIN V /\ x.type.kind \in Constructors
  /\ W = With(V, n, x.type) /\ K = registerTypeLayout(L, <<n>>, x)

(* The sizes stay right when a type gets a name.                           *)
LEMMA NameSized ==
  ASSUME NEW N, NEW V, NEW L, NEW owing, NEW inn, NEW var, NEW whole,
         IRModelled(N, V, L, owing, inn, var, whole),
         NEW more, owing \subseteq more, NEW all, all => whole,
         NEW n, NEW x, NEW W, NEW K, Declares(n, x, V, W, L, K),
         IREntryGood(N, V, L, more, all, x)
  PROVE  \E O : IRModelled(O, W, K, more, {}, var, all)
<1>d. /\ n \notin DOMAIN V /\ x.type.kind \in Constructors
      /\ W = With(V, n, x.type) /\ K = registerTypeLayout(L, <<n>>, x)
  BY DEF Declares
<1>0. PICK O : O = N \cup {<<NamedType(n), <<n>>, SizeOf(K, n)>>}
  OBVIOUS
<1>1. DOMAIN W = DOMAIN V \cup {n} /\ W[n] = x.type /\ Extends(V, W)
  BY <1>d DEF With, Extends
<1>2. /\ x.size \in Positive /\ (all => Four(x.size))
      /\ x.type.kind = "pointer" =>
           x.name = <<"PTR", x.type.to>> /\ x.size = 4 /\ x.type.to \in more
  BY DEF IREntryGood, EntrySized, Sized
<1>3. KeysKnown(V, L)
  BY DEF IRModelled
<1>4. /\ Extends(L, K) /\ SameSizes(V, L, K) /\ KeysKnown(W, K)
      /\ x.type.kind = "record" =>
           Has(K, <<n>>, "record") /\ K[<<n>>].fields = x.fields /\ SizeOf(K, n) = x.size
      /\ x.type.kind = "pointer" =>
           Has(K, <<n>>, "pointer") /\ K[<<n>>].pointee = <<x.type.to>> /\ SizeOf(K, n) = 4
      /\ x.type.kind = "array" => SizeOf(K, n) = 4
  BY <1>d, <1>1, <1>2, <1>3, RegisterName
<1>5. N \subseteq O /\ more \subseteq more
  BY <1>0
<1>6. PICK size : size = SizeOf(K, n)
  OBVIOUS
<1>7. size \in Positive /\ (all => Four(size))
  <2>1. 4 \in Positive /\ Four(4)
    BY FourIs DEF Positive
  <2>2. QED
    BY <1>d, <1>2, <1>4, <1>6, <2>1 DEF Constructors
<1>8. NamedLaid(O, W, K, more, all, n, size)
  <2>1. ASSUME x.type.kind = "record", ~x.type.extends
        PROVE  LaidGood(O, all, x.type.fields, K[<<n>>].fields, size)
    <3>1. LaidGood(N, all, x.type.fields, x.fields, x.size)
      BY <2>1 DEF IREntryGood, RecordLaid
    <3>2. LaidGood(O, all, x.type.fields, x.fields, x.size)
      BY <1>5, <3>1, LaidStays
    <3>3. QED
      BY <1>4, <1>6, <2>1, <3>2
  <2>2. ASSUME x.type.kind = "pointer"
        PROVE  /\ Has(K, <<n>>, "pointer") /\ K[<<n>>].pointee = <<x.type.to>> /\ size = 4
               /\ x.type.to \in more
    BY <1>2, <1>4, <1>6, <2>2
  <2>3. x.type.kind = "record" => Has(K, <<n>>, "record")
    BY <1>4
  <2>4. QED
    BY <1>d, <1>1, <1>6, <2>1, <2>2, <2>3 DEF NamedLaid
<1>9. Sized(O, W, K, more, all, NamedType(n), <<n>>, size)
  <2>1. NamedType(n).kind = "named" /\ NamedType(n).name = n
    BY DEF NamedType
  <2>2. QED
    BY <1>7, <1>8, <2>1 DEF Sized
<1>10. AllSized(O, W, K, more, all)
  <2>. SUFFICES ASSUME NEW t, NEW name, NEW s, <<t, name, s>> \in O
                PROVE  Sized(O, W, K, more, all, t, name, s)
    BY DEF AllSized
  <2>1. CASE <<t, name, s>> \in N
    <3>1. Sized(N, V, L, owing, whole, t, name, s)
      BY <2>1 DEF IRModelled, AllSized
    <3>2. QED
      BY <1>1, <1>4, <1>5, <3>1, SizedStays
  <2>2. CASE t = NamedType(n) /\ name = <<n>> /\ s = size
    BY <1>9, <2>2
  <2>3. QED
    BY <1>0, <1>6, <2>1, <2>2
<1>11. NamesSized(O, W, K)
  <2>1. ASSUME NEW m \in DOMAIN V  PROVE <<NamedType(m), <<m>>, SizeOf(K, m)>> \in O
    BY <1>4, <1>5, <2>1 DEF IRModelled, NamesSized, SameSizes
  <2>2. QED
    BY <1>0, <1>1, <2>1 DEF NamesSized
<1>12. Triples(O, {INTEGER, CHAR}) /\ Triples(O, var) /\ Triples(O, {})
  BY <1>5 DEF IRModelled, Triples
<1>13. QED
  BY <1>4, <1>10, <1>11, <1>12 DEF IRModelled

(* The layouts stay right when the variable is a pointer without a name.   *)
LEMMA VariableLayouts ==
  ASSUME NEW V, NEW L, KeysKnown(V, L),
         NEW x, x.type.kind = "pointer" => x.name = <<"PTR", x.type.to>>,
         NEW K, K = IF x.type.kind = "pointer" /\ x.name \notin DOMAIN L
                    THEN registerTypeLayout(L, x.name, x) ELSE L
  PROVE  /\ Extends(L, K) /\ SameSizes(V, L, K) /\ KeysKnown(V, K)
         /\ x.type.kind = "pointer" =>
              Has(K, x.name, "pointer") /\ K[x.name].pointee = <<x.type.to>>
<1>. DEFINE ptr == <<"PTR", x.type.to>>
            lay == PointerLayout(x.type.to)
<1>1. lay.kind = "pointer" /\ lay.size = 4 /\ lay.pointee = <<x.type.to>>
  BY DEF PointerLayout
<1>2. ptr \in DOMAIN L => L[ptr] = lay
  BY KeyFacts
<1>3. \A m : <<m>> # ptr
  BY KeyFacts
<1>4. CASE x.type.kind = "pointer" /\ x.name \notin DOMAIN L
  <2>1. K = With(With(L, ptr, lay), ptr, lay)
    BY <1>4 DEF registerTypeLayout, PointerLayout
  <2>. HIDE DEF lay, ptr
  <2>2. DOMAIN K = DOMAIN L \cup {ptr} /\ K[ptr] = lay /\ \A k \in DOMAIN L : k # ptr => K[k] = L[k]
    BY <2>1 DEF With
  <2>3. Extends(L, K)
    BY <1>2, <2>2 DEF Extends
  <2>4. SameSizes(V, L, K)
    BY <1>3, <2>2 DEF SameSizes, SizeOf
  <2>5. KeysKnown(V, K)
    <3>. SUFFICES ASSUME NEW k \in DOMAIN K
                  PROVE  \/ \E m \in DOMAIN V : k = <<m>>
                         \/ \E m : k = <<"PTR", m>> /\ K[k] = PointerLayout(m)
      BY DEF KeysKnown
    <3>1. CASE k = ptr
      BY <2>2, <3>1 DEF lay, ptr
    <3>2. CASE k \in DOMAIN L /\ k # ptr
      <4>1. K[k] = L[k]
        BY <2>2, <3>2
      <4>2. QED
        BY <3>2, <4>1 DEF KeysKnown
    <3>3. QED
      BY <2>2, <3>1, <3>2
  <2>6. x.name = ptr
    BY <1>4 DEF ptr
  <2>7. QED
    BY <1>1, <2>2, <2>3, <2>4, <2>5, <2>6 DEF Has
<1>5. CASE ~(x.type.kind = "pointer" /\ x.name \notin DOMAIN L)
  <2>1. K = L
    BY <1>5
  <2>2. Extends(L, K) /\ SameSizes(V, L, K) /\ KeysKnown(V, K)
    BY <2>1 DEF Extends, SameSizes
  <2>3. ASSUME x.type.kind = "pointer"
        PROVE  Has(K, x.name, "pointer") /\ K[x.name].pointee = <<x.type.to>>
    <3>1. x.name = ptr /\ ptr \in DOMAIN L
      BY <1>5, <2>3
    <3>. HIDE DEF ptr, lay
    <3>2. QED
      BY <1>1, <1>2, <2>1, <3>1 DEF Has
  <2>4. QED
    BY <2>2, <2>3
<1>6. QED
  BY <1>4, <1>5

-----------------------------------------------------------------------------
(* The inductive invariant of IRBuilder.                                   *)
IRVariable(e, V, L, owing) ==
  /\ StepRight(e) /\ owing \subseteq DOMAIN V
  /\ e.type.kind = "pointer" => Has(L, e.name, "pointer") /\ L[e.name].pointee = <<e.type.to>>
IRInv ==
  /\ \A e \in inner : e.type.kind \in Constructors
  /\ \A e \in variable : IRVariable(e, env, typeLayouts, owed)
  /\ \E N : IRModelled(N, env, typeLayouts, owed, inner, variable, ~ragged)

(* An index into a type that is named steps by a word.                     *)
LEMMA KnownStep ==
  ASSUME NEW x \in Known
  PROVE  StepRight(x) /\ x.type.kind \in {"word", "char", "named"}
<1>1. CASE x = INTEGER \/ x = CHAR
  BY <1>1 DEF INTEGER, CHAR, Entry, StepRight, Positive
<1>2. ASSUME NEW n \in DOMAIN namedTypes, x = Named(n)
      PROVE  StepRight(x) /\ x.type.kind \in {"word", "char", "named"}
  <2>1. x.len = 1 /\ x.step = 4 /\ x.type.kind = "named"
    BY <1>2 DEF Named, Entry
  <2>2. QED
    BY <2>1 DEF StepRight, Positive
<1>3. QED
  BY <1>1, <1>2 DEF Known

(* The tables of IRBuilder are right at the start.                         *)
LEMMA IRInit == Init => IRInv
<1>. SUFFICES ASSUME Init  PROVE IRInv
  OBVIOUS
<1>. DEFINE N == {<<INTEGER.type, INTEGER.name, INTEGER.size>>, <<CHAR.type, CHAR.name, CHAR.size>>}
<1>1. /\ DOMAIN env = {} /\ DOMAIN typeLayouts = {} /\ inner = {} /\ variable = {}
  BY DEF Init, Empty
<1>2. /\ INTEGER.type.kind = "word" /\ INTEGER.size = 4
      /\ CHAR.type.kind = "char" /\ CHAR.size = 4
  BY DEF INTEGER, CHAR, Entry
<1>3. 4 \in Positive /\ Four(4)
  BY FourIs DEF Positive
<1>4. AllSized(N, env, typeLayouts, owed, ~ragged)
  <2>1. ASSUME NEW t, NEW name, NEW size, t.kind \in {"word", "char"}, size = 4
        PROVE  Sized(N, env, typeLayouts, owed, ~ragged, t, name, size)
    BY <1>3, <2>1 DEF Sized
  <2>. SUFFICES ASSUME NEW t, NEW name, NEW size, <<t, name, size>> \in N
                PROVE  Sized(N, env, typeLayouts, owed, ~ragged, t, name, size)
    BY DEF AllSized
  <2>2. t.kind \in {"word", "char"} /\ size = 4
    BY <1>2
  <2>3. QED
    BY <2>1, <2>2
<1>5. NamesSized(N, env, typeLayouts) /\ KeysKnown(env, typeLayouts)
  BY <1>1 DEF NamesSized, KeysKnown
<1>6. Triples(N, {INTEGER, CHAR}) /\ Triples(N, inner) /\ Triples(N, variable)
  BY <1>1 DEF Triples
<1>. HIDE DEF N
<1>7. IRModelled(N, env, typeLayouts, owed, inner, variable, ~ragged)
  BY <1>4, <1>5, <1>6 DEF IRModelled
<1>8. QED
  BY <1>1, <1>7 DEF IRInv

(* Pointers that are built are noted.                                      *)
LEMMA WriteOwes ==
  ASSUME NEW x, Write(x)
  PROVE  owed \subseteq owed' /\ (x.type.kind = "pointer" => x.type.to \in owed')
BY DEF Write

(* What IRBuilder has of a type just built, in the next state.             *)
LEMMA WrittenSized ==
  ASSUME DirectInv, IRInv, NEW x \in Constructed, Write(x), NEW N,
         IRModelled(N, env, typeLayouts, owed, inner, variable, ~ragged)
  PROVE  /\ IREntryGood(N, env, typeLayouts, owed', ~ragged', x)
         /\ x.type.kind \in Constructors
         /\ owed \subseteq owed' /\ (~ragged' => ~ragged)
<1>1. /\ ragged' \in BOOLEAN /\ (~ragged' => ~ragged) /\ WordsFilled(x, ~ragged')
  BY WriteIs DEF DirectInv
<1>2. PICK M : Modelled(M, env, namedTypes, inner, variable, ~ragged)
  BY DEF DirectInv
<1>3. owed \subseteq owed' /\ (x.type.kind = "pointer" => x.type.to \in owed')
  BY WriteOwes
<1>4. \A e \in inner : e.type.kind \in Constructors
  BY DEF IRInv
<1>5. IREntryGood(N, env, typeLayouts, owed', ~ragged', x)
  BY <1>1, <1>2, <1>3, <1>4, ConstructedSized
<1>6. EntryGood(M, env, ~ragged', x) /\ x.type.kind \in Constructors
  BY <1>1, <1>2, ConstructedGood
<1>7. QED
  BY <1>1, <1>3, <1>5, <1>6

(* They stay right when the inside of a declaration is resolved.           *)
LEMMA IRInner ==
  ASSUME DirectInv, IRInv, NEW x \in Constructed, Inner(x)
  PROVE  IRInv'
<1>1. /\ Write(x) /\ inner' = {x} /\ env' = env /\ typeLayouts' = typeLayouts
      /\ variable' = {} /\ variable = {}
  BY DEF Inner, Write
<1>2. PICK N : IRModelled(N, env, typeLayouts, owed, inner, variable, ~ragged)
  BY DEF IRInv
<1>3. /\ IREntryGood(N, env, typeLayouts, owed', ~ragged', x)
      /\ x.type.kind \in Constructors
      /\ owed \subseteq owed' /\ (~ragged' => ~ragged)
  BY <1>1, <1>2, WrittenSized
<1>4. EntrySized(N, env, typeLayouts, owed', ~ragged', x)
  BY <1>3 DEF IREntryGood
<1>5. /\ Extends(typeLayouts, typeLayouts) /\ SameSizes(env, typeLayouts, typeLayouts)
      /\ KeysKnown(env, typeLayouts)
  BY <1>2 DEF Extends, SameSizes, IRModelled
<1>6. \E O : IRModelled(O, env, typeLayouts, owed', {x}, variable, ~ragged')
  BY <1>2, <1>3, <1>4, <1>5, TripleAdded
<1>7. \E O : IRModelled(O, env', typeLayouts', owed', inner', variable', ~ragged')
  BY <1>1, <1>6
<1>8. QED
  BY <1>1, <1>3, <1>7 DEF IRInv

(* They stay right when a type gets a name.                                *)
LEMMA IRTypeDecl ==
  ASSUME DirectInv, IRInv, NEW x \in Constructed, NEW n, TypeDecl(n, x)
  PROVE  IRInv'
<1>1. /\ Write(x) /\ inner' = {} /\ n \notin DOMAIN env
      /\ env' = With(env, n, x.type)
      /\ typeLayouts' = registerTypeLayout(typeLayouts, <<n>>, x)
      /\ variable' = {} /\ variable = {}
  BY DEF TypeDecl, Write
<1>2. PICK N : IRModelled(N, env, typeLayouts, owed, inner, variable, ~ragged)
  BY DEF IRInv
<1>3. /\ IREntryGood(N, env, typeLayouts, owed', ~ragged', x)
      /\ x.type.kind \in Constructors
      /\ owed \subseteq owed' /\ (~ragged' => ~ragged)
  BY <1>1, <1>2, WrittenSized
<1>4. Declares(n, x, env, env', typeLayouts, typeLayouts')
  BY <1>1, <1>3 DEF Declares
<1>5. \E O : IRModelled(O, env', typeLayouts', owed', {}, variable, ~ragged')
  BY <1>2, <1>3, <1>4, NameSized
<1>6. \E O : IRModelled(O, env', typeLayouts', owed', inner', variable', ~ragged')
  BY <1>1, <1>5
<1>7. QED
  BY <1>1, <1>6 DEF IRInv

(* They stay right when the variable is declared.                          *)
LEMMA IRVarDecl ==
  ASSUME DirectInv, IRInv, NEW x \in Constructed \cup Known, VarDecl(x)
  PROVE  IRInv'
<1>1. /\ inner' = {} /\ env' = env /\ variable' = {x} /\ owed' \subseteq DOMAIN env
      /\ typeLayouts' = IF x.type.kind = "pointer" /\ x.name \notin DOMAIN typeLayouts
                        THEN registerTypeLayout(typeLayouts, x.name, x) ELSE typeLayouts
  BY DEF VarDecl
<1>2. PICK N : IRModelled(N, env, typeLayouts, owed, inner, variable, ~ragged)
  BY DEF IRInv
<1>3. /\ EntrySized(N, env, typeLayouts, owed', ~ragged', x) /\ StepRight(x)
      /\ owed \subseteq owed' /\ (~ragged' => ~ragged)
  <2>1. CASE x \in Known
    <3>1. owed' = owed /\ ragged' = ragged
      BY <2>1 DEF VarDecl
    <3>2. DOMAIN namedTypes = DOMAIN env
      BY DEF DirectInv, Modelled, NamesPaired
    <3>3. EntrySized(N, env, typeLayouts, owed, ~ragged, x)
      BY <1>2, <2>1, <3>2, ElementsSized
    <3>4. QED
      BY <2>1, <3>1, <3>3, KnownStep
  <2>2. CASE x \notin Known
    <3>1. Write(x) /\ x \in Constructed
      BY <2>2 DEF VarDecl
    <3>2. /\ IREntryGood(N, env, typeLayouts, owed', ~ragged', x)
          /\ owed \subseteq owed' /\ (~ragged' => ~ragged)
      BY <1>2, <3>1, WrittenSized
    <3>3. QED
      BY <3>2 DEF IREntryGood
  <2>3. QED
    BY <2>1, <2>2
<1>4. x.type.kind = "pointer" => x.name = <<"PTR", x.type.to>>
  BY <1>3 DEF EntrySized, Sized
<1>5. KeysKnown(env, typeLayouts)
  BY <1>2 DEF IRModelled
<1>6. /\ Extends(typeLayouts, typeLayouts') /\ SameSizes(env, typeLayouts, typeLayouts')
      /\ KeysKnown(env, typeLayouts')
      /\ x.type.kind = "pointer" =>
           Has(typeLayouts', x.name, "pointer") /\ typeLayouts'[x.name].pointee = <<x.type.to>>
  BY <1>1, <1>4, <1>5, VariableLayouts
<1>7. \E O : IRModelled(O, env, typeLayouts', owed', {}, {x}, ~ragged')
  BY <1>2, <1>3, <1>6, TripleAdded
<1>8. \E O : IRModelled(O, env', typeLayouts', owed', inner', variable', ~ragged')
  BY <1>1, <1>7
<1>9. IRVariable(x, env', typeLayouts', owed')
  BY <1>1, <1>3, <1>6 DEF IRVariable
<1>10. QED
  BY <1>1, <1>8, <1>9 DEF IRInv

(* They stay right in every step.                                          *)
LEMMA IRNext == DirectInv /\ IRInv /\ [Next]_vars => IRInv'
<1>. SUFFICES ASSUME DirectInv, IRInv, [Next]_vars  PROVE IRInv'
  OBVIOUS
<1>1. ASSUME NEW x \in Constructed, Inner(x)  PROVE IRInv'
  BY <1>1, IRInner
<1>2. ASSUME NEW n \in TypeNames, NEW x \in Constructed, TypeDecl(n, x)  PROVE IRInv'
  BY <1>2, IRTypeDecl
<1>3. ASSUME NEW x \in Constructed, VarDecl(x)  PROVE IRInv'
  BY <1>3, IRVarDecl
<1>4. ASSUME NEW x \in Known, VarDecl(x)  PROVE IRInv'
  BY <1>4, IRVarDecl
<1>5. CASE UNCHANGED vars
  <2>1. /\ env' = env /\ typeLayouts' = typeLayouts /\ inner' = inner /\ variable' = variable
        /\ ragged' = ragged /\ owed' = owed
    BY <1>5 DEF vars
  <2>2. QED
    BY <2>1 DEF IRInv
<1>6. QED
  BY <1>1, <1>2, <1>3, <1>4, <1>5 DEF Next

(* IRBuilder's sizes and layouts are those of the types they stand for:    *)
(* typeSize and registerTypeLayout of ir/IRBuilder.cpp.                    *)
THEOREM IRInvariant == Spec => []IRInv
<1>1. Init => IRInv
  BY IRInit
<1>2. DirectInv /\ IRInv /\ [Next]_vars => IRInv'
  BY IRNext
<1>3. QED
  BY <1>1, <1>2, DirectInvariant, PTL DEF Spec

-----------------------------------------------------------------------------
(* Components as IRBuilder has them.  Extent is how much of one it can be  *)
(* said to know: all of it, if a plain designator goes on from there.      *)
IRReady(N) ==
  /\ AllSized(N, env, typeLayouts, owed, Whole) /\ NamesSized(N, env, typeLayouts)
  /\ <<TheVariable.type, TheVariable.name, TheVariable.size>> \in N
  /\ IRVariable(TheVariable, env, typeLayouts, owed)

Scalars == {"word", "pointer"}
Extent(t) ==
  CASE t.kind = "named" -> SizeOf(typeLayouts, t.name)
    [] t.kind \in {"word", "char", "pointer"} -> 4
    [] t.kind = "array" /\ t.elem.kind = "char" -> t.len
    [] t.kind = "array" /\ t.elem.kind # "char" /\ Meaning(t.elem).kind \in Scalars -> 4 * t.len
    [] OTHER -> 0

(* What is read and written as a word has the size of a word.              *)
LEMMA ScalarSize ==
  ASSUME NEW N, AllSized(N, env, typeLayouts, owed, Whole), NEW t, NEW name, NEW size,
         <<t, name, size>> \in N, Meaning(t).kind \in Scalars
  PROVE  size = 4
<1>1. Sized(N, env, typeLayouts, owed, Whole, t, name, size)
  BY DEF AllSized
<1>2. CASE t.kind = "named"
  <2>1. NamedLaid(N, env, typeLayouts, owed, Whole, t.name, size)
    BY <1>1, <1>2 DEF Sized
  <2>2. env[t.name].kind \in Constructors /\ env[t.name].kind \in Scalars
    BY <1>2, <2>1 DEF NamedLaid, Meaning
  <2>3. env[t.name].kind = "pointer"
    BY <2>2 DEF Constructors, Scalars
  <2>4. QED
    BY <2>1, <2>3 DEF NamedLaid
<1>3. CASE t.kind # "named"
  BY <1>1, <1>3 DEF Sized, Meaning, Scalars
<1>4. QED
  BY <1>2, <1>3

(* The sizes in N bound what is known.                                     *)
LEMMA ExtentFits ==
  ASSUME NEW N, AllSized(N, env, typeLayouts, owed, Whole), NEW t, NEW name, NEW size,
         <<t, name, size>> \in N
  PROVE  /\ Extent(t) \in Nat /\ size \in Positive /\ Extent(t) <= size
         /\ t.kind = "named" => Extent(t) = size
<1>1. Sized(N, env, typeLayouts, owed, Whole, t, name, size)
  BY DEF AllSized
<1>2. size \in Positive /\ size \in Nat /\ 0 <= size /\ size <= size
  BY <1>1 DEF Sized, Positive
<1>3. CASE t.kind = "named"
  <2>1. size = SizeOf(typeLayouts, t.name)
    BY <1>1, <1>3 DEF Sized, NamedLaid
  <2>2. Extent(t) = size
    BY <1>3, <2>1 DEF Extent
  <2>3. QED
    BY <1>2, <2>2
<1>4. CASE t.kind \in {"word", "char", "pointer"}
  <2>1. size = 4
    BY <1>1, <1>4 DEF Sized
  <2>2. Extent(t) = 4
    BY <1>4 DEF Extent
  <2>3. QED
    BY <1>2, <1>4, <2>1, <2>2
<1>5. CASE t.kind = "array" /\ t.elem.kind = "char"
  <2>1. /\ t.len \in Positive
        /\ \/ size = t.len
           \/ t.elem.kind # "char"
           \/ t.elem.kind = "array"
    BY <1>1, <1>5 DEF Sized, ArraySized
  <2>2. Extent(t) = t.len /\ size = t.len
    BY <1>5, <2>1 DEF Extent
  <2>3. QED
    BY <1>2, <1>5, <2>2
<1>6. CASE t.kind = "array" /\ t.elem.kind # "char" /\ Meaning(t.elem).kind \in Scalars
  <2>1. t.len \in Positive
        /\ \/ \E nm, one : <<t.elem, nm, one>> \in N /\ size = t.len * one
           \/ t.elem.kind = "array"
    BY <1>1, <1>6 DEF Sized, ArraySized
  <2>2. t.elem.kind # "array"
    BY <1>6 DEF Meaning, Scalars
  <2>3. PICK nm, one : <<t.elem, nm, one>> \in N /\ size = t.len * one
    BY <2>1, <2>2
  <2>4. one = 4
    BY <1>6, <2>3, ScalarSize
  <2>5. Extent(t) = 4 * t.len
    BY <1>6 DEF Extent
  <2>6. Extent(t) = size
    BY <2>1, <2>3, <2>4, <2>5 DEF Positive
  <2>7. QED
    BY <1>2, <1>6, <2>6
<1>7. CASE /\ t.kind # "named" /\ t.kind \notin {"word", "char", "pointer"}
           /\ ~(t.kind = "array" /\ t.elem.kind = "char")
           /\ ~(t.kind = "array" /\ t.elem.kind # "char" /\ Meaning(t.elem).kind \in Scalars)
  <2>1. Extent(t) = 0
    BY <1>7 DEF Extent
  <2>2. QED
    BY <1>2, <1>7, <2>1
<1>8. QED
  BY <1>3, <1>4, <1>5, <1>6, <1>7

-----------------------------------------------------------------------------
(* The parts of a component.                                               *)
IRComponent(path, off, size, type, name) ==
  [path |-> path, off |-> off, size |-> size, type |-> type, name |-> name]
IRComp(d) ==
  IRComponent(d.path, d.ir.offset, IF d.last = "index" THEN Step ELSE Extent(d.type),
              d.type, d.name)

IRFieldComp(k, n) ==
  IRComponent(Append(k.path, <<"field", n>>), k.off + typeLayouts[k.name].fields[n].offset,
              Extent(Meaning(k.type).fields[n]), Meaning(k.type).fields[n],
              typeLayouts[k.name].fields[n].name)
IRIndexComp(k, i) ==
  IRComponent(Append(k.path, <<"index", i>>), k.off + i * Step, Step, k.type.elem, k.name)

IRFieldPart(k, n, c) ==
  /\ k.type.kind = "named" /\ Meaning(k.type).kind = "record" /\ ~Meaning(k.type).extends
  /\ n \in DOMAIN Meaning(k.type).fields /\ c = IRFieldComp(k, n)
PlainElement(path, t) ==
  Meaning(t.elem).kind \in Scalars \/ (path = <<>> /\ Meaning(t.elem).kind = "char")
IRIndexPart(k, i, c) ==
  /\ k.type.kind = "array" /\ PlainElement(k.path, k.type)
  /\ i \in 0..(k.type.len - 1) /\ c = IRIndexComp(k, i)
IRIsPart(k, c) == (\E n : IRFieldPart(k, n, c)) \/ (\E i : IRIndexPart(k, i, c))

Leaf(t) == Meaning(t).kind \in {"word", "char", "pointer"}
Typed(N, t, name) == \E size : <<t, name, size>> \in N
IRGood(N, c) ==
  /\ IsPath(c.path) /\ c.off \in Nat /\ c.size \in Nat
  /\ \/ Typed(N, c.type, c.name) /\ c.size = Extent(c.type)
     \/ Leaf(c.type) /\ c.size = Step
  /\ c.path = <<>> => c.type = TheVariable.type
  /\ c.path = <<>> \/ Leaf(c.type) \/ Step = 4
  /\ Whole /\ Step = 4 => Four(c.off)

(* The parts of a component as a record.                                   *)
LEMMA IRComponentIs ==
  ASSUME NEW path, NEW off, NEW size, NEW type, NEW name, NEW c,
         c = IRComponent(path, off, size, type, name)
  PROVE  c.path = path /\ c.off = off /\ c.size = size /\ c.type = type /\ c.name = name
BY DEF IRComponent

(* The step of an index is a byte for arrays of characters only.           *)
LEMMA StepIs ==
  ASSUME NEW N, IRReady(N)
  PROVE  /\ Step = TheVariable.step /\ Step \in {1, 4}
         /\ Step = 1 => TheVariable.type.kind = "array"
                        /\ TheVariable.type.elem.kind \in {"char", "array"}
         /\ TheVariable.type.kind = "array" /\ TheVariable.type.elem.kind = "char" => Step = 1
<1>1. StepRight(TheVariable)
  BY DEF IRReady, IRVariable
<1>2. TheVariable.len > 0
  BY <1>1 DEF StepRight, Positive
<1>3. Step = TheVariable.step
  BY <1>2 DEF Step
<1>4. QED
  BY <1>1, <1>3 DEF StepRight

(* The elements a plain index selects fill the array.                      *)
LEMMA ElementsFill ==
  ASSUME NEW N, IRReady(N), NEW k, IRGood(N, k), k.type.kind = "array",
         PlainElement(k.path, k.type)
  PROVE  /\ k.type.len \in Positive /\ k.size = k.type.len * Step
         /\ Meaning(k.type.elem).kind \in {"word", "pointer", "char"}
<1>. DEFINE t == k.type
<1>1. Meaning(t) = t /\ ~Leaf(t)
  BY DEF Meaning, Leaf
<1>2. k.size = Extent(t) /\ (k.path = <<>> => t = TheVariable.type)
      /\ (k.path = <<>> \/ Step = 4)
  BY <1>1 DEF IRGood
<1>3. PICK size : <<t, k.name, size>> \in N
  BY <1>1 DEF IRGood, Typed
<1>4. Sized(N, env, typeLayouts, owed, Whole, t, k.name, size)
  BY <1>3 DEF IRReady, AllSized
<1>5. ArraySized(N, t, size)
  BY <1>4 DEF Sized
<1>6. t.len \in Positive
  BY <1>5 DEF ArraySized
<1>. HIDE DEF t
<1>7. CASE Meaning(t.elem).kind \in Scalars
  <2>1. t.elem.kind \notin {"char", "array"}
    BY <1>7 DEF Meaning, Scalars
  <2>2. Step = 4
    BY <1>2, <2>1, StepIs
  <2>3. Extent(t) = 4 * t.len
    BY <1>7, <2>1 DEF Extent, t
  <2>4. t.len \in Nat
    BY <1>6 DEF Positive
  <2>5. k.size = t.len * Step
    BY <1>2, <2>2, <2>3, <2>4
  <2>6. QED
    BY <1>6, <1>7, <2>5 DEF t, Scalars
<1>8. CASE k.path = <<>> /\ Meaning(t.elem).kind = "char"
  <2>1. t.elem.kind = "char"
    <3>1. \/ t.elem.kind = "char"
          \/ \E nm, one : <<t.elem, nm, one>> \in N
          \/ t.elem.kind = "array"
      BY <1>5 DEF ArraySized
    <3>2. CASE t.elem.kind = "named" /\ \E nm, one : <<t.elem, nm, one>> \in N
      <4>1. PICK nm, one : <<t.elem, nm, one>> \in N
        BY <3>2
      <4>2. Sized(N, env, typeLayouts, owed, Whole, t.elem, nm, one)
        BY <4>1 DEF IRReady, AllSized
      <4>3. env[t.elem.name].kind \in Constructors
        BY <3>2, <4>2 DEF Sized, NamedLaid
      <4>4. QED
        BY <1>8, <3>2, <4>3 DEF Meaning, Constructors
    <3>3. QED
      BY <1>8, <3>1, <3>2 DEF Meaning
  <2>2. Step = 1
    BY <1>2, <1>8, <2>1, StepIs DEF t
  <2>3. Extent(t) = t.len
    BY <2>1 DEF Extent, t
  <2>4. t.len \in Nat
    BY <1>6 DEF Positive
  <2>5. k.size = t.len * Step
    BY <1>2, <2>2, <2>3, <2>4
  <2>6. QED
    BY <1>6, <1>8, <2>5 DEF t
<1>9. QED
  BY <1>7, <1>8 DEF PlainElement, t

(* What a component whose fields are selected looks like.                  *)
LEMMA RecordLaidOut ==
  ASSUME NEW N, IRReady(N), NEW k, IRGood(N, k), k.type.kind = "named",
         Meaning(k.type).kind = "record"
  PROVE  /\ Step = 4 \/ k.path = <<>>
         /\ IsLaid(k.name, "record")
         /\ ~Meaning(k.type).extends =>
              LaidGood(N, Whole, Meaning(k.type).fields, typeLayouts[k.name].fields, k.size)
<1>1. ~Leaf(k.type)
  BY DEF Leaf
<1>2. k.size = Extent(k.type) /\ (k.path = <<>> \/ Step = 4)
  BY <1>1 DEF IRGood
<1>3. PICK size : <<k.type, k.name, size>> \in N
  BY <1>1 DEF IRGood, Typed
<1>4. k.size = size
  BY <1>2, <1>3, ExtentFits DEF IRReady
<1>5. Sized(N, env, typeLayouts, owed, Whole, k.type, k.name, size)
  BY <1>3 DEF IRReady, AllSized
<1>. DEFINE n == k.type.name
<1>6. k.name = <<n>> /\ NamedLaid(N, env, typeLayouts, owed, Whole, n, size)
  BY <1>5 DEF Sized
<1>7. Meaning(k.type) = env[n]
  BY DEF Meaning
<1>. HIDE DEF n
<1>8. /\ Has(typeLayouts, <<n>>, "record")
      /\ ~env[n].extends => LaidGood(N, Whole, env[n].fields, typeLayouts[<<n>>].fields, size)
  BY <1>6, <1>7 DEF NamedLaid
<1>9. QED
  BY <1>2, <1>4, <1>6, <1>7, <1>8 DEF Has, IsLaid

(* A field of a component is a component inside it.                        *)
LEMMA IRFieldPartGood ==
  ASSUME NEW N, IRReady(N), NEW k, IRGood(N, k), NEW n, NEW c, IRFieldPart(k, n, c)
  PROVE  /\ IRGood(N, c) /\ c.path = Append(k.path, <<"field", n>>) /\ Within(k, c)
         /\ n \in DOMAIN Meaning(k.type).fields
         /\ c.off = k.off + typeLayouts[k.name].fields[n].offset
         /\ c.size = Extent(Meaning(k.type).fields[n])
         /\ LaidGood(N, Whole, Meaning(k.type).fields, typeLayouts[k.name].fields, k.size)
         /\ k.off \in Nat /\ Step = 4
<1>. DEFINE meant == Meaning(k.type).fields
            laid == typeLayouts[k.name].fields
<1>1. k.type.kind = "named" /\ Meaning(k.type).kind = "record" /\ ~Meaning(k.type).extends
      /\ n \in DOMAIN meant /\ c = IRFieldComp(k, n)
  BY DEF IRFieldPart
<1>2. LaidGood(N, Whole, meant, laid, k.size) /\ (Step = 4 \/ k.path = <<>>)
  BY <1>1, RecordLaidOut
<1>3. PICK sizes : LaidBy(N, Whole, meant, laid, sizes, k.size)
  BY <1>2 DEF LaidGood
<1>4. /\ c.path = Append(k.path, <<"field", n>>) /\ c.off = k.off + laid[n].offset
      /\ c.size = Extent(meant[n]) /\ c.type = meant[n] /\ c.name = laid[n].name
  <2>. DEFINE P == Append(k.path, <<"field", n>>)
              O == k.off + laid[n].offset
              S == Extent(meant[n])
              T == meant[n]
              I == laid[n].name
  <2>1. c = IRComponent(P, O, S, T, I)
    BY <1>1 DEF IRFieldComp
  <2>. HIDE DEF P, O, S, T, I
  <2>2. c.path = P /\ c.off = O /\ c.size = S /\ c.type = T /\ c.name = I
    BY <2>1, IRComponentIs
  <2>3. QED
    BY <2>2 DEF P, O, S, T, I
<1>. HIDE DEF meant, laid
<1>5. /\ <<meant[n], laid[n].name, sizes[n]>> \in N
      /\ laid[n].offset \in Nat /\ sizes[n] \in Nat
      /\ laid[n].offset + sizes[n] <= k.size
      /\ Whole => Four(laid[n].offset)
  BY <1>1, <1>3 DEF LaidBy
<1>6. Extent(meant[n]) \in Nat /\ Extent(meant[n]) <= sizes[n]
  BY <1>5, ExtentFits DEF IRReady
<1>7. IsPath(k.path) /\ k.off \in Nat /\ k.size \in Nat /\ (Whole /\ Step = 4 => Four(k.off))
  BY DEF IRGood
<1>8. Within(k, c)
  BY <1>4, <1>5, <1>6, <1>7 DEF Within
<1>9. c.off \in Nat /\ c.size \in Nat
  BY <1>4, <1>5, <1>6, <1>7
<1>10. IsPath(c.path) /\ c.path # <<>>
  <2>1. IsPath(c.path) /\ Len(k.path) \in Nat /\ Len(c.path) = Len(k.path) + 1
    BY <1>4, <1>7, PathAppend
  <2>2. QED
    BY <2>1
<1>11. Whole /\ Step = 4 => Four(c.off)
  BY <1>4, <1>5, <1>7, FourIs
<1>12. Step = 4
  <2>1. Step = 1 => TheVariable.type.kind = "array"
    BY StepIs
  <2>2. k.path = <<>> => k.type = TheVariable.type
    BY DEF IRGood
  <2>3. Step \in {1, 4}
    BY StepIs
  <2>4. QED
    BY <1>1, <1>2, <2>1, <2>2, <2>3
<1>13. Typed(N, c.type, c.name)
  BY <1>4, <1>5 DEF Typed
<1>14. IRGood(N, c)
  BY <1>4, <1>9, <1>10, <1>11, <1>12, <1>13 DEF IRGood
<1>15. QED
  BY <1>1, <1>2, <1>4, <1>7, <1>8, <1>12, <1>14 DEF meant, laid

(* An element of a component is a component inside it.                     *)
LEMMA IRIndexPartGood ==
  ASSUME NEW N, IRReady(N), NEW k, IRGood(N, k), NEW i, NEW c, IRIndexPart(k, i, c)
  PROVE  /\ IRGood(N, c) /\ c.path = Append(k.path, <<"index", i>>) /\ Within(k, c)
         /\ i \in Nat /\ c.off = k.off + i * Step /\ c.size = Step /\ Step \in Nat
         /\ k.off \in Nat /\ k.type.kind = "array" /\ Leaf(c.type)
<1>1. k.type.kind = "array" /\ PlainElement(k.path, k.type) /\ i \in 0..(k.type.len - 1)
      /\ c = IRIndexComp(k, i)
  BY DEF IRIndexPart
<1>2. /\ k.type.len \in Positive /\ k.size = k.type.len * Step
      /\ Meaning(k.type.elem).kind \in {"word", "pointer", "char"}
  BY <1>1, ElementsFill
<1>3. Step \in {1, 4}
  BY StepIs
<1>. DEFINE s == Step
            l == k.type.len
<1>4. /\ c.path = Append(k.path, <<"index", i>>) /\ c.off = k.off + i * s
      /\ c.size = s /\ c.type = k.type.elem /\ c.name = k.name
  <2>. DEFINE P == Append(k.path, <<"index", i>>)
              O == k.off + i * s
              T == k.type.elem
              I == k.name
  <2>1. c = IRComponent(P, O, s, T, I)
    BY <1>1 DEF IRIndexComp
  <2>. HIDE DEF P, O, T, I, s
  <2>2. c.path = P /\ c.off = O /\ c.size = s /\ c.type = T /\ c.name = I
    BY <2>1, IRComponentIs
  <2>3. QED
    BY <2>2 DEF P, O, T, I
<1>5. IsPath(k.path) /\ k.off \in Nat /\ k.size \in Nat /\ (Whole /\ s = 4 => Four(k.off))
  BY DEF IRGood
<1>6. s \in Nat /\ i \in Nat /\ l \in Nat /\ i < l
  <2>1. s \in Nat /\ l \in Nat
    BY <1>2, <1>3 DEF Positive
  <2>2. i \in 0..(l - 1)
    BY <1>1
  <2>. HIDE DEF s, l
  <2>3. QED
    BY <2>1, <2>2
<1>6a. k.size = l * s /\ s \in {1, 4}
  BY <1>2, <1>3
<1>. HIDE DEF s, l
<1>7. i * s \in Nat /\ i * s + s <= l * s
  BY <1>6, Multiples
<1>8. Within(k, c) /\ c.off \in Nat
  <2>. DEFINE x == i * s
              y == l * s
  <2>1. x \in Nat /\ x + s <= y /\ c.off = k.off + x /\ k.size = y /\ c.size = s
    BY <1>4, <1>6a, <1>7
  <2>. HIDE DEF x, y
  <2>2. QED
    BY <1>5, <1>6, <2>1 DEF Within
<1>9. IsPath(c.path) /\ c.path # <<>>
  <2>1. IsPath(c.path) /\ Len(k.path) \in Nat /\ Len(c.path) = Len(k.path) + 1
    BY <1>4, <1>5, PathAppend
  <2>2. QED
    BY <2>1
<1>10. Whole /\ s = 4 => Four(c.off)
  <2>1. ASSUME Whole, s = 4  PROVE Four(c.off)
    <3>1. Four(4)
      BY FourIs
    <3>2. Four(i * s)
      BY <1>6, <2>1, <3>1, FourIs
    <3>3. Four(k.off)
      BY <1>5, <2>1
    <3>4. QED
      BY <1>4, <1>5, <1>7, <3>2, <3>3, FourIs
  <2>2. QED
    BY <2>1
<1>11. Leaf(c.type)
  BY <1>2, <1>4 DEF Leaf
<1>12. c.size \in Nat
  BY <1>4, <1>6
<1>13. IRGood(N, c)
  BY <1>4, <1>8, <1>9, <1>10, <1>11, <1>12 DEF IRGood, s
<1>14. QED
  BY <1>1, <1>4, <1>5, <1>6, <1>8, <1>11, <1>13 DEF s

(* A part of a component is a component inside it.                         *)
LEMMA IRPartGood ==
  ASSUME NEW N, IRReady(N), NEW k, IRGood(N, k), NEW c, IRIsPart(k, c)
  PROVE  IRGood(N, c) /\ Longer(k.path, c.path) /\ Within(k, c)
<1>1. CASE \E n : IRFieldPart(k, n, c)
  <2>1. PICK n : IRFieldPart(k, n, c)
    BY <1>1
  <2>2. IRGood(N, c) /\ c.path = Append(k.path, <<"field", n>>) /\ Within(k, c)
    BY <2>1, IRFieldPartGood
  <2>3. QED
    BY <2>2, Zenon DEF Longer
<1>2. CASE \E i : IRIndexPart(k, i, c)
  <2>1. PICK i : IRIndexPart(k, i, c)
    BY <1>2
  <2>2. IRGood(N, c) /\ c.path = Append(k.path, <<"index", i>>) /\ Within(k, c)
    BY <2>1, IRIndexPartGood
  <2>3. QED
    BY <2>2, Zenon DEF Longer
<1>3. QED
  BY <1>1, <1>2 DEF IRIsPart

(* Two parts of the same component share nothing.                          *)
LEMMA IRSiblingsApart ==
  ASSUME NEW N, IRReady(N), NEW k, IRGood(N, k),
         NEW c, IRIsPart(k, c), NEW e, IRIsPart(k, e), c # e
  PROVE  c.path # e.path /\ Disjoint(c, e)
<1>0. IsPath(k.path)
  BY DEF IRGood
<1>1. CASE k.type.kind = "named"
  <2>1. PICK n : IRFieldPart(k, n, c)
    BY <1>1 DEF IRIsPart, IRIndexPart
  <2>2. PICK m : IRFieldPart(k, m, e)
    BY <1>1 DEF IRIsPart, IRIndexPart
  <2>3. n # m
    BY <2>1, <2>2 DEF IRFieldPart
  <2>. DEFINE meant == Meaning(k.type).fields
              laid == typeLayouts[k.name].fields
  <2>4. /\ c.path = Append(k.path, <<"field", n>>)
        /\ c.off = k.off + laid[n].offset /\ c.size = Extent(meant[n])
        /\ n \in DOMAIN meant /\ k.off \in Nat
        /\ LaidGood(N, Whole, meant, laid, k.size)
    BY <2>1, IRFieldPartGood
  <2>5. /\ e.path = Append(k.path, <<"field", m>>)
        /\ e.off = k.off + laid[m].offset /\ e.size = Extent(meant[m])
        /\ m \in DOMAIN meant
    BY <2>2, IRFieldPartGood
  <2>. HIDE DEF meant, laid
  <2>6. PICK sizes : LaidBy(N, Whole, meant, laid, sizes, k.size)
    BY <2>4 DEF LaidGood
  <2>7. /\ <<meant[n], laid[n].name, sizes[n]>> \in N /\ <<meant[m], laid[m].name, sizes[m]>> \in N
        /\ laid[n].offset \in Nat /\ sizes[n] \in Nat
        /\ laid[m].offset \in Nat /\ sizes[m] \in Nat
        /\ \/ laid[n].offset + sizes[n] <= laid[m].offset
           \/ laid[m].offset + sizes[m] <= laid[n].offset
    BY <2>3, <2>4, <2>5, <2>6 DEF LaidBy
  <2>8. Extent(meant[n]) \in Nat /\ Extent(meant[n]) <= sizes[n]
    BY <2>7, ExtentFits DEF IRReady
  <2>9. Extent(meant[m]) \in Nat /\ Extent(meant[m]) <= sizes[m]
    BY <2>7, ExtentFits DEF IRReady
  <2>10. Disjoint(c, e)
    <3>. DEFINE a == laid[n].offset
                b == laid[m].offset
                sa == sizes[n]
                sb == sizes[m]
                xa == Extent(meant[n])
                xb == Extent(meant[m])
    <3>1. c.off = k.off + a /\ c.size = xa /\ e.off = k.off + b /\ e.size = xb /\ k.off \in Nat
      BY <2>4, <2>5
    <3>2. /\ a \in Nat /\ b \in Nat /\ sa \in Nat /\ sb \in Nat /\ xa \in Nat /\ xb \in Nat
          /\ xa <= sa /\ xb <= sb /\ (a + sa <= b \/ b + sb <= a)
      BY <2>7, <2>8, <2>9
    <3>. HIDE DEF a, b, sa, sb, xa, xb
    <3>3. QED
      BY <3>1, <3>2 DEF Disjoint
  <2>11. <<"field", n>> # <<"field", m>>
    BY <2>3
  <2>12. QED
    BY <1>0, <2>4, <2>5, <2>10, <2>11, AppendSame
<1>2. CASE k.type.kind # "named"
  <2>1. PICK i : IRIndexPart(k, i, c)
    BY <1>2 DEF IRIsPart, IRFieldPart
  <2>2. PICK j : IRIndexPart(k, j, e)
    BY <1>2 DEF IRIsPart, IRFieldPart
  <2>3. i # j
    BY <2>1, <2>2 DEF IRIndexPart
  <2>. DEFINE s == Step
  <2>4. /\ c.path = Append(k.path, <<"index", i>>)
        /\ i \in Nat /\ c.off = k.off + i * s /\ c.size = s /\ s \in Nat /\ k.off \in Nat
    BY <2>1, IRIndexPartGood
  <2>5. /\ e.path = Append(k.path, <<"index", j>>)
        /\ j \in Nat /\ e.off = k.off + j * s /\ e.size = s
    BY <2>2, IRIndexPartGood
  <2>. HIDE DEF s
  <2>6. Disjoint(c, e)
    BY <2>3, <2>4, <2>5, StepsApart
  <2>8. <<"index", i>> # <<"index", j>>
    BY <2>3
  <2>9. QED
    BY <1>0, <2>4, <2>5, <2>6, <2>8, AppendSame
<1>3. QED
  BY <1>1, <1>2

-----------------------------------------------------------------------------
(* The same root, as IRBuilder has it.                                     *)
IRBase ==
  IF Heap
  THEN IRComponent(<<<<"deref">>>>, 0, Extent(NamedType(RootMeaning.to)),
                   NamedType(RootMeaning.to), <<RootMeaning.to>>)
  ELSE IRComponent(<<>>, 0, Extent(TheVariable.type), TheVariable.type, TheVariable.name)
IRRoom == IF Heap THEN Bytes(SizeOf(typeLayouts, RootMeaning.to)) ELSE TheVariable.size
IRAtHome(p) == IsPlace(p) /\ p.block = Block /\ p.depth = Depth /\ p.room = IRRoom
IRIn(d) ==
  /\ IRAtHome(d.ir) /\ DerefsOf(d.path) = Derefs
  /\ Step = 4 \/ d.path = <<>> \/ d.last = "index"
IRAll == {IRComp(d) : d \in {e \in Reached : e.irPlain /\ ~AtRoot(e)}} \cup {IRBase}

IRPlacing(N, d) ==
  /\ IRIn(d) /\ IRGood(N, IRComp(d))
  /\ IRComp(d) = IRBase \/ \E k \in IRAll : IRIsPart(k, IRComp(d))
IROK(N, d) ==
  /\ IsDesignator(d) /\ IsPath(d.path) /\ (d.path = <<>> => d = Start)
  /\ d.irPlain => AtRoot(d) \/ IRPlacing(N, d)

(* IRBuilder has a layout for a variable that is a pointer.                *)
LEMMA RootLaid ==
  ASSUME NEW N, IRReady(N), Heap
  PROVE  /\ RootMeaning.to \in DOMAIN env
         /\ PointsTo(TheVariable.name, <<RootMeaning.to>>)
         /\ <<NamedType(RootMeaning.to), <<RootMeaning.to>>, SizeOf(typeLayouts, RootMeaning.to)>>
              \in N
         /\ Meaning(NamedType(RootMeaning.to)) = env[RootMeaning.to]
<1>1. IRVariable(TheVariable, env, typeLayouts, owed)
  BY DEF IRReady
<1>2. Sized(N, env, typeLayouts, owed, Whole, TheVariable.type, TheVariable.name, TheVariable.size)
  BY DEF IRReady, AllSized
<1>3. RootMeaning.to \in owed /\ PointsTo(TheVariable.name, <<RootMeaning.to>>)
  <2>1. CASE TheVariable.type.kind = "named"
    <3>. DEFINE n == TheVariable.type.name
    <3>1. TheVariable.name = <<n>>
          /\ NamedLaid(N, env, typeLayouts, owed, Whole, n, TheVariable.size)
      BY <1>2, <2>1 DEF Sized
    <3>2. RootMeaning = env[n]
      BY <2>1 DEF RootMeaning, Meaning
    <3>. HIDE DEF n
    <3>3. /\ Has(typeLayouts, <<n>>, "pointer") /\ typeLayouts[<<n>>].pointee = <<env[n].to>>
          /\ env[n].to \in owed
      BY <3>1, <3>2 DEF NamedLaid, Heap
    <3>4. QED
      BY <3>1, <3>2, <3>3 DEF Has, PointsTo, IsLaid
  <2>2. CASE TheVariable.type.kind # "named"
    <3>1. RootMeaning = TheVariable.type
      BY <2>2 DEF RootMeaning, Meaning
    <3>2. /\ Has(typeLayouts, TheVariable.name, "pointer")
          /\ typeLayouts[TheVariable.name].pointee = <<TheVariable.type.to>>
          /\ TheVariable.type.to \in owed
      BY <1>1, <1>2, <3>1 DEF IRVariable, Sized, Heap
    <3>3. QED
      BY <3>1, <3>2 DEF Has, PointsTo, IsLaid
  <2>3. QED
    BY <2>1, <2>2
<1>4. RootMeaning.to \in DOMAIN env
  BY <1>1, <1>3 DEF IRVariable
<1>5. <<NamedType(RootMeaning.to), <<RootMeaning.to>>, SizeOf(typeLayouts, RootMeaning.to)>> \in N
  BY <1>4 DEF IRReady, NamesSized
<1>6. Meaning(NamedType(RootMeaning.to)) = env[RootMeaning.to]
  BY DEF Meaning, NamedType
<1>7. QED
  BY <1>3, <1>4, <1>5, <1>6

(* A type of the program at the start of a block is a component.           *)
LEMMA TypedGood ==
  ASSUME NEW N, IRReady(N), NEW path, IsPath(path), NEW t, NEW name, NEW size,
         <<t, name, size>> \in N, path = <<>> => t = TheVariable.type, path # <<>> => Step = 4,
         NEW c, c = IRComponent(path, 0, Extent(t), t, name)
  PROVE  IRGood(N, c)
<1>1. c.path = path /\ c.off = 0 /\ c.size = Extent(t) /\ c.type = t /\ c.name = name
  <2>. DEFINE s == Extent(t)
  <2>. HIDE DEF s
  <2>1. c = IRComponent(path, 0, s, t, name)
    BY DEF s
  <2>2. c.path = path /\ c.off = 0 /\ c.size = s /\ c.type = t /\ c.name = name
    BY <2>1, IRComponentIs
  <2>3. QED
    BY <2>2 DEF s
<1>2. Extent(t) \in Nat
  BY ExtentFits DEF IRReady
<1>3. Typed(N, t, name)
  BY DEF Typed
<1>4. Four(0) /\ 0 \in Nat
  BY FourIs
<1>5. QED
  BY <1>1, <1>2, <1>3, <1>4 DEF IRGood

(* Behind a pointer an index steps by a word.                              *)
LEMMA HeapStep ==
  ASSUME NEW N, IRReady(N), Heap
  PROVE  Step = 4
<1>1. Step \in {1, 4} /\ (Step = 1 => TheVariable.type.kind = "array")
  BY StepIs
<1>2. TheVariable.type.kind # "array"
  BY DEF Heap, RootMeaning, Meaning
<1>3. QED
  BY <1>1, <1>2

(* The variable, or what is behind it, is a component.                     *)
LEMMA IRBaseGood ==
  ASSUME NEW N, IRReady(N)
  PROVE  IRGood(N, IRBase)
<1>0. IsPath(<<>>) /\ IsPath(<<<<"deref">>>>) /\ <<<<"deref">>>> # <<>>
  <2>1. <<>> \in Seq({}) /\ <<<<"deref">>>> \in Seq({<<"deref">>})
    OBVIOUS
  <2>2. QED
    BY <2>1 DEF IsPath
<1>1. CASE Heap
  <2>. DEFINE P == <<<<"deref">>>>
              t == NamedType(RootMeaning.to)
              nm == <<RootMeaning.to>>
  <2>1. <<t, nm, SizeOf(typeLayouts, RootMeaning.to)>> \in N
    BY <1>1, RootLaid
  <2>2. IRBase = IRComponent(P, 0, Extent(t), t, nm)
    BY <1>1 DEF IRBase
  <2>3. Step = 4
    BY <1>1, HeapStep
  <2>4. IsPath(P) /\ P # <<>>
    BY <1>0
  <2>. HIDE DEF P, t, nm
  <2>5. QED
    BY <2>1, <2>2, <2>3, <2>4, TypedGood
<1>2. CASE ~Heap
  <2>1. <<TheVariable.type, TheVariable.name, TheVariable.size>> \in N
    BY DEF IRReady
  <2>2. IRBase = IRComponent(<<>>, 0, Extent(TheVariable.type), TheVariable.type, TheVariable.name)
    BY <1>2 DEF IRBase
  <2>3. QED
    BY <1>0, <2>1, <2>2, TypedGood
<1>3. QED
  BY <1>1, <1>2

(* The component a designator stands for.                                  *)
LEMMA IRCompIs ==
  ASSUME NEW d, NEW c, c = IRComp(d)
  PROVE  /\ c.path = d.path /\ c.off = d.ir.offset /\ c.type = d.type /\ c.name = d.name
         /\ c.size = IF d.last = "index" THEN Step ELSE Extent(d.type)
<1>. DEFINE s == IF d.last = "index" THEN Step ELSE Extent(d.type)
<1>1. c = IRComponent(d.path, d.ir.offset, s, d.type, d.name)
  BY DEF IRComp
<1>. HIDE DEF s
<1>2. c.path = d.path /\ c.off = d.ir.offset /\ c.type = d.type /\ c.name = d.name /\ c.size = s
  BY <1>1, IRComponentIs
<1>3. QED
  BY <1>2 DEF s

(* A part of a component, as an index or a field makes it.                 *)
LEMMA IRPartPlaced ==
  ASSUME NEW N, IRReady(N), NEW k \in IRAll, IRGood(N, k), NEW e,
         IRIsPart(k, IRComp(e)), IRIn(e)
  PROVE  IRPlacing(N, e)
<1>1. IRGood(N, IRComp(e))
  BY IRPartGood
<1>2. QED
  BY <1>1 DEF IRPlacing

(* The designator without selectors is placed well.                        *)
LEMMA StartIROK ==
  ASSUME NEW N, IRReady(N)
  PROVE  IROK(N, Start)
<1>1. CASE Heap
  BY <1>1, StartIs DEF IROK, AtRoot
<1>2. CASE ~Heap
  <2>0. Start.last = "none"
    BY DEF Start
  <2>1. IRComp(Start) = IRBase
    BY <1>2, <2>0, StartIs DEF IRComp, IRBase
  <2>2. IRGood(N, IRComp(Start))
    BY <2>1, IRBaseGood
  <2>3. IRAtHome(Start.ir)
    BY <1>2, StartIs DEF IRAtHome, Block, Depth, IRRoom
  <2>4. DerefsOf(Start.path) = Derefs
    <3>1. Len(Start.path) = 0 /\ 1..0 = {}
      BY StartIs
    <3>2. QED
      BY <1>2, <3>1 DEF DerefsOf, Derefs
  <2>5. Start.path = <<>>
    BY StartIs
  <2>6. IRPlacing(N, Start)
    BY <2>1, <2>2, <2>3, <2>4, <2>5 DEF IRPlacing, IRIn
  <2>7. QED
    BY <2>6, StartIs DEF IROK
<1>3. QED
  BY <1>1, <1>2

(* An index leaves a designator placed well.                               *)
LEMMA IndexIROK ==
  ASSUME NEW N, IRReady(N), NEW d \in Reached, IROK(N, d), Meaning(d.type).kind = "array",
         NEW i \in 0..(Meaning(d.type).len - 1), NEW e, e = Index(d, i)
  PROVE  IROK(N, e)
<1>0. IsDesignator(d) /\ IsPath(d.path)
  BY DEF IROK
<1>1. /\ IsDesignator(e) /\ e.last = "index"
      /\ e.path = Append(d.path, <<"index", i>>)
      /\ e.type = Meaning(d.type).elem
      /\ e.irPlain => /\ d.irPlain /\ d.type.kind # "named"
                      /\ \/ Meaning(Meaning(d.type).elem).kind \in {"word", "pointer"}
                         \/ d.path = <<>> /\ Meaning(Meaning(d.type).elem).kind = "char"
      /\ e.ir = Shift(d.ir, i * Step) /\ e.name = d.name
  BY <1>0, IndexIs
<1>2. <<"index", i>> # <<"deref">>
  OBVIOUS
<1>3. IsPath(e.path) /\ e.path # <<>> /\ DerefsOf(e.path) = DerefsOf(d.path)
  BY <1>0, <1>1, <1>2, DerefsAppend
<1>4. ASSUME e.irPlain  PROVE IRPlacing(N, e)
  <2>1. d.irPlain /\ d.type.kind # "named" /\ Meaning(d.type) = d.type
        /\ PlainElement(d.path, d.type)
    BY <1>1, <1>4 DEF Meaning, PlainElement, Scalars
  <2>2. ~AtRoot(d)
    BY StartIs DEF AtRoot, Heap, RootMeaning
  <2>3. IRPlacing(N, d)
    BY <2>1, <2>2 DEF IROK
  <2>. DEFINE k == IRComp(d)
              c == IRComp(e)
  <2>4. k \in IRAll /\ IRGood(N, k)
    BY <2>1, <2>2, <2>3 DEF IRAll, IRPlacing
  <2>5. k.path = d.path /\ k.off = d.ir.offset /\ k.type = d.type /\ k.name = d.name
    BY IRCompIs
  <2>. HIDE DEF k
  <2>6. IsPlace(d.ir)
    BY <2>3 DEF IRPlacing, IRIn, IRAtHome
  <2>7. /\ e.ir.offset = d.ir.offset + i * Step /\ IsPlace(e.ir)
        /\ e.ir.block = d.ir.block /\ e.ir.depth = d.ir.depth /\ e.ir.room = d.ir.room
    BY <1>1, <2>6, ShiftIs
  <2>8. c = IRIndexComp(k, i)
    BY <1>1, <2>1, <2>5, <2>7 DEF IRComp, IRIndexComp
  <2>9. IRIndexPart(k, i, c)
    BY <2>1, <2>5, <2>8 DEF IRIndexPart
  <2>10. IRIn(e)
    BY <1>1, <1>3, <2>3, <2>7 DEF IRPlacing, IRIn, IRAtHome
  <2>11. IRIsPart(k, c)
    BY <2>9 DEF IRIsPart
  <2>12. QED
    BY <2>4, <2>10, <2>11, IRPartPlaced
<1>5. QED
  BY <1>1, <1>3, <1>4 DEF IROK

(* A layout has the fields the record means.                               *)
LEMMA LaidDomain ==
  ASSUME NEW N, NEW whole, NEW meant, NEW laid, NEW hi, LaidGood(N, whole, meant, laid, hi)
  PROVE  DOMAIN laid = DOMAIN meant
BY DEF LaidGood, LaidBy

(* A field of a record leaves a designator placed well.                    *)
LEMMA RecordIROK ==
  ASSUME NEW N, IRReady(N), NEW d \in Reached, IROK(N, d), Meaning(d.type).kind = "record",
         NEW n \in DOMAIN Meaning(d.type).fields, NEW e, e = FieldOf(d, n)
  PROVE  IROK(N, e)
<1>0. IsDesignator(d) /\ IsPath(d.path)
  BY DEF IROK
<1>1. FieldIs(d, d, n, e)
  BY <1>0, FieldOfIs
<1>2. <<"field", n>> # <<"deref">>
  OBVIOUS
<1>3. IsPath(e.path) /\ e.path # <<>> /\ DerefsOf(e.path) = DerefsOf(d.path)
  BY <1>0, <1>1, <1>2, DerefsAppend DEF FieldIs
<1>4. ASSUME e.irPlain  PROVE IRPlacing(N, e)
  <2>1. d.irPlain /\ d.type.kind = "named" /\ ~Meaning(d.type).extends
    BY <1>1, <1>4 DEF FieldIs
  <2>2. ~AtRoot(d)
    BY StartIs DEF AtRoot, Heap, RootMeaning
  <2>3. IRPlacing(N, d)
    BY <2>1, <2>2 DEF IROK
  <2>. DEFINE k == IRComp(d)
              c == IRComp(e)
              laid == typeLayouts[d.name].fields
  <2>4. k \in IRAll /\ IRGood(N, k)
    BY <2>1, <2>2, <2>3 DEF IRAll, IRPlacing
  <2>5. k.path = d.path /\ k.off = d.ir.offset /\ k.type = d.type /\ k.name = d.name
    BY IRCompIs
  <2>. HIDE DEF k
  <2>6. /\ IsLaid(k.name, "record")
        /\ LaidGood(N, Whole, Meaning(k.type).fields, typeLayouts[k.name].fields, k.size)
    BY <2>1, <2>4, <2>5, RecordLaidOut
  <2>7. IsLaid(d.name, "record") /\ n \in DOMAIN laid
    BY <2>5, <2>6, LaidDomain
  <2>8. IsPlace(d.ir)
    BY <2>3 DEF IRPlacing, IRIn, IRAtHome
  <2>9. /\ e.ir = Shift(d.ir, laid[n].offset) /\ e.name = laid[n].name
        /\ e.path = Append(d.path, <<"field", n>>) /\ e.type = Meaning(d.type).fields[n]
        /\ e.last # "index"
    BY <1>1, <2>7 DEF FieldIs
  <2>10. /\ e.ir.offset = d.ir.offset + laid[n].offset /\ IsPlace(e.ir)
         /\ e.ir.block = d.ir.block /\ e.ir.depth = d.ir.depth /\ e.ir.room = d.ir.room
    BY <2>8, <2>9, ShiftIs
  <2>11. c = IRFieldComp(k, n)
    BY <2>5, <2>9, <2>10 DEF IRComp, IRFieldComp
  <2>12. IRFieldPart(k, n, c)
    BY <2>1, <2>5, <2>11 DEF IRFieldPart
  <2>13. Step = 4
    BY <2>4, <2>12, IRFieldPartGood
  <2>14. IRIn(e)
    BY <1>3, <2>3, <2>10, <2>13 DEF IRPlacing, IRIn, IRAtHome
  <2>15. IRIsPart(k, c)
    BY <2>12 DEF IRIsPart
  <2>16. QED
    BY <2>4, <2>14, <2>15, IRPartPlaced
<1>5. QED
  BY <1>1, <1>3, <1>4 DEF IROK, FieldIs

(* Through the variable, if that is a pointer: p^ and p.x.                 *)
LEMMA IRRootDeref ==
  ASSUME NEW N, IRReady(N), Heap, NEW q, q = Behind(Start.ir, irAllocSize(Start))
  PROVE  IRAtHome(q) /\ q.offset = 0 /\ DerefsOf(<<<<"deref">>>>) = Derefs
<1>. DEFINE to == <<RootMeaning.to>>
            nm == TheVariable.name
<1>1. PointsTo(nm, to)
  BY RootLaid
<1>2. SizeOf(typeLayouts, RootMeaning.to) =
        IF to \in DOMAIN typeLayouts THEN typeLayouts[to].size ELSE 4
  BY DEF SizeOf
<1>3. irAllocSize(Start) = Bytes(SizeOf(typeLayouts, RootMeaning.to))
  <2>1. irAllocSize(Start) = IF to \in DOMAIN typeLayouts THEN Bytes(typeLayouts[to].size) ELSE 4
    <3>1. /\ nm \in DOMAIN typeLayouts /\ typeLayouts[nm].kind = "pointer"
          /\ typeLayouts[nm].pointee = to
      BY <1>1 DEF PointsTo, IsLaid
    <3>2. Start.first # "field"
      BY StartIs
    <3>. HIDE DEF to
    <3>3. QED
      BY <3>1, <3>2 DEF irAllocSize
  <2>2. Bytes(4) = 4
    BY DEF Bytes
  <2>. HIDE DEF to
  <2>3. QED
    BY <1>2, <2>1, <2>2
<1>4. /\ IsPlace(q) /\ q.offset = 0 /\ q.room = Bytes(SizeOf(typeLayouts, RootMeaning.to))
      /\ q.block = <<Start.ir.block, Start.ir.offset>> /\ q.depth = Start.ir.depth + 1
  BY <1>3, BehindIs
<1>5. IRAtHome(q)
  BY <1>4, StartIs DEF IRAtHome, Block, Depth, IRRoom
<1>6. DerefsOf(<<<<"deref">>>>) = Derefs
  <2>. DEFINE p == <<<<"deref">>>>
  <2>1. Len(p) = 1 /\ p[1] = <<"deref">> /\ 1..1 = {1}
    OBVIOUS
  <2>. HIDE DEF p
  <2>2. DerefsOf(p) = {1}
    BY <2>1 DEF DerefsOf
  <2>3. QED
    BY <2>2 DEF Derefs, p
<1>7. QED
  BY <1>4, <1>5, <1>6

(* A pointer that a plain designator follows is the variable.              *)
LEMMA IRFromRoot ==
  ASSUME NEW N, NEW d, IROK(N, d), Meaning(d.type).kind = "pointer", d.path = <<>>
  PROVE  d = Start /\ Heap /\ Meaning(d.type) = RootMeaning
BY StartIs DEF IROK, Heap, RootMeaning

(* ^ leaves a designator placed well.                                      *)
LEMMA DerefIROK ==
  ASSUME NEW N, IRReady(N), NEW d \in Reached, IROK(N, d), Meaning(d.type).kind = "pointer",
         NEW e, e = Deref(d)
  PROVE  IROK(N, e)
<1>0. IsDesignator(d) /\ IsPath(d.path)
  BY DEF IROK
<1>1. /\ IsDesignator(e) /\ e.last # "index"
      /\ e.path = Append(d.path, <<"deref">>)
      /\ e.type = NamedType(Meaning(d.type).to)
      /\ e.irPlain => d.irPlain /\ d.path = <<>>
      /\ e.ir = Behind(d.ir, irAllocSize(d))
      /\ IsLaid(d.name, "pointer") => e.name = typeLayouts[d.name].pointee
  BY <1>0, DerefIs DEF NamedType
<1>2. IsPath(e.path) /\ e.path # <<>>
  <2>1. IsPath(e.path) /\ Len(d.path) \in Nat /\ Len(e.path) = Len(d.path) + 1
    BY <1>0, <1>1, PathAppend
  <2>2. QED
    BY <2>1
<1>3. ASSUME e.irPlain  PROVE IRPlacing(N, e)
  <2>1. d = Start /\ Heap /\ Meaning(d.type) = RootMeaning
    BY <1>1, <1>3, IRFromRoot
  <2>2. PointsTo(TheVariable.name, <<RootMeaning.to>>)
    BY <2>1, RootLaid
  <2>3. IRAtHome(e.ir) /\ e.ir.offset = 0 /\ DerefsOf(<<<<"deref">>>>) = Derefs
    BY <1>1, <2>1, IRRootDeref
  <2>4. e.path = <<<<"deref">>>>
    BY <1>1, <2>1, StartIs
  <2>5. e.name = <<RootMeaning.to>> /\ e.type = NamedType(RootMeaning.to)
    BY <1>1, <2>1, <2>2, StartIs DEF PointsTo
  <2>6. IRComp(e) = IRBase
    BY <1>1, <2>1, <2>3, <2>4, <2>5 DEF IRComp, IRBase
  <2>7. IRIn(e)
    BY <2>1, <2>3, <2>4, HeapStep DEF IRIn
  <2>8. IRGood(N, IRComp(e))
    BY <2>6, IRBaseGood
  <2>9. QED
    BY <2>6, <2>7, <2>8 DEF IRPlacing
<1>4. QED
  BY <1>1, <1>2, <1>3 DEF IROK

(* A field of what is behind a pointer leaves a designator placed well.    *)
LEMMA ThroughIROK ==
  ASSUME NEW N, IRReady(N), NEW d \in Reached, IROK(N, d), Meaning(d.type).kind = "pointer",
         env[Meaning(d.type).to].kind = "record",
         NEW n \in DOMAIN env[Meaning(d.type).to].fields, NEW e, e = FieldOf(d, n)
  PROVE  IROK(N, e)
<1>0. IsDesignator(d) /\ IsPath(d.path)
  BY DEF IROK
<1>. DEFINE m == MeansDeref(d)
<1>1. FieldIs(d, m, n, e)
  BY <1>0, FieldOfIs
<1>2. /\ m.path = Append(d.path, <<"deref">>)
      /\ m.type = NamedType(Meaning(d.type).to)
      /\ m.irPlain => d.irPlain /\ d.path = <<>>
  BY <1>0, MeansDerefIs DEF NamedType
<1>. HIDE DEF m
<1>3. <<"field", n>> # <<"deref">>
  OBVIOUS
<1>4. IsPath(m.path)
  BY <1>0, <1>2, PathAppend
<1>5. IsPath(e.path) /\ e.path # <<>> /\ DerefsOf(e.path) = DerefsOf(m.path)
  BY <1>1, <1>3, <1>4, DerefsAppend DEF FieldIs
<1>6. ASSUME e.irPlain  PROVE IRPlacing(N, e)
  <2>0. m.irPlain /\ m.type.kind = "named" /\ ~Meaning(m.type).extends
    BY <1>1, <1>6 DEF FieldIs
  <2>1. d = Start /\ Heap /\ Meaning(d.type) = RootMeaning
    BY <1>2, <2>0, IRFromRoot
  <2>. DEFINE to == <<RootMeaning.to>>
              t == NamedType(RootMeaning.to)
              k == IRBase
              c == IRComp(e)
              q == Behind(d.ir, irAllocSize(d))
              laid == typeLayouts[to].fields
  <2>2. PointsTo(d.name, to) /\ Meaning(t) = env[RootMeaning.to]
    BY <2>1, RootLaid, StartIs
  <2>3. IRAtHome(q) /\ q.offset = 0 /\ DerefsOf(<<<<"deref">>>>) = Derefs
    BY <2>1, IRRootDeref
  <2>4. m.path = <<<<"deref">>>> /\ m.type = t
    BY <1>2, <2>1, StartIs
  <2>5. k = IRComponent(m.path, 0, Extent(t), t, to)
    BY <2>1, <2>4 DEF IRBase
  <2>6. k \in IRAll /\ IRGood(N, k)
    BY IRBaseGood DEF IRAll
  <2>. HIDE DEF k, q
  <2>7. k.path = m.path /\ k.off = 0 /\ k.type = t /\ k.name = to
    <3>. DEFINE s == Extent(t)
    <3>. HIDE DEF s, t, to
    <3>1. k = IRComponent(m.path, 0, s, t, to)
      BY <2>5 DEF s
    <3>2. QED
      BY <3>1, IRComponentIs
  <2>8. /\ k.type.kind = "named" /\ Meaning(k.type).kind = "record" /\ ~Meaning(k.type).extends
        /\ n \in DOMAIN Meaning(k.type).fields
    BY <2>0, <2>1, <2>2, <2>4, <2>7
  <2>9. /\ IsLaid(k.name, "record")
        /\ LaidGood(N, Whole, Meaning(k.type).fields, typeLayouts[k.name].fields, k.size)
    BY <2>6, <2>8, RecordLaidOut
  <2>10. IsLaid(to, "record") /\ n \in DOMAIN laid
    BY <2>7, <2>8, <2>9, LaidDomain
  <2>. HIDE DEF to, t
  <2>11. /\ e.ir = Shift(q, laid[n].offset) /\ e.name = laid[n].name /\ e.last # "index"
    BY <1>1, <2>2, <2>10 DEF FieldIs, q
  <2>12. /\ e.ir.offset = q.offset + laid[n].offset /\ IsPlace(e.ir)
         /\ e.ir.block = q.block /\ e.ir.depth = q.depth /\ e.ir.room = q.room
    BY <2>3, <2>11, ShiftIs DEF IRAtHome
  <2>13. e.path = Append(k.path, <<"field", n>>) /\ e.type = Meaning(k.type).fields[n]
    BY <1>1, <2>4, <2>7 DEF FieldIs
  <2>14. c = IRFieldComp(k, n)
    BY <2>3, <2>7, <2>11, <2>12, <2>13 DEF IRComp, IRFieldComp
  <2>15. IRFieldPart(k, n, c)
    BY <2>8, <2>14 DEF IRFieldPart
  <2>16. IRIn(e)
    BY <1>5, <2>1, <2>3, <2>4, <2>12, HeapStep DEF IRIn, IRAtHome
  <2>17. IRIsPart(k, c)
    BY <2>15 DEF IRIsPart
  <2>18. QED
    BY <2>6, <2>16, <2>17, IRPartPlaced
<1>7. QED
  BY <1>1, <1>5, <1>6 DEF IROK, FieldIs

(* All designators are placed well.                                        *)
LEMMA AllIROK ==
  ASSUME NEW N, IRReady(N)
  PROVE  \A d \in Reached : IROK(N, d)
<1>. DEFINE S == {d \in Reached : IROK(N, d)}
<1>1. Start \in S
  BY StartIROK, StartReached
<1>2. ASSUME NEW d \in S \cap Reached, NEW e \in Selected(d) \cap Reached  PROVE e \in S
  <2>0. d \in Reached /\ IROK(N, d) /\ e \in Reached /\ e \in Selected(d)
    OBVIOUS
  <2>. DEFINE t == Meaning(d.type)
  <2>1. CASE t.kind = "array"
    <3>1. PICK i \in 0..(t.len - 1) : e = Index(d, i)
      BY <2>0, <2>1 DEF Selected
    <3>2. QED
      BY <2>0, <2>1, <3>1, IndexIROK
  <2>2. CASE t.kind = "record"
    <3>1. PICK n \in DOMAIN t.fields : e = FieldOf(d, n)
      BY <2>0, <2>2 DEF Selected
    <3>2. QED
      BY <2>0, <2>2, <3>1, RecordIROK
  <2>3. CASE t.kind = "pointer"
    <3>1. \/ e = Deref(d)
          \/ env[t.to].kind = "record" /\ \E n \in DOMAIN env[t.to].fields : e = FieldOf(d, n)
      BY <2>0, <2>3 DEF Selected
    <3>2. CASE e = Deref(d)
      BY <2>0, <2>3, <3>2, DerefIROK
    <3>3. CASE env[t.to].kind = "record" /\ \E n \in DOMAIN env[t.to].fields : e = FieldOf(d, n)
      <4>1. PICK n \in DOMAIN env[t.to].fields : e = FieldOf(d, n)
        BY <3>3
      <4>2. QED
        BY <2>0, <2>3, <3>3, <4>1, ThroughIROK
    <3>4. QED
      BY <3>1, <3>2, <3>3
  <2>4. t.kind \in {"array", "record", "pointer"}
    BY <2>0 DEF Selected
  <2>5. QED
    BY <2>1, <2>2, <2>3, <2>4
<1>. HIDE DEF S
<1>3. Reached \subseteq S
  BY <1>1, <1>2, ReachedInduction
<1>4. QED
  BY <1>3 DEF S

(* The components that designators reach are a family.                     *)
IRParts == {p \in IRAll \X IRAll : IRIsPart(p[1], p[2])}

(* What designators stand for are components, and parts of one another.    *)
LEMMA IRAllGood ==
  ASSUME NEW N, IRReady(N), NEW c \in IRAll
  PROVE  /\ IRGood(N, c)
         /\ c = IRBase \/ \E k \in IRAll : IRIsPart(k, c)
<1>1. CASE c = IRBase
  BY <1>1, IRBaseGood
<1>2. CASE c # IRBase
  <2>1. PICK d \in Reached : d.irPlain /\ ~AtRoot(d) /\ c = IRComp(d)
    BY <1>2 DEF IRAll
  <2>2. IROK(N, d)
    BY AllIROK
  <2>3. QED
    BY <2>1, <2>2 DEF IROK, IRPlacing
<1>3. QED
  BY <1>1, <1>2

(* The components that designators stand for are a family.                 *)
LEMMA IRAllFamily ==
  ASSUME NEW N, IRReady(N)
  PROVE  Family(IRAll, IRParts, IRBase)
<1>1. IRBase \in IRAll
  BY DEF IRAll
<1>2. ASSUME NEW c \in IRAll  PROVE IRGood(N, c) /\ Placed(c)
  <2>1. IRGood(N, c)
    BY IRAllGood
  <2>2. QED
    BY <2>1 DEF IRGood, Placed
<1>3. ASSUME NEW k \in IRAll, NEW c \in IRAll  PROVE <<k, c>> \in IRParts <=> IRIsPart(k, c)
  BY DEF IRParts
<1>4. ASSUME NEW c \in IRAll, c # IRBase  PROVE \E k \in IRAll : <<k, c>> \in IRParts
  BY <1>3, <1>4, IRAllGood
<1>5. ASSUME NEW k \in IRAll, NEW c \in IRAll, <<k, c>> \in IRParts
      PROVE  Longer(k.path, c.path) /\ Within(k, c)
  BY <1>2, <1>3, <1>5, IRPartGood
<1>6. ASSUME NEW k \in IRAll, NEW c \in IRAll, NEW e \in IRAll,
             <<k, c>> \in IRParts, <<k, e>> \in IRParts, c # e
      PROVE  c.path # e.path /\ Disjoint(c, e)
  BY <1>2, <1>3, <1>6, IRSiblingsApart
<1>. HIDE DEF IRAll, IRParts, IRBase
<1>7. QED
  BY <1>1, <1>2, <1>4, <1>5, <1>6 DEF Family

(* What a designator reads or writes is its component, and that has no     *)
(* parts.                                                                  *)
LEMMA IREndsWhere ==
  ASSUME NEW N, IRReady(N), NEW d, d.irPlain, IRPlacing(N, d), Ends(d), d.path = <<>> => d = Start
  PROVE  /\ irBytes(d) = IRComp(d).size /\ irBytes(d) \in {1, 4}
         /\ IRComp(d).off = d.ir.offset /\ IRComp(d).path = d.path /\ d.ir.offset \in Nat
         /\ Whole => d.ir.offset % irBytes(d) = 0
         /\ \A c : ~IRIsPart(IRComp(d), c)
<1>. DEFINE k == IRComp(d)
<1>1. /\ k.path = d.path /\ k.off = d.ir.offset /\ k.type = d.type /\ k.name = d.name
      /\ k.size = IF d.last = "index" THEN Step ELSE Extent(d.type)
  BY IRCompIs
<1>2. IRGood(N, k)
  BY DEF IRPlacing
<1>. HIDE DEF k
<1>3. d.ir.offset \in Nat /\ (Whole /\ Step = 4 => Four(d.ir.offset))
      /\ (Step = 4 \/ d.path = <<>> \/ d.last = "index")
  BY <1>1, <1>2 DEF IRGood, IRPlacing, IRIn
<1>4. \A c : ~IRIsPart(k, c)
  BY <1>1 DEF IRIsPart, IRFieldPart, IRIndexPart, Ends, Meaning
<1>5. Step = TheVariable.step /\ Step \in {1, 4}
      /\ (Step = 1 => TheVariable.type.kind = "array")
  BY StepIs
<1>6. CASE d.last = "index"
  <2>1. irBytes(d) = Step /\ k.size = Step
    BY <1>1, <1>5, <1>6 DEF irBytes
  <2>2. Whole => d.ir.offset % Step = 0
    <3>1. Step = 4 /\ Whole => d.ir.offset % 4 = 0
      BY <1>3, FourIs
    <3>2. d.ir.offset % 1 = 0
      BY <1>3
    <3>3. CASE Step = 4
      BY <3>1, <3>3
    <3>4. CASE Step = 1
      BY <3>2, <3>4
    <3>5. QED
      BY <1>5, <3>3, <3>4
  <2>3. QED
    BY <1>1, <1>3, <1>4, <1>5, <2>1, <2>2 DEF k
<1>7. CASE d.last # "index"
  <2>1. Step = 4
    <3>1. ASSUME d.path = <<>>  PROVE Step # 1
      <4>1. d.type = TheVariable.type
        BY <3>1, StartIs
      <4>2. QED
        BY <1>5, <4>1 DEF Ends, Meaning
    <3>2. QED
      BY <1>3, <1>5, <1>7, <3>1
  <2>2. irBytes(d) = 4
    BY <1>7 DEF irBytes
  <2>3. Extent(d.type) = 4
    <3>1. CASE d.type.kind = "named"
      <4>1. CASE Typed(N, d.type, d.name)
        <5>1. PICK size : <<d.type, d.name, size>> \in N
          BY <4>1 DEF Typed
        <5>2. Extent(d.type) = size
          BY <3>1, <5>1, ExtentFits DEF IRReady
        <5>3. Meaning(d.type).kind \in Scalars
          <6>1. Sized(N, env, typeLayouts, owed, Whole, d.type, d.name, size)
            BY <5>1 DEF IRReady, AllSized
          <6>2. env[d.type.name].kind \in Constructors
            BY <3>1, <6>1 DEF Sized, NamedLaid
          <6>3. QED
            BY <3>1, <6>2 DEF Ends, Meaning, Constructors, Scalars
        <5>4. QED
          BY <5>1, <5>2, <5>3, ScalarSize DEF IRReady
      <4>2. CASE k.size = Step
        BY <1>1, <1>7, <2>1, <4>2
      <4>3. QED
        BY <1>1, <1>2, <4>1, <4>2 DEF IRGood
    <3>2. CASE d.type.kind # "named"
      BY <3>2 DEF Ends, Meaning, Extent
    <3>3. QED
      BY <3>1, <3>2
  <2>4. Whole => d.ir.offset % 4 = 0
    BY <1>3, <2>1, FourIs
  <2>5. QED
    BY <1>1, <1>3, <1>4, <1>7, <2>2, <2>3, <2>4 DEF k
<1>8. QED
  BY <1>6, <1>7

(* There is room for what designators start from: what NEW allocates is    *)
(* enough.                                                                 *)
LEMMA IRRoomFor ==
  ASSUME NEW N, IRReady(N)
  PROVE  IRBase.off = 0 /\ IRBase.size \in Nat /\ IRRoom \in Nat /\ IRBase.size <= IRRoom
<1>1. CASE Heap
  <2>. DEFINE t == NamedType(RootMeaning.to)
              size == SizeOf(typeLayouts, RootMeaning.to)
              nm == <<RootMeaning.to>>
  <2>1. <<t, nm, size>> \in N
    BY <1>1, RootLaid
  <2>2. t.kind = "named"
    BY DEF NamedType
  <2>. DEFINE s == Extent(t)
              P == <<<<"deref">>>>
  <2>3. IRBase = IRComponent(P, 0, s, t, nm) /\ IRRoom = Bytes(size)
    BY <1>1 DEF IRBase, IRRoom
  <2>4. s \in Nat /\ s = size
    <3>. HIDE DEF t, nm, size
    <3>1. QED
      BY <2>1, <2>2, ExtentFits DEF IRReady
  <2>. HIDE DEF t, size, nm, s, P
  <2>5. IRBase.off = 0 /\ IRBase.size = s
    BY <2>3, IRComponentIs
  <2>. HIDE DEF IRBase, IRRoom
  <2>6. QED
    BY <2>3, <2>4, <2>5 DEF Bytes
<1>2. CASE ~Heap
  <2>1. <<TheVariable.type, TheVariable.name, TheVariable.size>> \in N
    BY DEF IRReady
  <2>2. Extent(TheVariable.type) \in Nat /\ TheVariable.size \in Positive
        /\ Extent(TheVariable.type) <= TheVariable.size
    BY <2>1, ExtentFits DEF IRReady
  <2>. DEFINE s == Extent(TheVariable.type)
  <2>3. IRBase = IRComponent(<<>>, 0, s, TheVariable.type, TheVariable.name)
        /\ IRRoom = TheVariable.size
    BY <1>2 DEF IRBase, IRRoom
  <2>4. s \in Nat /\ TheVariable.size \in Nat /\ s <= TheVariable.size
    BY <2>2 DEF Positive
  <2>. HIDE DEF s
  <2>5. IRBase.off = 0 /\ IRBase.size = s
    BY <2>3, IRComponentIs
  <2>. HIDE DEF IRBase, IRRoom
  <2>6. QED
    BY <2>3, <2>4, <2>5
<1>3. QED
  BY <1>1, <1>2

(* A variable that is a pointer takes a word.                              *)
LEMMA RootSize ==
  ASSUME NEW N, IRReady(N), Heap
  PROVE  TheVariable.size = 4
<1>1. <<TheVariable.type, TheVariable.name, TheVariable.size>> \in N
  BY DEF IRReady
<1>2. Meaning(TheVariable.type).kind \in Scalars
  BY DEF Heap, RootMeaning, Scalars
<1>3. QED
  BY <1>1, <1>2, ScalarSize DEF IRReady

(* A designator is inside its block, behind the pointers it names, at its  *)
(* alignment.                                                              *)
LEMMA IRPlacedWell ==
  ASSUME NEW N, IRReady(N), NEW d \in Designators, d.irPlain
  PROVE  WellPlaced(d, d.ir, irBytes(d))
<1>0. d \in Reached /\ Ends(d)
  BY DesignatorsReached DEF Designators, Ends
<1>1. IROK(N, d)
  BY <1>0, AllIROK
<1>2. CASE AtRoot(d)
  <2>1. Heap /\ d = Start
    BY <1>2 DEF AtRoot
  <2>2. TheVariable.size = 4
    BY <2>1, RootSize
  <2>3. irBytes(d) = 4 /\ d.ir.offset = 0 /\ d.ir.room = 4 /\ d.ir.depth = 0 /\ d.path = <<>>
    BY <2>1, <2>2, StartIs DEF irBytes
  <2>4. Follows(d) = 0
    <3>1. Len(d.path) = 0 /\ 1..0 = {}
      BY <2>3
    <3>2. Follows(d) = Cardinality({})
      BY <3>1 DEF Follows
    <3>3. QED
      BY <3>2, FS_EmptySet
  <2>5. QED
    BY <2>3, <2>4 DEF WellPlaced
<1>3. CASE ~AtRoot(d)
  <2>1. IRPlacing(N, d) /\ (d.path = <<>> => d = Start)
    BY <1>1, <1>3 DEF IROK
  <2>2. /\ irBytes(d) = IRComp(d).size /\ irBytes(d) \in {1, 4}
        /\ IRComp(d).off = d.ir.offset /\ d.ir.offset \in Nat
        /\ Whole => d.ir.offset % irBytes(d) = 0
    BY <1>0, <2>1, IREndsWhere
  <2>3. d.ir.depth = Depth /\ d.ir.room = IRRoom /\ DerefsOf(d.path) = Derefs
    BY <2>1 DEF IRPlacing, IRIn, IRAtHome
  <2>4. Family(IRAll, IRParts, IRBase) /\ IRComp(d) \in IRAll
    BY <1>0, <1>3, <2>3, IRAllFamily DEF IRAll
  <2>5. IRComp(d) = IRBase \/ Below(IRAll, IRParts, IRBase, IRComp(d))
    BY <2>4, FamilyBelow
  <2>6. IRBase.off = 0 /\ IRBase.size \in Nat /\ IRRoom \in Nat /\ IRBase.size <= IRRoom
    BY IRRoomFor
  <2>7. IRComp(d).off + IRComp(d).size <= IRBase.off + IRBase.size
    <3>1. CASE IRComp(d) = IRBase
      BY <2>2, <2>6, <3>1
    <3>2. CASE Below(IRAll, IRParts, IRBase, IRComp(d))
      BY <3>2 DEF Below, Within
    <3>3. QED
      BY <2>5, <3>1, <3>2
  <2>8. d.ir.offset + irBytes(d) <= d.ir.room
    <3>. HIDE DEF IRBase, IRRoom
    <3>1. QED
      BY <2>2, <2>3, <2>6, <2>7
  <2>9. d.ir.depth = Follows(d)
    BY <2>3, DerefsCounted
  <2>10. QED
    BY <2>2, <2>8, <2>9 DEF WellPlaced, Whole
<1>4. QED
  BY <1>2, <1>3

(* Two designators share a byte exactly when they mean the same            *)
(* component.                                                              *)
LEMMA IRSharedWhenSame ==
  ASSUME NEW N, IRReady(N), NEW d \in Designators, d.irPlain, NEW e \in Designators, e.irPlain
  PROVE  Share(d.ir, irBytes(d), e.ir, irBytes(e)) <=> d.path = e.path
<1>0. d \in Reached /\ Ends(d) /\ e \in Reached /\ Ends(e)
  BY DesignatorsReached DEF Designators, Ends
<1>1. IROK(N, d) /\ IROK(N, e)
  BY <1>0, AllIROK
<1>2. CASE AtRoot(d) /\ AtRoot(e)
  <2>1. d = Start /\ e = Start
    BY <1>2 DEF AtRoot
  <2>2. irBytes(Start) \in {1, 4} /\ Start.ir.offset = 0
    BY StartIs DEF irBytes
  <2>3. QED
    BY <2>1, <2>2 DEF Share
<1>3. ASSUME NEW x, NEW y, IROK(N, x), IROK(N, y), x.irPlain, y.irPlain, AtRoot(x), ~AtRoot(y)
      PROVE  x.path # y.path /\ x.ir.block # y.ir.block
  <2>1. x = Start /\ Heap
    BY <1>3 DEF AtRoot
  <2>2. y.path # <<>>
    BY <1>3, <2>1 DEF IROK, AtRoot
  <2>3. y.ir.block = <<<<>>, 0>>
    BY <1>3, <2>1 DEF IROK, IRPlacing, IRIn, IRAtHome, Block
  <2>4. <<>> # <<<<>>, 0>>
    OBVIOUS
  <2>5. x.path = <<>> /\ x.ir.block = <<>>
    BY <2>1, StartIs
  <2>6. QED
    BY <2>2, <2>3, <2>4, <2>5
<1>4. CASE AtRoot(d) /\ ~AtRoot(e)
  BY <1>1, <1>3, <1>4 DEF Share
<1>5. CASE ~AtRoot(d) /\ AtRoot(e)
  BY <1>1, <1>3, <1>5 DEF Share
<1>6. CASE ~AtRoot(d) /\ ~AtRoot(e)
  <2>1. /\ IRPlacing(N, d) /\ IRPlacing(N, e)
        /\ (d.path = <<>> => d = Start) /\ (e.path = <<>> => e = Start)
    BY <1>1, <1>6 DEF IROK
  <2>. DEFINE c == IRComp(d)
              k == IRComp(e)
  <2>2. /\ irBytes(d) = c.size /\ irBytes(d) \in {1, 4}
        /\ c.off = d.ir.offset /\ c.path = d.path /\ d.ir.offset \in Nat
        /\ \A x : ~IRIsPart(c, x)
    BY <1>0, <2>1, IREndsWhere
  <2>3. /\ irBytes(e) = k.size /\ irBytes(e) \in {1, 4}
        /\ k.off = e.ir.offset /\ k.path = e.path /\ e.ir.offset \in Nat
        /\ \A x : ~IRIsPart(k, x)
    BY <1>0, <2>1, IREndsWhere
  <2>4. d.ir.block = e.ir.block
    BY <2>1 DEF IRPlacing, IRIn, IRAtHome
  <2>5. Family(IRAll, IRParts, IRBase) /\ c \in IRAll /\ k \in IRAll
    BY <1>0, <1>6, IRAllFamily DEF IRAll
  <2>6. Related(IRAll, IRParts, c, k)
    BY <2>5, FamilyRelated
  <2>7. ~Below(IRAll, IRParts, c, k) /\ ~Below(IRAll, IRParts, k, c)
    BY <2>2, <2>3 DEF Below, IRParts
  <2>. HIDE DEF c, k, IRAll, IRParts, IRBase
  <2>8. CASE c = k
    <3>1. d.path = e.path /\ d.ir.offset = e.ir.offset /\ irBytes(d) = irBytes(e)
      BY <2>2, <2>3, <2>8
    <3>2. QED
      BY <2>2, <2>3, <2>4, <3>1 DEF Share
  <2>9. CASE Apart(c, k)
    <3>1. c.path # k.path /\ Disjoint(c, k)
      BY <2>9 DEF Apart
    <3>2. d.path # e.path
      BY <2>2, <2>3, <3>1
    <3>3. \/ d.ir.offset + irBytes(d) <= e.ir.offset
          \/ e.ir.offset + irBytes(e) <= d.ir.offset
      BY <2>2, <2>3, <3>1 DEF Disjoint
    <3>4. ~Share(d.ir, irBytes(d), e.ir, irBytes(e))
      BY <2>2, <2>3, <3>3 DEF Share
    <3>5. QED
      BY <3>2, <3>4
  <2>10. QED
    BY <2>6, <2>7, <2>8, <2>9 DEF Related
<1>7. QED
  BY <1>2, <1>4, <1>5, <1>6

(* Once the variable is declared its type has its size.                    *)
LEMMA VariableIRReady ==
  ASSUME IRInv, variable # {}
  PROVE  \E N : IRReady(N)
<1>1. TheVariable \in variable
  BY DEF TheVariable
<1>2. PICK N : IRModelled(N, env, typeLayouts, owed, inner, variable, ~ragged)
  BY DEF IRInv
<1>3. <<TheVariable.type, TheVariable.name, TheVariable.size>> \in N
  BY <1>1, <1>2 DEF IRModelled, Triples
<1>4. IRVariable(TheVariable, env, typeLayouts, owed)
  BY <1>1 DEF IRInv
<1>5. IRReady(N)
  BY <1>2, <1>3, <1>4 DEF IRReady, IRModelled, Whole
<1>6. QED
  BY <1>5

(* Through the IR the components of a variable are kept apart too: the     *)
(* addresses emitAddress of ir/IRBuilder.cpp computes, within the limits   *)
(* IRApart names.                                                          *)
THEOREM IRGenerator == Spec => []IRApart
<1>1. IRInv => IRApart
  <2>. SUFFICES ASSUME IRInv, variable # {}
                PROVE  LET all == {d \in Designators : d.irPlain}
                       IN  \A d \in all :
                             /\ WellPlaced(d, d.ir, irBytes(d))
                             /\ \A e \in all :
                                  Share(d.ir, irBytes(d), e.ir, irBytes(e)) <=> d.path = e.path
    BY DEF IRApart
  <2>1. PICK N : IRReady(N)
    BY VariableIRReady
  <2>2. \A d \in Designators : d.irPlain => WellPlaced(d, d.ir, irBytes(d))
    BY <2>1, IRPlacedWell
  <2>3. \A d, e \in Designators : d.irPlain /\ e.irPlain =>
          (Share(d.ir, irBytes(d), e.ir, irBytes(e)) <=> d.path = e.path)
    BY <2>1, IRSharedWhenSame
  <2>4. QED
    BY <2>2, <2>3
<1>2. QED
  BY <1>1, IRInvariant, PTL
=============================================================================

------------------------ MODULE ModuleLoader_proofs ------------------------
(***************************************************************************)
(* The loader is right for any number of modules, any imports among them   *)
(* and lists of any length.                                                *)
(*                                                                         *)
(* The argument: every loop but the outermost goes through the imports of  *)
(* a module that is already loaded, what a loop has behind it is loaded or *)
(* built in, and a module that is loaded but in no active loop has been    *)
(* gone through to its end or up to an import that cannot be loaded.       *)
(***************************************************************************)
EXTENDS ModuleLoader, TLAPS, SequenceTheorems

(* The names list[1] .. list[n - 1], which a loop at n has behind it, are   *)
(* in S or built in.                                                        *)
Known(S, list, n) == \A j \in 1 .. Len(list) : j < n => list[j] \in S \cup Builtins

FramesOK ==
  \A i \in 1 .. Len(stack) :
    /\ stack[i].next <= Len(stack[i].list) + 1
    /\ Known(Loaded, stack[i].list, stack[i].next)
    /\ i = 1 => stack[i].list = main
    /\ i # 1 => stack[i].of \in Loaded /\ stack[i].list = disk[stack[i].of].imports

(* A module whose imports have been gone through as far as possible. *)
Searched(m) ==
  \/ ImportsOf(m) \subseteq Loaded \cup Builtins
  \/ \E i \in ImportsOf(m) \cap Names : ~disk[i].usable

Active(m) == \E i \in 2 .. Len(stack) : stack[i].of = m

SearchedOrActive == \A m \in Loaded : disk[m].usable /\ (Searched(m) \/ Active(m))

MainKnown == result = "ok" => MainImports \subseteq Loaded \cup Builtins

IInv ==
  /\ TypeOK
  /\ CacheIndexesLoaded
  /\ NoReentry
  /\ FramesOK
  /\ SearchedOrActive
  /\ ImportersFirst
  /\ MainKnown

-----------------------------------------------------------------------------
(* The state while the loader runs *)

(* Import lists are sequences. *)
LEMMA ListIsSeq ==
  ASSUME NEW l \in ImportLists
  PROVE  l \in Seq(Names \cup Builtins) /\ Len(l) \in Nat
<1>1. PICK n \in 0 .. MaxImports : l \in [1 .. n -> Names \cup Builtins]
  BY DEF ImportLists
<1>2. n \in Nat  BY MaxImportsAssumption
<1>3. l \in Seq(Names \cup Builtins)  BY <1>1, <1>2
<1>4. QED  BY <1>3

(* Until main.cpp has its answer there is an innermost loop. *)
LEMMA Current ==
  ASSUME IInv, Running
  PROVE  /\ stack \in Seq(Frame)
         /\ Len(stack) \in Nat /\ Len(stack) > 0 /\ Len(stack) \in 1 .. Len(stack)
         /\ Top = stack[Len(stack)] /\ Top \in Frame
         /\ Top.list \in Seq(Names \cup Builtins) /\ Len(Top.list) \in Nat
         /\ Top.next \in Nat /\ Top.next > 0
<1>1. stack \in Seq(Frame) /\ stack # <<>>  BY DEF IInv, TypeOK
<1>2. Len(stack) \in Nat /\ Len(stack) > 0 /\ Len(stack) \in 1 .. Len(stack)  BY <1>1
<1>3. Top = stack[Len(stack)] /\ Top \in Frame  BY <1>1, <1>2 DEF Top
<1>4. Top.list \in ImportLists /\ Top.next \in Nat /\ Top.next > 0  BY <1>3 DEF Frame
<1>5. QED  BY <1>1, <1>2, <1>3, <1>4, ListIsSeq

(* The cache knows exactly the modules in loaded_. *)
LEMMA CachedIsLoaded ==
  ASSUME CacheIndexesLoaded
  PROVE  DOMAIN cache = Loaded
BY DEF CacheIndexesLoaded, Loaded

(* Going on to the next import changes one field of the innermost frame. *)
LEMMA AdvancedEffect ==
  ASSUME IInv, Running
  PROVE  /\ Advanced \in Seq(Frame)
         /\ Len(Advanced) = Len(stack)
         /\ \A i \in 1 .. Len(stack) : /\ Advanced[i].of = stack[i].of
                                       /\ Advanced[i].list = stack[i].list
                                       /\ i # Len(stack) => Advanced[i].next = stack[i].next
         /\ Advanced[Len(stack)].next = Top.next + 1
<1> DEFINE l == Len(stack)
           t == [stack[l] EXCEPT !.next = @ + 1]
<1>1. /\ stack \in Seq(Frame) /\ l \in Nat /\ l \in 1 .. l
      /\ Top = stack[l] /\ Top \in Frame
  BY Current
<1>2. /\ t \in Frame /\ t.of = stack[l].of /\ t.list = stack[l].list
      /\ t.next = Top.next + 1
  BY <1>1 DEF Frame
<1>3. Advanced = [stack EXCEPT ![l] = t]  BY <1>1 DEF Advanced
<1> HIDE DEF t
<1>4. QED  BY <1>1, <1>2, <1>3

(* A loop at the end of its list knows all of it. *)
LEMMA KnownAll ==
  ASSUME NEW S, NEW l \in ImportLists, NEW n \in Nat, n > Len(l), Known(S, l, n)
  PROVE  {l[k] : k \in 1 .. Len(l)} \subseteq S \cup Builtins
<1>1. Len(l) \in Nat  BY ListIsSeq
<1>2. ASSUME NEW k \in 1 .. Len(l)  PROVE l[k] \in S \cup Builtins
  BY <1>1 DEF Known
<1>3. QED  BY <1>2

-----------------------------------------------------------------------------
(* The steps of the loader *)

(* A step that only moves the innermost loop over a known import. *)
LEMMA Skips ==
  ASSUME IInv, Running, HasNext, Import \in Loaded \cup Builtins,
         stack' = Advanced, UNCHANGED <<disk, main, loaded, cache, result>>
  PROVE  IInv'
<1> DEFINE l == Len(stack)
<1>1. /\ disk' = disk /\ main' = main /\ loaded' = loaded
      /\ cache' = cache /\ result' = result
  OBVIOUS
<1>2. /\ l \in Nat /\ l > 0 /\ l \in 1 .. l /\ Top = stack[l]
      /\ Len(Top.list) \in Nat /\ Top.next \in Nat /\ stack' \in Seq(Frame)
      /\ Len(stack') = l /\ stack' # <<>>
      /\ \A i \in 1 .. l : /\ stack'[i].of = stack[i].of
                           /\ stack'[i].list = stack[i].list
                           /\ i # l => stack'[i].next = stack[i].next
      /\ stack'[l].next = Top.next + 1
  BY Current, AdvancedEffect
<1>3. Loaded' = Loaded /\ (\A m : ImportsOf(m)' = ImportsOf(m)) /\ MainImports' = MainImports
  BY <1>1 DEF Loaded, ImportsOf, MainImports
<1>4. TypeOK'
  BY <1>1, <1>2 DEF IInv, TypeOK, Running
<1>5. CacheIndexesLoaded'
  BY <1>1 DEF IInv, CacheIndexesLoaded
<1>6. NoReentry'
  BY <1>2 DEF IInv, NoReentry
<1>7. FramesOK'
  <2> SUFFICES ASSUME NEW i \in 1 .. l
               PROVE  /\ stack'[i].next <= Len(stack'[i].list) + 1
                      /\ Known(Loaded, stack[i].list, stack'[i].next)
                      /\ i = 1 => stack[i].list = main
                      /\ i # 1 => /\ stack[i].of \in Loaded
                                  /\ stack[i].list = disk[stack[i].of].imports
    BY ZenonT(60), <1>1, <1>2, <1>3 DEF FramesOK, Known
  <2>1. /\ stack[i].next <= Len(stack[i].list) + 1
        /\ Known(Loaded, stack[i].list, stack[i].next)
        /\ i = 1 => stack[i].list = main
        /\ i # 1 => /\ stack[i].of \in Loaded
                    /\ stack[i].list = disk[stack[i].of].imports
    BY DEF IInv, FramesOK
  <2>2. CASE i = l
    <3>1. Known(Loaded, Top.list, Top.next + 1)
      <4>1. Known(Loaded, Top.list, Top.next)  BY <2>1, <2>2, <1>2
      <4>2. Top.list[Top.next] \in Loaded \cup Builtins  BY DEF Import
      <4>3. SUFFICES ASSUME NEW j \in 1 .. Len(Top.list), j < Top.next + 1
                     PROVE  Top.list[j] \in Loaded \cup Builtins
        BY DEF Known
      <4>4. j < Top.next \/ j = Top.next  BY <4>3, <1>2
      <4>5. QED  BY <4>1, <4>2, <4>4 DEF Known
    <3>2. Top.next + 1 <= Len(Top.list) + 1  BY <1>2 DEF HasNext
    <3>3. QED  BY <2>1, <2>2, <3>1, <3>2, <1>2
  <2>3. CASE i # l  BY <2>1, <2>3, <1>2
  <2>4. QED  BY <2>2, <2>3
<1>8. SearchedOrActive'
  <2>1. \A m : Searched(m)' <=> Searched(m)  BY <1>1, <1>3 DEF Searched
  <2>2. \A m : Active(m) => Active(m)'  BY <1>2 DEF Active
  <2>3. QED  BY <2>1, <2>2, <1>1, <1>3 DEF IInv, SearchedOrActive
<1>9. ImportersFirst' /\ MainKnown'
  BY <1>1, <1>3 DEF IInv, ImportersFirst, MainKnown
<1>10. QED  BY <1>4, <1>5, <1>6, <1>7, <1>8, <1>9 DEF IInv

(* A builtin or cached import is known, so passing it keeps the invariant. *)
LEMMA StepSkip == ASSUME IInv, SkipBuiltin \/ CacheHit PROVE IInv'
<1>1. Import \in Loaded \cup Builtins
  BY CachedIsLoaded DEF IInv, SkipBuiltin, CacheHit
<1>2. QED  BY <1>1, Skips DEF SkipBuiltin, CacheHit

(* Opening a module records it and enters the loop over its imports. *)
LEMMA StepOpen == ASSUME IInv, Open PROVE IInv'
<1> DEFINE l == Len(stack)
           n == Len(loaded)
           f == [of |-> Import, list |-> disk[Import].imports, next |-> 1]
<1>1. /\ Running /\ HasNext /\ Import \in Names /\ Import \notin DOMAIN cache
      /\ disk[Import].usable
      /\ disk' = disk /\ main' = main /\ result' = result
      /\ loaded' = Append(loaded, Import)
      /\ cache' = Cached(Import, n + 1)
      /\ stack' = Append(Advanced, f)
  BY DEF Open, Opens, Descend
<1>2. /\ l \in Nat /\ l > 0 /\ l \in 1 .. l /\ Top = stack[l]
      /\ Len(Top.list) \in Nat /\ Top.next \in Nat
      /\ Advanced \in Seq(Frame) /\ Len(Advanced) = l
      /\ \A i \in 1 .. l : /\ Advanced[i].of = stack[i].of
                           /\ Advanced[i].list = stack[i].list
                           /\ i # l => Advanced[i].next = stack[i].next
      /\ Advanced[l].next = Top.next + 1
  BY <1>1, Current, AdvancedEffect
<1>3. /\ f \in Frame /\ f.of = Import /\ f.list = disk[Import].imports /\ f.next = 1
      /\ Len(f.list) \in Nat
  <2>1. disk[Import] \in File  BY <1>1 DEF IInv, TypeOK
  <2>2. disk[Import].imports \in ImportLists  BY <2>1 DEF File
  <2>3. f \in Frame  BY <1>1, <2>2 DEF Frame
  <2>4. QED  BY <2>2, <2>3, ListIsSeq
<1> HIDE DEF f
<1>4. /\ stack' \in Seq(Frame) /\ Len(stack') = l + 1 /\ stack' # <<>>
      /\ \A i \in 1 .. l : stack'[i] = Advanced[i]
      /\ stack'[l + 1] = f
  BY <1>1, <1>2, <1>3
<1>5. /\ loaded \in Seq(Names) /\ n \in Nat
      /\ loaded' \in Seq(Names) /\ Len(loaded') = n + 1
      /\ \A k \in 1 .. n : loaded'[k] = loaded[k]
      /\ loaded'[n + 1] = Import
  BY <1>1 DEF IInv, TypeOK
<1>6. /\ DOMAIN cache' = DOMAIN cache \cup {Import}
      /\ \A m \in DOMAIN cache : cache'[m] = cache[m]
      /\ cache'[Import] = n + 1
  BY <1>1 DEF Cached
<1>7. /\ Loaded' = Loaded \cup {Import} /\ Import \notin Loaded
      /\ \A m : ImportsOf(m)' = ImportsOf(m)
      /\ MainImports' = MainImports
  <2>1. \A k : k \in 1 .. n + 1 <=> k \in 1 .. n \/ k = n + 1  BY <1>5
  <2>2. Loaded' = Loaded \cup {Import}  BY <2>1, <1>5 DEF Loaded
  <2>3. Import \notin Loaded  BY <1>1, CachedIsLoaded DEF IInv
  <2>4. QED  BY <2>2, <2>3, <1>1 DEF ImportsOf, MainImports
<1>8. TypeOK'
  BY <1>1, <1>4, <1>5, <1>6 DEF IInv, TypeOK, Running
<1>9. CacheIndexesLoaded'
  <2>1. ASSUME NEW m \in DOMAIN cache'
        PROVE  cache'[m] \in 1 .. n + 1 /\ loaded'[cache'[m]] = m
    <3>1. CASE m = Import  BY <3>1, <1>5, <1>6
    <3>2. CASE m # Import
      <4>1. m \in DOMAIN cache /\ cache'[m] = cache[m]  BY <3>2, <1>6
      <4>2. cache[m] \in 1 .. n /\ loaded[cache[m]] = m
        BY <4>1 DEF IInv, CacheIndexesLoaded
      <4>3. QED  BY <4>1, <4>2, <1>5
    <3>3. QED  BY <3>1, <3>2
  <2>2. ASSUME NEW k \in 1 .. n + 1
        PROVE  loaded'[k] \in DOMAIN cache' /\ cache'[loaded'[k]] = k
    <3>1. CASE k = n + 1  BY <3>1, <1>5, <1>6
    <3>2. CASE k # n + 1
      <4>1. k \in 1 .. n /\ loaded'[k] = loaded[k]  BY <3>2, <1>5
      <4>2. loaded[k] \in DOMAIN cache /\ cache[loaded[k]] = k
        BY <4>1 DEF IInv, CacheIndexesLoaded
      <4>3. QED  BY <4>1, <4>2, <1>6
    <3>3. QED  BY <3>1, <3>2
  <2>3. QED  BY <2>1, <2>2, <1>5 DEF CacheIndexesLoaded
<1>10. \A i \in 2 .. l : stack[i].of \in Loaded
  BY <1>2 DEF IInv, FramesOK
<1>11. NoReentry'
  <2> SUFFICES ASSUME NEW i \in 2 .. l + 1, NEW j \in 2 .. l + 1, i # j
               PROVE  stack'[i].of # stack'[j].of
    BY <1>4 DEF NoReentry
  <2>1. CASE i \in 2 .. l /\ j \in 2 .. l
    <3>1. stack[i].of # stack[j].of  BY <2>1 DEF IInv, NoReentry
    <3>2. QED  BY <2>1, <3>1, <1>2, <1>4
  <2>2. CASE i = l + 1
    <3>1. j \in 2 .. l  BY <2>2, <1>2
    <3>2. QED  BY SMTT(60), <2>2, <3>1, <1>2, <1>3, <1>4, <1>7, <1>10
  <2>3. CASE j = l + 1
    <3>1. i \in 2 .. l  BY <2>3, <1>2
    <3>2. QED  BY SMTT(60), <2>3, <3>1, <1>2, <1>3, <1>4, <1>7, <1>10
  <2>4. QED  BY SMTT(60), <2>1, <2>2, <2>3, <1>2
<1>12. FramesOK'
  <2> SUFFICES ASSUME NEW i \in 1 .. l + 1
               PROVE  /\ stack'[i].next <= Len(stack'[i].list) + 1
                      /\ Known(Loaded', stack'[i].list, stack'[i].next)
                      /\ i = 1 => stack'[i].list = main
                      /\ i # 1 => /\ stack'[i].of \in Loaded'
                                  /\ stack'[i].list = disk[stack'[i].of].imports
    BY <1>1, <1>4 DEF FramesOK, Known
  <2>1. CASE i = l + 1
    <3>1. Known(Loaded', f.list, 1)  BY <1>3 DEF Known
    <3>2. i # 1  BY <2>1, <1>2
    <3>3. QED  BY <2>1, <3>1, <3>2, <1>3, <1>4, <1>7 DEF Known
  <2>2. CASE i # l + 1
    <3>1. i \in 1 .. l /\ stack'[i] = Advanced[i]  BY <2>2, <1>2, <1>4
    <3>2. /\ stack[i].next <= Len(stack[i].list) + 1
          /\ Known(Loaded, stack[i].list, stack[i].next)
          /\ i = 1 => stack[i].list = main
          /\ i # 1 => /\ stack[i].of \in Loaded
                      /\ stack[i].list = disk[stack[i].of].imports
      BY <3>1 DEF IInv, FramesOK
    <3>3. CASE i = l
      <4>1. \A j \in 1 .. Len(Top.list) : j < Top.next + 1 => Top.list[j] \in Loaded' \cup Builtins
        <5>1. Known(Loaded, Top.list, Top.next)  BY <3>2, <3>3, <1>2
        <5>2. Top.list[Top.next] \in Loaded'  BY <1>7 DEF Import
        <5> SUFFICES ASSUME NEW j \in 1 .. Len(Top.list), j < Top.next + 1
                     PROVE  Top.list[j] \in Loaded' \cup Builtins
          OBVIOUS
        <5>3. j < Top.next \/ j = Top.next  BY <1>2
        <5>4. QED  BY <5>1, <5>2, <5>3, <1>7 DEF Known
      <4>2. Top.next + 1 <= Len(Top.list) + 1  BY <1>1, <1>2 DEF HasNext
      <4>3. QED  BY SMTT(60), <3>1, <3>2, <3>3, <4>1, <4>2, <1>2, <1>7 DEF Known
    <3>4. CASE i # l  BY <3>1, <3>2, <3>4, <1>2, <1>7 DEF Known
    <3>5. QED  BY <3>3, <3>4
  <2>3. QED  BY <2>1, <2>2
<1>13. SearchedOrActive'
  <2> SUFFICES ASSUME NEW m \in Loaded'
               PROVE  disk[m].usable /\ (Searched(m)' \/ Active(m)')
    BY <1>1 DEF SearchedOrActive
  <2>1. CASE m = Import
    <3>1. Active(m)'  BY <2>1, <1>2, <1>3, <1>4 DEF Active
    <3>2. QED  BY <2>1, <3>1, <1>1
  <2>2. CASE m # Import
    <3>1. disk[m].usable /\ (Searched(m) \/ Active(m))
      BY <2>2, <1>7 DEF IInv, SearchedOrActive
    <3>2. Searched(m) => Searched(m)'  BY <1>1, <1>7 DEF Searched
    <3>3. Active(m) => Active(m)'  BY <1>2, <1>4 DEF Active
    <3>4. QED  BY <3>1, <3>2, <3>3
  <2>3. QED  BY <2>1, <2>2
<1>14. ImportersFirst'
  <2> SUFFICES ASSUME NEW k \in 1 .. n + 1
               PROVE  \/ loaded'[k] \in MainImports
                      \/ \E j \in 1 .. k - 1 : loaded'[k] \in ImportsOf(loaded'[j])
    <3>1. disk' = disk /\ main' = main /\ Len(loaded') = n + 1  BY <1>1, <1>5
    <3> HIDE DEF n
    <3>2. QED  BY <3>1 DEF ImportersFirst, MainImports, ImportsOf
  <2>1. CASE k = n + 1
    <3>1. Top.next \in 1 .. Len(Top.list)
      BY <1>1, <1>2, Current DEF HasNext
    <3>2. CASE l = 1
      <4>1. Top.list = main  BY <3>2, <1>2 DEF IInv, FramesOK
      <4>2. QED  BY <2>1, <3>1, <4>1, <1>5 DEF Import, MainImports
    <3>3. CASE l # 1
      <4>1. Top.of \in Loaded /\ Top.list = disk[Top.of].imports
        BY <3>3, <1>2 DEF IInv, FramesOK
      <4>2. PICK j \in 1 .. n : loaded[j] = Top.of  BY <4>1 DEF Loaded
      <4>3. j \in 1 .. k - 1 /\ loaded'[j] = Top.of  BY <2>1, <4>2, <1>5
      <4>4. loaded'[k] \in ImportsOf(Top.of)
        BY <2>1, <3>1, <4>1, <1>5 DEF Import, ImportsOf
      <4>5. QED  BY <4>3, <4>4
    <3>4. QED  BY <3>2, <3>3
  <2>2. CASE k # n + 1
    <3>1. k \in 1 .. n  BY <2>2, <1>5
    <3>2. \/ loaded[k] \in MainImports
          \/ \E j \in 1 .. k - 1 : loaded[k] \in ImportsOf(loaded[j])
      BY <3>1 DEF IInv, ImportersFirst
    <3>3. \A j \in 1 .. k - 1 : loaded'[j] = loaded[j]  BY <3>1, <1>5
    <3>4. QED  BY <3>1, <3>2, <3>3, <1>5
  <2>3. QED  BY <2>1, <2>2
<1>15. MainKnown'
  BY <1>1 DEF MainKnown, Running
<1>16. QED  BY <1>8, <1>9, <1>11, <1>12, <1>13, <1>14, <1>15 DEF IInv

(* When a loop returns, the module it was for has been searched. *)
LEMMA Returns ==
  ASSUME IInv, Running, NEW answer \in {"ok", "failed"}, Return(answer),
         answer = "ok" => ~HasNext,
         answer = "failed" => HasNext /\ Import \in Names /\ ~disk[Import].usable
  PROVE  IInv'
<1> DEFINE l == Len(stack)
<1>1. /\ disk' = disk /\ main' = main /\ loaded' = loaded /\ cache' = cache
      /\ stack' = SubSeq(stack, 1, l - 1)
      /\ result' = IF l = 1 THEN answer ELSE "running"
  BY DEF Return
<1>2. /\ stack \in Seq(Frame) /\ l \in Nat /\ l > 0 /\ l \in 1 .. l /\ Top = stack[l]
      /\ Top \in Frame /\ Len(Top.list) \in Nat /\ Top.next \in Nat /\ Top.next > 0
  BY Current
<1>3. /\ stack' \in Seq(Frame) /\ Len(stack') = l - 1
      /\ \A i \in 1 .. l - 1 : stack'[i] = stack[i]
  <2>1. 1 \in Int /\ l - 1 \in Int /\ \A i \in 1 .. l - 1 : stack[i] \in Frame
    BY <1>2
  <2>2. /\ stack' \in Seq(Frame)
        /\ Len(stack') = IF 1 <= l - 1 THEN (l - 1) - 1 + 1 ELSE 0
        /\ \A i \in 1 .. (l - 1) - 1 + 1 : stack'[i] = stack[1 + i - 1]
    BY <1>1, <2>1, SubSeqProperties
  <2>3. Len(stack') = l - 1
    <3>1. \A q \in Nat : q > 0 => q - 1 = IF 1 <= q - 1 THEN (q - 1) - 1 + 1 ELSE 0
      OBVIOUS
    <3>2. l \in Nat /\ l > 0  BY <1>2
    <3> HIDE DEF l
    <3>3. l - 1 = IF 1 <= l - 1 THEN (l - 1) - 1 + 1 ELSE 0  BY <3>1, <3>2
    <3>4. QED  BY <2>2, <3>3
  <2>4. ASSUME NEW i \in 1 .. l - 1  PROVE stack'[i] = stack[i]
    <3>1. i \in 1 .. (l - 1) - 1 + 1 /\ 1 + i - 1 = i  BY <1>2
    <3>2. QED  BY <3>1, <2>2
  <2>5. QED  BY <2>2, <2>3, <2>4
<1>4. stack' # <<>> <=> l # 1  BY <1>2, <1>3
<1>5. Loaded' = Loaded /\ (\A m : ImportsOf(m)' = ImportsOf(m)) /\ MainImports' = MainImports
  BY <1>1 DEF Loaded, ImportsOf, MainImports
<1>6. Known(Loaded, Top.list, Top.next) /\ Top.list \in ImportLists
  BY <1>2 DEF IInv, FramesOK, Frame
<1>7. answer = "ok" => {Top.list[k] : k \in 1 .. Len(Top.list)} \subseteq Loaded \cup Builtins
  BY <1>2, <1>6, KnownAll DEF HasNext
<1>8. TypeOK'
  BY <1>1, <1>3, <1>4 DEF IInv, TypeOK, Running
<1>9. CacheIndexesLoaded'
  BY <1>1 DEF IInv, CacheIndexesLoaded
<1>10. NoReentry'
  BY <1>2, <1>3 DEF IInv, NoReentry
<1>11. FramesOK'
  BY <1>1, <1>2, <1>3, <1>5 DEF IInv, FramesOK, Known
<1>12. l # 1 => Searched(Top.of)
  <2> SUFFICES ASSUME l # 1  PROVE Searched(Top.of)
    OBVIOUS
  <2>1. Top.list = disk[Top.of].imports  BY <1>2 DEF IInv, FramesOK
  <2>2. CASE answer = "ok"  BY <2>1, <2>2, <1>7 DEF Searched, ImportsOf
  <2>3. CASE answer = "failed"
    <3>1. Import \in ImportsOf(Top.of)
      BY SMTT(60), <2>1, <2>3, <1>2 DEF Import, ImportsOf, HasNext
    <3>2. QED  BY <2>3, <3>1 DEF Searched
  <2>4. QED  BY <2>2, <2>3
<1>13. SearchedOrActive'
  <2> SUFFICES ASSUME NEW m \in Loaded
               PROVE  disk[m].usable /\ (Searched(m) \/ Active(m)')
    BY <1>1, <1>5 DEF SearchedOrActive, Searched
  <2>1. disk[m].usable /\ (Searched(m) \/ Active(m))  BY DEF IInv, SearchedOrActive
  <2>2. ASSUME Active(m)  PROVE Searched(m) \/ Active(m)'
    <3>1. PICK i \in 2 .. l : stack[i].of = m  BY <2>2 DEF Active
    <3>2. CASE i = l  BY <3>1, <3>2, <1>2, <1>12
    <3>3. CASE i # l  BY <3>1, <3>3, <1>2, <1>3 DEF Active
    <3>4. QED  BY <3>2, <3>3
  <2>3. QED  BY <2>1, <2>2
<1>14. ImportersFirst'
  BY <1>1, <1>5 DEF IInv, ImportersFirst
<1>15. MainKnown'
  <2> SUFFICES ASSUME result' = "ok"  PROVE MainImports \subseteq Loaded \cup Builtins
    BY <1>5 DEF MainKnown
  <2>1. l = 1 /\ answer = "ok"  BY <1>1
  <2>2. Top.list = main  BY <2>1, <1>2 DEF IInv, FramesOK
  <2>3. QED  BY <2>1, <2>2, <1>7 DEF MainImports
<1>16. QED  BY <1>8, <1>9, <1>10, <1>11, <1>13, <1>14, <1>15 DEF IInv

(* A failed import and the end of the list both end the innermost loop.    *)
LEMMA StepReturn == ASSUME IInv, Abandon \/ Complete PROVE IInv'
<1>1. CASE Abandon  BY <1>1, Returns DEF Abandon
<1>2. CASE Complete  BY <1>2, Returns DEF Complete
<1>3. QED  BY <1>1, <1>2

-----------------------------------------------------------------------------
(* The theorems *)

(* Before the first import nothing is loaded. *)
LEMMA Initially == Init => IInv
<1> SUFFICES ASSUME Init  PROVE IInv
  OBVIOUS
<1> DEFINE f == [of |-> Root, list |-> main, next |-> 1]
<1>1. /\ main \in ImportLists /\ loaded = <<>> /\ cache = <<>> /\ result = "running"
      /\ disk \in [Names -> File] /\ stack = <<f>>
  BY DEF Init
<1>2. f \in Frame /\ f.list = main /\ f.next = 1 /\ Len(main) \in Nat
  BY <1>1, RootAssumption, ListIsSeq DEF Frame
<1> HIDE DEF f
<1>3. /\ stack \in Seq(Frame) /\ Len(stack) = 1 /\ stack[1] = f /\ stack # <<>>
      /\ loaded \in Seq(Names) /\ Len(loaded) = 0 /\ DOMAIN cache = {}
  BY <1>1, <1>2
<1>4. Loaded = {}  BY <1>3 DEF Loaded
<1>5. TypeOK  BY <1>1, <1>3 DEF TypeOK, Running
<1>6. CacheIndexesLoaded /\ ImportersFirst
  BY <1>3 DEF CacheIndexesLoaded, ImportersFirst
<1>7. NoReentry  BY <1>3 DEF NoReentry
<1>8. FramesOK  BY <1>2, <1>3 DEF FramesOK, Known
<1>9. SearchedOrActive /\ MainKnown
  BY <1>1, <1>4 DEF SearchedOrActive, MainKnown
<1>10. QED  BY <1>5, <1>6, <1>7, <1>8, <1>9 DEF IInv

(* The invariant depends on the variables only. *)
LEMMA Stays == ASSUME IInv, UNCHANGED vars PROVE IInv'
<1>1. /\ disk' = disk /\ main' = main /\ loaded' = loaded
      /\ cache' = cache /\ stack' = stack /\ result' = result
  BY DEF vars
<1>2. TypeOK'  BY <1>1 DEF IInv, TypeOK, Running
<1>3. CacheIndexesLoaded' /\ NoReentry'
  BY <1>1 DEF IInv, CacheIndexesLoaded, NoReentry
<1>4. FramesOK'  BY ZenonT(60), <1>1 DEF IInv, FramesOK, Known, Loaded
<1>5. SearchedOrActive'
  BY SMTT(60), <1>1 DEF IInv, SearchedOrActive, Searched, Active, Loaded, ImportsOf
<1>6. ImportersFirst' /\ MainKnown'
  BY <1>1 DEF IInv, ImportersFirst, MainKnown, MainImports, Loaded, ImportsOf
<1>7. QED  BY <1>2, <1>3, <1>4, <1>5, <1>6 DEF IInv

(* Every step of the loader preserves the invariant. *)
LEMMA Inductive == IInv /\ [Next]_vars => IInv'
<1> SUFFICES ASSUME IInv, [Next]_vars  PROVE IInv'
  OBVIOUS
<1>1. CASE SkipBuiltin \/ CacheHit  BY <1>1, StepSkip
<1>2. CASE Open  BY <1>2, StepOpen
<1>3. CASE Abandon \/ Complete  BY <1>3, StepReturn
<1>4. CASE Finished \/ UNCHANGED vars  BY <1>4, Stays DEF Finished
<1>5. QED  BY <1>1, <1>2, <1>3, <1>4 DEF Next

(* The invariant behind the theorems holds of every run of the loader. *)
THEOREM LoaderInvariant == Spec => []IInv
BY Initially, Inductive, PTL DEF Spec

(* TypeCorrect: the containers keep their shapes, and main.cpp has its     *)
(* answer exactly when no loop is active.                                  *)
THEOREM TypeCorrect == Spec => []TypeOK
<1>1. IInv => TypeOK  BY DEF IInv
<1>2. QED  BY <1>1, LoaderInvariant, PTL

(* ParsedOnce: for any modules and imports, cache_ and loaded_ agree and   *)
(* no module is kept twice.                                                *)
THEOREM ParsedOnce == Spec => []CacheIndexesLoaded
<1>1. IInv => CacheIndexesLoaded  BY DEF IInv
<1>2. QED  BY <1>1, LoaderInvariant, PTL

(* CyclesAreCut: for any imports, cyclic ones included, no module's        *)
(* imports are gone through by two active loops.                           *)
THEOREM CyclesAreCut == Spec => []NoReentry
<1>1. IInv => NoReentry  BY DEF IInv
<1>2. QED  BY <1>1, LoaderInvariant, PTL

(* OrderOfLoading: every module is listed behind one that imports it.      *)
THEOREM OrderOfLoading == Spec => []ImportersFirst
<1>1. IInv => ImportersFirst  BY DEF IInv
<1>2. QED  BY <1>1, LoaderInvariant, PTL

(* OnlyUnusableIsMissing: on success, what is not loaded is missing        *)
(* because of an import that cannot be loaded, and never one of the main   *)
(* module.                                                                 *)
THEOREM OnlyUnusableIsMissing == Spec => []NothingLost
<1>1. IInv => NothingLost
  <2> SUFFICES ASSUME IInv, result = "ok"  PROVE NothingLost
    BY DEF NothingLost
  <2>1. MainImports \subseteq Loaded \cup Builtins  BY DEF IInv, MainKnown
  <2>2. stack \in Seq(Frame) /\ stack = <<>>  BY DEF IInv, TypeOK, Running
  <2>3. \A m : ~Active(m)  BY <2>2 DEF Active
  <2>4. QED  BY <2>1, <2>3 DEF IInv, SearchedOrActive, Searched, NothingLost
<1>2. QED  BY <1>1, LoaderInvariant, PTL

(* The loader implements the initial states and the steps of the search;   *)
(* that it also ends is left to the model checker.                         *)
THEOREM StepsOfSearch == Spec => Search!Init /\ [][Search!Next]_(Search!vars)
<1> DEFINE usable  == {m \in Names : disk[m].usable}
           imports == [m \in Names |-> ImportsOf(m)]
<1>1. Init => Search!Init
  <2> SUFFICES ASSUME Init  PROVE Search!Init
    OBVIOUS
  <2>1. ASSUME NEW l \in ImportLists
        PROVE  {l[k] : k \in 1 .. Len(l)} \subseteq Names \cup Builtins
    BY <2>1, ListIsSeq
  <2>2. main \in ImportLists /\ disk \in [Names -> File] /\ cache = <<>> /\ result = "running"
    BY DEF Init
  <2>3. MainImports \subseteq Names \cup Builtins  BY <2>1, <2>2 DEF MainImports
  <2>4. \A m \in Names : ImportsOf(m) \subseteq Names \cup Builtins
    BY <2>1, <2>2 DEF ImportsOf, File
  <2>5. DOMAIN cache = {}  BY <2>2
  <2>6. QED  BY <2>2, <2>3, <2>4, <2>5 DEF Search!Init
<1>2. ASSUME IInv, [Next]_vars
      PROVE  [Search!Next]_(Search!vars)
  <2> DEFINE same == /\ usable' = usable /\ imports' = imports
                     /\ MainImports' = MainImports
  <2>1. (disk' = disk /\ main' = main) => same  BY DEF ImportsOf, MainImports
  <2>2. CASE Open
    <3>1. /\ Running /\ HasNext /\ Import \in Names \ DOMAIN cache
          /\ disk[Import].usable /\ disk' = disk /\ main' = main /\ result' = result
      BY <2>2 DEF Open, Opens
    <3>2. DOMAIN cache' = DOMAIN cache \cup {Import}
      BY <2>2 DEF Open, Cached
    <3>3. Top.next \in 1 .. Len(Top.list) /\ Top = stack[Len(stack)]
          /\ Len(stack) \in 1 .. Len(stack)
      BY <1>2, <3>1, Current DEF HasNext
    <3>4. Import \in MainImports \/ \E n \in DOMAIN cache : Import \in imports[n]
      <4>1. CASE Len(stack) = 1
        <5>1. Top.list = main  BY <1>2, <4>1, <3>3 DEF IInv, FramesOK
        <5>2. QED  BY <3>3, <5>1 DEF Import, MainImports
      <4>2. CASE Len(stack) # 1
        <5>1. Top.of \in Loaded /\ Top.list = disk[Top.of].imports
          BY <1>2, <4>2, <3>3 DEF IInv, FramesOK
        <5>2. Top.of \in DOMAIN cache /\ Top.of \in Names
          BY <1>2, <5>1, CachedIsLoaded DEF IInv, TypeOK
        <5>3. QED  BY <3>3, <5>1, <5>2 DEF Import, ImportsOf
      <4>3. QED  BY <4>1, <4>2
    <3>5. Search!Discover(Import)
      BY <2>1, <3>1, <3>2, <3>4 DEF Search!Discover, Running
    <3>6. QED  BY <3>1, <3>5 DEF Search!Next
  <2>3. CASE Abandon \/ Complete
    <3>1. /\ disk' = disk /\ main' = main /\ cache' = cache /\ Running
      BY <2>3 DEF Abandon, Complete, Return
    <3>2. CASE result' = result
      BY <2>1, <3>1, <3>2 DEF Search!vars
    <3>3. CASE result' # result
      <4>1. Len(stack) = 1 /\ Top.list = main
        BY <1>2, <2>3, <3>1, <3>3, Current DEF Abandon, Complete, Return, Running, IInv, FramesOK
      <4>2. CASE Abandon
        <5>1. /\ Import \in MainImports /\ Import \in Names \ DOMAIN cache
              /\ ~disk[Import].usable /\ result' = "failed"
          BY <1>2, <4>1, <4>2, Current DEF Abandon, Return, HasNext, Import, MainImports
        <5>2. Search!Fail
          BY <2>1, <3>1, <5>1, BuiltinsAssumption DEF Search!Fail, Running
        <5>3. QED  BY <5>2 DEF Search!Next
      <4>3. CASE Complete
        <5>1. result' = "ok" /\ stack' = SubSeq(stack, 1, Len(stack) - 1)
          BY <4>1, <4>3 DEF Complete, Return
        <5>2. IInv'  BY <1>2, <2>3, StepReturn
        <5>3. MainImports \subseteq Loaded \cup Builtins
          BY <2>1, <3>1, <5>1, <5>2, <4>3 DEF IInv, MainKnown, Complete, Return, Loaded
        <5>4. Search!Succeed
          BY <1>2, <2>1, <3>1, <5>1, <5>3, CachedIsLoaded DEF Search!Succeed, Running, IInv
        <5>5. QED  BY <5>4 DEF Search!Next
      <4>4. QED  BY <2>3, <4>2, <4>3
    <3>4. QED  BY <3>2, <3>3
  <2>4. CASE SkipBuiltin \/ CacheHit \/ Finished \/ UNCHANGED vars
    <3>1. disk' = disk /\ main' = main /\ cache' = cache /\ result' = result
      BY <2>4 DEF SkipBuiltin, CacheHit, Finished, vars
    <3>2. QED  BY <2>1, <3>1 DEF Search!vars
  <2>5. QED  BY <1>2, <2>2, <2>3, <2>4 DEF Next
<1>3. QED  BY <1>1, <1>2, LoaderInvariant, PTL DEF Spec
=============================================================================

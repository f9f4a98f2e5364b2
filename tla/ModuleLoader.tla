---------------------------- MODULE ModuleLoader ----------------------------
(***************************************************************************)
(* How ModuleLoader.cpp loads the imports of the main module and, through  *)
(* them, those of every module it finds (src/src/module/ModuleLoader.cpp,  *)
(* called by src/src/main.cpp).                                            *)
(*                                                                         *)
(* load and loadImports call each other; the variable stack holds one      *)
(* frame per active loadImports loop: the module whose imports it goes     *)
(* through, their list and the next one to load.  The outermost frame is   *)
(* the call main.cpp makes for the main module, whose syntax tree is not   *)
(* in the cache.                                                           *)
(*                                                                         *)
(* A file is usable when a search path has it, the parser accepts it and   *)
(* it holds the module it is named after; load returns null in each of the *)
(* other cases without having changed anything.                            *)
(***************************************************************************)
EXTENDS Naturals, Sequences

CONSTANTS
  Names,        \* names of modules that are looked up on disk
  Root,         \* the name of the main module
  Builtins,     \* names that are not looked up: builtinModules()
  MaxImports    \* bound on the length of an import list

ASSUME RootAssumption == Root \in Names

ASSUME BuiltinsAssumption == Names \cap Builtins = {}

ASSUME MaxImportsAssumption == MaxImports \in Nat

VARIABLES
  disk,     \* the file of each module
  main,     \* the import list of the main module
  loaded,   \* loaded_: the modules in the order their files were opened
  cache,    \* cache_: where in loaded_ a module is
  stack,    \* the active loadImports loops, innermost last
  result    \* what loadImports returned to main.cpp: "running", "ok", "failed"

vars == <<disk, main, loaded, cache, stack, result>>

ImportLists == UNION {[1 .. n -> Names \cup Builtins] : n \in 0 .. MaxImports}

File == [usable : BOOLEAN, imports : ImportLists]

Frame == [of : Names, list : ImportLists, next : Nat \ {0}]

Running == result = "running"

Top == stack[Len(stack)]

HasNext == Top.next <= Len(Top.list)

Import == Top.list[Top.next]

(* The innermost loop goes on behind the import it is at. *)
Advanced == [stack EXCEPT ![Len(stack)].next = @ + 1]

Loaded == {loaded[k] : k \in 1 .. Len(loaded)}

ImportsOf(m) == {disk[m].imports[k] : k \in 1 .. Len(disk[m].imports)}

MainImports == {main[k] : k \in 1 .. Len(main)}

-----------------------------------------------------------------------------
(* The main module is read from the file given on the command line.  Under *)
(* the name of the module there is the same file, or none that is usable.  *)
Init ==
  /\ main \in ImportLists
  /\ disk \in [Names -> {f \in File : ~f.usable => f.imports = <<>>}]
  /\ disk[Root].usable => disk[Root].imports = main
  /\ loaded = <<>>
  /\ cache = <<>>
  /\ stack = <<[of |-> Root, list |-> main, next |-> 1]>>
  /\ result = "running"

SkipBuiltin ==
  /\ Running
  /\ HasNext
  /\ Import \in Builtins
  /\ stack' = Advanced
  /\ UNCHANGED <<disk, main, loaded, cache, result>>

CacheHit ==
  /\ Running
  /\ HasNext
  /\ Import \in DOMAIN cache
  /\ stack' = Advanced
  /\ UNCHANGED <<disk, main, loaded, cache, result>>

(* The cache with m at the k-th place of loaded_. *)
Cached(m, k) == [n \in DOMAIN cache \cup {m} |-> IF n = m THEN k ELSE cache[n]]

(* The file of the import is there, and it is the first time it is needed. *)
Opens ==
  /\ Running
  /\ HasNext
  /\ Import \in Names \ DOMAIN cache
  /\ disk[Import].usable
  /\ UNCHANGED <<disk, main, result>>

Descend ==
  stack' = Append(Advanced, [of |-> Import, list |-> disk[Import].imports, next |-> 1])

(* Slip: the module is left out of the cache. *)
OpenUncached ==
  /\ Opens
  /\ loaded' = Append(loaded, Import)
  /\ Descend
  /\ UNCHANGED cache

(* Slip: the index is taken after the module has been appended. *)
OpenNextIndex ==
  /\ Opens
  /\ loaded' = Append(loaded, Import)
  /\ cache' = Cached(Import, Len(loaded) + 2)
  /\ Descend

(* Slip: the imports of the module are not loaded. *)
OpenShallow ==
  /\ Opens
  /\ loaded' = Append(loaded, Import)
  /\ cache' = Cached(Import, Len(loaded) + 1)
  /\ stack' = Advanced

(* Slip: a module is put in front of those loaded before it. *)
OpenInFront ==
  /\ Opens
  /\ loaded' = <<Import>> \o loaded
  /\ cache' = Cached(Import, 1)
  /\ Descend

(* load parses the file, records the module, and only then turns to the    *)
(* imports of the module.                                                  *)
Open ==
  /\ Opens
  /\ loaded' = Append(loaded, Import)
  /\ cache' = Cached(Import, Len(loaded) + 1)
  /\ Descend

(* Slip: the answer of an inner loop is taken for that of the outermost. *)
ReturnFromInside(answer) ==
  /\ stack' = SubSeq(stack, 1, Len(stack) - 1)
  /\ result' = answer
  /\ UNCHANGED <<disk, main, loaded, cache>>

(* Slip: a failure is not reported. *)
ReturnOk(answer) ==
  /\ stack' = SubSeq(stack, 1, Len(stack) - 1)
  /\ result' = IF Len(stack) = 1 THEN "ok" ELSE "running"
  /\ UNCHANGED <<disk, main, loaded, cache>>

(* The innermost loop returns.  The outermost one returns to main.cpp; any *)
(* other returns to load, which ignores the answer and hands its module to *)
(* the loop around it.                                                     *)
Return(answer) ==
  /\ stack' = SubSeq(stack, 1, Len(stack) - 1)
  /\ result' = IF Len(stack) = 1 THEN answer ELSE "running"
  /\ UNCHANGED <<disk, main, loaded, cache>>

(* An import that cannot be loaded ends the loop ... *)
Abandon ==
  /\ Running
  /\ HasNext
  /\ Import \in Names \ DOMAIN cache
  /\ ~disk[Import].usable
  /\ Return("failed")

(* ... and so does the end of the list. *)
Complete ==
  /\ Running
  /\ ~HasNext
  /\ Return("ok")

(* main.cpp reports a failure and exits, or goes on to Sema. *)
Finished == ~Running /\ UNCHANGED vars

Next == SkipBuiltin \/ CacheHit \/ Open \/ Abandon \/ Complete \/ Finished

(* The compiler is one thread that runs until it exits. *)
Spec == Init /\ [][Next]_vars /\ WF_vars(Next)

-----------------------------------------------------------------------------
(* TypeOK: the loader's containers keep their shapes, and a loop is active *)
(* exactly until main.cpp has its answer.                                  *)
TypeOK ==
  /\ main \in ImportLists
  /\ disk \in [Names -> File]
  /\ loaded \in Seq(Names)
  /\ DOMAIN cache \subseteq Names
  /\ stack \in Seq(Frame)
  /\ result \in {"running", "ok", "failed"}
  /\ Running <=> stack # <<>>

(* CacheIndexesLoaded: cache_ and loaded_ describe the same modules: the   *)
(* pointer load hands out belongs to the module that was asked for, and no *)
(* module is in loaded_ twice, however the imports share or form cycles.   *)
CacheIndexesLoaded ==
  /\ \A m \in DOMAIN cache : cache[m] \in 1 .. Len(loaded) /\ loaded[cache[m]] = m
  /\ \A k \in 1 .. Len(loaded) : loaded[k] \in DOMAIN cache /\ cache[loaded[k]] = k

(* NoReentry: the imports of a module are never gone through by two loops  *)
(* at a time, so that the recursion is no deeper than there are modules,   *)
(* even when they import each other.  The main module may be entered once  *)
(* more, as an import of another one (README.md:388).                      *)
NoReentry ==
  \A i, j \in 2 .. Len(stack) : i # j => stack[i].of # stack[j].of

(* NothingLost: when main.cpp goes on, a module that has been loaded       *)
(* without all of its imports has one that cannot be loaded: sharing,      *)
(* cycles and the order of the lists never make the loader miss any.       *)
NothingLost ==
  result = "ok" =>
    /\ MainImports \subseteq Loaded \cup Builtins
    /\ \A m \in Loaded : \/ ImportsOf(m) \subseteq Loaded \cup Builtins
                         \/ \E i \in ImportsOf(m) \cap Names : ~disk[i].usable

(* ImportersFirst: loaded_ lists a module behind one that imports it (or   *)
(* the main module does): Sema and both code generators meet importers     *)
(* before what they import.                                                *)
ImportersFirst ==
  \A k \in 1 .. Len(loaded) :
    \/ loaded[k] \in MainImports
    \/ \E j \in 1 .. k - 1 : loaded[k] \in ImportsOf(loaded[j])

(* Search: the loader implements the search of ImportSearch.               *)
Search == INSTANCE ImportSearch WITH
  usable  <- {m \in Names : disk[m].usable},
  imports <- [m \in Names |-> ImportsOf(m)],
  needed  <- MainImports,
  found   <- DOMAIN cache,
  outcome <- result

(* ImplementsSearch: every step of the loader is one of the search, and it *)
(* ends as the search does, whatever files there are and however they      *)
(* import each other.                                                      *)
ImplementsSearch == Search!Spec
=============================================================================

---------------------------- MODULE ImportSearch ----------------------------
(***************************************************************************)
(* What loading the imports of a program promises: the modules found are a *)
(* set that grows from the imports of the main module, each reached        *)
(* through a module found before it; the search ends, with success only    *)
(* when every import of the main module has been found, and with failure   *)
(* only when one of them has no usable file.  How the search goes about it *)
(* (recursion, cache, order) is left open.  README.md:244.                 *)
(***************************************************************************)
CONSTANTS
  Names,      \* modules that would be looked up on disk
  Builtins    \* modules that are not (SYSTEM)

VARIABLES
  usable,     \* the modules whose file can be found and parsed
  imports,    \* imports[m]: what the file of m imports
  needed,     \* what the main module imports
  found,      \* modules found so far
  outcome     \* "running", "ok" or "failed"

vars == <<usable, imports, needed, found, outcome>>

Init ==
  /\ usable \subseteq Names
  /\ imports \in [Names -> SUBSET (Names \cup Builtins)]
  /\ needed \subseteq Names \cup Builtins
  /\ found = {}
  /\ outcome = "running"

Discover(m) ==
  /\ outcome = "running"
  /\ m \in usable \ found
  /\ m \in needed \/ \E n \in found : m \in imports[n]
  /\ found' = found \cup {m}
  /\ UNCHANGED <<usable, imports, needed, outcome>>

Succeed ==
  /\ outcome = "running"
  /\ needed \subseteq found \cup Builtins
  /\ outcome' = "ok"
  /\ UNCHANGED <<usable, imports, needed, found>>

Fail ==
  /\ outcome = "running"
  /\ ~(needed \subseteq usable \cup Builtins)
  /\ outcome' = "failed"
  /\ UNCHANGED <<usable, imports, needed, found>>

Next == (\E m \in Names : Discover(m)) \/ Succeed \/ Fail

Spec == Init /\ [][Next]_vars /\ WF_vars(Next)
=============================================================================

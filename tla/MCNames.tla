------------------------------- MODULE MCNames -------------------------------
EXTENDS Names, TLC
CONSTANTS x, y
MCOrder == <<"A", "B", "M">>
MCImports == {[m \in {"A", "B", "M"} |-> CASE m = "A" -> {} [] m = "B" -> {"A"} [] m = "M" -> {"A", "B"}]}
MCSignatures ==
  {[function |-> f, param |-> NoParam] : f \in BOOLEAN} \cup
  {[function |-> FALSE, param |-> p] : p \in [name : {x, y}, isVar : BOOLEAN]}
Symmetric == Permutations({x, y})
=============================================================================

---------------------------- MODULE BisonGrammar ----------------------------
(***************************************************************************)
(* The grammar of parser/impl/bison/oberon.y, and how a parser made from   *)
(* it reads tokens.  Left-recursive lists are written as repetitions and   *)
(* alternatives with a common beginning are factored; where bison has a    *)
(* choice between shifting and reducing it shifts (its default, the        *)
(* grammar declares no %expect), so an optional part is read whenever it   *)
(* can begin.  B(node) stands for the semantic action that builds a node,  *)
(* "item" for a push_back.                                                 *)
(***************************************************************************)
EXTENDS Integers, Sequences, TLC

T(tok) == [kind |-> "token", is |-> {tok}]
Ts(tokens) == [kind |-> "token", is |-> tokens]
N(name) == [kind |-> "rule", name |-> name]
B(node) == [kind |-> "build", node |-> node]
Alt(choices) == [kind |-> "choice", of |-> choices]
Opt(seq) == Alt({seq, <<>>})
Rep(seq) == [kind |-> "repeat", seq |-> seq]
SameName == [kind |-> "name"]
List(seq, separator) == seq \o <<Rep(<<T(separator)>> \o seq)>>

Relations == {"Eq", "Rel"}                  \* = and # < <= > >= IN IS
AddOperators == {"Plus", "Minus", "OR"}
MulOperators == {"Star", "MulOp"}           \* * and / DIV MOD &
Literals == {"Integer", "String", "Literal"} \* Literal: reals, NIL, TRUE, FALSE

Modules == [
  input |-> <<N("module"), T("Eof")>>,
  module |-> <<T("MODULE"), T("Ident"), T("Semicolon"), Opt(<<N("ImportList")>>),
               N("DeclarationSequence"),
               Opt(<<T("BEGIN"), N("StatementSequence")>>),
               T("END"), T("Ident"), T("Dot"), B("Module")>>,
  ImportList |-> <<T("IMPORT")>> \o List(<<N("import"), B("item")>>, "Comma")
                 \o <<T("Semicolon")>>,
  import |-> <<T("Ident"), Opt(<<T("Assign"), T("Ident"), B("Alias")>>), B("Import")>>]

Declarations == [
  DeclarationSequence |->
    <<Opt(<<T("CONST"), N("ConstDeclaration"), T("Semicolon"),
            Rep(<<N("ConstDeclaration"), T("Semicolon")>>)>>),
      Opt(<<T("TYPE"), N("TypeDeclaration"), T("Semicolon"),
            Rep(<<N("TypeDeclaration"), T("Semicolon")>>)>>),
      Opt(<<T("VAR"), N("VariableDeclaration"), T("Semicolon"),
            Rep(<<N("VariableDeclaration"), T("Semicolon")>>)>>),
      Rep(<<N("ProcedureDeclaration"), T("Semicolon")>>)>>,
  ConstDeclaration |-> <<N("identdef"), T("Eq"), N("expression"), B("Const")>>,
  TypeDeclaration |-> <<N("identdef"), T("Eq"), N("type"), B("TypeDecl")>>,
  VariableDeclaration |-> <<N("IdentList"), T("Colon"), N("type"), B("Var")>>,
  ProcedureDeclaration |->
    <<T("PROCEDURE"), N("identdef"), Opt(<<N("FormalParameters")>>), T("Semicolon"),
      N("ProcedureBody"), T("Ident"), SameName, B("Proc")>>,
  ProcedureBody |->
    <<N("DeclarationSequence"), Opt(<<T("BEGIN"), N("StatementSequence")>>),
      Opt(<<T("RETURN"), N("expression"), B("Result")>>), T("END")>>,
  identdef |-> <<T("Ident"), Opt(<<T("Star"), B("Export")>>)>>,
  IdentList |-> List(<<N("identdef"), B("item")>>, "Comma"),
  qualident |-> <<T("Ident"), Opt(<<T("Dot"), T("Ident"), B("Qualified")>>)>>]

TypeRules == [
  type |-> <<Alt({<<N("qualident"), B("Named")>>, <<N("ArrayType")>>, <<N("RecordType")>>,
                  <<N("PointerType")>>, <<N("ProcedureType")>>})>>,
  ArrayType |-> <<T("ARRAY"), N("exprList"), T("OF"), N("type"), B("Array")>>,
  RecordType |-> <<T("RECORD"),
                   Opt(<<T("LParen"), N("qualident"), B("Named"), T("RParen")>>),
                   Opt(List(<<N("FieldList"), B("item")>>, "Semicolon")),
                   T("END"), B("Record")>>,
  FieldList |-> <<N("IdentList"), T("Colon"), N("type"), B("Field")>>,
  PointerType |-> <<T("POINTER"), T("TO"), N("type"), B("Pointer")>>,
  ProcedureType |-> <<T("PROCEDURE"), Alt({<<N("FormalParameters")>>, <<B("ProcType")>>})>>,
  FormalParameters |->
    <<T("LParen"), Opt(List(<<N("FPSection"), B("item")>>, "Semicolon")), T("RParen"),
      Opt(<<T("Colon"), N("qualident"), B("ResultType")>>), B("ProcType")>>,
  FPSection |-> <<Opt(<<T("VAR"), B("IsVar")>>)>> \o List(<<T("Ident"), B("item")>>, "Comma")
                \o <<T("Colon"), N("FormalType"), B("Params")>>,
  FormalType |-> <<Alt({<<N("qualident"), B("Named")>>,
                        <<T("ARRAY"), T("OF"), N("FormalType"), B("Array")>>})>>]

Expressions == [
  expression |-> <<N("SimpleExpression"),
                   Opt(<<Ts(Relations), N("SimpleExpression"), B("Binary")>>)>>,
  SimpleExpression |->
    <<Alt({<<N("term")>>, <<T("Plus"), N("term")>>, <<T("Minus"), N("term"), B("Neg")>>}),
      Rep(<<Ts(AddOperators), N("term"), B("Binary")>>)>>,
  term |-> <<N("factor"), Rep(<<Ts(MulOperators), N("factor"), B("Binary")>>)>>,
  factor |-> <<Alt({<<Ts(Literals), B("Literal")>>, <<N("set")>>, <<N("designator")>>,
                    <<T("LParen"), N("expression"), T("RParen")>>,
                    <<T("Tilde"), N("factor"), B("Not")>>})>>,
  designator |-> <<N("qualident"), Rep(<<N("selector"), B("item")>>), B("Designator")>>,
  selector |-> <<Alt({<<T("Dot"), T("Ident"), B("FieldSel")>>,
                      <<T("LBrack"), N("exprList"), T("RBrack"), B("Index")>>,
                      <<T("Caret"), B("Deref")>>,
                      <<T("LParen"), Opt(<<N("exprList")>>), T("RParen"), B("Args")>>})>>,
  exprList |-> List(<<N("expression"), B("item")>>, "Comma"),
  set |-> <<T("LBrace"), Opt(List(<<N("element"), B("item")>>, "Comma")), T("RBrace"), B("Set")>>,
  element |-> <<N("expression"), Opt(<<T("Range"), N("expression"), B("Upper")>>)>>]

Statements == [
  StatementSequence |-> List(<<N("statement")>>, "Semicolon"),
  statement |-> <<Alt({<<>>,
    <<N("designator"), Alt({<<T("Assign"), N("expression"), B("Assign")>>, <<B("Call")>>})>>,
    <<N("IfStatement")>>, <<N("CaseStatement")>>, <<N("WhileStatement")>>,
    <<N("RepeatStatement")>>, <<N("ForStatement")>>,
    <<T("RETURN"), Opt(<<N("expression")>>), B("Return")>>})>>,
  IfStatement |->
    <<T("IF"), N("expression"), T("THEN"), N("StatementSequence"), B("item"),
      Rep(<<T("ELSIF"), N("expression"), T("THEN"), N("StatementSequence"), B("item")>>),
      Opt(<<T("ELSE"), N("StatementSequence")>>), T("END"), B("If")>>,
  WhileStatement |->
    <<T("WHILE"), N("expression"), T("DO"), N("StatementSequence"),
      Rep(<<T("ELSIF"), N("expression"), T("DO"), N("StatementSequence"), B("item")>>),
      T("END"), B("While")>>,
  RepeatStatement |->
    <<T("REPEAT"), N("StatementSequence"), T("UNTIL"), N("expression"), B("Repeat")>>,
  ForStatement |->
    <<T("FOR"), T("Ident"), T("Assign"), N("expression"), T("TO"), N("expression"),
      Opt(<<T("BY"), N("expression"), B("Step")>>), T("DO"), N("StatementSequence"),
      T("END"), B("For")>>,
  CaseStatement |-> <<T("CASE"), N("expression"), T("OF")>>
                    \o List(<<N("case")>>, "Bar") \o <<T("END"), B("Case")>>,
  case |-> <<Opt(List(<<N("LabelRange"), B("item")>>, "Comma")
                 \o <<T("Colon"), N("StatementSequence"), B("Alternative")>>)>>,
  LabelRange |-> <<N("label"), Opt(<<T("Range"), N("label"), B("Upper")>>)>>,
  label |-> <<Alt({<<Ts({"Integer", "String"}), B("Literal")>>,
                   <<N("qualident"), B("Designator")>>})>>]

Rules == Modules @@ Declarations @@ TypeRules @@ Expressions @@ Statements

-----------------------------------------------------------------------------
(* Whether a rule can be empty, and the tokens it can begin with.  What a  *)
(* choice or a repetition offers begins with a token or a rule, unless it  *)
(* is empty or only builds a node.                                         *)
empty[n \in DOMAIN Rules] ==
  LET Item(i) == CASE i.kind = "rule" -> empty[i.name]
                   [] i.kind = "choice" -> \E c \in i.of :
                        \A k \in 1..Len(c) : c[k].kind = "build"
                   [] OTHER -> i.kind # "token"
  IN  \A k \in 1..Len(Rules[n]) : Item(Rules[n][k])
CanBeEmpty(i) ==
  CASE i.kind = "rule" -> empty[i.name]
    [] i.kind = "choice" -> \E c \in i.of : c = <<>> \/ c[1].kind = "build"
    [] OTHER -> i.kind # "token"

starts[n \in DOMAIN Rules] ==
  LET Of(i) == CASE i.kind = "token" -> i.is [] i.kind = "rule" -> starts[i.name] [] OTHER -> {}
      Part(c) == IF c = <<>> THEN {} ELSE Of(c[1])
      Item(i) == CASE i.kind = "choice" -> UNION {Part(c) : c \in i.of}
                   [] i.kind = "repeat" -> Part(i.seq)
                   [] OTHER -> Of(i)
      rule == Rules[n]
  IN  UNION {Item(rule[k]) : k \in {k \in 1..Len(rule) : \A j \in 1..k - 1 : CanBeEmpty(rule[j])}}

Start == [n \in DOMAIN Rules |-> starts[n]] @@ <<>>     \* evaluated once
Begins(tok, seq) ==
  /\ seq # <<>>
  /\ \/ seq[1].kind = "token" /\ tok \in seq[1].is
     \/ seq[1].kind = "rule" /\ tok \in Start[seq[1].name]

(* What yyparse does with a token, given what it still has to read: the    *)
(* nodes built before the token is shifted, and what is left after it; no  *)
(* outcome when the token is refused.  An identifier that is not the name  *)
(* of the procedure it ends is refused by the action of                    *)
(* ProcedureDeclaration.                                                   *)
Ident(tok) == IF tok = "OtherName" THEN "Ident" ELSE tok

Expansions(item, rest, prev, tok) ==
  CASE item.kind = "rule" -> {Rules[item.name] \o rest}
    [] item.kind = "build" -> {rest}
    [] item.kind = "name" -> IF prev = "OtherName" THEN {} ELSE {rest}
    [] item.kind = "repeat" ->
         {IF Begins(Ident(tok), item.seq) THEN item.seq \o <<item>> \o rest ELSE rest}
    [] item.kind = "choice" ->
         LET fits == {c \in item.of : Begins(Ident(tok), c)}
             rests == {c \in item.of : c = <<>> \/ c[1].kind = "build"}
         IN  {c \o rest : c \in IF fits # {} THEN fits ELSE rests}

RECURSIVE Shift(_, _, _, _)
Shift(left, prev, tok, made) ==
  IF left = <<>> THEN {}
  ELSE LET item == Head(left)
           nodes == IF item.kind = "build" THEN Append(made, item.node) ELSE made
       IN  IF item.kind # "token"
           THEN UNION {Shift(l, prev, tok, nodes) :
                       l \in Expansions(item, Tail(left), prev, tok)}
           ELSE IF Ident(tok) \in item.is THEN {[left |-> Tail(left), built |-> made]}
           ELSE {}
=============================================================================

----------------------------- MODULE HandParser -----------------------------
(***************************************************************************)
(* The recursive-descent parser (parser/impl/hand/HandParser.cpp) reading  *)
(* one token after another, beside a parser made from the bison grammar    *)
(* that reads the same tokens.                                             *)
(*                                                                         *)
(* Hand gives each function of the parser as the sequence of what it does: *)
(* expect a token, look at the next token and go one way or the other,     *)
(* loop while the next token is one of some, call a function, build a      *)
(* node.  The stack holds the calls under way with what each has left to   *)
(* do; one step does one such thing.  Tokens the parser treats alike are   *)
(* one: Literal is Real, TRUE, FALSE and NIL, Rel the relations but "=",   *)
(* MulOp the operators of a term but "*".  OtherName is an identifier      *)
(* other than the name of the procedure that ends.  All programs are read: *)
(* a token is any token, and only the nesting of calls is bounded.         *)
(***************************************************************************)
EXTENDS BisonGrammar, FiniteSets

CONSTANTS
  Tokens,         \* the tokens that may come
  MaxCalls        \* bound: calls under way when a token comes

ASSUME CallsAssumption == MaxCalls \in Nat \ {0}

Expect(tok) == [kind |-> "expect", is |-> {tok}]
Error == [kind |-> "expect", is |-> {}]
Advance(tokens) == [kind |-> "expect", is |-> tokens]       \* after a look
Case(tokens, then) == [is |-> tokens, then |-> then]
Switch(cases, else) == [kind |-> "switch", cases |-> cases, else |-> else]
When(tokens, then, else) == Switch({Case(tokens, then)}, else)
Match(tok, then) == When({tok}, <<Expect(tok)>> \o then, <<>>)
While(tokens, body) == [kind |-> "while", is |-> tokens, body |-> body]
Call(f) == [kind |-> "call", f |-> f]
Build(node) == [kind |-> "build", node |-> node]

(* Slip: an if for the while.                                              *)
ManyOnce(tok, one) == one \o <<When({tok}, <<Expect(tok)>> \o one, <<>>)>>

(* parseX {"," parseX}, what is parsed kept in a vector                    *)
Many(tok, one) == one \o <<While({tok}, <<Expect(tok)>> \o one)>>
ManyExprs == Many("Comma", <<Call("parseExpression"), Build("item")>>)
(* Slip: the second part of the name is left out.                          *)
QualidentFirst == <<Expect("Ident"), Match("Dot", <<Expect("Ident")>>)>>

(* ident ["." ident]                                                       *)
Qualident == <<Expect("Ident"), Match("Dot", <<Expect("Ident"), Build("Qualified")>>)>>

ModuleFunctions == [
  parseModule |->
    <<Expect("MODULE"), Expect("Ident"), Expect("Semicolon"),
      When({"IMPORT"}, <<Call("parseImportList")>>, <<>>),
      Call("parseDeclarationSequence"),
      Match("BEGIN", <<Call("parseStatementSequence")>>),
      Expect("END"), Expect("Ident"), Expect("Dot"), Build("Module")>>,
  parseImportList |-> <<Expect("IMPORT")>>
    \o Many("Comma", <<Call("parseImport"), Build("item")>>) \o <<Expect("Semicolon")>>,
  parseImport |->
    <<Expect("Ident"), Match("Assign", <<Expect("Ident"), Build("Alias")>>), Build("Import")>>]

DeclarationFunctions == [
  parseDeclarationSequence |->
    LET Section(keyword, parse) ==
          Match(keyword, <<While({"Ident"}, <<Call(parse), Expect("Semicolon")>>)>>)
    IN  <<Section("CONST", "parseConstDecl"), Section("TYPE", "parseTypeDecl"),
          Section("VAR", "parseVarDecl"),
          While({"PROCEDURE"}, <<Call("parseProcDecl"), Expect("Semicolon")>>)>>,
  parseConstDecl |->
    <<Call("parseIdentDef"), Expect("Eq"), Call("parseExpression"), Build("Const")>>,
  parseTypeDecl |->
    <<Call("parseIdentDef"), Expect("Eq"), Call("parseType"), Build("TypeDecl")>>,
  parseVarDecl |->
    <<Call("parseIdentList"), Expect("Colon"), Call("parseType"), Build("Var")>>,
  parseProcDecl |->
    <<Expect("PROCEDURE"), Call("parseIdentDef"),
      When({"LParen"}, <<Call("parseFormalParameters")>>, <<>>),
      Expect("Semicolon"), Call("parseDeclarationSequence"),
      Match("BEGIN", <<Call("parseStatementSequence")>>),
      Match("RETURN", <<Call("parseExpression"), Build("Result")>>),
      Expect("END"), Expect("Ident"), SameName, Build("Proc")>>,
  parseIdentDef |-> <<Expect("Ident"), Match("Star", <<Build("Export")>>)>>,
  parseIdentList |-> Many("Comma", <<Call("parseIdentDef"), Build("item")>>)]

TypeFunctions == [
  parseType |->
    <<Switch({Case({"ARRAY"}, <<Call("parseArrayType")>>),
              Case({"RECORD"}, <<Call("parseRecordType")>>),
              Case({"POINTER"}, <<Call("parsePointerType")>>),
              Case({"PROCEDURE"}, <<Call("parseProcedureType")>>)},
             Qualident \o <<Build("Named")>>)>>,
  parseArrayType |->
    <<Expect("ARRAY"), When({"OF"}, <<>>, ManyExprs), Expect("OF"), Call("parseType"),
      Build("Array")>>,
  parseRecordType |->
    LET FieldList == <<Call("parseIdentList"), Expect("Colon"), Call("parseType"),
                       Build("Field"), Build("item")>>
        (* while (match(";")) { if (check(END)) break; parseFieldList(); } *)
        More == While({"Semicolon"}, <<Expect("Semicolon"), When({"END"}, <<>>, FieldList)>>)
    IN  <<Expect("RECORD"),
          Match("LParen", Qualident \o <<Build("Named"), Expect("RParen")>>),
          When({"Ident"}, FieldList \o <<More>>, <<>>),
          Expect("END"), Build("Record")>>,
  parsePointerType |-> <<Expect("POINTER"), Expect("TO"), Call("parseType"), Build("Pointer")>>,
  parseProcedureType |->
    <<Expect("PROCEDURE"),
      When({"LParen"}, <<Call("parseFormalParameters")>>, <<Build("ProcType")>>)>>,
  parseFormalParameters |->
    LET FPSection == <<Match("VAR", <<Build("IsVar")>>)>>
                     \o Many("Comma", <<Expect("Ident"), Build("item")>>)
                     \o <<Expect("Colon"), Call("parseFormalType"), Build("Params"), Build("item")>>
    IN  <<Expect("LParen"), When({"RParen"}, <<>>, Many("Semicolon", FPSection)),
          Expect("RParen"), Match("Colon", Qualident \o <<Build("ResultType")>>),
          Build("ProcType")>>,
  parseFormalType |->
    <<When({"ARRAY"}, <<Expect("ARRAY"), Expect("OF"), Call("parseFormalType"), Build("Array")>>,
           Qualident \o <<Build("Named")>>)>>]

ExpressionFunctions == [
  parseExpression |->
    <<Call("parseSimpleExpression"),
      When(Relations, <<Advance(Relations), Call("parseSimpleExpression"),
                          Build("Binary")>>, <<>>)>>,
  parseSimpleExpression |->
    <<Switch({Case({"Plus"}, <<Expect("Plus"), Call("parseTerm")>>),
              Case({"Minus"}, <<Expect("Minus"), Call("parseTerm"), Build("Neg")>>)},
             <<Call("parseTerm")>>),
      While(AddOperators, <<Advance(AddOperators), Call("parseTerm"), Build("Binary")>>)>>,
  parseTerm |->
    <<Call("parseFactor"),
      While(MulOperators, <<Advance(MulOperators), Call("parseFactor"), Build("Binary")>>)>>,
  parseFactor |->
    LET Element == <<Call("parseExpression"),
                     Match("Range", <<Call("parseExpression"), Build("Upper")>>), Build("item")>>
        Set == <<Expect("LBrace"), When({"RBrace"}, <<>>, Many("Comma", Element)),
                 Expect("RBrace"), Build("Set")>>
        Paren == <<Expect("LParen"), Call("parseExpression"), Expect("RParen")>>
    IN  <<Switch({Case(Literals, <<Advance(Literals), Build("Literal")>>),
                  Case({"LBrace"}, Set),
                  Case({"LParen"}, Paren),
                  Case({"Tilde"}, <<Expect("Tilde"), Call("parseFactor"), Build("Not")>>),
                  Case({"Ident"}, <<Call("parseDesignator")>>)}, <<Error>>)>>,
  parseDesignator |->
    LET Args == <<Expect("LParen"), When({"RParen"}, <<>>, ManyExprs), Expect("RParen"),
                  Build("Args"), Build("item")>>
        Index == <<Expect("LBrack")>> \o ManyExprs \o <<Expect("RBrack"), Build("Index"), Build("item")>>
        Field == <<Expect("Dot"), Expect("Ident"), Build("FieldSel"), Build("item")>>
    IN  Qualident
        \o <<While({"Dot", "LBrack", "Caret", "LParen"},
                   <<Switch({Case({"Dot"}, Field), Case({"LBrack"}, Index),
                             Case({"Caret"}, <<Expect("Caret"), Build("Deref"), Build("item")>>)},
                            Args)>>),
             Build("Designator")>>]

StatementFunctions == [
  parseStatementSequence |-> Many("Semicolon", <<Call("parseStatement")>>),
  parseStatement |->
    LET Return == <<Expect("RETURN"),
                    When({"Semicolon", "END", "ELSE", "ELSIF", "UNTIL", "Eof", "Bar"}, <<>>,
                         <<Call("parseExpression")>>), Build("Return")>>
        AssignOrCall == <<Call("parseDesignator"),
                          When({"Assign"}, <<Expect("Assign"), Call("parseExpression"), Build("Assign")>>,
                               <<Build("Call")>>)>>
    IN  <<Switch({Case({"IF"}, <<Call("parseIfStatement")>>),
                  Case({"WHILE"}, <<Call("parseWhileStatement")>>),
                  Case({"REPEAT"}, <<Call("parseRepeatStatement")>>),
                  Case({"FOR"}, <<Call("parseForStatement")>>),
                  Case({"CASE"}, <<Call("parseCaseStatement")>>),
                  Case({"RETURN"}, Return), Case({"Ident"}, AssignOrCall)}, <<>>)>>,
  parseIfStatement |->
    LET Branch == <<Call("parseExpression"), Expect("THEN"), Call("parseStatementSequence"), Build("item")>>
    IN  <<Expect("IF")>> \o Branch
        \o <<While({"ELSIF"}, <<Expect("ELSIF")>> \o Branch),
             Match("ELSE", <<Call("parseStatementSequence")>>), Expect("END"), Build("If")>>,
  parseWhileStatement |->
    LET Guarded == <<Call("parseExpression"), Expect("DO"), Call("parseStatementSequence")>>
    IN  <<Expect("WHILE")>> \o Guarded
        \o <<While({"ELSIF"}, <<Expect("ELSIF")>> \o Guarded \o <<Build("item")>>),
             Expect("END"), Build("While")>>,
  parseRepeatStatement |->
    <<Expect("REPEAT"), Call("parseStatementSequence"), Expect("UNTIL"), Call("parseExpression"),
      Build("Repeat")>>,
  parseForStatement |->
    <<Expect("FOR"), Expect("Ident"), Expect("Assign"), Call("parseExpression"), Expect("TO"),
      Call("parseExpression"), Match("BY", <<Call("parseExpression"), Build("Step")>>),
      Expect("DO"), Call("parseStatementSequence"), Expect("END"), Build("For")>>]

CaseFunctions == [
  parseCaseStatement |->
    <<Expect("CASE"), Call("parseExpression"), Expect("OF")>>
    \o Many("Bar", <<Call("parseCase")>>) \o <<Expect("END"), Build("Case")>>,
  parseCase |->
    <<When({"END", "Bar"}, <<>>,
           Many("Comma", <<Call("parseLabel"), Build("item")>>)
           \o <<Expect("Colon"), Call("parseStatementSequence"), Build("Alternative")>>)>>,
  parseLabel |->
    LET Constant == {"Integer", "String"}
        From(name) == When(Constant, <<Advance(Constant), Build("Literal")>>,
                           name \o <<Build("Designator")>>)
    IN  <<From(Qualident), Match("Range", <<From(<<Expect("Ident")>>), Build("Upper")>>)>>]

Hand == ModuleFunctions @@ DeclarationFunctions @@ TypeFunctions @@ ExpressionFunctions
        @@ StatementFunctions @@ CaseFunctions

-----------------------------------------------------------------------------
VARIABLES
  stack,          \* the calls under way, the last one first
  token,          \* what peek shows, "none" while nobody has looked
  last,           \* the last token advance took
  built,          \* the nodes built since then
  verdict,        \* "parsing", "accepted" or "refused"
  grammar,        \* what the bison parser has left to read, nothing once it refused
  shift           \* what it does with the token: nothing, or left and built

vars == <<stack, token, last, built, verdict, grammar, shift>>

Frame(f) == [f |-> f, rest |-> Hand[f]]
Top == stack[1]
Item == Head(Top.rest)
Doing(kind) == verdict = "parsing" /\ stack # <<>> /\ Top.rest # <<>> /\ Item.kind = kind
Continue(items) == [stack EXCEPT ![1].rest = items \o Tail(@)]
Seen == Ident(token)

Init ==
  /\ stack = <<Frame("parseModule")>>
  /\ token = "none" /\ last = "none"
  /\ built = <<>>
  /\ verdict = "parsing"
  /\ grammar = Rules.input
  /\ shift = {}

(* The tokenizer hands out the next token, any token.  The two parsers are *)
(* compared until one of them refuses.  Whose name an identifier is only   *)
(* matters at the end of a procedure.                                      *)
EndName == Len(Top.rest) > 1 /\ Top.rest[2].kind = "name"
peek ==
  /\ token = "none" /\ grammar # <<>>
  /\ Len(stack) <= MaxCalls
  /\ Doing("expect") \/ Doing("switch") \/ Doing("while")
  /\ \E t \in IF EndName THEN Tokens ELSE Tokens \ {"OtherName"} :
       token' = t /\ shift' = Shift(grammar, last, t, <<>>)
  /\ UNCHANGED <<stack, last, built, verdict, grammar>>

(* expect, and an advance after a look: the other parser shifts the token  *)
(* too, if it can.                                                         *)
expect ==
  /\ Doing("expect") /\ token # "none"
  /\ Seen \in Item.is
  /\ stack' = Continue(<<>>)
  /\ grammar' = IF shift = {} THEN <<>> ELSE (CHOOSE s \in shift : TRUE).left
  /\ shift' = {}
  /\ last' = token /\ token' = "none"
  /\ built' = <<>>
  /\ UNCHANGED verdict

error ==
  /\ \/ Doing("expect") /\ token # "none" /\ Seen \notin Item.is
     \/ Doing("name") /\ last = "OtherName"
  /\ verdict' = "refused"
  /\ UNCHANGED <<stack, token, last, built, grammar, shift>>

checkName ==
  /\ Doing("name") /\ last # "OtherName"
  /\ stack' = Continue(<<>>)
  /\ UNCHANGED <<token, last, built, verdict, grammar, shift>>

switch ==
  /\ Doing("switch") /\ token # "none"
  /\ LET fits == {c \in Item.cases : Seen \in c.is}
     IN  stack' = Continue(IF fits = {} THEN Item.else ELSE (CHOOSE c \in fits : TRUE).then)
  /\ UNCHANGED <<token, last, built, verdict, grammar, shift>>

(* Slip: a loop that goes on when there is nothing for it.                 *)
whileEndless ==
  /\ Doing("while") /\ token # "none"
  /\ stack' = Continue(IF Seen \in Item.is THEN Item.body \o <<Item>> ELSE <<Item>>)
  /\ UNCHANGED <<token, last, built, verdict, grammar, shift>>

while ==
  /\ Doing("while") /\ token # "none"
  /\ stack' = Continue(IF Seen \in Item.is THEN Item.body \o <<Item>> ELSE <<>>)
  /\ UNCHANGED <<token, last, built, verdict, grammar, shift>>

call ==
  /\ Doing("call")
  /\ stack' = <<Frame(Item.f)>> \o Continue(<<>>)
  /\ UNCHANGED <<token, last, built, verdict, grammar, shift>>

build ==
  /\ Doing("build")
  /\ built' = Append(built, Item.node)
  /\ stack' = Continue(<<>>)
  /\ UNCHANGED <<token, last, verdict, grammar, shift>>

return ==
  /\ verdict = "parsing" /\ Top.rest = <<>>
  /\ stack' = Tail(stack)
  /\ verdict' = IF Len(stack) = 1 THEN "accepted" ELSE verdict
  /\ UNCHANGED <<token, last, built, grammar, shift>>

Work == expect \/ error \/ checkName \/ switch \/ while \/ call \/ build \/ return
Next == peek \/ Work

(* The parser does not wait once it has a token; tokens need not come.     *)
Spec == Init /\ [][Next]_vars /\ WF_vars(Work)
-----------------------------------------------------------------------------
(* The two parsers refuse the same programs at the same token, but for     *)
(* these.  The one written by hand goes on with ARRAY OF without a length  *)
(* (HandParser.cpp:225), a ";" before the END of a RECORD (:268) and       *)
(* CONST, TYPE or VAR without a declaration (:92); it refuses a RETURN     *)
(* after a RETURN without value (:606) and a qualified name as upper bound *)
(* of a label (:753).  Behind the last "." only the other one looks.       *)
Lenient ==
  \/ Top.f = "parseArrayType" /\ last = "ARRAY" /\ token = "OF"
  \/ Top.f = "parseRecordType" /\ last = "Semicolon" /\ token = "END"
  \/ last \in {"CONST", "TYPE", "VAR"} /\ Seen # "Ident"
Strict ==
  \/ last = "RETURN" /\ token = "RETURN" /\ stack[5].f = "parseStatement"
     /\ stack[7].f = "parseProcDecl"
  \/ token = "Dot" /\ built = <<"Designator", "Upper", "item">>
AtToken == Doing("expect") /\ token # "none"
End(t) == Shift(grammar, last, t, <<>>)
Accepted == verdict = "accepted" /\ grammar # <<>>
SameLanguage ==
  /\ AtToken => IF Seen \in Item.is THEN shift # {} <=> ~Lenient ELSE shift # {} <=> Strict
  /\ Doing("name") /\ last = "OtherName" => \A t \in Tokens : End(t) = {}
  /\ Accepted => \A t \in Tokens : End(t) # {} <=> t = "Eof"

(* As long as both read on they build the same tree: the same nodes from   *)
(* the same tokens (HandParser.cpp:377, :413, :524, :585).                 *)
SameTree ==
  /\ AtToken /\ Seen \in Item.is => \A s \in shift : s.built = built
  /\ Accepted => \A s \in End("Eof") : s.built = built

(* Every token is taken or refused: no loop of the parser and no chain of  *)
(* its calls goes round without coming back for another or coming to an    *)
(* end (HandParser.cpp:112, :395, :585).                                   *)
EveryTokenDecided == []<>(token = "none" \/ verdict # "parsing")
=============================================================================

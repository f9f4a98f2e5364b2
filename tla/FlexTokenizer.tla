---------------------------- MODULE FlexTokenizer ----------------------------
(***************************************************************************)
(* The tokenizer generated by flex (tokenizer/impl/flex/oberon.l): at every *)
(* place the rule with the longest match wins, what follows a "/" counted  *)
(* with it.  readOne(i) is the token found from position i on, outside a   *)
(* comment.  Characters are those of HandTokenizer.                        *)
(***************************************************************************)
EXTENDS Integers, Sequences

CONSTANTS
  Text,           \* the text read
  Keywords,       \* the words with a rule of their own
  Blanks, Digits, HexDigits, Letters, Signs, Pairs, Singles

CharAt(i) == IF i <= Len(Text) THEN Text[i] ELSE "end"
Run(S, i, e) == \A k \in i..e - 1 : Text[k] \in S
Ends(i) == i + 1..Len(Text) + 1

(* The rules of the start condition INITIAL: type, end of the lexeme, and  *)
(* how much of the text the match counts.                                  *)
Rule(type, ends) == {[type |-> type, end |-> e, seen |-> e] : e \in ends}

RangeRule(i) ==                                       \* {DIGIT}+/".."
  {[type |-> "Integer", end |-> e, seen |-> e + 2] :
     e \in {e \in Ends(i) : Run(Digits, i, e) /\ CharAt(e) = "." /\ CharAt(e + 1) = "."}}

Exponent(j) ==                                        \* ([Ee][+-]?{DIGIT}+)?
  {j} \cup {e \in Ends(j) :
    /\ CharAt(j) \in {"E", "e"}
    /\ \E d \in {j + 1} \cup (IF CharAt(j + 1) \in Signs THEN {j + 2} ELSE {}) :
         d < e /\ Run(Digits, d, e)}

RealRule(i) ==                                        \* {DIGIT}+\.{DIGIT}*
  Rule("Real", UNION {UNION {Exponent(f) : f \in {f \in d + 1..Len(Text) + 1 : Run(Digits, d + 1, f)}} :
                      d \in {d \in Ends(i) : Run(Digits, i, d) /\ CharAt(d) = "."}})

HexRule(i, mark, type) ==                             \* {DIGIT}{HEXDIGIT}*"H"
  Rule(type, {e \in Ends(i) : /\ CharAt(i) \in Digits
                              /\ i < e - 1 /\ Run(HexDigits, i, e - 1)
                              /\ Text[e - 1] = mark})

WordRule(i) ==                                        \* {LETTER}{IDREST}*
  UNION {Rule(IF SubSeq(Text, i, e - 1) \in Keywords THEN "Keyword" ELSE "Ident", {e}) :
         e \in {e \in Ends(i) : CharAt(i) \in Letters /\ Run(Letters \cup Digits, i, e)}}

StringRule(i) ==                                      \* \"[^\"\n]*\"
  Rule("String", {e \in Ends(i) : /\ CharAt(i) = "quote" /\ i < e - 1
                                  /\ Text[e - 1] = "quote"
                                  /\ \A k \in i + 1..e - 2 : Text[k] \notin {"quote", "nl"}})

Rules(i) ==
  RangeRule(i) \cup RealRule(i) \cup HexRule(i, "H", "Integer")
  \cup Rule("Integer", {e \in Ends(i) : Run(Digits, i, e)})
  \cup StringRule(i) \cup HexRule(i, "X", "String") \cup WordRule(i)
  \cup Rule("Pair", {e \in {i + 2} : <<CharAt(i), CharAt(i + 1)>> \in Pairs})
  \cup Rule("Single", {e \in {i + 1} : CharAt(i) \in Singles})

Match(i) ==
  LET longest == {m \in Rules(i) : \A n \in Rules(i) : n.seen <= m.seen}
  IN  IF longest = {} THEN [type |-> "Unknown", end |-> i + 1, seen |-> i + 1]
      ELSE CHOOSE m \in longest : TRUE

(* Where the next token begins: blanks and, in COMMENT, nested comments    *)
(* are skipped; the end of the text ends a comment.                        *)
Opens(i) == CharAt(i) = "(" /\ CharAt(i + 1) = "*"
Closes(i) == CharAt(i) = "*" /\ CharAt(i + 1) = ")"
skip[i \in 1..Len(Text) + 1] ==
  [depth \in Nat |->
     IF i > Len(Text) THEN i
     ELSE IF Opens(i) THEN skip[i + 2][depth + 1]
     ELSE IF depth = 0 THEN IF Text[i] \in Blanks THEN skip[i + 1][0] ELSE i
     ELSE IF Closes(i) THEN skip[i + 2][depth - 1]
     ELSE skip[i + 1][depth]]

readOne(from) ==
  LET i == skip[from][0]
  IN  IF i > Len(Text) THEN [type |-> "Eof", first |-> i, end |-> i]
      ELSE [type |-> Match(i).type, first |-> i, end |-> Match(i).end]
=============================================================================

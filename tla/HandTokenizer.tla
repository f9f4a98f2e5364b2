---------------------------- MODULE HandTokenizer ----------------------------
(***************************************************************************)
(* The tokenizer written by hand (tokenizer/impl/hand/HandTokenizer.cpp)   *)
(* and the buffer a debug build puts before it                             *)
(* (tokenizer/impl/debug/BufferedTokenizer.cpp).                           *)
(*                                                                         *)
(* A text is a sequence of characters, each standing for the characters    *)
(* the tokenizer treats alike: "1" a decimal digit, "D" a capital between  *)
(* A and F other than E, "z" another letter, "+" either sign, "<" a        *)
(* character that "=" may follow, "@" one that begins no token, and so on. *)
(* One step is one turn of a loop of the code: mode names the loop, start  *)
(* is where the token being read begins.  The answers of peek and next go  *)
(* to the parser, or, while the buffer is being filled, to its constructor.*)
(***************************************************************************)
EXTENDS Integers, Sequences, FiniteSets

CONSTANTS
  Texts,          \* the texts that may be read
  Keywords,       \* the words of the table keywords_
  MaxCalls        \* bound: calls of peek and next the parser makes

Nul == "nul"
Newline == "nl"
Blanks == {"sp", Newline}
Digits == {"1"}
HexDigits == Digits \cup {"D", "E"}
Letters == {"D", "E", "e", "H", "X", "z"}
Signs == {"+"}
Pairs == {<<":", "=">>, <<"<", "=">>, <<".", ".">>}   \* := <= >= ..
Singles == {"(", ")", "+", "*", ":", "=", "<", "."}
Chars == Blanks \cup Digits \cup Letters \cup Singles \cup {"quote", "@", Nul}

TokenTypes == {"Eof", "Ident", "Keyword", "Integer", "Real", "String",
               "Single", "Pair", "Unknown"}
Modes == {"idle", "blank", "comment", "start", "ident", "number", "fraction",
          "exponent", "string", "done"}

ASSUME TextsAssumption == Texts \subseteq Seq(Chars)
ASSUME CallsAssumption == MaxCalls \in Nat

VARIABLES
  text,           \* what in_ holds
  pos,            \* the first character in_ has not given yet
  line, col,      \* line_, col_
  mode,           \* the loop that runs, "idle" outside readOne
  depth,          \* depth of skipComment
  start,          \* t.line, t.col, and the position they are about
  call,           \* the call readOne is part of
  hasLA, la,      \* hasLA_, la_
  scanned,        \* every token readOne has found, the repeated Eof but once
  buffered,       \* is there a BufferedTokenizer between?
  tokens, bpos,   \* its tokens and pos
  ready,          \* its constructor is done, or it does not exist
  calls,          \* calls the parser has made
  answer          \* what the parser was last given

input == <<pos, line, col>>
lookahead == <<hasLA, la>>
buffer == <<tokens, bpos, ready>>
client == <<calls, answer>>
vars == <<text, pos, line, col, mode, depth, start, call, hasLA, la, scanned,
          buffered, tokens, bpos, ready, calls, answer>>

-----------------------------------------------------------------------------
(* peekChar, and what lies behind the character it shows: in_.get() and    *)
(* in_.putback() look one further and leave no trace.                      *)
CharAt(i) == IF i <= Len(text) THEN text[i] ELSE Nul
peekChar == CharAt(pos)
AfterNext == CharAt(pos + 1)
IsPair(i) == <<CharAt(i), CharAt(i + 1)>> \in Pairs

(* Slip: the end of the text is not looked for.                            *)
getCharPastEnd ==
  /\ pos' = pos + 1
  /\ IF peekChar = Newline THEN line' = line + 1 /\ col' = 1
                           ELSE line' = line /\ col' = col + 1

(* getChar, which stays at the end of the text.                            *)
getChar ==
  IF pos > Len(text) THEN UNCHANGED input
  ELSE /\ pos' = pos + 1
       /\ IF peekChar = Newline THEN line' = line + 1 /\ col' = 1
                                ELSE line' = line /\ col' = col + 1

(* n characters, none of them a newline.                                   *)
Take(n) == pos' = pos + n /\ col' = col + n /\ line' = line

Ended(ts) == ts # <<>> /\ ts[Len(ts)].type = "Eof"
NoToken == [type |-> "Eof", line |-> 0, col |-> 0, first |-> 0, end |-> 0]

Init ==
  /\ text \in Texts
  /\ pos = 1 /\ line = 1 /\ col = 1
  /\ mode = "idle" /\ depth = 0
  /\ start = [pos |-> 1, line |-> 1, col |-> 1]
  /\ call = "next"
  /\ hasLA = FALSE /\ la = NoToken
  /\ scanned = <<>>
  /\ buffered \in BOOLEAN
  /\ tokens = <<>> /\ bpos = 1 /\ ready = ~buffered
  /\ calls = 0 /\ answer = [call |-> "none"]

-----------------------------------------------------------------------------
(* readOne ends with the characters up to n further on.                    *)
Emit(type, n) ==
  LET t == [type |-> type, line |-> start.line, col |-> start.col,
            first |-> start.pos, end |-> pos + n]
  IN  /\ Take(n)
      /\ mode' = "done"
      /\ la' = t /\ hasLA' = TRUE
      /\ scanned' = IF Ended(scanned) THEN scanned ELSE Append(scanned, t)
      /\ UNCHANGED <<text, depth, start, call, buffered, buffer, client>>

(* The loop goes on, or another begins, after n more characters.           *)
Continue(m, n) ==
  /\ Take(n)
  /\ mode' = m
  /\ UNCHANGED <<text, depth, start, call, lookahead, scanned, buffered, buffer,
                 client>>

(* peek and next of the HandTokenizer: hasLA_ decides whether to read, and *)
(* next also takes the token out of la_.                                   *)
Begin(c) ==
  /\ mode = "idle"
  /\ call' = c
  /\ mode' = IF hasLA THEN "done" ELSE "blank"
  /\ UNCHANGED <<text, input, depth, start, lookahead, scanned, buffered, buffer,
                 answer>>

Call(c) ==
  /\ ready /\ ~buffered
  /\ calls < MaxCalls
  /\ Begin(c)
  /\ calls' = calls + 1

(* Slip: peek does not keep the token.                                     *)
ReturnForgets ==
  /\ mode = "done"
  /\ mode' = "idle" /\ hasLA' = FALSE
  /\ IF ready
     THEN /\ answer' = [call |-> call, token |-> la]
          /\ UNCHANGED buffer
     ELSE /\ tokens' = Append(tokens, la)
          /\ ready' = (la.type = "Eof")
          /\ UNCHANGED <<bpos, answer>>
  /\ UNCHANGED <<text, input, depth, start, call, la, scanned, buffered, calls>>

(* The call returns: to the parser, or to the constructor of the buffer,   *)
(* which appends the token and stops at Eof.                               *)
Return ==
  /\ mode = "done"
  /\ mode' = "idle"
  /\ hasLA' = (call = "peek")
  /\ IF ready
     THEN /\ answer' = [call |-> call, token |-> la]
          /\ UNCHANGED buffer
     ELSE /\ tokens' = Append(tokens, la)
          /\ ready' = (la.type = "Eof")
          /\ UNCHANGED <<bpos, answer>>
  /\ UNCHANGED <<text, input, depth, start, call, la, scanned, buffered, calls>>

(* BufferedTokenizer: its constructor calls next until Eof; the program    *)
(* stops at a token of type Unknown; peek stays on the last token when pos *)
(* has run past it.                                                        *)
check == \A k \in 1..Len(tokens) : tokens[k].type # "Unknown"

Fill == ~ready /\ Begin("next") /\ UNCHANGED calls

BufferedCall(c) ==
  /\ ready /\ buffered /\ check
  /\ calls < MaxCalls
  /\ calls' = calls + 1
  /\ answer' = [call |-> c,
                token |-> IF bpos <= Len(tokens) THEN tokens[bpos]
                          ELSE tokens[Len(tokens)]]
  /\ bpos' = IF c = "next" /\ bpos <= Len(tokens) THEN bpos + 1 ELSE bpos
  /\ UNCHANGED <<text, input, mode, depth, start, call, lookahead, scanned,
                 buffered, tokens, ready>>

-----------------------------------------------------------------------------
SkipBlank ==
  /\ mode = "blank" /\ peekChar \in Blanks
  /\ getChar
  /\ UNCHANGED <<text, mode, depth, start, call, lookahead, scanned, buffered,
                 buffer, client>>

OpenComment ==
  /\ mode = "blank" /\ peekChar = "(" /\ AfterNext = "*"
  /\ Take(2)
  /\ depth' = 1 /\ mode' = "comment"
  /\ UNCHANGED <<text, start, call, lookahead, scanned, buffered, buffer, client>>

(* Slip: a "(" put back has been counted.                                  *)
StartTokenCounted ==
  /\ mode = "blank" /\ peekChar \notin Blanks
  /\ ~(peekChar = "(" /\ AfterNext = "*")
  /\ start' = [pos |-> pos, line |-> line,
               col |-> IF peekChar = "(" THEN col + 1 ELSE col]
  /\ mode' = "start"
  /\ UNCHANGED <<text, input, depth, call, lookahead, scanned, buffered, buffer,
                 client>>

(* skipWhitespace ends, a "(" put back, and readOne notes line_ and col_.  *)
StartToken ==
  /\ mode = "blank" /\ peekChar \notin Blanks
  /\ ~(peekChar = "(" /\ AfterNext = "*")
  /\ start' = [pos |-> pos, line |-> line, col |-> col]
  /\ mode' = "start"
  /\ UNCHANGED <<text, input, depth, call, lookahead, scanned, buffered, buffer,
                 client>>

Nested == peekChar = "(" /\ AfterNext = "*"
Closed == peekChar = "*" /\ AfterNext = ")"

CommentNest ==
  /\ mode = "comment" /\ Nested
  /\ Take(2) /\ depth' = depth + 1
  /\ UNCHANGED <<text, mode, start, call, lookahead, scanned, buffered, buffer,
                 client>>

CommentClose ==
  /\ mode = "comment" /\ Closed
  /\ Take(2) /\ depth' = depth - 1
  /\ mode' = IF depth = 1 THEN "blank" ELSE "comment"
  /\ UNCHANGED <<text, start, call, lookahead, scanned, buffered, buffer, client>>

(* Slip: a comment ends with its bracket only.                             *)
CommentCharGoesOn ==
  /\ mode = "comment" /\ ~Nested /\ ~Closed
  /\ getChar
  /\ UNCHANGED <<text, mode, depth, start, call, lookahead, scanned, buffered,
                 buffer, client>>

(* Any other character; a NUL, and the end of the text, end the comment.   *)
CommentChar ==
  /\ mode = "comment" /\ ~Nested /\ ~Closed
  /\ getChar
  /\ IF peekChar = Nul THEN mode' = "blank" /\ depth' = 0
                       ELSE UNCHANGED <<mode, depth>>
  /\ UNCHANGED <<text, start, call, lookahead, scanned, buffered, buffer, client>>

(* readOne: the first character decides.                                   *)
ReadEof == mode = "start" /\ peekChar = Nul /\ Emit("Eof", 0)

ReadWord ==
  /\ mode = "start" /\ peekChar \in Letters
  /\ Continue("ident", 0)

ReadDigit ==
  /\ mode = "start" /\ peekChar \in Digits
  /\ Continue("number", 0)

ReadQuote ==
  /\ mode = "start" /\ peekChar = "quote"
  /\ Continue("string", 1)

ReadSymbol ==
  /\ mode = "start" /\ peekChar \notin Letters \cup Digits \cup {"quote", Nul}
  /\ CASE IsPair(pos) -> Emit("Pair", 2)
       [] ~IsPair(pos) /\ peekChar \in Singles -> Emit("Single", 1)
       [] OTHER -> Emit("Unknown", 1)

readIdent ==
  /\ mode = "ident"
  /\ IF peekChar \in Letters \cup Digits THEN Continue("ident", 1)
     ELSE Emit(IF SubSeq(text, start.pos, pos - 1) \in Keywords
               THEN "Keyword" ELSE "Ident", 0)

(* Slip: the dots of a range are not looked through.                       *)
readNumberOneDot ==
  /\ mode = "number"
  /\ CASE peekChar \in HexDigits -> Continue("number", 1)
       [] peekChar = "H" -> Emit("Integer", 1)
       [] peekChar = "X" -> Emit("String", 1)
       [] peekChar = "." -> Continue("fraction", 1)
       [] OTHER -> Emit("Integer", 0)

(* readNumber: hexadecimal digits, then what follows them.                 *)
readNumber ==
  /\ mode = "number"
  /\ CASE peekChar \in HexDigits -> Continue("number", 1)
       [] peekChar = "H" -> Emit("Integer", 1)
       [] peekChar = "X" -> Emit("String", 1)
       [] peekChar = "." /\ AfterNext # "." -> Continue("fraction", 1)
       [] OTHER -> Emit("Integer", 0)

readFraction ==
  /\ mode = "fraction"
  /\ CASE peekChar \in Digits -> Continue("fraction", 1)
       [] peekChar \in {"E", "e"} ->
            Continue("exponent", IF AfterNext \in Signs THEN 2 ELSE 1)
       [] OTHER -> Emit("Real", 0)

readExponent ==
  /\ mode = "exponent"
  /\ IF peekChar \in Digits THEN Continue("exponent", 1) ELSE Emit("Real", 0)

readString ==
  /\ mode = "string"
  /\ CASE peekChar = "quote" -> Emit("String", 1)
       [] peekChar \in {Newline, Nul} -> Emit("String", 0)
       [] OTHER -> Continue("string", 1)

Step ==
  \/ SkipBlank \/ OpenComment \/ StartToken
  \/ CommentNest \/ CommentClose \/ CommentChar
  \/ ReadEof \/ ReadWord \/ ReadDigit \/ ReadQuote \/ ReadSymbol
  \/ readIdent \/ readNumber \/ readFraction \/ readExponent \/ readString
  \/ Return

Next ==
  \/ Step
  \/ Fill
  \/ \E c \in {"peek", "next"} : Call(c) \/ BufferedCall(c)

(* The code is sequential: a call under way goes on, and so does the       *)
(* constructor.  Nothing makes the parser call again.                      *)
Spec == Init /\ [][Next]_vars /\ WF_vars(Step \/ Fill)
-----------------------------------------------------------------------------
Token == [type : TokenTypes, line : Nat, col : Nat, first : Nat, end : Nat]

TypeOK ==
  /\ text \in Seq(Chars)
  /\ pos \in 1..Len(text) + 1 /\ line \in Nat /\ col \in Nat
  /\ mode \in Modes /\ depth \in Nat
  /\ start \in [pos : Nat, line : Nat, col : Nat]
  /\ call \in {"peek", "next"}
  /\ hasLA \in BOOLEAN /\ la \in Token /\ scanned \in Seq(Token)
  /\ buffered \in BOOLEAN /\ ready \in BOOLEAN
  /\ tokens \in Seq(Token) /\ bpos \in 1..Len(tokens) + 1
  /\ calls \in 0..MaxCalls
  /\ answer \in [call : {"none"}] \cup [call : {"peek", "next"}, token : Token]

(* A diagnostic points at the right place: the line and column of a token  *)
(* are those of its first character, whatever comments, put back brackets  *)
(* and looked through dots precede it (HandTokenizer.cpp:50-67).           *)
PlaceOf(i, l, c) ==
  /\ l = 1 + Cardinality({k \in 1..i - 1 : text[k] = Newline})
  /\ \E b \in 0..i - 1 : /\ b = 0 \/ text[b] = Newline
                         /\ \A k \in b + 1..i - 1 : text[k] # Newline
                         /\ c = i - b
PositionsTrue ==
  \A k \in 1..Len(scanned) : PlaceOf(scanned[k].first, scanned[k].line, scanned[k].col)

(* The two tokenizers cut a text into the same tokens, but for these: a    *)
(* number the hand-written one lets swallow letters that no H or X ends,   *)
(* or an exponent without digits (HandTokenizer.cpp:114, :152); a string   *)
(* without its closing quote, a String here and an Unknown there; a NUL,   *)
(* which here ends the text or the comment (HandTokenizer.cpp:74, :200).    *)
Bare(t) == [type |-> t.type, first |-> t.first, end |-> t.end]
Flex(t) == INSTANCE FlexTokenizer WITH Text <- t
Departs(t) ==
  \/ /\ t.type = "Integer" /\ text[t.end - 1] # "H"
     /\ \E k \in t.first..t.end - 1 : text[k] \notin Digits
  \/ /\ t.type = "Real"
     /\ \/ text[t.end - 1] \in {"E", "e"} \cup Signs
        \/ \E k \in t.first..t.end - 1 :
             /\ text[k] \notin Digits /\ \E d \in k + 1..t.end - 1 : text[d] = "."
  \/ /\ t.type = "String" /\ text[t.first] = "quote"
     /\ text[t.end - 1] # "quote" \/ t.end = t.first + 1
NulMet(from, to) == \E k \in from..to : k <= Len(text) /\ text[k] = Nul
EndBefore(k) == IF k = 1 THEN 1 ELSE scanned[k - 1].end
AgreesWithFlex ==
  \A k \in 1..Len(scanned) :
    LET t == scanned[k]
        f == Flex(text)!readOne(EndBefore(k))
    IN  NulMet(EndBefore(k), t.end) \/ ((f = Bare(t)) <=> ~Departs(t))

(* A call of the parser returns, and so does the constructor of the        *)
(* buffer: no loop of readOne can stay where it is (HandTokenizer.cpp:72). *)
CallsReturn == (mode # "idle" \/ ~ready) ~> (mode = "idle" /\ ready)

(* Read one token ahead or all of them, the parser sees the same kind of   *)
(* stream: each token once, peek before next, Eof for ever                 *)
(* (HandTokenizer.cpp:286, BufferedTokenizer.cpp:15).                      *)
Handed ==
  IF buffered THEN IF bpos > Len(tokens) /\ bpos > 1 THEN Len(tokens) - 1 ELSE bpos - 1
  ELSE IF hasLA \/ Ended(scanned) THEN Len(scanned) - 1 ELSE Len(scanned)
Stream == INSTANCE TokenStream WITH
  Types <- TokenTypes,
  list <- [k \in 1..Len(scanned) |-> Bare(scanned[k])],
  at <- Handed,
  answer <- IF answer.call = "none" THEN answer
            ELSE [call |-> answer.call, token |-> Bare(answer.token)]
IsTokenStream == Stream!Spec
=============================================================================

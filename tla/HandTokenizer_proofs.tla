------------------------ MODULE HandTokenizer_proofs ------------------------
(***************************************************************************)
(* The place of a token is that of its first character, for texts of every *)
(* length, parsers that call peek and next as they like, and with the      *)
(* buffer as without it.  line and col are true of pos at every character: *)
(* what is taken without looking at it is never a newline.                 *)
(*                                                                         *)
(* And what the parser is given is the stream of TokenStream, one token    *)
(* read ahead or all of them.                                              *)
(*                                                                         *)
(* And each token is the one the longest match of the rules of flex finds  *)
(* where the last one ended, but for the exceptions Departs names.         *)
(***************************************************************************)
EXTENDS HandTokenizer, TLAPS, FiniteSetTheorems, SequenceTheorems, WellFoundedInduction

(* PlaceOf, with the text as a parameter.                                  *)
PlaceIn(t, i, l, c) ==
  /\ l = 1 + Cardinality({k \in 1..i - 1 : t[k] = Newline})
  /\ \E b \in 0..i - 1 : /\ b = 0 \/ t[b] = Newline
                         /\ \A k \in b + 1..i - 1 : t[k] # Newline
                         /\ c = i - b

Here ==
  /\ text \in Seq(Chars) /\ pos \in 1..Len(text) + 1 /\ line \in Nat /\ col \in Nat
  /\ PlaceIn(text, pos, line, col)

Marked ==
  /\ start \in [pos : Nat, line : Nat, col : Nat]
  /\ PlaceIn(text, start.pos, start.line, start.col)

Phase ==
  /\ mode \in Modes /\ depth \in Nat
  /\ mode = "comment" => depth # 0
  /\ mode = "start" => peekChar \notin Blanks

Found ==
  /\ hasLA \in BOOLEAN /\ la \in Token /\ scanned \in Seq(Token)
  /\ \A k \in 1..Len(scanned) :
       PlaceIn(text, scanned[k].first, scanned[k].line, scanned[k].col)

Given ==
  /\ call \in {"peek", "next"}
  /\ buffered \in BOOLEAN /\ ready \in BOOLEAN
  /\ tokens \in Seq(Token) /\ bpos \in 1..Len(tokens) + 1
  /\ ready /\ buffered => Len(tokens) # 0
  /\ calls \in 0..MaxCalls
  /\ answer \in [call : {"none"}] \cup [call : {"peek", "next"}, token : Token]

IInv == Here /\ Marked /\ Phase /\ Found /\ Given

(* Of the next n characters none is a newline, or behind the end.          *)
Clear(n) ==
  /\ n >= 1 => peekChar \notin {Newline, Nul}
  /\ n >= 2 => AfterNext \notin {Newline, Nul}

-----------------------------------------------------------------------------
(* Places.                                                                 *)
LEMMA FirstPlace == ASSUME NEW t PROVE PlaceIn(t, 1, 1, 1)
  <1>1. {k \in 1..1 - 1 : t[k] = Newline} = {}
    OBVIOUS
  <1>2. Cardinality({}) = 0
    BY FS_EmptySet
  <1>3. 0 \in 0..1 - 1 /\ \A k \in 0 + 1..1 - 1 : t[k] # Newline
    OBVIOUS
  <1> QED BY <1>1, <1>2, <1>3 DEF PlaceIn

LEMMA PlaceBehind ==
  ASSUME NEW t, NEW i \in Nat \ {0}, NEW l \in Nat, NEW c \in Nat,
         PlaceIn(t, i, l, c), t[i] # Newline
  PROVE  PlaceIn(t, i + 1, l, c + 1)
  <1>1. {k \in 1..(i + 1) - 1 : t[k] = Newline} = {k \in 1..i - 1 : t[k] = Newline}
    OBVIOUS
  <1>2. PICK b \in 0..i - 1 : /\ b = 0 \/ t[b] = Newline
                              /\ \A k \in b + 1..i - 1 : t[k] # Newline
                              /\ c = i - b
    BY DEF PlaceIn
  <1>3. b \in 0..(i + 1) - 1 /\ c + 1 = (i + 1) - b
    BY <1>2
  <1>4. ASSUME NEW k \in b + 1..(i + 1) - 1 PROVE t[k] # Newline
    <2>1. k = i \/ k \in b + 1..i - 1
      OBVIOUS
    <2> QED BY <1>2, <2>1
  <1>5. l = 1 + Cardinality({k \in 1..(i + 1) - 1 : t[k] = Newline})
    BY <1>1 DEF PlaceIn
  <1> QED BY <1>2, <1>3, <1>4, <1>5 DEF PlaceIn

LEMMA PlaceBelow ==
  ASSUME NEW t, NEW i \in Nat \ {0}, NEW l \in Nat, NEW c \in Nat,
         PlaceIn(t, i, l, c), t[i] = Newline
  PROVE  PlaceIn(t, i + 1, l + 1, 1)
  <1> DEFINE S == {k \in 1..i - 1 : t[k] = Newline}
  <1>1. {k \in 1..(i + 1) - 1 : t[k] = Newline} = S \cup {i}
    OBVIOUS
  <1>2. IsFiniteSet(S) /\ i \notin S
    <2>1. IsFiniteSet(1..i - 1)
      BY FS_Interval
    <2> QED BY <2>1, FS_Subset
  <1>3. l = 1 + Cardinality(S)
    BY DEF PlaceIn
  <1> HIDE DEF S
  <1>4. Cardinality(S) \in Nat /\ Cardinality(S \cup {i}) = Cardinality(S) + 1
    BY <1>2, FS_AddElement, FS_CardinalityType
  <1>5. l + 1 = 1 + Cardinality({k \in 1..(i + 1) - 1 : t[k] = Newline})
    BY <1>1, <1>3, <1>4
  <1>6. i \in 0..(i + 1) - 1 /\ 1 = (i + 1) - i /\ \A k \in i + 1..(i + 1) - 1 : t[k] # Newline
    OBVIOUS
  <1> QED BY <1>5, <1>6 DEF PlaceIn

(* What is shown and is not NUL stands in the text.                        *)
LEMMA Shown ==
  ASSUME Here
  PROVE  /\ peekChar # Nul => pos \in 1..Len(text) /\ peekChar = text[pos]
         /\ AfterNext # Nul => pos + 1 \in 1..Len(text) /\ AfterNext = text[pos + 1]
         /\ pos <= Len(text) => peekChar = text[pos]
  BY DEF Here, peekChar, AfterNext, CharAt

LEMMA TakeOK ==
  ASSUME Here, NEW n \in {0, 1, 2}, Clear(n), Take(n), text' = text
  PROVE  Here'
  <1>1. /\ pos' = pos + n /\ col' = col + n /\ line' = line
        /\ text \in Seq(Chars) /\ Len(text) \in Nat
        /\ pos \in Nat \ {0} /\ pos <= Len(text) + 1 /\ line \in Nat /\ col \in Nat
        /\ PlaceIn(text, pos, line, col)
    BY DEF Here, Take
  <1>2. n >= 1 => pos <= Len(text) /\ PlaceIn(text, pos + 1, line, col + 1)
    BY <1>1, Shown, PlaceBehind DEF Clear
  <1>3. n >= 2 => pos + 1 <= Len(text) /\ text[pos + 1] # Newline
    BY Shown DEF Clear
  <1>4. n >= 2 => PlaceIn(text, (pos + 1) + 1, line, (col + 1) + 1)
    <2>1. pos + 1 \in Nat \ {0} /\ col + 1 \in Nat
      BY <1>1
    <2> QED BY <1>1, <1>2, <1>3, <2>1, PlaceBehind
  <1>5. CASE n = 0
    <2>1. pos' = pos /\ col' = col
      BY <1>1, <1>5
    <2> QED BY <1>1, <2>1 DEF Here
  <1>6. CASE n = 1
    <2>1. pos' = pos + 1 /\ col' = col + 1 /\ pos <= Len(text)
      BY <1>1, <1>2, <1>6
    <2>2. PlaceIn(text', pos', line', col')
      BY <1>1, <1>2, <1>6, <2>1
    <2> QED BY <1>1, <2>1, <2>2 DEF Here
  <1>7. CASE n = 2
    <2>1. pos' = (pos + 1) + 1 /\ col' = (col + 1) + 1 /\ pos + 1 <= Len(text)
      BY <1>1, <1>3, <1>7
    <2>2. PlaceIn(text', pos', line', col')
      BY <1>1, <1>4, <1>7, <2>1
    <2> QED BY <1>1, <2>1, <2>2 DEF Here
  <1> QED BY <1>5, <1>6, <1>7

LEMMA GetCharOK ==
  ASSUME Here, getChar, text' = text
  PROVE  Here'
  <1>1. /\ text \in Seq(Chars) /\ Len(text) \in Nat
        /\ pos \in Nat \ {0} /\ pos <= Len(text) + 1 /\ line \in Nat /\ col \in Nat
        /\ PlaceIn(text, pos, line, col)
    BY DEF Here
  <1>2. CASE pos > Len(text)
    <2>1. pos' = pos /\ line' = line /\ col' = col
      BY <1>2 DEF getChar, input
    <2> QED BY <1>1, <2>1 DEF Here
  <1>3. CASE ~(pos > Len(text)) /\ peekChar = Newline
    <2>1. pos' = pos + 1 /\ line' = line + 1 /\ col' = 1 /\ pos <= Len(text)
      BY <1>1, <1>3 DEF getChar
    <2>2. text[pos] = Newline
      BY <1>3, <2>1, Shown
    <2>3. PlaceIn(text', pos', line', col')
      BY <1>1, <2>1, <2>2, PlaceBelow
    <2> QED BY <1>1, <2>1, <2>3 DEF Here
  <1>4. CASE ~(pos > Len(text)) /\ peekChar # Newline
    <2>1. pos' = pos + 1 /\ line' = line /\ col' = col + 1 /\ pos <= Len(text)
      BY <1>1, <1>4 DEF getChar
    <2>2. text[pos] # Newline
      BY <1>4, <2>1, Shown
    <2>3. PlaceIn(text', pos', line', col')
      BY <1>1, <2>1, <2>2, PlaceBehind
    <2> QED BY <1>1, <2>1, <2>3 DEF Here
  <1> QED BY <1>2, <1>3, <1>4

-----------------------------------------------------------------------------
(* The parts of the invariant that most steps leave alone.                 *)
LEMMA MarkedStays == ASSUME IInv, UNCHANGED <<text, start>> PROVE Marked'
  BY DEF IInv, Marked

LEMMA FoundStays == ASSUME IInv, UNCHANGED <<text, lookahead, scanned>> PROVE Found'
  BY DEF IInv, Found, lookahead

LEMMA GivenStays == ASSUME IInv, UNCHANGED <<call, buffered, buffer, client>> PROVE Given'
  BY DEF IInv, Given, buffer, client

LEMMA HereStays == ASSUME IInv, UNCHANGED <<text, input>> PROVE Here'
  BY DEF IInv, Here, input

LEMMA PhaseTo ==
  ASSUME IInv, mode' \in Modes \ {"comment", "start"}, depth' = depth
  PROVE  Phase'
  BY DEF IInv, Phase

LEMMA EmitOK ==
  ASSUME IInv, NEW type \in TokenTypes, NEW n \in {0, 1, 2}, Clear(n), Emit(type, n)
  PROVE  IInv'
  <1> DEFINE t == [type |-> type, line |-> start.line, col |-> start.col,
                   first |-> start.pos, end |-> pos + n]
  <1>1. /\ Take(n) /\ mode' = "done" /\ la' = t /\ hasLA' = TRUE
        /\ scanned' = IF Ended(scanned) THEN scanned ELSE Append(scanned, t)
        /\ UNCHANGED <<text, depth, start, call, buffered, buffer, client>>
    BY DEF Emit
  <1>2. Here'
    BY <1>1, TakeOK DEF IInv
  <1>3. Marked' /\ Given' /\ Phase'
    BY <1>1, MarkedStays, GivenStays, PhaseTo DEF Modes
  <1>4. /\ t \in Token /\ t.first = start.pos /\ t.line = start.line /\ t.col = start.col
        /\ PlaceIn(text, start.pos, start.line, start.col)
    <2>1. start \in [pos : Nat, line : Nat, col : Nat] /\ pos \in Nat
      BY DEF IInv, Marked, Here
    <2>2. pos + n \in Nat
      BY <2>1
    <2> QED BY <2>1, <2>2 DEF Token, IInv, Marked
  <1> HIDE DEF t
  <1>5. /\ scanned \in Seq(Token) /\ Len(scanned) \in Nat
        /\ \A k \in 1..Len(scanned) :
             PlaceIn(text, scanned[k].first, scanned[k].line, scanned[k].col)
    BY DEF IInv, Found
  <1>10. hasLA' \in BOOLEAN /\ la' \in Token /\ text' = text
    BY <1>1, <1>4
  <1>6. ASSUME Ended(scanned) PROVE Found'
    <2>1. scanned' = scanned
      BY <1>1, <1>6
    <2> QED BY <1>10, <1>5, <2>1 DEF Found
  <1>7. ASSUME ~Ended(scanned) PROVE Found'
    <2>1. /\ scanned' \in Seq(Token) /\ Len(scanned') = Len(scanned) + 1
          /\ scanned'[Len(scanned) + 1] = t
          /\ \A k \in 1..Len(scanned) : scanned'[k] = scanned[k]
      BY <1>1, <1>4, <1>5, <1>7
    <2>2. ASSUME NEW k \in 1..Len(scanned')
          PROVE  PlaceIn(text', scanned'[k].first, scanned'[k].line, scanned'[k].col)
      <3>1. CASE k = Len(scanned) + 1
        BY <1>1, <1>4, <2>1, <3>1
      <3>2. CASE k # Len(scanned) + 1
        <4>1. k \in 1..Len(scanned)
          BY <1>5, <2>1, <3>2
        <4> QED BY <1>1, <1>5, <2>1, <4>1
      <3> QED BY <3>1, <3>2
    <2> QED BY <1>10, <2>1, <2>2 DEF Found
  <1> QED BY <1>2, <1>3, <1>6, <1>7 DEF IInv

LEMMA ContinueOK ==
  ASSUME IInv, NEW m \in Modes \ {"comment", "start"}, NEW n \in {0, 1, 2}, Clear(n),
         Continue(m, n)
  PROVE  IInv'
  <1>1. /\ Take(n) /\ mode' = m
        /\ UNCHANGED <<text, depth, start, call, lookahead, scanned, buffered, buffer, client>>
    BY DEF Continue
  <1>2. Here'
    BY <1>1, TakeOK DEF IInv
  <1> QED BY <1>1, <1>2, MarkedStays, FoundStays, GivenStays, PhaseTo DEF IInv

-----------------------------------------------------------------------------
LEMMA InitOK == Init => IInv
  <1> SUFFICES ASSUME Init PROVE IInv
    OBVIOUS
  <1>1. Here
    BY TextsAssumption, FirstPlace, EmptySeq DEF Init, Here
  <1>2. Marked
    BY FirstPlace DEF Init, Marked
  <1>3. Phase
    BY DEF Init, Phase, Modes
  <1>4. Found
    <2>1. NoToken \in Token
      BY DEF NoToken, Token, TokenTypes
    <2>2. hasLA \in BOOLEAN /\ la \in Token
      BY <2>1 DEF Init
    <2>3. scanned \in Seq(Token) /\ Len(scanned) = 0
      BY EmptySeq DEF Init
    <2>4. \A k \in 1..Len(scanned) :
            PlaceIn(text, scanned[k].first, scanned[k].line, scanned[k].col)
      BY <2>3
    <2> QED BY <2>2, <2>3, <2>4 DEF Found
  <1>5. Given
    <2>1. buffered \in BOOLEAN /\ ready \in BOOLEAN /\ ~(ready /\ buffered)
      BY DEF Init
    <2>2. tokens \in Seq(Token) /\ bpos \in 1..Len(tokens) + 1 /\ calls \in 0..MaxCalls
      BY EmptySeq, CallsAssumption DEF Init
    <2>3. call \in {"peek", "next"}
      BY DEF Init
    <2>4. answer \in [call : {"none"}]
      BY DEF Init
    <2> QED BY <2>1, <2>2, <2>3, <2>4 DEF Given
  <1> QED BY <1>1, <1>2, <1>3, <1>4, <1>5 DEF IInv

(* Calls.                                                                  *)
LEMMA BeginOK ==
  ASSUME IInv, NEW c \in {"peek", "next"}, Begin(c), calls' \in 0..MaxCalls
  PROVE  IInv'
  <1>1. /\ call' = c /\ mode' \in {"done", "blank"}
        /\ UNCHANGED <<text, input, depth, start, lookahead, scanned, buffered, buffer, answer>>
    BY DEF Begin
  <1>2. Given'
    BY <1>1 DEF IInv, Given, buffer
  <1>3. Phase'
    BY <1>1, PhaseTo DEF Modes
  <1> QED BY <1>1, <1>2, <1>3, HereStays, MarkedStays, FoundStays DEF IInv

LEMMA CallOK == ASSUME IInv, NEW c \in {"peek", "next"}, Call(c) PROVE IInv'
  <1>1. Begin(c) /\ calls < MaxCalls /\ calls' = calls + 1 /\ calls \in 0..MaxCalls
    BY DEF Call, IInv, Given
  <1>2. calls' \in 0..MaxCalls
    BY <1>1, CallsAssumption
  <1> QED BY <1>1, <1>2, BeginOK

LEMMA FillOK == ASSUME IInv, Fill PROVE IInv'
  <1>1. Begin("next") /\ calls' \in 0..MaxCalls
    BY DEF Fill, IInv, Given
  <1> QED BY <1>1, BeginOK

LEMMA ReturnOK == ASSUME IInv, Return PROVE IInv'
  <1>1. /\ mode' = "idle" /\ hasLA' \in BOOLEAN
        /\ UNCHANGED <<text, input, depth, start, call, la, scanned, buffered, calls>>
    BY DEF Return
  <1>2. Found'
    BY <1>1 DEF IInv, Found
  <1>3. la \in Token /\ call \in {"peek", "next"} /\ tokens \in Seq(Token) /\ Len(tokens) \in Nat
    BY DEF IInv, Found, Given
  <1>8. /\ bpos \in 1..Len(tokens) + 1 /\ calls \in 0..MaxCalls
        /\ answer \in [call : {"none"}] \cup [call : {"peek", "next"}, token : Token]
    BY DEF IInv, Given
  <1>9. call' \in {"peek", "next"} /\ calls' \in 0..MaxCalls
    BY <1>1, <1>3, <1>8
  <1>10. /\ buffered \in BOOLEAN /\ ready \in BOOLEAN
         /\ ready /\ buffered => Len(tokens) # 0
    BY DEF IInv, Given
  <1>11. buffered' = buffered
    BY <1>1
  <1>4. ASSUME ready PROVE Given'
    <2>1. answer' = [call |-> call, token |-> la]
      BY <1>4 DEF Return
    <2>2. tokens' = tokens /\ bpos' = bpos
      BY <1>4 DEF Return, buffer
    <2>3. ready' = ready
      BY <1>4 DEF Return, buffer
    <2>4. answer' \in [call : {"peek", "next"}, token : Token]
      BY <1>3, <2>1
    <2>5. tokens' \in Seq(Token) /\ bpos' \in 1..Len(tokens') + 1
      BY <1>3, <1>8, <2>2
    <2>6. /\ buffered' \in BOOLEAN /\ ready' \in BOOLEAN
          /\ ready' /\ buffered' => Len(tokens') # 0
      BY <1>10, <1>11, <2>2, <2>3
    <2> QED BY <1>9, <2>4, <2>5, <2>6 DEF Given
  <1>5. ASSUME ~ready PROVE Given'
    <2>1. tokens' = Append(tokens, la) /\ bpos' = bpos /\ answer' = answer
      BY <1>5 DEF Return
    <2>2. ready' \in BOOLEAN
      BY <1>5 DEF Return
    <2>3. tokens' \in Seq(Token) /\ Len(tokens') = Len(tokens) + 1
      BY <1>3, <2>1
    <2>4. bpos' \in 1..Len(tokens') + 1 /\ Len(tokens') # 0
      BY <1>3, <1>8, <2>1, <2>3
    <2>5. answer' \in [call : {"none"}] \cup [call : {"peek", "next"}, token : Token]
      BY <1>8, <2>1
    <2>6. buffered' \in BOOLEAN
      BY <1>10, <1>11
    <2> QED BY <1>9, <2>2, <2>3, <2>4, <2>5, <2>6 DEF Given
  <1>6. Phase'
    BY <1>1, PhaseTo DEF Modes
  <1>7. Given'
    BY <1>4, <1>5
  <1> QED BY <1>1, <1>2, <1>6, <1>7, HereStays, MarkedStays DEF IInv

LEMMA BufferedCallOK == ASSUME IInv, NEW c \in {"peek", "next"}, BufferedCall(c) PROVE IInv'
  <1>1. /\ ready /\ buffered /\ calls < MaxCalls /\ calls' = calls + 1
        /\ answer' = [call |-> c, token |-> IF bpos <= Len(tokens) THEN tokens[bpos]
                                            ELSE tokens[Len(tokens)]]
        /\ bpos' = IF c = "next" /\ bpos <= Len(tokens) THEN bpos + 1 ELSE bpos
        /\ UNCHANGED <<text, input, mode, depth, start, call, lookahead, scanned, buffered,
                       tokens, ready>>
    BY DEF BufferedCall
  <1>2. /\ tokens \in Seq(Token) /\ Len(tokens) \in Nat \ {0} /\ bpos \in 1..Len(tokens) + 1
        /\ calls \in 0..MaxCalls
    BY <1>1 DEF IInv, Given
  <1>3. tokens[Len(tokens)] \in Token /\ (bpos <= Len(tokens) => tokens[bpos] \in Token)
    BY <1>2
  <1>4. answer' \in [call : {"peek", "next"}, token : Token]
    BY <1>1, <1>3
  <1>5. bpos' \in 1..Len(tokens) + 1 /\ calls' \in 0..MaxCalls
    BY <1>1, <1>2, CallsAssumption
  <1>6. Given'
    BY <1>1, <1>4, <1>5 DEF IInv, Given
  <1>7. Phase'
    BY <1>1 DEF IInv, Phase, peekChar, CharAt, input
  <1> QED BY <1>1, <1>6, <1>7, HereStays, MarkedStays, FoundStays DEF IInv

(* Blanks and comments.                                                    *)
LEMMA SkipBlankOK == ASSUME IInv, SkipBlank PROVE IInv'
  <1>1. /\ mode = "blank" /\ getChar
        /\ UNCHANGED <<text, mode, depth, start, call, lookahead, scanned, buffered, buffer,
                       client>>
    BY DEF SkipBlank
  <1>2. Here'
    BY <1>1, GetCharOK DEF IInv
  <1>3. Phase'
    BY <1>1, PhaseTo DEF Modes
  <1> QED BY <1>1, <1>2, <1>3, MarkedStays, FoundStays, GivenStays DEF IInv

(* Two characters of a comment's bracket, at its depth.                    *)
LEMMA BracketOK ==
  ASSUME IInv, Clear(2), Take(2), mode' \in {"comment", "blank"}, depth' \in Nat,
         mode' = "comment" => depth' # 0,
         UNCHANGED <<text, start, call, lookahead, scanned, buffered, buffer, client>>
  PROVE  IInv'
  <1>1. Here'
    BY TakeOK DEF IInv
  <1>2. Phase'
    BY DEF Phase, Modes
  <1> QED BY <1>1, <1>2, MarkedStays, FoundStays, GivenStays DEF IInv

LEMMA OpenCommentOK == ASSUME IInv, OpenComment PROVE IInv'
  <1>1. Clear(2)
    BY DEF OpenComment, Clear, Newline, Nul
  <1> QED BY <1>1, BracketOK DEF OpenComment

LEMMA CommentNestOK == ASSUME IInv, CommentNest PROVE IInv'
  <1>1. Clear(2)
    BY DEF CommentNest, Nested, Clear, Newline, Nul
  <1>2. /\ mode' = "comment" /\ depth' \in Nat /\ depth' # 0 /\ Take(2)
        /\ UNCHANGED <<text, start, call, lookahead, scanned, buffered, buffer, client>>
    BY DEF CommentNest, IInv, Phase
  <1> QED BY <1>1, <1>2, BracketOK

LEMMA CommentCloseOK == ASSUME IInv, CommentClose PROVE IInv'
  <1>1. Clear(2)
    BY DEF CommentClose, Closed, Clear, Newline, Nul
  <1>2. /\ depth \in Nat \ {0} /\ depth' = depth - 1 /\ Take(2)
        /\ mode' = IF depth = 1 THEN "blank" ELSE "comment"
        /\ UNCHANGED <<text, start, call, lookahead, scanned, buffered, buffer, client>>
    BY DEF CommentClose, IInv, Phase
  <1>3. /\ mode' \in {"comment", "blank"} /\ depth' \in Nat
        /\ mode' = "comment" => depth' # 0
    BY <1>2
  <1> QED BY <1>1, <1>2, <1>3, BracketOK

LEMMA CommentCharOK == ASSUME IInv, CommentChar PROVE IInv'
  <1>1. /\ mode = "comment" /\ getChar
        /\ \/ mode' = "blank" /\ depth' = 0
           \/ mode' = mode /\ depth' = depth
        /\ UNCHANGED <<text, start, call, lookahead, scanned, buffered, buffer, client>>
    BY DEF CommentChar
  <1>2. Here'
    BY <1>1, GetCharOK DEF IInv
  <1>3. Phase'
    BY <1>1 DEF IInv, Phase, Modes
  <1> QED BY <1>1, <1>2, <1>3, MarkedStays, FoundStays, GivenStays DEF IInv

LEMMA StartTokenOK == ASSUME IInv, StartToken PROVE IInv'
  <1>1. /\ peekChar \notin Blanks /\ mode' = "start"
        /\ start' = [pos |-> pos, line |-> line, col |-> col]
        /\ UNCHANGED <<text, input, depth, call, lookahead, scanned, buffered, buffer, client>>
    BY DEF StartToken
  <1>2. pos \in Nat /\ line \in Nat /\ col \in Nat /\ PlaceIn(text, pos, line, col)
    BY DEF IInv, Here
  <1>3. Marked'
    BY <1>1, <1>2 DEF Marked
  <1>4. Phase'
    BY <1>1 DEF IInv, Phase, Modes, peekChar, CharAt, input
  <1> QED BY <1>1, <1>3, <1>4, HereStays, FoundStays, GivenStays DEF IInv

-----------------------------------------------------------------------------
(* readOne.  What the loops take without ending is no newline.             *)
LEMMA ReadEofOK == ASSUME IInv, ReadEof PROVE IInv'
  <1>1. Emit("Eof", 0) /\ Clear(0) /\ "Eof" \in TokenTypes
    BY DEF ReadEof, Clear, TokenTypes
  <1> QED BY <1>1, EmitOK

LEMMA ReadWordOK == ASSUME IInv, ReadWord PROVE IInv'
  <1>1. Continue("ident", 0) /\ Clear(0) /\ "ident" \in Modes \ {"comment", "start"}
    BY DEF ReadWord, Clear, Modes
  <1> QED BY <1>1, ContinueOK

LEMMA ReadDigitOK == ASSUME IInv, ReadDigit PROVE IInv'
  <1>1. Continue("number", 0) /\ Clear(0) /\ "number" \in Modes \ {"comment", "start"}
    BY DEF ReadDigit, Clear, Modes
  <1> QED BY <1>1, ContinueOK

LEMMA ReadQuoteOK == ASSUME IInv, ReadQuote PROVE IInv'
  <1>1. Continue("string", 1) /\ Clear(1) /\ "string" \in Modes \ {"comment", "start"}
    BY DEF ReadQuote, Clear, Modes, Newline, Nul
  <1> QED BY <1>1, ContinueOK

LEMMA ReadSymbolOK == ASSUME IInv, ReadSymbol PROVE IInv'
  <1>1. Clear(1)
    <2>1. peekChar \notin Blanks /\ peekChar # Nul
      BY DEF ReadSymbol, IInv, Phase
    <2> QED BY <2>1 DEF Clear, Blanks
  <1>2. {"Pair", "Single", "Unknown"} \subseteq TokenTypes
    BY DEF TokenTypes
  <1>3. CASE IsPair(pos)
    <2>1. Emit("Pair", 2)
      BY <1>3 DEF ReadSymbol
    <2>2. AfterNext \in {"=", "."}
      BY <1>3 DEF IsPair, Pairs, AfterNext
    <2>3. Clear(2)
      BY <1>1, <2>2 DEF Clear, Newline, Nul
    <2> QED BY <1>2, <2>1, <2>3, EmitOK
  <1>4. CASE ~IsPair(pos) /\ peekChar \in Singles
    <2>1. Emit("Single", 1)
      BY <1>4 DEF ReadSymbol
    <2> QED BY <1>1, <1>2, <2>1, EmitOK
  <1>5. CASE ~IsPair(pos) /\ peekChar \notin Singles
    <2>1. Emit("Unknown", 1)
      BY <1>5 DEF ReadSymbol
    <2> QED BY <1>1, <1>2, <2>1, EmitOK
  <1> QED BY <1>3, <1>4, <1>5

LEMMA readIdentOK == ASSUME IInv, readIdent PROVE IInv'
  <1>1. CASE peekChar \in Letters \cup Digits
    <2>1. Continue("ident", 1) /\ "ident" \in Modes \ {"comment", "start"}
      BY <1>1 DEF readIdent, Modes
    <2>2. Clear(1)
      BY <1>1 DEF Clear, Letters, Digits, Newline, Nul
    <2> QED BY <2>1, <2>2, ContinueOK
  <1>2. CASE peekChar \notin Letters \cup Digits
    <2> DEFINE type == IF SubSeq(text, start.pos, pos - 1) \in Keywords
                       THEN "Keyword" ELSE "Ident"
    <2>1. Emit(type, 0)
      BY <1>2 DEF readIdent
    <2>2. type \in TokenTypes
      BY DEF TokenTypes
    <2> HIDE DEF type
    <2>3. Clear(0)
      BY DEF Clear
    <2> QED BY <2>1, <2>2, <2>3, EmitOK
  <1> QED BY <1>1, <1>2

LEMMA readNumberOK == ASSUME IInv, readNumber PROVE IInv'
  <1>1. /\ {"number", "fraction"} \subseteq Modes \ {"comment", "start"}
        /\ {"Integer", "String"} \subseteq TokenTypes /\ Clear(0)
    BY DEF Modes, TokenTypes, Clear
  <1>2. CASE peekChar \in HexDigits
    <2>1. Continue("number", 1)
      BY <1>2 DEF readNumber, HexDigits, Digits
    <2>2. Clear(1)
      BY <1>2 DEF Clear, HexDigits, Digits, Newline, Nul
    <2> QED BY <1>1, <2>1, <2>2, ContinueOK
  <1>3. CASE peekChar = "H"
    <2>1. Emit("Integer", 1)
      BY <1>3 DEF readNumber, HexDigits, Digits
    <2>2. Clear(1)
      BY <1>3 DEF Clear, Newline, Nul
    <2> QED BY <1>1, <2>1, <2>2, EmitOK
  <1>4. CASE peekChar = "X"
    <2>1. Emit("String", 1)
      BY <1>4 DEF readNumber, HexDigits, Digits
    <2>2. Clear(1)
      BY <1>4 DEF Clear, Newline, Nul
    <2> QED BY <1>1, <2>1, <2>2, EmitOK
  <1>5. CASE peekChar = "." /\ AfterNext # "."
    <2>1. Continue("fraction", 1)
      BY <1>5 DEF readNumber, HexDigits, Digits
    <2>2. Clear(1)
      BY <1>5 DEF Clear, Newline, Nul
    <2> QED BY <1>1, <2>1, <2>2, ContinueOK
  <1>6. CASE /\ peekChar \notin HexDigits /\ peekChar # "H" /\ peekChar # "X"
             /\ ~(peekChar = "." /\ AfterNext # ".")
    <2>1. Emit("Integer", 0)
      BY <1>6 DEF readNumber
    <2> QED BY <1>1, <2>1, EmitOK
  <1> QED BY <1>2, <1>3, <1>4, <1>5, <1>6

LEMMA readFractionOK == ASSUME IInv, readFraction PROVE IInv'
  <1>1. /\ {"exponent", "fraction"} \subseteq Modes \ {"comment", "start"}
        /\ "Real" \in TokenTypes /\ Clear(0)
    BY DEF Modes, TokenTypes, Clear
  <1>2. CASE peekChar \in Digits
    <2>1. Continue("fraction", 1)
      BY <1>2 DEF readFraction, Digits
    <2>2. Clear(1)
      BY <1>2 DEF Clear, Digits, Newline, Nul
    <2> QED BY <1>1, <2>1, <2>2, ContinueOK
  <1>3. CASE peekChar \in {"E", "e"} /\ AfterNext \in Signs
    <2>1. Continue("exponent", 2)
      BY <1>3 DEF readFraction, Digits
    <2>2. Clear(2)
      BY <1>3 DEF Clear, Signs, Newline, Nul
    <2> QED BY <1>1, <2>1, <2>2, ContinueOK
  <1>4. CASE peekChar \in {"E", "e"} /\ AfterNext \notin Signs
    <2>1. Continue("exponent", 1)
      BY <1>4 DEF readFraction, Digits
    <2>2. Clear(1)
      BY <1>4 DEF Clear, Newline, Nul
    <2> QED BY <1>1, <2>1, <2>2, ContinueOK
  <1>5. CASE peekChar \notin Digits /\ peekChar \notin {"E", "e"}
    <2>1. Emit("Real", 0)
      BY <1>5 DEF readFraction
    <2> QED BY <1>1, <2>1, EmitOK
  <1> QED BY <1>2, <1>3, <1>4, <1>5

LEMMA readExponentOK == ASSUME IInv, readExponent PROVE IInv'
  <1>1. CASE peekChar \in Digits
    <2>1. Continue("exponent", 1) /\ "exponent" \in Modes \ {"comment", "start"}
      BY <1>1 DEF readExponent, Modes
    <2>2. Clear(1)
      BY <1>1 DEF Clear, Digits, Newline, Nul
    <2> QED BY <2>1, <2>2, ContinueOK
  <1>2. CASE peekChar \notin Digits
    <2>1. Emit("Real", 0) /\ "Real" \in TokenTypes /\ Clear(0)
      BY <1>2 DEF readExponent, TokenTypes, Clear
    <2> QED BY <2>1, EmitOK
  <1> QED BY <1>1, <1>2

LEMMA readStringOK == ASSUME IInv, readString PROVE IInv'
  <1>1. "string" \in Modes \ {"comment", "start"} /\ "String" \in TokenTypes
    BY DEF Modes, TokenTypes
  <1>2. CASE peekChar = "quote"
    <2>1. Emit("String", 1)
      BY <1>2 DEF readString, Newline, Nul
    <2>2. Clear(1)
      BY <1>2 DEF Clear, Newline, Nul
    <2> QED BY <1>1, <2>1, <2>2, EmitOK
  <1>3. CASE peekChar \in {Newline, Nul}
    <2>1. Emit("String", 0)
      BY <1>3 DEF readString, Newline, Nul
    <2>2. Clear(0)
      BY DEF Clear
    <2> QED BY <1>1, <2>1, <2>2, EmitOK
  <1>4. CASE peekChar # "quote" /\ peekChar \notin {Newline, Nul}
    <2>1. Continue("string", 1)
      BY <1>4 DEF readString
    <2>2. Clear(1)
      BY <1>4 DEF Clear
    <2> QED BY <1>1, <2>1, <2>2, ContinueOK
  <1> QED BY <1>2, <1>3, <1>4

-----------------------------------------------------------------------------
LEMMA StutterOK == ASSUME IInv, UNCHANGED vars PROVE IInv'
  <1>1. /\ text' = text /\ input' = input /\ mode' = mode /\ depth' = depth
        /\ start' = start /\ call' = call /\ lookahead' = lookahead /\ scanned' = scanned
        /\ buffered' = buffered /\ buffer' = buffer /\ client' = client
    BY DEF vars, input, lookahead, buffer, client
  <1>2. Phase'
    BY <1>1 DEF IInv, Phase, peekChar, CharAt, input
  <1> QED BY <1>1, <1>2, HereStays, MarkedStays, FoundStays, GivenStays DEF IInv

LEMMA NextOK == IInv /\ [Next]_vars => IInv'
  <1> SUFFICES ASSUME IInv, [Next]_vars PROVE IInv'
    OBVIOUS
  <1>1. CASE SkipBlank
    BY <1>1, SkipBlankOK
  <1>2. CASE OpenComment
    BY <1>2, OpenCommentOK
  <1>3. CASE StartToken
    BY <1>3, StartTokenOK
  <1>4. CASE CommentNest
    BY <1>4, CommentNestOK
  <1>5. CASE CommentClose
    BY <1>5, CommentCloseOK
  <1>6. CASE CommentChar
    BY <1>6, CommentCharOK
  <1>7. CASE ReadEof
    BY <1>7, ReadEofOK
  <1>8. CASE ReadWord
    BY <1>8, ReadWordOK
  <1>9. CASE ReadDigit
    BY <1>9, ReadDigitOK
  <1>10. CASE ReadQuote
    BY <1>10, ReadQuoteOK
  <1>11. CASE ReadSymbol
    BY <1>11, ReadSymbolOK
  <1>12. CASE readIdent
    BY <1>12, readIdentOK
  <1>13. CASE readNumber
    BY <1>13, readNumberOK
  <1>14. CASE readFraction
    BY <1>14, readFractionOK
  <1>15. CASE readExponent
    BY <1>15, readExponentOK
  <1>16. CASE readString
    BY <1>16, readStringOK
  <1>17. CASE Return
    BY <1>17, ReturnOK
  <1>18. CASE Fill
    BY <1>18, FillOK
  <1>19. ASSUME NEW c \in {"peek", "next"}, Call(c) PROVE IInv'
    BY <1>19, CallOK
  <1>20. ASSUME NEW c \in {"peek", "next"}, BufferedCall(c) PROVE IInv'
    BY <1>20, BufferedCallOK
  <1>21. CASE UNCHANGED vars
    BY <1>21, StutterOK
  <1> QED BY <1>1, <1>2, <1>3, <1>4, <1>5, <1>6, <1>7, <1>8, <1>9, <1>10,
           <1>11, <1>12, <1>13, <1>14, <1>15, <1>16, <1>17, <1>18, <1>19,
           <1>20, <1>21 DEF Next, Step

(* Places stay true, and so do the shapes of what the tokenizer keeps.     *)
THEOREM InvariantHolds == Spec => []IInv
  BY InitOK, NextOK, PTL DEF Spec

(* Both tokenizers keep what their types say, the lookahead and the index  *)
(* into the buffered tokens included, which stays at most one beyond them. *)
THEOREM TypeCorrect == Spec => []TypeOK
  <1>1. IInv => TypeOK
    BY DEF IInv, Here, Marked, Phase, Found, Given, TypeOK
  <1> QED BY <1>1, InvariantHolds, PTL

(* The line and column of every token are those of its first character:    *)
(* for every text, comments nested to any depth included.                  *)
THEOREM PlacesAreTrue == Spec => []PositionsTrue
  <1>1. IInv => PositionsTrue
    <2> SUFFICES ASSUME IInv, NEW k \in 1..Len(scanned)
                 PROVE  PlaceOf(scanned[k].first, scanned[k].line, scanned[k].col)
      BY DEF PositionsTrue
    <2>1. PlaceIn(text, scanned[k].first, scanned[k].line, scanned[k].col)
      BY DEF IInv, Found
    <2> QED BY <2>1 DEF PlaceIn, PlaceOf
  <1> QED BY <1>1, InvariantHolds, PTL

-----------------------------------------------------------------------------
(* The stream the parser sees (TokenStream).                               *)
(* What is found is found behind what was found before, and after Eof only *)
(* Eof can be found, at the same place.                                    *)
Behind(i) == \A k \in 1..Len(scanned) : scanned[k].end <= i

Sorted ==
  /\ Behind(pos)
  /\ \A k \in 1..Len(scanned) : scanned[k].first <= scanned[k].end
  /\ \A k \in 1..Len(scanned) : k # Len(scanned) => scanned[k].type # "Eof"

Reading == mode \notin {"idle", "blank", "comment", "done"}

Started ==
  Reading => /\ start.pos <= pos /\ Behind(start.pos)
             /\ mode = "start" => start.pos = pos

AtEnd ==
  Ended(scanned) =>
    /\ peekChar = Nul
    /\ mode \in {"idle", "blank", "start", "done"}
    /\ Bare(scanned[Len(scanned)]) = [type |-> "Eof", first |-> pos, end |-> pos]

(* The token read ahead is the last one found.                             *)
Ahead ==
  /\ mode = "done" => hasLA
  /\ mode \notin {"idle", "done"} => ~hasLA
  /\ hasLA => scanned # <<>> /\ Bare(la) = Bare(scanned[Len(scanned)])

(* How much of what was found is in the buffer.                            *)
Copied(ts, ss, n) == Len(ts) = n /\ \A k \in 1..n : Bare(ts[k]) = Bare(ss[k])

Filled ==
  buffered =>
    /\ ~ready => /\ call = "next" /\ bpos = 1 /\ answer = [call |-> "none"]
                 /\ mode = "idle" => ~hasLA
    /\ ~ready /\ mode # "done" => Copied(tokens, scanned, Len(scanned)) /\ ~Ended(scanned)
    /\ ~ready /\ mode = "done" => Copied(tokens, scanned, Len(scanned) - 1)
    /\ ready => mode = "idle" /\ Copied(tokens, scanned, Len(scanned)) /\ Ended(scanned)

TInv == Sorted /\ Started /\ AtEnd /\ Ahead /\ Filled /\ (ready \/ buffered)

Cut(ss) == [k \in 1..Len(ss) |-> Bare(ss[k])]
Told == IF answer.call = "none" THEN answer
        ELSE [call |-> answer.call, token |-> Bare(answer.token)]

(* The actions of the stream, in these terms.                              *)
LEMMA StreamFind ==
  Stream!Find
  <=> /\ ~Ended(Cut(scanned))
      /\ Len(Cut(scanned')) = Len(Cut(scanned)) + 1
      /\ \A k \in 1..Len(Cut(scanned)) : Cut(scanned')[k] = Cut(scanned)[k]
      /\ LET t == Cut(scanned')[Len(Cut(scanned)) + 1]
         IN  /\ t \in Stream!Token /\ t.first <= t.end
             /\ Cut(scanned) = <<>> \/ Cut(scanned)[Len(Cut(scanned))].end <= t.first
      /\ Handed' = Handed /\ Told' = Told
  BY DEF Stream!Find, Stream!Ended, Ended, Cut, Told

(* What next and peek do to the stream.                                    *)
LEMMA StreamGives ==
  /\ Stream!Peek
     <=> /\ Handed < Len(Cut(scanned))
         /\ Told' = [call |-> "peek", token |-> Cut(scanned)[Handed + 1]]
         /\ Cut(scanned') = Cut(scanned) /\ Handed' = Handed
  /\ Stream!Next1
     <=> /\ Handed < Len(Cut(scanned))
         /\ Told' = [call |-> "next", token |-> Cut(scanned)[Handed + 1]]
         /\ Cut(scanned') = Cut(scanned)
         /\ Handed' = IF Cut(scanned)[Handed + 1].type = "Eof" THEN Handed ELSE Handed + 1
  BY DEF Stream!Peek, Stream!Next1, Stream!Give, Cut, Told

(* The tokens of the stream are those found, without line and column.      *)
LEMMA BareIs ==
  ASSUME NEW t PROVE Bare(t).type = t.type /\ Bare(t).first = t.first /\ Bare(t).end = t.end
  BY DEF Bare

(* The stream is as long as what was found, and ends where it ends.        *)
LEMMA CutLike ==
  ASSUME NEW ss \in Seq(Token)
  PROVE  /\ Len(Cut(ss)) = Len(ss)
         /\ Cut(ss) = <<>> <=> Len(ss) = 0
         /\ Ended(Cut(ss)) <=> Ended(ss)
         /\ \A k \in 1..Len(ss) : Cut(ss)[k] = Bare(ss[k])
  <1>1. Len(ss) \in Nat /\ (ss = <<>> <=> Len(ss) = 0)
    OBVIOUS
  <1>2. Len(Cut(ss)) = Len(ss) /\ \A k \in 1..Len(ss) : Cut(ss)[k] = Bare(ss[k])
    BY <1>1 DEF Cut
  <1>3. \A k \in 1..Len(ss) : Cut(ss)[k].type = ss[k].type
    BY <1>2, BareIs
  <1>4. Cut(ss) = <<>> <=> Len(ss) = 0
    BY <1>1, <1>2 DEF Cut
  <1>5. Len(ss) # 0 => Len(ss) \in 1..Len(ss)
    BY <1>1
  <1>6. Ended(Cut(ss)) <=> Ended(ss)
    BY <1>1, <1>2, <1>3, <1>4, <1>5 DEF Ended
  <1> QED BY <1>2, <1>4, <1>6

(* Some steps leave what is found, and the buffer, alone.                  *)
LEMMA BehindStays ==
  ASSUME NEW i, Behind(i), scanned' = scanned
  PROVE  Behind(i)'
  BY DEF Behind

LEMMA FilledStays ==
  ASSUME Filled, UNCHANGED <<call, lookahead, scanned, buffered, buffer, client>>,
         mode \notin {"idle", "done"}, mode' \notin {"idle", "done"}
  PROVE  Filled'
  BY DEF Filled, Copied, lookahead, buffer, client, Ended

(* The stream depends on these variables only.                             *)
LEMMA Quiet ==
  ASSUME UNCHANGED <<scanned, hasLA, buffered, tokens, bpos, answer>>
  PROVE  UNCHANGED Stream!vars
  BY DEF Stream!vars, Handed, Bare, Ended

(* What the types say of what is found.                                    *)
LEMMA Typed ==
  ASSUME IInv
  PROVE  /\ scanned \in Seq(Token) /\ Len(scanned) \in Nat /\ pos \in Nat \ {0}
         /\ start.pos \in Nat
         /\ \A k \in 1..Len(scanned) :
              scanned[k] \in Token /\ scanned[k].first \in Nat /\ scanned[k].end \in Nat
  <1>1. scanned \in Seq(Token) /\ Len(scanned) \in Nat
    BY DEF IInv, Found
  <1>2. \A k \in 1..Len(scanned) : scanned[k] \in Token
    BY <1>1
  <1>3. pos \in Nat \ {0} /\ start.pos \in Nat
    BY DEF IInv, Here, Marked
  <1> QED BY <1>1, <1>2, <1>3 DEF Token

(* A step of a loop that goes on.                                          *)
LEMMA MoveKeeps ==
  ASSUME IInv, IInv', TInv, mode \notin {"idle", "done"}, mode' \notin {"idle", "done"},
         UNCHANGED <<text, call, lookahead, scanned, buffered, buffer, client>>,
         pos <= pos',
         Reading' => /\ start'.pos <= pos'
                     /\ mode' = "start" => start'.pos = pos'
                     /\ (start'.pos = start.pos /\ Reading) \/ start'.pos = pos,
         Ended(scanned) => pos' = pos /\ mode' \in {"blank", "start"}
  PROVE  TInv' /\ UNCHANGED Stream!vars
  <1>1. /\ scanned \in Seq(Token) /\ Len(scanned) \in Nat /\ pos \in Nat
        /\ \A k \in 1..Len(scanned) : scanned[k].end \in Nat
    BY Typed
  <1>11. pos' \in Nat
    BY DEF IInv, Here
  <1>2. scanned' = scanned /\ text' = text /\ hasLA' = hasLA /\ la' = la /\ ready' = ready
        /\ buffered' = buffered
    BY DEF lookahead, buffer
  <1>3. Behind(pos')
    BY <1>1, <1>11 DEF TInv, Sorted, Behind
  <1>4. Sorted'
    BY <1>2, <1>3 DEF TInv, Sorted, Behind
  <1>5. ASSUME Reading' PROVE start'.pos <= pos' /\ Behind(start'.pos)
    BY <1>5 DEF TInv, Sorted, Started
  <1>6. Started'
    <2>1. Reading' => start'.pos <= pos' /\ Behind(start'.pos)
      BY <1>5
    <2> QED BY <1>2, <2>1 DEF Started, Behind
  <1>7. AtEnd'
    <2>1. Ended(scanned') <=> Ended(scanned)
      BY <1>2
    <2>2. ASSUME Ended(scanned) PROVE peekChar' = peekChar
      BY <1>2, <2>2 DEF peekChar, CharAt
    <2> QED BY <1>2, <2>1, <2>2 DEF TInv, AtEnd, Ended, Bare
  <1>8. Ahead'
    BY <1>2 DEF TInv, Ahead, Bare
  <1>9. Filled'
    BY FilledStays DEF TInv
  <1>10. UNCHANGED Stream!vars
    BY Quiet DEF lookahead, buffer, client
  <1> QED BY <1>2, <1>4, <1>6, <1>7, <1>8, <1>9, <1>10 DEF TInv

(* readOne ends: a token is found, or Eof once more.                       *)
LEMMA EmitKeeps ==
  ASSUME IInv, IInv', TInv, NEW type \in TokenTypes, NEW n \in {0, 1, 2}, Emit(type, n),
         Reading,
         type = "Eof" => mode = "start" /\ n = 0 /\ peekChar = Nul,
         Ended(scanned) => type = "Eof"
  PROVE  TInv' /\ [Stream!Next]_Stream!vars
  <1> DEFINE t == [type |-> type, line |-> start.line, col |-> start.col,
                   first |-> start.pos, end |-> pos + n]
  <1>1. /\ pos' = pos + n /\ mode' = "done" /\ la' = t /\ hasLA' = TRUE
        /\ scanned' = IF Ended(scanned) THEN scanned ELSE Append(scanned, t)
        /\ text' = text /\ start' = start /\ call' = call /\ buffered' = buffered
        /\ tokens' = tokens /\ bpos' = bpos /\ ready' = ready /\ answer' = answer
    BY DEF Emit, Take, buffer, client
  <1>2. /\ scanned \in Seq(Token) /\ Len(scanned) \in Nat /\ pos \in Nat /\ start.pos \in Nat
        /\ \A k \in 1..Len(scanned) : scanned[k].end \in Nat
    BY Typed
  <1>3. /\ Bare(t) = [type |-> type, first |-> start.pos, end |-> pos + n]
        /\ t.first = start.pos /\ t.end = pos + n /\ t.type = type
    BY DEF Bare
  <1>4. start.pos <= pos /\ Behind(start.pos) /\ (mode = "start" => start.pos = pos)
    BY DEF TInv, Started
  <1>5. Started'
    BY <1>1 DEF Started, Reading
  <1>6. ~hasLA /\ mode \notin {"idle", "done"}
    BY DEF Reading, TInv, Ahead
  <1> HIDE DEF t
  <1>7. CASE Ended(scanned)
    <2>1. scanned' = scanned /\ type = "Eof" /\ pos' = pos /\ mode = "start" /\ start.pos = pos
          /\ peekChar = Nul
      BY <1>1, <1>2, <1>4, <1>7
    <2>2. Bare(t) = Bare(scanned[Len(scanned)])
      BY <1>2, <1>3, <1>7, <2>1 DEF TInv, AtEnd
    <2>3. Sorted'
      BY <2>1 DEF TInv, Sorted, Behind
    <2>4. AtEnd'
      BY <1>1, <1>7, <2>1 DEF TInv, AtEnd, peekChar, CharAt, Bare
    <2>5. Ahead'
      BY <1>1, <1>7, <2>1, <2>2 DEF Ahead, Ended, Bare
    <2>6. Filled'
      BY <1>1, <1>6, <1>7, <2>1 DEF TInv, Filled, Copied
    <2>7. UNCHANGED Stream!vars
      BY <1>1, <1>7, <2>1 DEF Stream!vars, Handed, Bare, Ended
    <2> QED BY <1>1, <1>5, <2>3, <2>4, <2>5, <2>6, <2>7 DEF TInv
  <1>8. CASE ~Ended(scanned)
    <2>1. /\ scanned' = Append(scanned, t) /\ Len(scanned') = Len(scanned) + 1
          /\ scanned'[Len(scanned) + 1] = t
          /\ \A k \in 1..Len(scanned) : scanned'[k] = scanned[k]
      BY <1>1, <1>2, <1>8
    <2>2. ASSUME NEW k \in 1..Len(scanned')
          PROVE  \/ k = Len(scanned) + 1 /\ scanned'[k] = t
                 \/ k \in 1..Len(scanned) /\ scanned'[k] = scanned[k]
      BY <1>2, <2>1
    <2>3. Sorted'
      <3>1. ASSUME NEW k \in 1..Len(scanned')
            PROVE  scanned'[k].end <= pos' /\ scanned'[k].first <= scanned'[k].end
        <4>1. CASE k = Len(scanned) + 1
          BY <1>1, <1>2, <1>3, <1>4, <2>1, <4>1
        <4>2. CASE k \in 1..Len(scanned)
          <5>1. scanned[k].end <= pos /\ scanned[k].first <= scanned[k].end
            BY <4>2 DEF TInv, Sorted, Behind
          <5> QED BY <1>1, <1>2, <2>1, <4>2, <5>1
        <4> QED BY <2>2, <4>1, <4>2
      <3>2. ASSUME NEW k \in 1..Len(scanned'), k # Len(scanned') PROVE scanned'[k].type # "Eof"
        <4>1. k \in 1..Len(scanned) /\ scanned'[k] = scanned[k]
          BY <2>1, <2>2, <3>2
        <4>2. k = Len(scanned) => scanned[k].type # "Eof"
          BY <1>2, <1>8, <4>1 DEF Ended
        <4> QED BY <4>1, <4>2 DEF TInv, Sorted
      <3> QED BY <3>1, <3>2 DEF Sorted, Behind
    <2>4. AtEnd'
      <3>1. ASSUME type = "Eof" PROVE pos' = pos /\ start.pos = pos /\ peekChar = Nul
        BY <1>1, <1>2, <1>4, <3>1
      <3>2. Ended(scanned') => type = "Eof"
        BY <1>3, <2>1 DEF Ended
      <3>3. ASSUME type = "Eof" PROVE peekChar' = Nul
        BY <1>1, <3>1, <3>3 DEF peekChar, CharAt
      <3>4. ASSUME type = "Eof"
            PROVE  Bare(scanned'[Len(scanned')]) = [type |-> "Eof", first |-> pos', end |-> pos']
        BY <1>1, <1>3, <2>1, <3>1, <3>4
      <3> QED BY <1>1, <3>2, <3>3, <3>4 DEF AtEnd, Bare, Ended
    <2>5. Ahead'
      <3>1. scanned' # <<>> /\ la' = scanned'[Len(scanned')]
        BY <1>1, <1>2, <2>1
      <3> QED BY <1>1, <3>1 DEF Ahead, Bare
    <2>6. Filled'
      <3>1. ASSUME buffered
            PROVE  /\ ~ready /\ Copied(tokens, scanned, Len(scanned)) /\ call = "next"
                   /\ bpos = 1 /\ answer = [call |-> "none"]
        BY <1>6, <3>1 DEF TInv, Filled
      <3>2. Len(scanned') - 1 = Len(scanned)
        BY <1>2, <2>1
      <3>3. ASSUME buffered PROVE Copied(tokens', scanned', Len(scanned') - 1)
        <4>1. Len(tokens) = Len(scanned)
              /\ \A k \in 1..Len(scanned) : Bare(tokens[k]) = Bare(scanned[k])
          BY <3>1, <3>3 DEF Copied
        <4> QED BY <1>1, <2>1, <3>2, <4>1 DEF Copied
      <3> QED BY <1>1, <3>1, <3>3 DEF Filled
    <2>7. Stream!Find
      <3>7. scanned' \in Seq(Token)
        BY DEF IInv, Found
      <3>1. /\ ~Ended(Cut(scanned)) /\ Len(Cut(scanned)) = Len(scanned)
            /\ Cut(scanned) = <<>> <=> Len(scanned) = 0
            /\ \A k \in 1..Len(scanned) : Cut(scanned)[k] = Bare(scanned[k])
        BY <1>2, <1>8, CutLike
      <3>8. /\ Len(Cut(scanned')) = Len(scanned')
            /\ \A k \in 1..Len(scanned') : Cut(scanned')[k] = Bare(scanned'[k])
        BY <3>7, CutLike
      <3>2. \A k \in 1..Len(Cut(scanned)) : Cut(scanned')[k] = Cut(scanned)[k]
        BY <1>2, <2>1, <3>1, <3>8
      <3>3. Cut(scanned')[Len(Cut(scanned)) + 1] = Bare(t)
        BY <1>2, <2>1, <3>1, <3>8
      <3>4. Bare(t) \in Stream!Token /\ Bare(t).first <= Bare(t).end
        <4>1. start.pos <= pos + n /\ pos + n \in Nat
          BY <1>2, <1>4
        <4>2. Bare(t) \in [type : TokenTypes, first : Nat, end : Nat]
          BY <1>2, <1>3, <4>1
        <4> QED BY <1>3, <4>1, <4>2, BareIs DEF Stream!Token
      <3>5. Cut(scanned) = <<>> \/ Cut(scanned)[Len(Cut(scanned))].end <= Bare(t).first
        <4>1. CASE Len(scanned) = 0
          BY <3>1, <4>1
        <4>2. CASE Len(scanned) # 0
          <5>1. scanned[Len(scanned)].end <= start.pos /\ Len(scanned) \in 1..Len(scanned)
            BY <1>2, <1>4, <4>2 DEF Behind
          <5>2. Cut(scanned)[Len(Cut(scanned))].end = scanned[Len(scanned)].end
            BY <3>1, <5>1, BareIs
          <5> QED BY <1>3, <5>1, <5>2
        <4> QED BY <4>1, <4>2
      <3>6. Handed' = Handed /\ Told' = Told
        <4>1. Told' = Told
          BY <1>1 DEF Told
        <4>2. CASE buffered
          BY <1>1, <4>1, <4>2 DEF Handed
        <4>3. CASE ~buffered
          <5>1. Handed = Len(scanned)
            BY <1>6, <1>8, <4>3 DEF Handed
          <5>2. Handed' = Len(scanned') - 1
            BY <1>1, <4>3 DEF Handed
          <5> QED BY <1>2, <2>1, <4>1, <5>1, <5>2
        <4> QED BY <4>1, <4>2, <4>3
      <3> QED BY <2>1, <3>1, <3>8, <3>2, <3>3, <3>4, <3>5, <3>6, StreamFind
    <2>8. Stream!Next
      BY <2>7 DEF Stream!Next
    <2> QED BY <1>1, <1>5, <2>3, <2>4, <2>5, <2>6, <2>8 DEF TInv
  <1> QED BY <1>7, <1>8

(* A call begins: with the token read ahead, or with blanks.               *)
LEMMA BeginKeeps ==
  ASSUME IInv, TInv, NEW c \in {"peek", "next"}, Begin(c),
         buffered => c = "next" /\ ~ready
  PROVE  TInv' /\ UNCHANGED Stream!vars
  <1>1. /\ mode = "idle" /\ call' = c /\ mode' = IF hasLA THEN "done" ELSE "blank"
        /\ text' = text /\ pos' = pos /\ start' = start /\ scanned' = scanned
        /\ hasLA' = hasLA /\ la' = la /\ buffered' = buffered
        /\ tokens' = tokens /\ bpos' = bpos /\ ready' = ready /\ answer' = answer
    BY DEF Begin, input, lookahead, buffer
  <1>2. Sorted' /\ Started'
    BY <1>1 DEF TInv, Sorted, Started, Reading, Behind
  <1>3. AtEnd'
    BY <1>1 DEF TInv, AtEnd, Ended, peekChar, CharAt, Bare
  <1>4. Ahead'
    BY <1>1 DEF TInv, Ahead, Bare
  <1>5. Filled'
    <2>1. ASSUME buffered PROVE /\ call' = "next" /\ bpos = 1 /\ answer = [call |-> "none"]
                                /\ mode' = "blank" /\ Copied(tokens, scanned, Len(scanned))
                                /\ ~Ended(scanned) /\ ~ready
      BY <1>1, <2>1 DEF TInv, Filled
    <2> QED BY <1>1, <2>1 DEF Filled
  <1>6. UNCHANGED Stream!vars
    BY <1>1, Quiet
  <1> QED BY <1>1, <1>2, <1>3, <1>4, <1>5, <1>6 DEF TInv

(* The token found last is handed to the parser.                           *)
LEMMA ReturnGives ==
  ASSUME IInv, TInv, Return, ready
  PROVE  TInv' /\ Stream!Next
  <1>1. /\ mode = "done" /\ mode' = "idle" /\ hasLA' = (call = "peek")
        /\ answer' = [call |-> call, token |-> la]
        /\ text' = text /\ pos' = pos /\ start' = start /\ scanned' = scanned /\ call' = call
        /\ la' = la /\ buffered' = buffered
        /\ tokens' = tokens /\ bpos' = bpos /\ ready' = ready
    BY DEF Return, input, buffer
  <1>2. ~buffered /\ hasLA /\ scanned # <<>> /\ Bare(la) = Bare(scanned[Len(scanned)])
    BY <1>1 DEF TInv, Filled, Ahead
  <1>3. Sorted' /\ Started'
    BY <1>1 DEF TInv, Sorted, Started, Reading, Behind
  <1>4. AtEnd'
    BY <1>1 DEF TInv, AtEnd, Ended, peekChar, CharAt, Bare
  <1>5. Ahead' /\ Filled'
    BY <1>1, <1>2 DEF Ahead, Filled, Bare
  <1>6. TInv'
    BY <1>1, <1>3, <1>4, <1>5 DEF TInv
  <1>7. /\ scanned \in Seq(Token) /\ Len(scanned) \in Nat \ {0} /\ call \in {"peek", "next"}
        /\ Len(scanned) \in 1..Len(scanned)
    BY <1>2, Typed DEF IInv, Given
  <1>8. /\ Len(Cut(scanned)) = Len(scanned)
        /\ Cut(scanned)[Len(scanned)] = Bare(la)
        /\ Ended(scanned) <=> Cut(scanned)[Len(scanned)].type = "Eof"
    BY <1>2, <1>7, CutLike, BareIs DEF Ended
  <1>9. Handed = Len(scanned) - 1 /\ Handed + 1 = Len(scanned)
    BY <1>2, <1>7 DEF Handed
  <1>10. Handed' = IF call = "peek" \/ Ended(scanned) THEN Len(scanned) - 1 ELSE Len(scanned)
    BY <1>1, <1>2 DEF Handed
  <1>11. Told' = [call |-> call, token |-> Bare(la)]
    <2>1. answer'.call = call /\ answer'.token = la
      BY <1>1
    <2> QED BY <1>1, <1>7, <2>1 DEF Told, Bare
  <1>12. CASE call = "peek"
    <2>1. Stream!Peek
      BY <1>1, <1>7, <1>8, <1>9, <1>10, <1>11, <1>12, StreamGives
    <2> QED BY <1>6, <2>1 DEF Stream!Next
  <1>13. CASE call = "next"
    <2>1. Handed' = IF Cut(scanned)[Handed + 1].type = "Eof" THEN Handed ELSE Handed + 1
      BY <1>8, <1>9, <1>10, <1>13
    <2>2. Stream!Next1
      BY <1>1, <1>7, <1>8, <1>9, <1>11, <1>13, <2>1, StreamGives
    <2> QED BY <1>6, <2>2 DEF Stream!Next
  <1> QED BY <1>7, <1>12, <1>13

(* The token found last goes into the buffer.                              *)
LEMMA ReturnFills ==
  ASSUME IInv, TInv, Return, ~ready
  PROVE  TInv' /\ UNCHANGED Stream!vars
  <1>1. /\ mode = "done" /\ mode' = "idle" /\ hasLA' = (call = "peek")
        /\ tokens' = Append(tokens, la) /\ ready' = (la.type = "Eof")
        /\ text' = text /\ pos' = pos /\ start' = start /\ scanned' = scanned /\ call' = call
        /\ la' = la /\ buffered' = buffered /\ bpos' = bpos /\ answer' = answer
    BY DEF Return, input
  <1>2. /\ buffered /\ call = "next" /\ bpos = 1 /\ answer = [call |-> "none"] /\ hasLA
        /\ Copied(tokens, scanned, Len(scanned) - 1)
        /\ scanned # <<>> /\ Bare(la) = Bare(scanned[Len(scanned)])
    BY <1>1 DEF TInv, Filled, Ahead
  <1>3. Sorted' /\ Started'
    BY <1>1 DEF TInv, Sorted, Started, Reading, Behind
  <1>4. AtEnd'
    BY <1>1 DEF TInv, AtEnd, Ended, peekChar, CharAt, Bare
  <1>5. Ahead'
    BY <1>1, <1>2 DEF Ahead
  <1>6. /\ scanned \in Seq(Token) /\ Len(scanned) \in Nat \ {0} /\ la \in Token
        /\ tokens \in Seq(Token) /\ Len(tokens) \in Nat
    BY <1>2, Typed DEF IInv, Given, Found
  <1>7. /\ Len(tokens) = Len(scanned) - 1
        /\ \A k \in 1..Len(tokens) : Bare(tokens[k]) = Bare(scanned[k])
    BY <1>2 DEF Copied
  <1>8. /\ Len(tokens') = Len(scanned) /\ tokens'[Len(scanned)] = la
        /\ \A k \in 1..Len(tokens) : tokens'[k] = tokens[k]
    BY <1>1, <1>6, <1>7
  <1>9. ASSUME NEW k \in 1..Len(scanned) PROVE Bare(tokens'[k]) = Bare(scanned[k])
    <2>1. CASE k = Len(scanned)
      BY <1>2, <1>8, <2>1
    <2>2. CASE k # Len(scanned)
      <3>1. k \in 1..Len(tokens)
        BY <1>6, <1>7, <2>2
      <3> QED BY <1>7, <1>8, <3>1
    <2> QED BY <2>1, <2>2
  <1>10. Copied(tokens', scanned', Len(scanned'))
    BY <1>1, <1>8, <1>9 DEF Copied
  <1>11. la.type = "Eof" <=> Ended(scanned)
    <2>1. la.type = scanned[Len(scanned)].type
      BY <1>2, BareIs
    <2> QED BY <1>2, <2>1 DEF Ended
  <1>12. Filled' /\ (ready \/ buffered)'
    BY <1>1, <1>2, <1>10, <1>11 DEF Filled, Ended
  <1>13. UNCHANGED Stream!vars
    <2>1. (IF bpos > Len(tokens) /\ bpos > 1 THEN Len(tokens) - 1 ELSE bpos - 1) = 0
          /\ (IF bpos > Len(tokens') /\ bpos > 1 THEN Len(tokens') - 1 ELSE bpos - 1) = 0
      BY <1>2
    <2>2. Handed' = Handed
      BY <1>1, <1>2, <2>1 DEF Handed
    <2> QED BY <1>1, <2>2 DEF Stream!vars, Bare
  <1> QED BY <1>3, <1>4, <1>5, <1>12, <1>13 DEF TInv

(* The buffer hands out a token, its last one for ever.                    *)
LEMMA BufferGives ==
  ASSUME IInv, TInv, NEW c \in {"peek", "next"}, BufferedCall(c)
  PROVE  TInv' /\ Stream!Next
  <1> DEFINE k == IF bpos <= Len(tokens) THEN bpos ELSE Len(tokens)
  <1>1. /\ ready /\ buffered
        /\ answer' = [call |-> c, token |-> tokens[k]]
        /\ bpos' = IF c = "next" /\ bpos <= Len(tokens) THEN bpos + 1 ELSE bpos
        /\ text' = text /\ pos' = pos /\ start' = start /\ scanned' = scanned /\ call' = call
        /\ mode' = mode /\ hasLA' = hasLA
        /\ la' = la /\ buffered' = buffered /\ tokens' = tokens /\ ready' = ready
    BY DEF BufferedCall, input, lookahead
  <1>2. mode = "idle" /\ Copied(tokens, scanned, Len(scanned)) /\ Ended(scanned)
    BY <1>1 DEF TInv, Filled
  <1>3. Sorted' /\ Started'
    BY <1>1 DEF TInv, Sorted, Started, Reading, Behind
  <1>4. AtEnd'
    BY <1>1 DEF TInv, AtEnd, Ended, peekChar, CharAt, Bare
  <1>5. Ahead' /\ Filled'
    BY <1>1 DEF TInv, Ahead, Filled, Bare
  <1>6. TInv'
    BY <1>1, <1>3, <1>4, <1>5 DEF TInv
  <1>7. /\ scanned \in Seq(Token) /\ Len(scanned) \in Nat \ {0} /\ Len(tokens) = Len(scanned)
        /\ bpos \in 1..Len(tokens) + 1 /\ Len(scanned) \in 1..Len(scanned)
    BY <1>2, Typed DEF Copied, Ended, IInv, Given
  <1>8. k \in 1..Len(scanned) /\ k = Handed + 1
    BY <1>1, <1>7 DEF Handed
  <1> HIDE DEF k
  <1>9. /\ Len(Cut(scanned)) = Len(scanned) /\ Cut(scanned)[k] = Bare(tokens[k])
        /\ Cut(scanned)[k].type = "Eof" <=> k = Len(scanned)
    <2>1. Cut(scanned)[k] = Bare(scanned[k]) /\ Bare(tokens[k]) = Bare(scanned[k])
      BY <1>2, <1>7, <1>8, CutLike DEF Copied
    <2>2. scanned[k].type = "Eof" <=> k = Len(scanned)
      BY <1>2, <1>8 DEF TInv, Sorted, Ended
    <2> QED BY <1>7, <2>1, <2>2, CutLike, BareIs
  <1>10. Told' = [call |-> c, token |-> Bare(tokens[k])]
    <2>1. answer'.call = c /\ answer'.token = tokens[k]
      BY <1>1
    <2> QED BY <1>1, <2>1 DEF Told, Bare
  <1>11. Handed < Len(scanned) /\ Handed + 1 = k /\ Handed \in Nat
    BY <1>7, <1>8, <1>1 DEF Handed
  <1>12. CASE c = "peek"
    <2>1. Handed' = Handed
      BY <1>1, <1>12 DEF Handed
    <2>2. Stream!Peek
      BY <1>1, <1>9, <1>10, <1>11, <1>12, <2>1, StreamGives
    <2> QED BY <1>6, <2>2 DEF Stream!Next
  <1>13. CASE c = "next"
    <2>1. bpos' = IF bpos <= Len(tokens) THEN bpos + 1 ELSE bpos
      BY <1>1, <1>13
    <2>2. Handed' = IF k = Len(scanned) THEN Handed ELSE Handed + 1
      BY <1>1, <1>7, <2>1 DEF Handed, k
    <2>3. Stream!Next1
      BY <1>1, <1>9, <1>10, <1>11, <1>13, <2>2, StreamGives
    <2> QED BY <1>6, <2>3 DEF Stream!Next
  <1> QED BY <1>12, <1>13

-----------------------------------------------------------------------------
(* Something is left to read: Eof has not been found.                      *)
LEMMA NotAtEnd ==
  ASSUME TInv, peekChar # Nul \/ mode \notin {"idle", "blank", "start", "done"}
  PROVE  ~Ended(scanned)
  BY DEF TInv, AtEnd

(* A loop that reads a token goes on.                                      *)
LEMMA ContinueKeeps ==
  ASSUME IInv, IInv', TInv, NEW n \in {0, 1, 2}, Reading, ~Ended(scanned),
         NEW m \in {"ident", "number", "fraction", "exponent", "string"}, Continue(m, n)
  PROVE  TInv' /\ UNCHANGED Stream!vars
  <1>1. /\ pos' = pos + n /\ mode' = m /\ start' = start
        /\ UNCHANGED <<text, call, lookahead, scanned, buffered, buffer, client>>
    BY DEF Continue, Take
  <1>2. pos \in Nat /\ start.pos \in Nat
    BY Typed
  <1>3. start.pos <= pos
    BY DEF TInv, Started
  <1>4. pos <= pos' /\ start'.pos <= pos'
    BY <1>1, <1>2, <1>3
  <1>5. mode \notin {"idle", "done"} /\ mode' \notin {"idle", "done"} /\ mode' # "start"
    BY <1>1 DEF Reading
  <1> QED BY <1>1, <1>4, <1>5, MoveKeeps

(* Blanks and comments.                                                    *)
LEMMA SkipKeeps ==
  ASSUME IInv, IInv', TInv, mode \in {"blank", "comment"}, mode' \in {"blank", "comment"},
         UNCHANGED <<text, call, lookahead, scanned, buffered, buffer, client>>,
         pos <= pos', ~Ended(scanned)
  PROVE  TInv' /\ UNCHANGED Stream!vars
  <1>1. ~Reading' /\ mode \notin {"idle", "done"} /\ mode' \notin {"idle", "done"}
    BY DEF Reading
  <1> QED BY <1>1, MoveKeeps

(* getChar never goes back.                                                *)
LEMMA getCharGoesOn ==
  ASSUME IInv, getChar
  PROVE  pos <= pos'
  <1>1. pos \in Nat
    BY Typed
  <1>2. pos' = pos \/ pos' = pos + 1
    BY DEF getChar, input
  <1> QED BY <1>1, <1>2

(* Each of the steps between two tokens.                                   *)
LEMMA SkipSteps ==
  ASSUME IInv, IInv', TInv, SkipBlank \/ OpenComment \/ CommentNest \/ CommentClose \/ CommentChar
  PROVE  TInv' /\ UNCHANGED Stream!vars
  <1>1. pos \in Nat
    BY Typed
  <1>2. ASSUME Take(2) PROVE pos <= pos'
    BY <1>1, <1>2 DEF Take
  <1>3. CASE SkipBlank
    <2>1. peekChar # Nul /\ mode = "blank" /\ mode' = "blank" /\ getChar
          /\ UNCHANGED <<text, call, lookahead, scanned, buffered, buffer, client>>
      BY <1>3 DEF SkipBlank, Blanks, Newline, Nul
    <2> QED BY <2>1, NotAtEnd, getCharGoesOn, SkipKeeps
  <1>4. CASE OpenComment
    <2>1. peekChar # Nul /\ mode = "blank" /\ mode' = "comment" /\ Take(2)
          /\ UNCHANGED <<text, call, lookahead, scanned, buffered, buffer, client>>
      BY <1>4 DEF OpenComment, Nul
    <2> QED BY <1>2, <2>1, NotAtEnd, SkipKeeps
  <1>5. CASE CommentNest
    <2>1. mode = "comment" /\ mode' = "comment" /\ Take(2)
          /\ UNCHANGED <<text, call, lookahead, scanned, buffered, buffer, client>>
      BY <1>5 DEF CommentNest
    <2> QED BY <1>2, <2>1, NotAtEnd, SkipKeeps
  <1>6. CASE CommentClose
    <2>1. mode = "comment" /\ mode' \in {"blank", "comment"} /\ Take(2)
          /\ UNCHANGED <<text, call, lookahead, scanned, buffered, buffer, client>>
      BY <1>6 DEF CommentClose
    <2> QED BY <1>2, <2>1, NotAtEnd, SkipKeeps
  <1>7. CASE CommentChar
    <2>1. mode = "comment" /\ mode' \in {"blank", "comment"} /\ getChar
          /\ UNCHANGED <<text, call, lookahead, scanned, buffered, buffer, client>>
      BY <1>7 DEF CommentChar
    <2> QED BY <2>1, NotAtEnd, getCharGoesOn, SkipKeeps
  <1> QED BY <1>3, <1>4, <1>5, <1>6, <1>7

(* A token begins where the blanks end.                                    *)
LEMMA StartKeeps ==
  ASSUME IInv, IInv', TInv, StartToken
  PROVE  TInv' /\ UNCHANGED Stream!vars
  <1>1. /\ mode = "blank" /\ mode' = "start" /\ pos' = pos /\ start'.pos = pos
        /\ UNCHANGED <<text, call, lookahead, scanned, buffered, buffer, client>>
    BY DEF StartToken, input
  <1>2. pos \in Nat
    BY Typed
  <1> QED BY <1>1, <1>2, MoveKeeps

-----------------------------------------------------------------------------
(* readOne.                                                                *)
LEMMA FirstSteps ==
  ASSUME IInv, IInv', TInv, ReadEof \/ ReadWord \/ ReadDigit \/ ReadQuote \/ ReadSymbol
  PROVE  TInv' /\ [Stream!Next]_Stream!vars
  <1>1. mode = "start" /\ Reading
    BY DEF ReadEof, ReadWord, ReadDigit, ReadQuote, ReadSymbol, Reading
  <1>2. {"Eof", "Pair", "Single", "Unknown"} \subseteq TokenTypes
    BY DEF TokenTypes
  <1>3. CASE ReadEof
    <2>1. peekChar = Nul /\ Emit("Eof", 0)
      BY <1>3 DEF ReadEof
    <2> QED BY <1>1, <1>2, <2>1, EmitKeeps
  <1>4. CASE ReadWord
    <2>1. peekChar # Nul /\ Continue("ident", 0)
      BY <1>4 DEF ReadWord, Letters, Nul
    <2> QED BY <1>1, <2>1, NotAtEnd, ContinueKeeps
  <1>5. CASE ReadDigit
    <2>1. peekChar # Nul /\ Continue("number", 0)
      BY <1>5 DEF ReadDigit, Digits, Nul
    <2> QED BY <1>1, <2>1, NotAtEnd, ContinueKeeps
  <1>6. CASE ReadQuote
    <2>1. peekChar # Nul /\ Continue("string", 1)
      BY <1>6 DEF ReadQuote, Nul
    <2> QED BY <1>1, <2>1, NotAtEnd, ContinueKeeps
  <1>7. CASE ReadSymbol
    <2>1. peekChar # Nul
          /\ (Emit("Pair", 2) \/ Emit("Single", 1) \/ Emit("Unknown", 1))
      BY <1>7 DEF ReadSymbol
    <2> QED BY <1>1, <1>2, <2>1, NotAtEnd, EmitKeeps
  <1> QED BY <1>3, <1>4, <1>5, <1>6, <1>7

(* A loop of readOne goes on, into itself or another, or ends with a token *)
(* that is not Eof.                                                        *)
Loops == {"ident", "number", "fraction", "exponent", "string"}
GoesOnOrEnds ==
  \/ \E m \in Loops, n \in {0, 1, 2} : Continue(m, n)
  \/ \E type \in TokenTypes \ {"Eof"}, n \in {0, 1, 2} : Emit(type, n)

(* Each of the steps within a token.                                       *)
LEMMA LoopSteps ==
  ASSUME IInv, IInv', TInv, mode \in Loops, GoesOnOrEnds
  PROVE  TInv' /\ [Stream!Next]_Stream!vars
  <1>1. Reading /\ ~Ended(scanned)
    BY NotAtEnd DEF Reading, Loops
  <1>2. ASSUME NEW m \in Loops, NEW n \in {0, 1, 2}, Continue(m, n)
        PROVE  TInv' /\ [Stream!Next]_Stream!vars
    BY <1>1, <1>2, ContinueKeeps DEF Loops
  <1>3. ASSUME NEW type \in TokenTypes \ {"Eof"}, NEW n \in {0, 1, 2}, Emit(type, n)
        PROVE  TInv' /\ [Stream!Next]_Stream!vars
    BY <1>1, <1>3, EmitKeeps
  <1> QED BY <1>2, <1>3 DEF GoesOnOrEnds

(* The loops of readOne do nothing else.                                   *)
LEMMA ReadingSteps ==
  ASSUME readIdent \/ readNumber \/ readFraction \/ readExponent \/ readString
  PROVE  mode \in Loops /\ GoesOnOrEnds
  <1>1. {"Ident", "Keyword", "Integer", "Real", "String"} \subseteq TokenTypes \ {"Eof"}
    BY DEF TokenTypes
  <1>2. CASE readIdent
    <2>1. \/ Continue("ident", 1) \/ Emit("Keyword", 0) \/ Emit("Ident", 0)
      BY <1>2 DEF readIdent
    <2> QED BY <1>1, <1>2, <2>1 DEF readIdent, Loops, GoesOnOrEnds
  <1>3. CASE readNumber
    <2>1. \/ Continue("number", 1) \/ Emit("Integer", 1) \/ Emit("String", 1)
          \/ Continue("fraction", 1) \/ Emit("Integer", 0)
      BY <1>3 DEF readNumber
    <2> QED BY <1>1, <1>3, <2>1 DEF readNumber, Loops, GoesOnOrEnds
  <1>4. CASE readFraction
    <2>1. \/ Continue("fraction", 1) \/ Continue("exponent", 1) \/ Continue("exponent", 2)
          \/ Emit("Real", 0)
      BY <1>4 DEF readFraction
    <2> QED BY <1>1, <1>4, <2>1 DEF readFraction, Loops, GoesOnOrEnds
  <1>5. CASE readExponent
    <2>1. Continue("exponent", 1) \/ Emit("Real", 0)
      BY <1>5 DEF readExponent
    <2> QED BY <1>1, <1>5, <2>1 DEF readExponent, Loops, GoesOnOrEnds
  <1>6. CASE readString
    <2>1. Continue("string", 1) \/ Emit("String", 0) \/ Emit("String", 1)
      BY <1>6 DEF readString
    <2> QED BY <1>1, <1>6, <2>1 DEF readString, Loops, GoesOnOrEnds
  <1> QED BY <1>2, <1>3, <1>4, <1>5, <1>6

-----------------------------------------------------------------------------
(* At first nothing is found and nothing handed out.                       *)
LEMMA StreamBegins == Init => TInv /\ Stream!Init
  <1> SUFFICES ASSUME Init PROVE TInv /\ Stream!Init
    OBVIOUS
  <1>1. /\ scanned = <<>> /\ tokens = <<>> /\ mode = "idle" /\ ~hasLA /\ bpos = 1
        /\ call = "next" /\ answer = [call |-> "none"] /\ ready = ~buffered /\ buffered \in BOOLEAN
    BY DEF Init
  <1>2. Len(scanned) = 0 /\ Len(tokens) = 0 /\ ~Ended(scanned)
    BY <1>1 DEF Ended
  <1>3. Copied(tokens, scanned, Len(scanned))
    BY <1>2 DEF Copied
  <1>4. Sorted /\ Started /\ AtEnd /\ Ahead
    BY <1>1, <1>2 DEF Sorted, Started, AtEnd, Ahead, Reading, Behind
  <1>5. Filled /\ (ready \/ buffered)
    BY <1>1, <1>2, <1>3 DEF Filled
  <1>6. Handed = 0
    BY <1>1, <1>2 DEF Handed
  <1>7. Cut(scanned) = <<>>
    BY <1>2 DEF Cut
  <1>8. Stream!Init
    <2>1. Told = answer
      BY <1>1 DEF Told
    <2> QED BY <1>1, <1>6, <1>7, <2>1 DEF Stream!Init, Stream!NoAnswer, Cut, Told
  <1> QED BY <1>4, <1>5, <1>8 DEF TInv

(* Every step finds a token, hands one out, or does not show.              *)
LEMMA StreamGoesOn ==
  IInv /\ IInv' /\ TInv /\ [Next]_vars => TInv' /\ [Stream!Next]_Stream!vars
  <1> SUFFICES ASSUME IInv, IInv', TInv, [Next]_vars
               PROVE  TInv' /\ [Stream!Next]_Stream!vars
    OBVIOUS
  <1>1. CASE SkipBlank \/ OpenComment \/ CommentNest \/ CommentClose \/ CommentChar
    BY <1>1, SkipSteps
  <1>2. CASE StartToken
    BY <1>2, StartKeeps
  <1>3. CASE ReadEof \/ ReadWord \/ ReadDigit \/ ReadQuote \/ ReadSymbol
    BY <1>3, FirstSteps
  <1>4. CASE readIdent \/ readNumber \/ readFraction \/ readExponent \/ readString
    BY <1>4, ReadingSteps, LoopSteps
  <1>5. CASE Return
    BY <1>5, ReturnGives, ReturnFills
  <1>6. CASE Fill
    <2>1. Begin("next") /\ ~ready
      BY <1>6 DEF Fill
    <2> QED BY <2>1, BeginKeeps
  <1>7. ASSUME NEW c \in {"peek", "next"}, Call(c) PROVE TInv' /\ [Stream!Next]_Stream!vars
    <2>1. Begin(c) /\ ~buffered
      BY <1>7 DEF Call
    <2> QED BY <2>1, BeginKeeps
  <1>8. ASSUME NEW c \in {"peek", "next"}, BufferedCall(c)
        PROVE  TInv' /\ [Stream!Next]_Stream!vars
    BY <1>8, BufferGives
  <1>9. CASE UNCHANGED vars
    <2>1. /\ text' = text /\ pos' = pos /\ mode' = mode /\ start' = start /\ call' = call
          /\ hasLA' = hasLA /\ la' = la /\ scanned' = scanned /\ buffered' = buffered
          /\ tokens' = tokens /\ bpos' = bpos /\ ready' = ready /\ answer' = answer
      BY <1>9 DEF vars
    <2>2. TInv'
      BY <2>1 DEF TInv, Sorted, Started, AtEnd, Ahead, Filled, Reading, Behind, peekChar, CharAt,
                  Bare, Ended
    <2> QED BY <2>1, <2>2, Quiet
  <1> QED BY <1>1, <1>2, <1>3, <1>4, <1>5, <1>6, <1>7, <1>8, <1>9 DEF Next, Step

(* The parser sees a stream of tokens, read one ahead or all at once: in   *)
(* the order of the text, each once, peek before next, Eof for ever.  Both *)
(* tokenizers implement TokenStream, for texts of every length and parsers *)
(* that call peek and next as they like.                                   *)
THEOREM ParserSeesStream == Spec => IsTokenStream
  <1>1. Init => IInv /\ TInv /\ Stream!Init
    BY InitOK, StreamBegins
  <1>2. IInv /\ TInv /\ [Next]_vars => IInv' /\ TInv' /\ [Stream!Next]_Stream!vars
    BY NextOK, StreamGoesOn
  <1> QED BY <1>1, <1>2, PTL DEF Spec, IsTokenStream, Stream!Spec

-----------------------------------------------------------------------------
(* Induction, for sets of numbers.                                         *)
LEMMA AllNumbers ==
  ASSUME NEW S, 0 \in S, \A n \in Nat : n \in S => n + 1 \in S
  PROVE  Nat \subseteq S
  <1> DEFINE R == OpToRel(<, Nat)
             T == {n \in Nat : n \notin S}
  <1> HIDE DEF R
  <1>0. R = {ss \in Nat \X Nat : ss[1] < ss[2]}
    BY DEF R, OpToRel
  <1>1. \A a, b \in Nat : a < b => <<a, b>> \in R
    BY <1>0
  <1>2. IsWellFoundedOn(R, Nat)
    BY NatLessThanWellFounded, Zenon DEF R
  <1>3. ASSUME T # {}
        PROVE  FALSE
    <2>1. T \subseteq Nat
      OBVIOUS
    <2>2. PICK x \in T : \A y \in T : ~ (<<y, x>> \in R)
      BY <1>2, <1>3, <2>1, WFMin, Zenon
    <2>3. x \in Nat /\ x # 0
      OBVIOUS
    <2>4. x - 1 \in Nat /\ x - 1 < x
      BY <2>3
    <2>5. x - 1 \in S
      BY <1>1, <2>2, <2>3, <2>4
    <2>6. (x - 1) + 1 \in S
      BY <2>4, <2>5
    <2> QED BY <2>3, <2>6
  <1> QED BY <1>3

(* One turn of skip at position i, given what it is further on.            *)
Turn(t, g, i, d) ==
  IF i > Len(t) THEN i
  ELSE IF Flex(t)!Opens(i) THEN g[i + 2][d + 1]
  ELSE IF d = 0 THEN IF t[i] \in Blanks THEN g[i + 1][0] ELSE i
  ELSE IF Flex(t)!Closes(i) THEN g[i + 2][d - 1]
  ELSE g[i + 1][d]

(* g is what skip should be from position i on.                            *)
SkipsFrom(t, g, i) == \A k \in i..Len(t) + 1, d \in Nat : g[k][d] = Turn(t, g, k, d)

(* A bracket has two characters.                                           *)
LEMMA BracketsFit ==
  ASSUME NEW t, Len(t) \in Nat, NEW i \in Nat, Flex(t)!Opens(i) \/ Flex(t)!Closes(i)
  PROVE  i + 2 <= Len(t) + 1
  BY DEF Flex!Opens, Flex!Closes, Flex!CharAt

(* One position more, at the front.                                        *)
LEMMA SkipsFurther ==
  ASSUME NEW t, Len(t) \in Nat, NEW i \in 1..Len(t), NEW g, SkipsFrom(t, g, i + 1)
  PROVE  \E h : SkipsFrom(t, h, i)
  <1> DEFINE h == [k \in i..Len(t) + 1 |->
                    [d \in Nat |-> IF k = i THEN Turn(t, g, i, d) ELSE g[k][d]]]
  <1>1. \A k \in i..Len(t) + 1, d \in Nat :
          h[k][d] = IF k = i THEN Turn(t, g, i, d) ELSE g[k][d]
    OBVIOUS
  <1> HIDE DEF h
  <1>2. ASSUME NEW k \in i..Len(t) + 1, NEW d \in Nat
        PROVE  Turn(t, h, k, d) = Turn(t, g, k, d)
    <2>1. k <= Len(t) => k + 1 \in i..Len(t) + 1 /\ k + 1 # i
      OBVIOUS
    <2>2. Flex(t)!Opens(k) \/ Flex(t)!Closes(k) => k + 2 \in i..Len(t) + 1 /\ k + 2 # i
      BY BracketsFit
    <2>3. d + 1 \in Nat /\ 0 \in Nat /\ (d # 0 => d - 1 \in Nat)
      OBVIOUS
    <2>4. k <= Len(t) => h[k + 1][0] = g[k + 1][0] /\ h[k + 1][d] = g[k + 1][d]
      BY <1>1, <2>1, <2>3
    <2>5. Flex(t)!Opens(k) => h[k + 2][d + 1] = g[k + 2][d + 1]
      BY <1>1, <2>2, <2>3
    <2>6. Flex(t)!Closes(k) /\ d # 0 => h[k + 2][d - 1] = g[k + 2][d - 1]
      BY <1>1, <2>2, <2>3
    <2> QED BY <2>4, <2>5, <2>6 DEF Turn
  <1>3. ASSUME NEW k \in i..Len(t) + 1, NEW d \in Nat
        PROVE  h[k][d] = Turn(t, h, k, d)
    <2>1. CASE k = i
      BY <1>1, <1>2, <2>1
    <2>2. CASE k # i
      <3>1. k \in i + 1..Len(t) + 1
        BY <2>2
      <3>2. g[k][d] = Turn(t, g, k, d)
        BY <3>1 DEF SkipsFrom
      <3>3. h[k][d] = g[k][d]
        BY <1>1, <2>2
      <3> QED BY <1>2, <3>2, <3>3
    <2> QED BY <2>1, <2>2
  <1> QED BY <1>3 DEF SkipsFrom

(* So there is such a function for every text,                             *)
LEMMA SkipExists ==
  ASSUME NEW t, Len(t) \in Nat
  PROVE  \E g : SkipsFrom(t, g, 1)
  <1> DEFINE l == Len(t) + 1
             S == {n \in Nat : n < l => \E g : SkipsFrom(t, g, l - n)}
  <1>1. 0 \in S
    <2> DEFINE g == [k \in {l} |-> [d \in Nat |-> l]]
    <2>1. ASSUME NEW k \in l..l, NEW d \in Nat PROVE g[k][d] = Turn(t, g, k, d)
      BY DEF Turn
    <2>2. SkipsFrom(t, g, l - 0)
      BY <2>1 DEF SkipsFrom
    <2> QED BY <2>2
  <1>2. ASSUME NEW n \in Nat, n \in S PROVE n + 1 \in S
    <2>1. ASSUME n + 1 < l PROVE \E g : SkipsFrom(t, g, l - (n + 1))
      <3>1. PICK g : SkipsFrom(t, g, l - n)
        BY <1>2, <2>1
      <3>2. l - (n + 1) \in 1..Len(t) /\ (l - (n + 1)) + 1 = l - n
        BY <2>1
      <3> QED BY <3>1, <3>2, SkipsFurther
    <2> QED BY <2>1
  <1>3. Len(t) \in Nat /\ Len(t) < l /\ l - Len(t) = 1
    OBVIOUS
  <1> HIDE DEF S
  <1>4. Len(t) \in S
    BY <1>1, <1>2, <1>3, AllNumbers
  <1> HIDE DEF l
  <1> QED BY <1>3, <1>4 DEF S

(* and skip is one: at every place and depth it is one turn of itself.     *)
LEMMA SkipIs ==
  ASSUME NEW t, Len(t) \in Nat
  PROVE  \A i \in 1..Len(t) + 1, d \in Nat :
           Flex(t)!skip[i][d] = Turn(t, Flex(t)!skip, i, d)
  <1> DEFINE B(f) == [i \in 1..Len(t) + 1 |-> [d \in Nat |-> Turn(t, f, i, d)]]
             s == CHOOSE f : f = B(f)
  <1>1. Flex(t)!skip = s
    BY DEF Flex!skip, Turn
  <1>2. PICK g : SkipsFrom(t, g, 1)
    BY SkipExists
  <1> DEFINE f == [i \in 1..Len(t) + 1 |-> [d \in Nat |-> g[i][d]]]
  <1>3. \A i \in 1..Len(t) + 1, d \in Nat : f[i][d] = g[i][d] /\ g[i][d] = Turn(t, g, i, d)
    BY <1>2 DEF SkipsFrom
  <1>4. ASSUME NEW i \in 1..Len(t) + 1, NEW d \in Nat
        PROVE  Turn(t, f, i, d) = Turn(t, g, i, d)
    <2>1. i <= Len(t) => i + 1 \in 1..Len(t) + 1
      OBVIOUS
    <2>2. Flex(t)!Opens(i) \/ Flex(t)!Closes(i) => i + 2 \in 1..Len(t) + 1
      BY BracketsFit
    <2>3. d + 1 \in Nat /\ 0 \in Nat /\ (d # 0 => d - 1 \in Nat)
      OBVIOUS
    <2> HIDE DEF f
    <2>4. i <= Len(t) => f[i + 1][0] = g[i + 1][0] /\ f[i + 1][d] = g[i + 1][d]
      BY <1>3, <2>1, <2>3
    <2>5. Flex(t)!Opens(i) => f[i + 2][d + 1] = g[i + 2][d + 1]
      BY <1>3, <2>2, <2>3
    <2>6. Flex(t)!Closes(i) /\ d # 0 => f[i + 2][d - 1] = g[i + 2][d - 1]
      BY <1>3, <2>2, <2>3
    <2> QED BY <2>4, <2>5, <2>6 DEF Turn
  <1>5. f = B(f)
    BY <1>3, <1>4
  <1> HIDE DEF f
  <1>6. s = B(s)
    BY <1>5
  <1> HIDE DEF s
  <1>7. ASSUME NEW i \in 1..Len(t) + 1, NEW d \in Nat
        PROVE  s[i][d] = Turn(t, s, i, d)
    <2>1. s[i] = [e \in Nat |-> Turn(t, s, i, e)]
      BY <1>6
    <2> QED BY <2>1
  <1> QED BY <1>1, <1>7

-----------------------------------------------------------------------------
(* The rules of oberon.l, one by one.  t is a text, i where a token begins.*)
Read(t, k) == IF k <= Len(t) THEN t[k] ELSE "end"
All(t, S, i, e) == \A k \in i..e - 1 : t[k] \in S
Ends(t, i) == i + 1..Len(t) + 1
Ruled(type, e, seen) == [type |-> type, end |-> e, seen |-> seen]

InRange(t, i, m) ==
  \E e \in Ends(t, i) :
    /\ All(t, Digits, i, e) /\ Read(t, e) = "." /\ Read(t, e + 1) = "."
    /\ m = Ruled("Integer", e, e + 2)

InExponent(t, f, e) ==
  \/ e = f
  \/ /\ e \in Ends(t, f) /\ Read(t, f) \in {"E", "e"}
     /\ \E x \in {f + 1, f + 2} :
          /\ x = f + 2 => Read(t, f + 1) \in Signs
          /\ x < e /\ All(t, Digits, x, e)

InReal(t, i, m) ==
  \E d \in Ends(t, i), f \in Nat, e \in Nat :
    /\ All(t, Digits, i, d) /\ Read(t, d) = "."
    /\ f \in d + 1..Len(t) + 1 /\ All(t, Digits, d + 1, f)
    /\ InExponent(t, f, e) /\ m = Ruled("Real", e, e)

InHex(t, i, mark, type, m) ==
  \E e \in Ends(t, i) :
    /\ t[i] \in Digits /\ i < e - 1 /\ All(t, HexDigits, i, e - 1) /\ t[e - 1] = mark
    /\ m = Ruled(type, e, e)

InDigits(t, i, m) ==
  \E e \in Ends(t, i) : All(t, Digits, i, e) /\ m = Ruled("Integer", e, e)

InWord(t, i, m) ==
  \E e \in Ends(t, i) :
    /\ t[i] \in Letters /\ All(t, Letters \cup Digits, i, e)
    /\ m = Ruled(IF SubSeq(t, i, e - 1) \in Keywords THEN "Keyword" ELSE "Ident", e, e)

InString(t, i, m) ==
  \E e \in Ends(t, i) :
    /\ t[i] = "quote" /\ i < e - 1 /\ t[e - 1] = "quote"
    /\ \A k \in i + 1..e - 2 : t[k] \notin {"quote", "nl"}
    /\ m = Ruled("String", e, e)

InSymbol(t, i, m) ==
  \/ <<t[i], Read(t, i + 1)>> \in Pairs /\ m = Ruled("Pair", i + 2, i + 2)
  \/ t[i] \in Singles /\ m = Ruled("Single", i + 1, i + 1)

(* The digits before the dots of a range.                                  *)
LEMMA RangeIs ==
  ASSUME NEW t, Len(t) \in Nat, NEW i \in 1..Len(t), NEW m
  PROVE  m \in Flex(t)!RangeRule(i) <=> InRange(t, i, m)
  BY DEF Flex!RangeRule, Flex!Ends, Flex!Run, Flex!CharAt, InRange, Ends, All, Read, Ruled

(* An exponent, or nothing.                                                *)
LEMMA ExponentIs ==
  ASSUME NEW t, Len(t) \in Nat, NEW f \in 1..Len(t) + 1, NEW e
  PROVE  e \in Flex(t)!Exponent(f) <=> InExponent(t, f, e)
  BY DEF Flex!Exponent, Flex!Ends, Flex!Run, Flex!CharAt, InExponent, Ends, All, Read

(* A number with a dot.                                                    *)
LEMMA RealIs ==
  ASSUME NEW t, Len(t) \in Nat, NEW i \in 1..Len(t), NEW m
  PROVE  m \in Flex(t)!RealRule(i) <=> InReal(t, i, m)
  <1> DEFINE D == {d \in Flex(t)!Ends(i) : Flex(t)!Run(Digits, i, d) /\ Flex(t)!CharAt(d) = "."}
             F(d) == {f \in d + 1..Len(t) + 1 : Flex(t)!Run(Digits, d + 1, f)}
             E(d) == UNION {Flex(t)!Exponent(f) : f \in F(d)}
  <1>1. m \in Flex(t)!RealRule(i) <=> \E e : e \in UNION {E(d) : d \in D} /\ m = Ruled("Real", e, e)
    BY DEF Flex!RealRule, Flex!Rule, Ruled
  <1>2. \A e : e \in UNION {E(d) : d \in D}
               <=> \E d \in D : \E f \in F(d) : e \in Flex(t)!Exponent(f)
    OBVIOUS
  <1>3. \A d : d \in D <=> d \in Ends(t, i) /\ All(t, Digits, i, d) /\ Read(t, d) = "."
    BY DEF Flex!Ends, Flex!Run, Flex!CharAt, Ends, All, Read
  <1>4. \A d \in D : d \in Nat \ {0}
    BY <1>3 DEF Ends
  <1>5. \A d \in D : \A f : f \in F(d) <=> f \in d + 1..Len(t) + 1 /\ All(t, Digits, d + 1, f)
    BY DEF Flex!Run, All
  <1>6. \A d \in D : \A f \in F(d) : f \in 1..Len(t) + 1
    BY <1>4
  <1> HIDE DEF D, F, E
  <1>7. \A d \in D : \A f \in F(d) : \A e : e \in Flex(t)!Exponent(f) <=> InExponent(t, f, e)
    BY <1>6, ExponentIs
  <1>8. \A f \in 1..Len(t) + 1 : \A e : InExponent(t, f, e) => e \in Nat /\ f \in Nat
    BY DEF InExponent, Ends
  <1> QED BY <1>1, <1>2, <1>3, <1>5, <1>6, <1>7, <1>8 DEF InReal

(* Hexadecimal digits and their mark.                                      *)
LEMMA HexIs ==
  ASSUME NEW t, Len(t) \in Nat, NEW i \in 1..Len(t), NEW m, NEW mark, NEW type
  PROVE  m \in Flex(t)!HexRule(i, mark, type) <=> InHex(t, i, mark, type, m)
  BY DEF Flex!HexRule, Flex!Rule, Flex!Ends, Flex!Run, Flex!CharAt, InHex, Ends, All, Ruled

(* A letter, and the letters and digits behind it.                         *)
LEMMA WordIs ==
  ASSUME NEW t, Len(t) \in Nat, NEW i \in 1..Len(t), NEW m
  PROVE  m \in Flex(t)!WordRule(i) <=> InWord(t, i, m)
  BY DEF Flex!WordRule, Flex!Rule, Flex!Ends, Flex!Run, Flex!CharAt, InWord, Ends, All, Ruled

(* What stands between two quotes.                                         *)
LEMMA StringIs ==
  ASSUME NEW t, Len(t) \in Nat, NEW i \in 1..Len(t), NEW m
  PROVE  m \in Flex(t)!StringRule(i) <=> InString(t, i, m)
  BY DEF Flex!StringRule, Flex!Rule, Flex!Ends, Flex!CharAt, InString, Ends, Ruled

(* What a rule matches decides by its first character which rule it is.    *)
Matched(t, i, m) ==
  \/ /\ t[i] \in Digits
     /\ \/ InRange(t, i, m) \/ InReal(t, i, m) \/ InDigits(t, i, m)
        \/ InHex(t, i, "H", "Integer", m) \/ InHex(t, i, "X", "String", m)
  \/ t[i] \in Letters /\ InWord(t, i, m)
  \/ t[i] = "quote" /\ InString(t, i, m)
  \/ InSymbol(t, i, m)

(* All of them together.                                                   *)
LEMMA RulesAre ==
  ASSUME NEW t, Len(t) \in Nat, NEW i \in 1..Len(t), NEW m
  PROVE  m \in Flex(t)!Rules(i) <=> Matched(t, i, m)
  <1>1. m \in Flex(t)!Rule("Integer", {e \in Flex(t)!Ends(i) : Flex(t)!Run(Digits, i, e)})
        <=> InDigits(t, i, m)
    BY DEF Flex!Rule, Flex!Ends, Flex!Run, InDigits, Ends, All, Ruled
  <1>2. m \in Flex(t)!Rule("Pair", {e \in {i + 2} :
                                     <<Flex(t)!CharAt(i), Flex(t)!CharAt(i + 1)>> \in Pairs})
        <=> <<t[i], Read(t, i + 1)>> \in Pairs /\ m = Ruled("Pair", i + 2, i + 2)
    BY DEF Flex!Rule, Flex!CharAt, Read, Ruled
  <1>3. m \in Flex(t)!Rule("Single", {e \in {i + 1} : Flex(t)!CharAt(i) \in Singles})
        <=> t[i] \in Singles /\ m = Ruled("Single", i + 1, i + 1)
    BY DEF Flex!Rule, Flex!CharAt, Ruled
  <1>4. m \in Flex(t)!Rules(i)
        <=> \/ InRange(t, i, m) \/ InReal(t, i, m) \/ InDigits(t, i, m)
            \/ InHex(t, i, "H", "Integer", m) \/ InHex(t, i, "X", "String", m)
            \/ InWord(t, i, m) \/ InString(t, i, m) \/ InSymbol(t, i, m)
    BY <1>1, <1>2, <1>3, RangeIs, RealIs, HexIs, WordIs, StringIs DEF Flex!Rules, InSymbol
  <1>5. \A e \in Ends(t, i) : i \in i..e - 1
    BY DEF Ends
  <1>6. InRange(t, i, m) \/ InReal(t, i, m) \/ InDigits(t, i, m) => t[i] \in Digits
    BY <1>5 DEF InRange, InReal, InDigits, All
  <1>7. /\ InHex(t, i, "H", "Integer", m) \/ InHex(t, i, "X", "String", m) => t[i] \in Digits
        /\ InWord(t, i, m) => t[i] \in Letters
        /\ InString(t, i, m) => t[i] = "quote"
    BY DEF InHex, InWord, InString
  <1> QED BY <1>4, <1>6, <1>7 DEF Matched

-----------------------------------------------------------------------------
(* The longest match wins.                                                 *)
LEMMA MatchOnly ==
  ASSUME NEW t, Len(t) \in Nat, NEW i \in 1..Len(t), NEW r, Matched(t, i, r), r.seen \in Int,
         \A n : Matched(t, i, n) => n = r \/ (n.seen \in Int /\ n.seen < r.seen)
  PROVE  Flex(t)!Match(i) = r
  <1> DEFINE R == Flex(t)!Rules(i)
             longest == {m \in R : \A n \in R : n.seen <= m.seen}
  <1>1. r \in R /\ \A n \in R : n = r \/ (n.seen \in Int /\ n.seen < r.seen)
    BY RulesAre
  <1>2. longest = {r}
    BY <1>1
  <1>3. Flex(t)!Match(i) = IF longest = {} THEN [type |-> "Unknown", end |-> i + 1, seen |-> i + 1]
                           ELSE CHOOSE m \in longest : TRUE
    BY DEF Flex!Match
  <1> HIDE DEF longest
  <1> QED BY <1>2, <1>3

(* No rule: an unknown character.                                          *)
LEMMA MatchNone ==
  ASSUME NEW t, Len(t) \in Nat, NEW i \in 1..Len(t), \A n : ~Matched(t, i, n)
  PROVE  Flex(t)!Match(i) = [type |-> "Unknown", end |-> i + 1, seen |-> i + 1]
  <1>1. \A n : n \notin Flex(t)!Rules(i)
    BY RulesAre
  <1> QED BY <1>1 DEF Flex!Match

(* No rule has the type and the end: nor has the match.                    *)
LEMMA MatchNot ==
  ASSUME NEW t, Len(t) \in Nat, NEW i \in 1..Len(t), NEW type, NEW e, type # "Unknown",
         \A n : Matched(t, i, n) => ~(n.type = type /\ n.end = e)
  PROVE  ~(Flex(t)!Match(i).type = type /\ Flex(t)!Match(i).end = e)
  <1> DEFINE R == Flex(t)!Rules(i)
             longest == {m \in R : \A n \in R : n.seen <= m.seen}
  <1>1. \A n \in longest : ~(n.type = type /\ n.end = e)
    BY RulesAre
  <1>2. Flex(t)!Match(i) = IF longest = {} THEN [type |-> "Unknown", end |-> i + 1, seen |-> i + 1]
                           ELSE CHOOSE m \in longest : TRUE
    BY DEF Flex!Match
  <1> HIDE DEF longest
  <1> QED BY <1>1, <1>2

-----------------------------------------------------------------------------
(* A token of the hand-written tokenizer, at its end, against the rules.   *)

(* Departs, with the text and the token's parts as parameters.             *)
Differ(t, type, i, e) ==
  \/ /\ type = "Integer" /\ t[e - 1] # "H"
     /\ \E k \in i..e - 1 : t[k] \notin Digits
  \/ /\ type = "Real"
     /\ \/ t[e - 1] \in {"E", "e"} \cup Signs
        \/ \E k \in i..e - 1 : t[k] \notin Digits /\ \E d \in k + 1..e - 1 : t[d] = "."
  \/ /\ type = "String" /\ t[i] = "quote"
     /\ t[e - 1] # "quote" \/ e = i + 1

(* The rules find the token just when it is not one of those.              *)
Decided(t, type, i, e) ==
  (Flex(t)!Match(i).type = type /\ Flex(t)!Match(i).end = e) <=> ~Differ(t, type, i, e)

(* The match r beats every other.                                          *)
Best(t, i, r) ==
  /\ Matched(t, i, r) /\ r.seen \in Int
  /\ \A n : Matched(t, i, n) => n = r \/ (n.seen \in Int /\ n.seen < r.seen)

(* The best match is the token, and the token is no exception.             *)
LEMMA Agrees ==
  ASSUME NEW t, Len(t) \in Nat, NEW i \in 1..Len(t), NEW type, NEW e, NEW seen,
         Best(t, i, Ruled(type, e, seen)), ~Differ(t, type, i, e)
  PROVE  Decided(t, type, i, e)
  <1>1. Flex(t)!Match(i) = Ruled(type, e, seen)
    BY MatchOnly DEF Best
  <1> QED BY <1>1 DEF Decided, Ruled

(* No match is the token, and the token is an exception.                   *)
LEMMA Disagrees ==
  ASSUME NEW t, Len(t) \in Nat, NEW i \in 1..Len(t), NEW type, NEW e, type # "Unknown",
         \A n : Matched(t, i, n) => ~(n.type = type /\ n.end = e), Differ(t, type, i, e)
  PROVE  Decided(t, type, i, e)
  BY MatchNot DEF Decided

(* A symbol: the pair before the single character, or neither.             *)
LEMMA SymbolCut ==
  ASSUME NEW t, Len(t) \in Nat, NEW i \in 1..Len(t),
         t[i] \notin Letters \cup Digits \cup {"quote"}
  PROVE  /\ <<t[i], Read(t, i + 1)>> \in Pairs => Decided(t, "Pair", i, i + 2)
         /\ <<t[i], Read(t, i + 1)>> \notin Pairs /\ t[i] \in Singles
              => Decided(t, "Single", i, i + 1)
         /\ <<t[i], Read(t, i + 1)>> \notin Pairs /\ t[i] \notin Singles
              => Decided(t, "Unknown", i, i + 1)
  <1>1. \A n : Matched(t, i, n) <=> InSymbol(t, i, n)
    BY DEF Matched
  <1>2. ASSUME <<t[i], Read(t, i + 1)>> \in Pairs PROVE Decided(t, "Pair", i, i + 2)
    <2>1. Best(t, i, Ruled("Pair", i + 2, i + 2))
      BY <1>1, <1>2 DEF Best, InSymbol, Ruled
    <2> QED BY <2>1, Agrees DEF Differ
  <1>3. ASSUME <<t[i], Read(t, i + 1)>> \notin Pairs, t[i] \in Singles
        PROVE  Decided(t, "Single", i, i + 1)
    <2>1. Best(t, i, Ruled("Single", i + 1, i + 1))
      BY <1>1, <1>3 DEF Best, InSymbol, Ruled
    <2> QED BY <2>1, Agrees DEF Differ
  <1>4. ASSUME <<t[i], Read(t, i + 1)>> \notin Pairs, t[i] \notin Singles
        PROVE  Decided(t, "Unknown", i, i + 1)
    <2>1. \A n : ~Matched(t, i, n)
      BY <1>1, <1>4 DEF InSymbol
    <2>2. Flex(t)!Match(i) = [type |-> "Unknown", end |-> i + 1, seen |-> i + 1]
      BY <2>1, MatchNone
    <2> QED BY <2>2 DEF Decided, Differ
  <1> QED BY <1>2, <1>3, <1>4

(* A word: all the letters and digits there are.                           *)
LEMMA WordCut ==
  ASSUME NEW t, Len(t) \in Nat, NEW i \in 1..Len(t), NEW p \in Ends(t, i),
         t[i] \in Letters, All(t, Letters \cup Digits, i, p),
         p <= Len(t) => t[p] \notin Letters \cup Digits
  PROVE  Decided(t, IF SubSeq(t, i, p - 1) \in Keywords THEN "Keyword" ELSE "Ident", i, p)
  <1> DEFINE type == IF SubSeq(t, i, p - 1) \in Keywords THEN "Keyword" ELSE "Ident"
             r == Ruled(type, p, p)
  <1>1. t[i] \notin Digits /\ t[i] # "quote"
        /\ t[i] \notin Singles /\ \A c : <<t[i], c>> \notin Pairs
    BY DEF Letters, Digits, Singles, Pairs
  <1>2. \A n : Matched(t, i, n) <=> InWord(t, i, n)
    BY <1>1 DEF Matched, InSymbol
  <1>3. InWord(t, i, r)
    BY DEF InWord
  <1>4. p \in Int /\ r.seen = p
    BY DEF Ends, Ruled
  <1>5. ASSUME NEW n, InWord(t, i, n) PROVE n = r \/ (n.seen \in Int /\ n.seen < p)
    <2>1. PICK e \in Ends(t, i) :
            /\ All(t, Letters \cup Digits, i, e)
            /\ n = Ruled(IF SubSeq(t, i, e - 1) \in Keywords THEN "Keyword" ELSE "Ident", e, e)
      BY <1>5 DEF InWord
    <2>2. e <= p
      BY <2>1 DEF All, Ends
    <2>3. n.seen = e /\ e \in Int
      BY <2>1 DEF Ruled, Ends
    <2>4. CASE e = p
      BY <2>1, <2>4
    <2>5. CASE e # p
      BY <1>4, <2>2, <2>3, <2>5
    <2> QED BY <2>4, <2>5
  <1> HIDE DEF r
  <1>6. Best(t, i, r)
    BY <1>2, <1>3, <1>4, <1>5 DEF Best
  <1>7. ~Differ(t, type, i, p)
    BY DEF Differ
  <1>8. Decided(t, type, i, p)
    <2> HIDE DEF type
    <2> QED BY <1>6, <1>7, Agrees DEF r
  <1> QED BY <1>8

(* A string: closed, the rule's; not closed, none.                         *)
LEMMA StringClosed ==
  ASSUME NEW t, Len(t) \in Nat, NEW i \in 1..Len(t), NEW p \in i + 1..Len(t),
         t[i] = "quote", t[p] = "quote",
         \A k \in i + 1..p - 1 : t[k] \notin {"quote", "nl"}
  PROVE  Decided(t, "String", i, p + 1)
  <1> DEFINE r == Ruled("String", p + 1, p + 1)
  <1>1. \A n : Matched(t, i, n) <=> InString(t, i, n)
    BY DEF Matched, InSymbol, Letters, Digits, Singles, Pairs
  <1>2. InString(t, i, r)
    <2>1. p + 1 \in Ends(t, i) /\ i < (p + 1) - 1 /\ (p + 1) - 1 = p /\ (p + 1) - 2 = p - 1
      BY DEF Ends
    <2> QED BY <2>1 DEF InString
  <1>3. ASSUME NEW n, InString(t, i, n) PROVE n = r
    <2>1. PICK e \in Ends(t, i) :
            /\ i < e - 1 /\ t[e - 1] = "quote"
            /\ \A k \in i + 1..e - 2 : t[k] \notin {"quote", "nl"}
            /\ n = Ruled("String", e, e)
      BY <1>3 DEF InString
    <2>2. e - 1 = p
      BY <2>1 DEF Ends
    <2>3. e = p + 1
      BY <2>2 DEF Ends
    <2> QED BY <2>1, <2>3
  <1>4. Best(t, i, r)
    BY <1>1, <1>2, <1>3 DEF Best, Ruled
  <1>5. ~Differ(t, "String", i, p + 1)
    BY DEF Differ
  <1> QED BY <1>4, <1>5, Agrees

(* Without its closing quote it is no string of the rule.                  *)
LEMMA StringOpen ==
  ASSUME NEW t, Len(t) \in Nat, NEW i \in 1..Len(t), NEW p \in Ends(t, i),
         t[i] = "quote", \A k \in i + 1..p - 1 : t[k] \notin {"quote", "nl"}
  PROVE  Decided(t, "String", i, p)
  <1>1. \A n : Matched(t, i, n) <=> InString(t, i, n)
    BY DEF Matched, InSymbol, Letters, Digits, Singles, Pairs
  <1>2. p = i + 1 \/ t[p - 1] # "quote"
    BY DEF Ends
  <1>3. ASSUME NEW n, InString(t, i, n) PROVE ~(n.type = "String" /\ n.end = p)
    <2>1. PICK e \in Ends(t, i) :
            i < e - 1 /\ t[e - 1] = "quote" /\ n = Ruled("String", e, e)
      BY <1>3 DEF InString
    <2> QED BY <1>2, <2>1 DEF Ruled, Ends
  <1>4. Differ(t, "String", i, p)
    BY <1>2 DEF Differ
  <1> QED BY <1>1, <1>3, <1>4, Disagrees

-----------------------------------------------------------------------------
(* A number: what a digit may begin.                                       *)
Numeral(t, i, n) ==
  \/ InRange(t, i, n) \/ InReal(t, i, n) \/ InDigits(t, i, n)
  \/ InHex(t, i, "H", "Integer", n) \/ InHex(t, i, "X", "String", n)

(* A digit begins nothing else.                                            *)
LEMMA DigitFirst ==
  ASSUME NEW t, NEW i, t[i] \in Digits, NEW n
  PROVE  Matched(t, i, n) <=> Numeral(t, i, n)
  BY DEF Matched, InSymbol, Numeral, Letters, Digits, Singles, Pairs

(* From i on stand hexadecimal digits, as far as h and no further.         *)
HexRun(t, i, h) ==
  /\ h \in Ends(t, i) /\ t[i] \in Digits /\ All(t, HexDigits, i, h)
  /\ h <= Len(t) => t[h] \notin HexDigits

(* Decimal digits end no later, and a dot after them ends them there.      *)
LEMMA DigitsWithin ==
  ASSUME NEW t, Len(t) \in Nat, NEW i \in 1..Len(t), NEW h, HexRun(t, i, h),
         NEW d \in Ends(t, i), All(t, Digits, i, d)
  PROVE  /\ d <= h /\ d \in Int /\ h \in Int /\ i \in Int
         /\ Read(t, d) = "." => d = h /\ d <= Len(t) /\ t[h] = "."
  <1>1. d \in Int /\ h \in Int /\ i < d /\ i < h /\ d <= Len(t) + 1 /\ h <= Len(t) + 1
    BY DEF HexRun, Ends
  <1>2. d <= h
    <2>1. ASSUME h < d PROVE FALSE
      <3>1. h \in i..d - 1 /\ h <= Len(t)
        BY <1>1, <2>1
      <3>2. t[h] \in Digits
        BY <3>1 DEF All
      <3> QED BY <3>1, <3>2 DEF HexRun, HexDigits
    <2> QED BY <1>1, <2>1
  <1>3. ASSUME Read(t, d) = "." PROVE d = h /\ d <= Len(t) /\ t[h] = "."
    <2>1. d <= Len(t) /\ t[d] = "."
      BY <1>3 DEF Read
    <2>2. d < h => t[d] \in HexDigits
      BY <1>1 DEF HexRun, All
    <2>3. d = h
      BY <1>1, <1>2, <2>1, <2>2 DEF HexDigits, Digits
    <2> QED BY <2>1, <2>3
  <1> QED BY <1>1, <1>2, <1>3

(* A hexadecimal number's mark stands behind the digits.                   *)
LEMMA MarkBehind ==
  ASSUME NEW t, Len(t) \in Nat, NEW i \in 1..Len(t), NEW h, HexRun(t, i, h),
         NEW mark \in {"H", "X"}, NEW type, NEW n, InHex(t, i, mark, type, n)
  PROVE  h <= Len(t) /\ t[h] = mark /\ n = Ruled(type, h + 1, h + 1)
  <1>1. PICK e \in Ends(t, i) :
          /\ i < e - 1 /\ All(t, HexDigits, i, e - 1) /\ t[e - 1] = mark
          /\ n = Ruled(type, e, e)
    BY DEF InHex
  <1>2. h \in Int /\ i < h /\ h <= Len(t) + 1 /\ e \in Int /\ e <= Len(t) + 1
    BY DEF HexRun, Ends
  <1>3. mark \notin HexDigits
    BY DEF HexDigits, Digits
  <1>4. ~(e - 1 < h)
    BY <1>1, <1>2, <1>3 DEF HexRun, All
  <1>5. ~(h < e - 1)
    BY <1>1, <1>2 DEF HexRun, All
  <1>6. e - 1 = h /\ e = h + 1
    BY <1>2, <1>4, <1>5
  <1> QED BY <1>1, <1>2, <1>6

(* The digits are followed by H or X.                                      *)
LEMMA HexCut ==
  ASSUME NEW t, Len(t) \in Nat, NEW i \in 1..Len(t), NEW h, HexRun(t, i, h), h <= Len(t),
         NEW mark \in {"H", "X"}, t[h] = mark
  PROVE  Decided(t, IF mark = "H" THEN "Integer" ELSE "String", i, h + 1)
  <1> DEFINE type == IF mark = "H" THEN "Integer" ELSE "String"
             r == Ruled(type, h + 1, h + 1)
  <1>1. h \in Int /\ i < h /\ t[i] \in Digits
    BY DEF HexRun, Ends
  <1>2. InHex(t, i, mark, type, r)
    <2>1. h + 1 \in Ends(t, i) /\ i < (h + 1) - 1 /\ (h + 1) - 1 = h
      BY <1>1 DEF Ends
    <2> QED BY <1>1, <2>1 DEF InHex, HexRun
  <1>3. Numeral(t, i, r)
    BY <1>2 DEF Numeral
  <1>4. r.seen = h + 1
    BY DEF Ruled
  <1>5. ASSUME NEW n, Numeral(t, i, n) PROVE n = r \/ (n.seen \in Int /\ n.seen < h + 1)
    <2>1. ~InRange(t, i, n) /\ ~InReal(t, i, n)
      BY DigitsWithin DEF InRange, InReal
    <2>2. CASE InDigits(t, i, n)
      BY <1>1, <2>2, DigitsWithin DEF InDigits, Ruled
    <2>3. CASE InHex(t, i, "H", "Integer", n)
      BY <2>3, MarkBehind
    <2>4. CASE InHex(t, i, "X", "String", n)
      BY <2>4, MarkBehind
    <2> QED BY <1>5, <2>1, <2>2, <2>3, <2>4 DEF Numeral
  <1>6. ~Differ(t, type, i, h + 1)
    <2>1. (h + 1) - 1 = h
      BY <1>1
    <2>2. t[i] # "quote"
      BY <1>1 DEF Digits
    <2> QED BY <2>1, <2>2 DEF Differ
  <1>7. Decided(t, type, i, h + 1)
    <2> HIDE DEF type
    <2>1. Best(t, i, r)
      BY <1>1, <1>3, <1>4, <1>5, DigitFirst DEF Best
    <2> QED BY <1>6, <2>1, Agrees
  <1> QED BY <1>7

(* They are followed by neither, nor by a dot but the dots of a range.     *)
LEMMA IntegerCut ==
  ASSUME NEW t, Len(t) \in Nat, NEW i \in 1..Len(t), NEW h, HexRun(t, i, h),
         h <= Len(t) => t[h] \notin {"H", "X"},
         Read(t, h) = "." => Read(t, h + 1) = "."
  PROVE  Decided(t, "Integer", i, h)
  <1>1. h \in Int /\ i < h /\ t[i] \in Digits /\ h \in Ends(t, i) /\ h <= Len(t) + 1
    BY DEF HexRun, Ends
  <1>2. \A n : ~InHex(t, i, "H", "Integer", n) /\ ~InHex(t, i, "X", "String", n)
    BY MarkBehind
  <1>3. t[h - 1] # "H"
    <2>1. h - 1 \in i..h - 1
      BY <1>1
    <2> QED BY <2>1 DEF HexRun, All, HexDigits, Digits
  <1>4. ASSUME All(t, Digits, i, h), Read(t, h) = "." PROVE Decided(t, "Integer", i, h)
    <2> DEFINE r == Ruled("Integer", h, h + 2)
    <2>1. InRange(t, i, r)
      BY <1>1, <1>4 DEF InRange
    <2>2. ASSUME NEW n, InRange(t, i, n) PROVE n = r
      <3>1. PICK e \in Ends(t, i) :
              All(t, Digits, i, e) /\ Read(t, e) = "." /\ n = Ruled("Integer", e, e + 2)
        BY <2>2 DEF InRange
      <3>2. e = h
        BY <3>1, DigitsWithin
      <3> QED BY <3>1, <3>2
    <2>3. ASSUME NEW n, InReal(t, i, n) PROVE n.seen = h + 1
      <3>1. PICK d \in Ends(t, i), f \in Nat, e \in Nat :
              /\ All(t, Digits, i, d) /\ Read(t, d) = "."
              /\ f \in d + 1..Len(t) + 1 /\ All(t, Digits, d + 1, f)
              /\ InExponent(t, f, e) /\ n = Ruled("Real", e, e)
        BY <2>3 DEF InReal
      <3>2. d = h
        BY <3>1, DigitsWithin
      <3>3. h + 1 <= Len(t) /\ t[h + 1] = "."
        BY <1>4 DEF Read
      <3>4. f = h + 1
        <4>1. ~(h + 1 < f)
          BY <1>1, <3>1, <3>2, <3>3 DEF All, Digits
        <4> QED BY <1>1, <3>1, <3>2, <4>1
      <3>5. e = f
        BY <3>1, <3>3, <3>4 DEF InExponent, Read
      <3> QED BY <3>1, <3>4, <3>5 DEF Ruled
    <2>4. ASSUME NEW n, InDigits(t, i, n) PROVE n.seen \in Int /\ n.seen <= h
      BY <2>4, DigitsWithin DEF InDigits, Ruled
    <2>5. ASSUME NEW n, Numeral(t, i, n) PROVE n = r \/ (n.seen \in Int /\ n.seen < h + 2)
      BY <1>1, <1>2, <2>2, <2>3, <2>4, <2>5 DEF Numeral
    <2>6. r.seen = h + 2 /\ Numeral(t, i, r)
      BY <2>1 DEF Ruled, Numeral
    <2> HIDE DEF r
    <2>7. Best(t, i, r)
      BY <1>1, <2>5, <2>6, DigitFirst DEF Best
    <2>8. ~Differ(t, "Integer", i, h)
      BY <1>4 DEF Differ, All
    <2> QED BY <2>7, <2>8, Agrees DEF r
  <1>5. ASSUME All(t, Digits, i, h), Read(t, h) # "." PROVE Decided(t, "Integer", i, h)
    <2> DEFINE r == Ruled("Integer", h, h)
    <2>1. InDigits(t, i, r)
      BY <1>1, <1>5 DEF InDigits
    <2>2. \A n : ~InRange(t, i, n) /\ ~InReal(t, i, n)
      <3>1. ASSUME NEW e \in Ends(t, i), All(t, Digits, i, e) PROVE Read(t, e) # "."
        BY <1>5, <3>1, DigitsWithin
      <3> QED BY <3>1 DEF InRange, InReal
    <2>3. ASSUME NEW n, InDigits(t, i, n) PROVE n = r \/ (n.seen \in Int /\ n.seen < h)
      <3>1. PICK e \in Ends(t, i) : All(t, Digits, i, e) /\ n = Ruled("Integer", e, e)
        BY <2>3 DEF InDigits
      <3>2. e <= h /\ e \in Int
        BY <3>1, DigitsWithin
      <3>3. CASE e = h
        BY <3>1, <3>3
      <3>4. CASE e # h
        BY <1>1, <3>1, <3>2, <3>4 DEF Ruled
      <3> QED BY <3>3, <3>4
    <2>4. ASSUME NEW n, Numeral(t, i, n) PROVE n = r \/ (n.seen \in Int /\ n.seen < h)
      BY <1>2, <2>2, <2>3, <2>4 DEF Numeral
    <2>5. r.seen = h /\ Numeral(t, i, r)
      BY <2>1 DEF Ruled, Numeral
    <2> HIDE DEF r
    <2>6. Best(t, i, r)
      BY <1>1, <2>4, <2>5, DigitFirst DEF Best
    <2>7. ~Differ(t, "Integer", i, h)
      BY <1>5 DEF Differ, All
    <2> QED BY <2>6, <2>7, Agrees DEF r
  <1>6. ASSUME ~All(t, Digits, i, h) PROVE Decided(t, "Integer", i, h)
    <2>1. Differ(t, "Integer", i, h)
      BY <1>3, <1>6 DEF Differ, All
    <2>2. ASSUME NEW n, Numeral(t, i, n) PROVE ~(n.type = "Integer" /\ n.end = h)
      <3>1. ASSUME n.type = "Integer" /\ n.end = h
            PROVE  ~InRange(t, i, n) /\ ~InDigits(t, i, n) /\ ~InReal(t, i, n)
        BY <1>6, <3>1 DEF InRange, InDigits, InReal, Ruled
      <3> QED BY <1>2, <2>2, <3>1 DEF Numeral
    <2>3. \A n : Matched(t, i, n) => ~(n.type = "Integer" /\ n.end = h)
      BY <1>1, <2>2, DigitFirst
    <2> QED BY <2>1, <2>3, Disagrees
  <1> QED BY <1>4, <1>5, <1>6

-----------------------------------------------------------------------------
(* Behind the digits a dot at d, and decimal digits as far as f.           *)
Fraction(t, i, d, f) ==
  /\ HexRun(t, i, d) /\ d <= Len(t) /\ t[d] = "." /\ Read(t, d + 1) # "."
  /\ f \in d + 1..Len(t) + 1 /\ All(t, Digits, d + 1, f)

Bounds(t, i, d, f) ==
  /\ i \in Int /\ d \in Int /\ f \in Int /\ i < d /\ d < f /\ f <= Len(t) + 1
  /\ t[i] \in Digits

(* The order of its parts.                                                 *)
LEMMA FractionBounds ==
  ASSUME NEW t, Len(t) \in Nat, NEW i \in 1..Len(t), NEW d, NEW f, Fraction(t, i, d, f)
  PROVE  Bounds(t, i, d, f)
  BY DEF Fraction, HexRun, Ends, Bounds

(* Then only the rule of the reals reaches behind the dot.                 *)
LEMMA OthersEndBefore ==
  ASSUME NEW t, Len(t) \in Nat, NEW i \in 1..Len(t), NEW d, NEW f, Fraction(t, i, d, f),
         NEW n, Numeral(t, i, n), ~InReal(t, i, n)
  PROVE  n.type # "Real" /\ n.seen \in Int /\ n.seen <= d
  <1>1. Bounds(t, i, d, f) /\ HexRun(t, i, d) /\ t[d] = "." /\ Read(t, d + 1) # "."
    BY FractionBounds DEF Fraction
  <1>2. ~InRange(t, i, n)
    <2>1. ASSUME NEW e \in Ends(t, i), All(t, Digits, i, e), Read(t, e) = ".",
                 Read(t, e + 1) = "."
          PROVE  FALSE
      <3>1. e = d
        BY <1>1, <2>1, DigitsWithin
      <3> QED BY <1>1, <2>1, <3>1
    <2> QED BY <2>1 DEF InRange
  <1>3. ~InHex(t, i, "H", "Integer", n) /\ ~InHex(t, i, "X", "String", n)
    BY <1>1, MarkBehind
  <1>4. InDigits(t, i, n)
    BY <1>2, <1>3 DEF Numeral
  <1> QED BY <1>1, <1>4, DigitsWithin DEF InDigits, Ruled

(* And that rule ends in the fraction, or in an exponent behind it.        *)
LEMMA RealEnds ==
  ASSUME NEW t, Len(t) \in Nat, NEW i \in 1..Len(t), NEW d, NEW f, Fraction(t, i, d, f),
         f <= Len(t) => t[f] \notin Digits, NEW n, InReal(t, i, n)
  PROVE  /\ All(t, Digits, i, d)
         /\ \E e \in Nat : /\ n = Ruled("Real", e, e)
                           /\ e <= f \/ InExponent(t, f, e)
  <1>1. Bounds(t, i, d, f) /\ HexRun(t, i, d) /\ All(t, Digits, d + 1, f)
    BY FractionBounds DEF Fraction
  <1>2. PICK b \in Ends(t, i), g \in Nat, e \in Nat :
          /\ All(t, Digits, i, b) /\ Read(t, b) = "."
          /\ g \in b + 1..Len(t) + 1 /\ All(t, Digits, b + 1, g)
          /\ InExponent(t, g, e) /\ n = Ruled("Real", e, e)
    BY DEF InReal
  <1>3. b = d
    BY <1>1, <1>2, DigitsWithin
  <1>4. g <= f
    <2>1. ASSUME f < g PROVE FALSE
      <3>1. f \in d + 1..g - 1 /\ f <= Len(t)
        BY <1>1, <1>2, <1>3, <2>1 DEF Bounds
      <3>2. t[f] \in Digits
        BY <1>2, <1>3, <3>1 DEF All
      <3> QED BY <3>1, <3>2
    <2> QED BY <1>1, <1>2, <2>1 DEF Bounds
  <1>5. CASE e = g
    BY <1>2, <1>3, <1>4, <1>5
  <1>6. CASE e # g
    <2>1. Read(t, g) \in {"E", "e"}
      BY <1>2, <1>6 DEF InExponent
    <2>2. g <= Len(t) /\ t[g] \notin Digits
      BY <2>1 DEF Read, Digits
    <2>3. g = f
      <3>1. ASSUME g < f PROVE FALSE
        <4>1. g \in d + 1..f - 1
          BY <1>1, <1>2, <1>3, <3>1 DEF Bounds
        <4> QED BY <1>1, <2>2, <4>1 DEF All
      <3> QED BY <1>1, <1>2, <1>4, <3>1 DEF Bounds
    <2> QED BY <1>2, <1>3, <2>3
  <1> QED BY <1>5, <1>6

(* Letters among the digits before the dot: no rule has them.              *)
LEMMA LettersBeforeDot ==
  ASSUME NEW t, Len(t) \in Nat, NEW i \in 1..Len(t), NEW d, NEW f, Fraction(t, i, d, f),
         f <= Len(t) => t[f] \notin Digits, ~All(t, Digits, i, d),
         NEW e \in Int, d < e
  PROVE  Decided(t, "Real", i, e)
  <1>1. Bounds(t, i, d, f) /\ t[d] = "."
    BY FractionBounds DEF Fraction
  <1>2. Differ(t, "Real", i, e)
    <2>1. PICK k \in i..d - 1 : t[k] \notin Digits
      BY DEF All
    <2>2. k \in i..e - 1 /\ d \in k + 1..e - 1
      BY <1>1, <2>1 DEF Bounds
    <2> QED BY <1>1, <2>1, <2>2 DEF Differ
  <1>3. ASSUME NEW n, Matched(t, i, n) PROVE ~(n.type = "Real" /\ n.end = e)
    <2>1. Numeral(t, i, n)
      BY <1>1, <1>3, DigitFirst DEF Bounds
    <2>2. ~InReal(t, i, n)
      BY RealEnds
    <2> QED BY <2>1, <2>2, OthersEndBefore
  <1> QED BY <1>2, <1>3, Disagrees

(* A real that ends so far, nothing but digits in its parts: the rule's.   *)
LEMMA RealLongest ==
  ASSUME NEW t, Len(t) \in Nat, NEW i \in 1..Len(t), NEW d, NEW f, Fraction(t, i, d, f),
         f <= Len(t) => t[f] \notin Digits, All(t, Digits, i, d),
         NEW p, InExponent(t, f, p), p = f \/ t[p - 1] \in Digits,
         \A e \in Nat : InExponent(t, f, e) => e <= p,
         \A k \in f..p - 1 : t[k] # "."
  PROVE  Decided(t, "Real", i, p)
  <1>1. /\ Bounds(t, i, d, f) /\ t[d] = "." /\ d <= Len(t)
        /\ f \in d + 1..Len(t) + 1 /\ All(t, Digits, d + 1, f)
    BY FractionBounds DEF Fraction
  <1>2. p \in Nat /\ f <= p
    BY <1>1 DEF Bounds, InExponent, Ends
  <1> DEFINE r == Ruled("Real", p, p)
  <1>3. InReal(t, i, r)
    <2>1. d \in Ends(t, i) /\ f \in Nat /\ Read(t, d) = "."
      BY <1>1 DEF Bounds, Ends, Read
    <2> QED BY <1>1, <1>2, <2>1 DEF InReal
  <1>4. ASSUME NEW n, Numeral(t, i, n) PROVE n = r \/ (n.seen \in Int /\ n.seen < p)
    <2>1. CASE InReal(t, i, n)
      <3>1. PICK e \in Nat : n = Ruled("Real", e, e) /\ (e <= f \/ InExponent(t, f, e))
        BY <2>1, RealEnds
      <3>2. e <= p
        BY <1>1, <1>2, <3>1 DEF Bounds
      <3>3. CASE e = p
        BY <3>1, <3>3
      <3>4. CASE e # p
        BY <1>2, <3>1, <3>2, <3>4 DEF Ruled
      <3> QED BY <3>3, <3>4
    <2>2. CASE ~InReal(t, i, n)
      <3>1. n.seen \in Int /\ n.seen <= d
        BY <1>4, <2>2, OthersEndBefore
      <3> QED BY <1>1, <1>2, <3>1 DEF Bounds
    <2> QED BY <2>1, <2>2
  <1>5. r.seen = p /\ Numeral(t, i, r)
    BY <1>3 DEF Ruled, Numeral
  <1>6. ~Differ(t, "Real", i, p)
    <2>1. t[p - 1] \in Digits \cup {"."}
      <3>1. f - 1 = d \/ f - 1 \in d + 1..f - 1
        BY <1>1 DEF Bounds
      <3> QED BY <1>1, <3>1 DEF All
    <2>2. ASSUME NEW k \in i..p - 1, t[k] \notin Digits, NEW x \in k + 1..p - 1, t[x] = "."
          PROVE  FALSE
      <3>1. d <= k
        BY <1>1, <2>2 DEF All, Bounds
      <3>2. x \in d + 1..f - 1 \/ x \in f..p - 1
        BY <1>1, <1>2, <2>2, <3>1 DEF Bounds
      <3>3. x \notin d + 1..f - 1
        BY <1>1, <2>2 DEF All, Digits
      <3> QED BY <2>2, <3>2, <3>3
    <2> QED BY <2>1, <2>2 DEF Differ, Digits, Signs
  <1> HIDE DEF r
  <1>7. Best(t, i, r)
    BY <1>1, <1>2, <1>4, <1>5, DigitFirst DEF Best, Bounds
  <1> QED BY <1>6, <1>7, Agrees DEF r

(* No exponent.                                                            *)
LEMMA PlainCut ==
  ASSUME NEW t, Len(t) \in Nat, NEW i \in 1..Len(t), NEW d, NEW f, Fraction(t, i, d, f),
         Read(t, f) \notin Digits \cup {"E", "e"}
  PROVE  Decided(t, "Real", i, f)
  <1>1. Bounds(t, i, d, f) /\ (f <= Len(t) => t[f] \notin Digits)
    BY FractionBounds DEF Read
  <1>2. CASE All(t, Digits, i, d)
    <2>1. InExponent(t, f, f) /\ \A e \in Nat : InExponent(t, f, e) => e = f
      BY DEF InExponent
    <2>2. \A k \in f..f - 1 : t[k] # "."
      BY <1>1 DEF Bounds
    <2>3. f \in Int
      BY <1>1 DEF Bounds
    <2> QED BY <1>1, <1>2, <2>1, <2>2, <2>3, RealLongest
  <1>3. CASE ~All(t, Digits, i, d)
    BY <1>1, <1>3, LettersBeforeDot DEF Bounds
  <1> QED BY <1>2, <1>3

(* An exponent, its digits from q to p.                                    *)
Exponents(t, f, q) ==
  /\ f <= Len(t) /\ t[f] \in {"E", "e"}
  /\ q = IF Read(t, f + 1) \in Signs THEN f + 2 ELSE f + 1

(* Digits in the exponent: as the rule has it.  None: an exception.        *)
LEMMA ExponentCut ==
  ASSUME NEW t, Len(t) \in Nat, NEW i \in 1..Len(t), NEW d, NEW f, Fraction(t, i, d, f),
         NEW q, Exponents(t, f, q), NEW p \in q..Len(t) + 1, All(t, Digits, q, p),
         Read(t, p) \notin Digits
  PROVE  Decided(t, "Real", i, p)
  <1>1. /\ Bounds(t, i, d, f) /\ f <= Len(t) /\ t[f] \in {"E", "e"} /\ t[f] \notin Digits
        /\ p \in Int /\ f < q /\ q \in Int /\ q <= p /\ p <= Len(t) + 1 /\ p # f
    BY FractionBounds DEF Exponents, Digits, Bounds
  <1>2. ASSUME NEW e \in Nat, InExponent(t, f, e), e # f PROVE q < e /\ All(t, Digits, q, e)
    <2>1. PICK x \in {f + 1, f + 2} :
            /\ x = f + 2 => Read(t, f + 1) \in Signs
            /\ x < e /\ All(t, Digits, x, e) /\ e <= Len(t) + 1
      BY <1>1, <1>2 DEF InExponent, Ends
    <2>2. CASE x = q
      BY <2>1, <2>2
    <2>3. CASE x # q
      <3>1. x = f + 1 /\ Read(t, f + 1) \in Signs
        BY <2>1, <2>3 DEF Exponents
      <3>2. t[f + 1] \in Digits /\ Read(t, f + 1) = t[f + 1]
        BY <1>1, <2>1, <3>1 DEF All, Read, Bounds
      <3> QED BY <3>1, <3>2 DEF Digits, Signs
    <2> QED BY <2>2, <2>3
  <1>3. ASSUME NEW e \in Nat, InExponent(t, f, e) PROVE e <= p
    <2>1. CASE e = f
      BY <1>1, <2>1 DEF Bounds
    <2>2. CASE e # f
      <3>1. q < e /\ All(t, Digits, q, e) /\ e <= Len(t) + 1
        BY <1>1, <1>2, <1>3, <2>2 DEF InExponent, Ends
      <3>2. ASSUME p < e PROVE FALSE
        <4>1. p \in q..e - 1 /\ p <= Len(t)
          BY <1>1, <3>1, <3>2
        <4> QED BY <3>1, <4>1 DEF All, Read
      <3> QED BY <1>1, <3>2
    <2> QED BY <2>1, <2>2
  <1>4. CASE All(t, Digits, i, d) /\ q < p
    <2>1. InExponent(t, f, p)
      <3>1. p \in Ends(t, f) /\ Read(t, f) \in {"E", "e"}
        BY <1>1 DEF Ends, Read, Bounds
      <3>2. q \in {f + 1, f + 2} /\ (q = f + 2 => Read(t, f + 1) \in Signs)
        BY <1>1 DEF Exponents, Bounds
      <3> QED BY <1>4, <3>1, <3>2 DEF InExponent
    <2>2. t[p - 1] \in Digits
      BY <1>1, <1>4 DEF All
    <2>3. ASSUME NEW k \in f..p - 1 PROVE t[k] # "."
      <3>1. CASE k = f
        BY <1>1, <3>1
      <3>2. CASE k \in q..p - 1
        BY <3>2 DEF All, Digits
      <3>3. CASE k # f /\ k < q
        <4>1. k = f + 1 /\ Read(t, f + 1) \in Signs
          BY <1>1, <3>3 DEF Exponents, Bounds
        <4> QED BY <4>1 DEF Read, Signs
      <3> QED BY <1>1, <3>1, <3>2, <3>3 DEF Bounds
    <2> QED BY <1>1, <1>3, <1>4, <2>1, <2>2, <2>3, RealLongest
  <1>5. CASE All(t, Digits, i, d) /\ q = p
    <2>1. t[p - 1] \in {"E", "e"} \cup Signs
      <3>1. CASE Read(t, f + 1) \in Signs
        <4>1. p - 1 = f + 1
          BY <1>1, <1>5, <3>1 DEF Exponents, Bounds
        <4> QED BY <3>1, <4>1 DEF Read, Signs
      <3>2. CASE Read(t, f + 1) \notin Signs
        <4>1. p - 1 = f
          BY <1>1, <1>5, <3>2 DEF Exponents, Bounds
        <4> QED BY <1>1, <4>1
      <3> QED BY <3>1, <3>2
    <2>2. Differ(t, "Real", i, p)
      BY <2>1 DEF Differ
    <2>3. ASSUME NEW n, Matched(t, i, n) PROVE ~(n.type = "Real" /\ n.end = p)
      <3>1. Numeral(t, i, n)
        BY <1>1, <2>3, DigitFirst DEF Bounds
      <3>2. CASE InReal(t, i, n)
        <4>1. PICK e \in Nat : n = Ruled("Real", e, e) /\ (e <= f \/ InExponent(t, f, e))
          BY <1>1, <3>2, RealEnds
        <4>2. e # p
          BY <1>1, <1>2, <1>5, <4>1 DEF Bounds
        <4> QED BY <4>1, <4>2 DEF Ruled
      <3>3. CASE ~InReal(t, i, n)
        BY <3>1, <3>3, OthersEndBefore
      <3> QED BY <3>2, <3>3
    <2> QED BY <2>2, <2>3, Disagrees
  <1>6. CASE ~All(t, Digits, i, d)
    BY <1>1, <1>6, LettersBeforeDot DEF Bounds
  <1> QED BY <1>1, <1>4, <1>5, <1>6

-----------------------------------------------------------------------------
(* What has been read since the last token, as the rules see it.           *)
NulIn(t, from, to) == \E k \in from..to : k <= Len(t) /\ t[k] = Nul

(* p is within a token that begins at i.                                   *)
Within(t, m, i, p) ==
  /\ i \in 1..p
  /\ \/ m = "start" /\ p = i
     \/ /\ i <= Len(t)
        /\ \/ m = "ident" /\ t[i] \in Letters /\ All(t, Letters \cup Digits, i, p)
           \/ m = "number" /\ t[i] \in Digits /\ All(t, HexDigits, i, p)
           \/ m = "fraction" /\ \E d \in Nat : Fraction(t, i, d, p)
           \/ /\ m = "exponent"
              /\ \E d \in Nat, f \in Nat, q \in Nat :
                   /\ Fraction(t, i, d, f) /\ Exponents(t, f, q)
                   /\ q <= p /\ All(t, Digits, q, p)
           \/ /\ m = "string" /\ t[i] = "quote" /\ i < p
              /\ \A k \in i + 1..p - 1 : t[k] \notin {"quote", "nl"}

(* On the way from one token to the next, or within it.                    *)
Way(t, from, p, i, m, d) ==
  \/ m \in {"idle", "done"} /\ p = from
  \/ m = "blank" /\ Flex(t)!skip[from][0] = Flex(t)!skip[p][0]
  \/ m = "comment" /\ Flex(t)!skip[from][0] = Flex(t)!skip[p][d]
  \/ Within(t, m, i, p) /\ Flex(t)!skip[from][0] = i

SoFar(t, from, p, i, m, d) ==
  /\ from \in 1..p
  /\ NulIn(t, from, p - 1) \/ Way(t, from, p, i, m, d)

(* One token, found from from on, as AgreesWithFlex has it.                *)
Right(t, from, x) ==
  \/ NulIn(t, from, x.end)
  \/ (Flex(t)!readOne(from) = Bare(x)) <=> ~Differ(t, x.type, x.first, x.end)

Before(s, k) == IF k = 1 THEN 1 ELSE s[k - 1].end

AllRight == \A k \in 1..Len(scanned) : Right(text, Before(scanned, k), scanned[k])
From == Before(scanned, Len(scanned) + 1)
FInv == AllRight /\ (Ended(scanned) \/ SoFar(text, From, pos, start.pos, mode, depth))

(* It is the property.                                                     *)
LEMMA RightIsMeant == AllRight => AgreesWithFlex
  <1> SUFFICES ASSUME AllRight, NEW k \in 1..Len(scanned)
               PROVE  \/ NulMet(EndBefore(k), scanned[k].end)
                      \/ (Flex(text)!readOne(EndBefore(k)) = Bare(scanned[k]))
                           <=> ~Departs(scanned[k])
    BY DEF AgreesWithFlex
  <1>1. EndBefore(k) = Before(scanned, k)
    BY DEF EndBefore, Before
  <1>2. Departs(scanned[k])
        <=> Differ(text, scanned[k].type, scanned[k].first, scanned[k].end)
    BY DEF Departs, Differ
  <1>3. NulMet(EndBefore(k), scanned[k].end) <=> NulIn(text, EndBefore(k), scanned[k].end)
    BY DEF NulMet, NulIn
  <1>4. Right(text, Before(scanned, k), scanned[k])
    BY DEF AllRight
  <1> QED BY <1>1, <1>2, <1>3, <1>4 DEF Right

(* A NUL once met stays met.                                               *)
LEMMA NulStays ==
  ASSUME NEW t, NEW from, NEW a \in Int, NEW b \in Int, a <= b, NulIn(t, from, a), from \in Int
  PROVE  NulIn(t, from, b)
  BY DEF NulIn

(* What every step's proof begins with.                                    *)
Ground ==
  /\ text \in Seq(Chars) /\ Len(text) \in Nat
  /\ pos \in Nat \ {0} /\ pos <= Len(text) + 1
  /\ start.pos \in Nat /\ depth \in Nat /\ mode \in Modes
  /\ (mode = "comment" => depth # 0)
  /\ scanned \in Seq(Token) /\ Len(scanned) \in Nat

(* The invariant of the places gives it.                                   *)
LEMMA OnGround == ASSUME IInv PROVE Ground
  BY DEF IInv, Here, Marked, Phase, Found, Ground

(* A token is found.                                                       *)
LEMMA EmitRight ==
  ASSUME IInv, FInv, mode \notin {"idle", "done", "blank", "comment"},
         NEW type, NEW n \in Nat, Emit(type, n),
         Within(text, mode, start.pos, pos) =>
           \/ NulIn(text, pos, pos + n)
           \/ start.pos > Len(text) /\ type = "Eof" /\ pos + n = start.pos
           \/ start.pos <= Len(text) /\ Decided(text, type, start.pos, pos + n)
  PROVE  FInv'
  <1> DEFINE x == [type |-> type, line |-> start.line, col |-> start.col,
                   first |-> start.pos, end |-> pos + n]
  <1>1. /\ scanned' = IF Ended(scanned) THEN scanned ELSE Append(scanned, x)
        /\ text' = text /\ mode' = "done" /\ pos' = pos + n
    BY DEF Emit, Take
  <1>2. Ground
    BY OnGround
  <1>3. CASE Ended(scanned)
    <2>1. scanned' = scanned
      BY <1>1, <1>3
    <2>2. AllRight'
      BY <1>1, <2>1 DEF FInv, AllRight
    <2>3. Ended(scanned)'
      BY <1>3, <2>1
    <2> QED BY <2>2, <2>3 DEF FInv
  <1>4. CASE ~Ended(scanned)
    <2>0. Bare(x) = [type |-> type, first |-> start.pos, end |-> pos + n]
          /\ x.type = type /\ x.first = start.pos /\ x.end = pos + n
      BY DEF Bare
    <2> HIDE DEF x
    <2>1. scanned' = Append(scanned, x)
      BY <1>1, <1>4
    <2>2. /\ Len(scanned') = Len(scanned) + 1 /\ scanned'[Len(scanned) + 1] = x
          /\ \A k \in 1..Len(scanned) : scanned'[k] = scanned[k]
      BY <1>2, <2>1 DEF Ground
    <2>3. \A k \in 1..Len(scanned) + 1 : Before(scanned', k) = Before(scanned, k)
      BY <1>2, <2>2 DEF Before, Ground
    <2>4. SoFar(text, From, pos, start.pos, mode, depth)
      BY <1>4 DEF FInv
    <2>5. From \in Int /\ From >= 1 /\ From <= pos
      BY <1>2, <2>4 DEF SoFar, Ground
    <2>6. Right(text, From, x)
      <3>1. CASE NulIn(text, From, pos - 1)
        <4>1. NulIn(text, From, pos + n)
          BY <1>2, <2>5, <3>1, NulStays DEF Ground
        <4> QED BY <2>0, <4>1 DEF Right
      <3>2. CASE ~NulIn(text, From, pos - 1)
        <4>1. Within(text, mode, start.pos, pos) /\ Flex(text)!skip[From][0] = start.pos
          BY <2>4, <3>2 DEF SoFar, Way
        <4>2. CASE NulIn(text, pos, pos + n)
          <5>1. NulIn(text, From, pos + n)
            BY <1>2, <2>5, <4>2 DEF NulIn, Ground
          <5> QED BY <2>0, <5>1 DEF Right
        <4>3. CASE start.pos > Len(text) /\ type = "Eof" /\ pos + n = start.pos
          <5>1. Flex(text)!readOne(From) = Bare(x)
            BY <2>0, <4>1, <4>3 DEF Flex!readOne
          <5>2. ~Differ(text, x.type, x.first, x.end)
            BY <2>0, <4>3 DEF Differ
          <5> QED BY <5>1, <5>2 DEF Right
        <4>4. CASE start.pos <= Len(text) /\ Decided(text, type, start.pos, pos + n)
          <5>1. Flex(text)!readOne(From) = [type |-> Flex(text)!Match(start.pos).type,
                                           first |-> start.pos,
                                           end |-> Flex(text)!Match(start.pos).end]
            BY <1>2, <4>1, <4>4 DEF Flex!readOne, Ground
          <5>2. Flex(text)!readOne(From) = Bare(x)
                <=> /\ Flex(text)!Match(start.pos).type = type
                    /\ Flex(text)!Match(start.pos).end = pos + n
            BY <2>0, <5>1
          <5> QED BY <2>0, <4>4, <5>2 DEF Right, Decided
        <4> QED BY <4>1, <4>2, <4>3, <4>4
      <3> QED BY <3>1, <3>2
    <2>7. AllRight'
      <3>1. ASSUME NEW k \in 1..Len(scanned') PROVE Right(text', Before(scanned', k), scanned'[k])
        <4>1. CASE k = Len(scanned) + 1
          BY <1>1, <1>2, <2>2, <2>3, <2>6, <4>1 DEF From, Ground
        <4>2. CASE k # Len(scanned) + 1
          <5>1. k \in 1..Len(scanned)
            BY <1>2, <2>2, <4>2 DEF Ground
          <5>2. Right(text, Before(scanned, k), scanned[k])
            BY <5>1 DEF FInv, AllRight
          <5> QED BY <1>1, <2>2, <2>3, <5>1, <5>2
        <4> QED BY <4>1, <4>2
      <3> QED BY <3>1 DEF AllRight
    <2>8. From' = pos'
      BY <1>1, <1>2, <2>0, <2>2 DEF From, Before, Ground
    <2>9. SoFar(text', From', pos', start.pos', mode', depth')
      BY <1>1, <1>2, <2>8 DEF SoFar, Way, Ground
    <2> QED BY <2>7, <2>9 DEF FInv
  <1> QED BY <1>3, <1>4

(* Nothing is found, and the way goes on.                                  *)
LEMMA MoveRight ==
  ASSUME IInv, FInv, text' = text, scanned' = scanned, pos' \in Nat, pos <= pos',
         NulIn(text, From, pos - 1) \/ Way(text, From, pos, start.pos, mode, depth) =>
           \/ NulIn(text, From, pos' - 1)
           \/ Way(text, From, pos', start'.pos, mode', depth')
  PROVE  FInv'
  <1>1. AllRight'
    BY DEF FInv, AllRight
  <1>2. From' = From /\ (Ended(scanned)' <=> Ended(scanned))
    BY DEF From
  <1>3. ASSUME SoFar(text, From, pos, start.pos, mode, depth)
        PROVE  SoFar(text', From', pos', start'.pos, mode', depth')
    <2>1. From \in 1..pos'
      BY <1>3, OnGround DEF SoFar, Ground
    <2> QED BY <1>2, <1>3, <2>1 DEF SoFar
  <1> QED BY <1>1, <1>2, <1>3 DEF FInv

(* A character further within the token.                                   *)
LEMMA ContinueRight ==
  ASSUME IInv, FInv, mode \notin {"idle", "done", "blank", "comment"},
         NEW m, NEW n \in Nat, Continue(m, n),
         Within(text, mode, start.pos, pos) => Within(text, m, start.pos, pos + n)
  PROVE  FInv'
  <1>1. text' = text /\ scanned' = scanned /\ pos' = pos + n /\ mode' = m /\ start' = start
    BY DEF Continue, Take
  <1>2. Ground
    BY OnGround
  <1>3. ASSUME Ended(scanned) PROVE FInv'
    BY <1>1, <1>3 DEF FInv, AllRight
  <1>4. ASSUME ~Ended(scanned) PROVE FInv'
    <2>1. From \in 1..pos
      BY <1>4 DEF FInv, SoFar
    <2>2. NulIn(text, From, pos - 1) => NulIn(text, From, pos' - 1)
      BY <1>1, <1>2, <2>1, NulStays DEF Ground
    <2>3. Way(text, From, pos, start.pos, mode, depth)
          => Way(text, From, pos', start'.pos, mode', depth')
      BY <1>1 DEF Way
    <2> QED BY <1>1, <1>2, <2>2, <2>3, MoveRight DEF Ground
  <1> QED BY <1>3, <1>4

-----------------------------------------------------------------------------
(* Step by step.                                                           *)

(* Blanks and comments: what skip does at pos the code does there.         *)
LEMMA TurnIs ==
  ASSUME Ground
  PROVE  /\ pos \in 1..Len(text) + 1
         /\ \A d \in Nat : Flex(text)!skip[pos][d] = Turn(text, Flex(text)!skip, pos, d)
         /\ pos > Len(text) => \A d \in Nat : Flex(text)!skip[pos][d] = pos
         /\ Flex(text)!Opens(pos) <=> (peekChar = "(" /\ AfterNext = "*")
         /\ Flex(text)!Closes(pos) <=> (peekChar = "*" /\ AfterNext = ")")
         /\ peekChar # Nul => pos <= Len(text) /\ peekChar = text[pos]
         /\ pos <= Len(text) => peekChar = text[pos]
  <1>1. pos \in 1..Len(text) + 1
    BY DEF Ground
  <1>2. \A d \in Nat : Flex(text)!skip[pos][d] = Turn(text, Flex(text)!skip, pos, d)
    BY <1>1, SkipIs DEF Ground
  <1>3. pos > Len(text) => \A d \in Nat : Flex(text)!skip[pos][d] = pos
    BY <1>2 DEF Turn
  <1>4. /\ Flex(text)!Opens(pos) <=> (peekChar = "(" /\ AfterNext = "*")
        /\ Flex(text)!Closes(pos) <=> (peekChar = "*" /\ AfterNext = ")")
    BY DEF Flex!Opens, Flex!Closes, Flex!CharAt, peekChar, AfterNext, CharAt, Nul
  <1>5. /\ peekChar # Nul => pos <= Len(text) /\ peekChar = text[pos]
        /\ pos <= Len(text) => peekChar = text[pos]
    BY DEF peekChar, CharAt
  <1> QED BY <1>1, <1>2, <1>3, <1>4, <1>5

(* A NUL on the way has been met.                                          *)
LEMMA NulSeen ==
  ASSUME NEW t, NEW from \in Int, NEW a \in Int, NEW b \in Int, from <= a,
         \E k \in a..b - 1 : k <= Len(t) /\ t[k] = Nul
  PROVE  NulIn(t, from, b - 1)
  BY DEF NulIn

(* Blanks and comments, taken together: skip at pos is skip at pos'.       *)
LEMMA SkipRight ==
  ASSUME IInv, FInv, mode \in {"blank", "comment"}, mode' \in {"blank", "comment"},
         text' = text, scanned' = scanned, pos' \in Nat, pos <= pos',
         \/ \E k \in pos..pos' - 1 : k <= Len(text) /\ text[k] = Nul
         \/ Flex(text)!skip[pos][IF mode = "blank" THEN 0 ELSE depth]
              = Flex(text)!skip[pos'][IF mode' = "blank" THEN 0 ELSE depth']
  PROVE  FInv'
  <1>1. Ground
    BY OnGround
  <1>2. ASSUME Ended(scanned) PROVE FInv'
    BY <1>2 DEF FInv, AllRight
  <1>3. ASSUME ~Ended(scanned) PROVE FInv'
    <2>1. From \in 1..pos
      BY <1>3 DEF FInv, SoFar
    <2>2. NulIn(text, From, pos - 1) => NulIn(text, From, pos' - 1)
      BY <1>1, <2>1, NulStays DEF Ground
    <2>3. Way(text, From, pos, start.pos, mode, depth)
          => Flex(text)!skip[From][0] = Flex(text)!skip[pos][IF mode = "blank" THEN 0 ELSE depth]
      BY DEF Way, Within
    <2>4. CASE \E k \in pos..pos' - 1 : k <= Len(text) /\ text[k] = Nul
      <3>1. pos \in Int /\ pos' \in Int /\ From \in Int /\ From <= pos
        BY <1>1, <2>1 DEF Ground
      <3>2. NulIn(text, From, pos' - 1)
        BY <2>4, <3>1, NulSeen
      <3> QED BY <3>2, MoveRight
    <2>5. CASE Flex(text)!skip[pos][IF mode = "blank" THEN 0 ELSE depth]
                 = Flex(text)!skip[pos'][IF mode' = "blank" THEN 0 ELSE depth']
      <3>1. Way(text, From, pos, start.pos, mode, depth)
            => Way(text, From, pos', start'.pos, mode', depth')
        BY <2>3, <2>5 DEF Way
      <3> QED BY <2>2, <3>1, MoveRight
    <2> QED BY <2>4, <2>5
  <1> QED BY <1>2, <1>3

(* A blank: skip goes on behind it.                                        *)
LEMMA BlankRight == ASSUME IInv, FInv, SkipBlank PROVE FInv'
  <1>1. /\ mode = "blank" /\ mode' = "blank" /\ peekChar \in Blanks /\ getChar
        /\ text' = text /\ scanned' = scanned
    BY DEF SkipBlank
  <1>2. Ground
    BY OnGround
  <1>3. pos <= Len(text) /\ text[pos] \in Blanks /\ ~Flex(text)!Opens(pos)
    BY <1>1, <1>2, TurnIs DEF Blanks, Nul, Newline
  <1>4. pos' = pos + 1
    BY <1>2, <1>3, <1>1 DEF getChar, Ground
  <1>5. Flex(text)!skip[pos][0] = Flex(text)!skip[pos'][0]
    BY <1>2, <1>3, <1>4, TurnIs DEF Turn, Ground
  <1>6. pos' \in Nat /\ pos <= pos'
    BY <1>2, <1>4 DEF Ground
  <1> QED BY <1>1, <1>5, <1>6, SkipRight

(* The bracket of a comment: one level down.                               *)
LEMMA OpenRight == ASSUME IInv, FInv, OpenComment PROVE FInv'
  <1>1. /\ mode = "blank" /\ mode' = "comment" /\ peekChar = "(" /\ AfterNext = "*"
        /\ text' = text /\ scanned' = scanned /\ depth' = 1 /\ pos' = pos + 2
    BY DEF OpenComment, Take
  <1>2. Ground
    BY OnGround
  <1>3. pos <= Len(text) /\ Flex(text)!Opens(pos)
    BY <1>1, <1>2, TurnIs DEF Nul
  <1>4. Flex(text)!skip[pos][0] = Flex(text)!skip[pos'][1]
    BY <1>1, <1>2, <1>3, TurnIs DEF Turn, Ground
  <1>5. pos' \in Nat /\ pos <= pos'
    BY <1>1, <1>2 DEF Ground
  <1> QED BY <1>1, <1>4, <1>5, SkipRight

(* And again within a comment.                                             *)
LEMMA NestRight == ASSUME IInv, FInv, CommentNest PROVE FInv'
  <1>1. /\ mode = "comment" /\ mode' = "comment" /\ peekChar = "(" /\ AfterNext = "*"
        /\ text' = text /\ scanned' = scanned /\ depth' = depth + 1 /\ pos' = pos + 2
    BY DEF CommentNest, Nested, Take
  <1>2. Ground
    BY OnGround
  <1>3. pos <= Len(text) /\ Flex(text)!Opens(pos)
    BY <1>1, <1>2, TurnIs DEF Nul
  <1>4. Flex(text)!skip[pos][depth] = Flex(text)!skip[pos'][depth']
    <2>1. Flex(text)!skip[pos][depth] = Turn(text, Flex(text)!skip, pos, depth)
      BY <1>2, TurnIs DEF Ground
    <2>2. ~(pos > Len(text))
      BY <1>2, <1>3 DEF Ground
    <2>3. Flex(text)!skip[pos][depth] = Flex(text)!skip[pos + 2][depth + 1]
      BY <1>3, <2>1, <2>2 DEF Turn
    <2> QED BY <1>1, <2>3
  <1>5. pos' \in Nat /\ pos <= pos'
    BY <1>1, <1>2 DEF Ground
  <1> QED BY <1>1, <1>4, <1>5, SkipRight

(* The closing bracket: one level up, the last one out of the comment.     *)
LEMMA CloseRight == ASSUME IInv, FInv, CommentClose PROVE FInv'
  <1>1. /\ mode = "comment" /\ peekChar = "*" /\ AfterNext = ")"
        /\ mode' = IF depth = 1 THEN "blank" ELSE "comment"
        /\ text' = text /\ scanned' = scanned /\ depth' = depth - 1 /\ pos' = pos + 2
    BY DEF CommentClose, Closed, Take
  <1>2. Ground
    BY OnGround
  <1>3. pos <= Len(text) /\ Flex(text)!Closes(pos) /\ ~Flex(text)!Opens(pos)
    BY <1>1, <1>2, TurnIs DEF Nul
  <1>4. depth # 0 /\ depth \in Nat
    BY <1>1, <1>2 DEF Ground
  <1>5. Flex(text)!skip[pos][depth] = Flex(text)!skip[pos'][depth - 1]
    BY <1>1, <1>2, <1>3, <1>4, TurnIs DEF Turn, Ground
  <1>6. (IF mode' = "blank" THEN 0 ELSE depth') = depth - 1
    BY <1>1, <1>4
  <1>7. pos' \in Nat /\ pos <= pos' /\ mode' \in {"blank", "comment"}
    BY <1>1, <1>2 DEF Ground
  <1> QED BY <1>1, <1>5, <1>6, <1>7, SkipRight

(* Another character, the end of the text, or a NUL.                       *)
LEMMA CharRight == ASSUME IInv, FInv, CommentChar PROVE FInv'
  <1>1. /\ mode = "comment" /\ ~(peekChar = "(" /\ AfterNext = "*")
        /\ ~(peekChar = "*" /\ AfterNext = ")") /\ getChar
        /\ IF peekChar = Nul THEN mode' = "blank" /\ depth' = 0
                             ELSE mode' = mode /\ depth' = depth
        /\ text' = text /\ scanned' = scanned
    BY DEF CommentChar, Nested, Closed
  <1>2. Ground
    BY OnGround
  <1>3. mode' \in {"blank", "comment"} /\ depth # 0 /\ depth \in Nat
    BY <1>1, <1>2 DEF Ground
  <1>4. CASE pos > Len(text)
    <2>1. pos' = pos
      BY <1>1, <1>4 DEF getChar, input
    <2>2. peekChar = Nul
      BY <1>2, <1>4, TurnIs DEF Ground
    <2>3. Flex(text)!skip[pos][depth] = pos /\ Flex(text)!skip[pos][0] = pos
      BY <1>2, <1>3, <1>4, TurnIs
    <2> QED BY <1>1, <1>2, <1>3, <2>1, <2>2, <2>3, SkipRight DEF Ground
  <1>5. CASE pos <= Len(text) /\ text[pos] = Nul
    <2>1. pos' = pos + 1
      BY <1>1, <1>2, <1>5 DEF getChar, Ground
    <2>2. \E k \in pos..pos' - 1 : k <= Len(text) /\ text[k] = Nul
      BY <1>2, <1>5, <2>1 DEF Ground
    <2>3. pos' \in Nat /\ pos <= pos'
      BY <1>2, <2>1 DEF Ground
    <2> QED BY <1>1, <1>3, <2>2, <2>3, SkipRight
  <1>6. CASE pos <= Len(text) /\ text[pos] # Nul
    <2>1. pos' = pos + 1
      BY <1>1, <1>2, <1>6 DEF getChar, Ground
    <2>2. mode' = mode /\ depth' = depth
      BY <1>1, <1>2, <1>6, TurnIs
    <2>3. Flex(text)!skip[pos][depth] = Flex(text)!skip[pos'][depth]
      BY <1>1, <1>2, <1>3, <1>6, <2>1, TurnIs DEF Turn, Ground
    <2>4. pos' \in Nat /\ pos <= pos'
      BY <1>2, <2>1 DEF Ground
    <2> QED BY <1>1, <1>3, <2>2, <2>3, <2>4, SkipRight
  <1> QED BY <1>2, <1>4, <1>5, <1>6 DEF Ground

(* Neither blank nor comment: here the token begins.                       *)
LEMMA StartRight == ASSUME IInv, FInv, StartToken PROVE FInv'
  <1>1. /\ mode = "blank" /\ mode' = "start" /\ peekChar \notin Blanks
        /\ ~(peekChar = "(" /\ AfterNext = "*") /\ start'.pos = pos /\ pos' = pos
        /\ text' = text /\ scanned' = scanned
    BY DEF StartToken, input
  <1>2. Ground
    BY OnGround
  <1>3. Flex(text)!skip[pos][0] = pos
    <2>1. CASE pos > Len(text)
      BY <1>2, <2>1, TurnIs
    <2>2. CASE pos <= Len(text)
      BY <1>1, <1>2, <2>2, TurnIs DEF Turn, Ground
    <2> QED BY <1>2, <2>1, <2>2 DEF Ground
  <1>4. Within(text, "start", pos, pos)
    BY <1>2 DEF Within, Ground
  <1>5. Way(text, From, pos, start.pos, mode, depth)
        => Way(text, From, pos', start'.pos, mode', depth')
    BY <1>1, <1>3, <1>4 DEF Way, Within
  <1>6. pos' \in Nat /\ pos <= pos'
    BY <1>1, <1>2 DEF Ground
  <1>7. NulIn(text, From, pos - 1) => NulIn(text, From, pos' - 1)
    BY <1>1
  <1> QED BY <1>1, <1>5, <1>6, <1>7, MoveRight

-----------------------------------------------------------------------------
(* The first character decides, and each loop of readOne ends a token      *)
(* where the rules do, or goes on within it.                               *)
LEMMA EofRight == ASSUME IInv, FInv, ReadEof PROVE FInv'
  <1>1. mode = "start" /\ peekChar = Nul /\ Emit("Eof", 0)
    BY DEF ReadEof
  <1>2. Ground
    BY OnGround
  <1>3. CASE pos <= Len(text)
    <2>1. NulIn(text, pos, pos + 0)
      BY <1>1, <1>2, <1>3, TurnIs DEF NulIn, Ground
    <2> QED BY <1>1, <2>1, EmitRight
  <1>4. CASE pos > Len(text)
    <2>1. Within(text, mode, start.pos, pos) => start.pos > Len(text) /\ pos + 0 = start.pos
      BY <1>1, <1>2, <1>4 DEF Within, Ground
    <2> QED BY <1>1, <2>1, EmitRight
  <1> QED BY <1>2, <1>3, <1>4 DEF Ground

(* A letter, a digit or a quote begins a loop.                             *)
LEMMA FirstRight == ASSUME IInv, FInv, ReadWord \/ ReadDigit \/ ReadQuote PROVE FInv'
  <1>1. Ground
    BY OnGround
  <1>2. CASE ReadWord
    <2>1. mode = "start" /\ peekChar \in Letters /\ Continue("ident", 0)
      BY <1>2 DEF ReadWord
    <2>2. pos <= Len(text) /\ text[pos] \in Letters
      BY <1>1, <2>1, TurnIs DEF Letters, Nul
    <2>3. Within(text, mode, start.pos, pos) => Within(text, "ident", start.pos, pos + 0)
      BY <1>1, <2>1, <2>2 DEF Within, All, Ground
    <2> QED BY <2>1, <2>3, ContinueRight
  <1>3. CASE ReadDigit
    <2>1. mode = "start" /\ peekChar \in Digits /\ Continue("number", 0)
      BY <1>3 DEF ReadDigit
    <2>2. pos <= Len(text) /\ text[pos] \in Digits
      BY <1>1, <2>1, TurnIs DEF Digits, Nul
    <2>3. Within(text, mode, start.pos, pos) => Within(text, "number", start.pos, pos + 0)
      BY <1>1, <2>1, <2>2 DEF Within, All, Ground
    <2> QED BY <2>1, <2>3, ContinueRight
  <1>4. CASE ReadQuote
    <2>1. mode = "start" /\ peekChar = "quote" /\ Continue("string", 1)
      BY <1>4 DEF ReadQuote
    <2>2. pos <= Len(text) /\ text[pos] = "quote"
      BY <1>1, <2>1, TurnIs DEF Nul
    <2>3. Within(text, mode, start.pos, pos) => Within(text, "string", start.pos, pos + 1)
      BY <1>1, <2>1, <2>2 DEF Within, Ground
    <2> QED BY <2>1, <2>3, ContinueRight
  <1> QED BY <1>2, <1>3, <1>4

(* Any other character is a token, alone or with the next.                 *)
LEMMA SymbolRight == ASSUME IInv, FInv, ReadSymbol PROVE FInv'
  <1>1. /\ mode = "start" /\ peekChar \notin Letters \cup Digits \cup {"quote", Nul}
        /\ CASE IsPair(pos) -> Emit("Pair", 2)
             [] ~IsPair(pos) /\ peekChar \in Singles -> Emit("Single", 1)
             [] OTHER -> Emit("Unknown", 1)
    BY DEF ReadSymbol
  <1>2. Ground
    BY OnGround
  <1>3. pos <= Len(text) /\ peekChar = text[pos] /\ pos \in 1..Len(text)
    BY <1>1, <1>2, TurnIs DEF Ground
  <1>4. IsPair(pos) <=> <<text[pos], Read(text, pos + 1)>> \in Pairs
    BY <1>2, <1>3 DEF IsPair, CharAt, Read, Pairs, Nul, Ground
  <1>5. Within(text, mode, start.pos, pos) => start.pos = pos
    BY <1>1 DEF Within
  <1>6. CASE IsPair(pos)
    <2>1. Emit("Pair", 2)
      BY <1>1, <1>6
    <2>2. Decided(text, "Pair", pos, pos + 2)
      BY <1>1, <1>2, <1>3, <1>4, <1>6, SymbolCut DEF Ground
    <2> QED BY <1>1, <1>3, <1>5, <2>1, <2>2, EmitRight
  <1>7. CASE ~IsPair(pos) /\ peekChar \in Singles
    <2>1. Emit("Single", 1)
      BY <1>1, <1>7
    <2>2. Decided(text, "Single", pos, pos + 1)
      BY <1>1, <1>2, <1>3, <1>4, <1>7, SymbolCut DEF Ground
    <2> QED BY <1>1, <1>3, <1>5, <2>1, <2>2, EmitRight
  <1>8. CASE ~IsPair(pos) /\ peekChar \notin Singles
    <2>1. Emit("Unknown", 1)
      BY <1>1, <1>8
    <2>2. Decided(text, "Unknown", pos, pos + 1)
      BY <1>1, <1>2, <1>3, <1>4, <1>8, SymbolCut DEF Ground
    <2> QED BY <1>1, <1>3, <1>5, <2>1, <2>2, EmitRight
  <1> QED BY <1>6, <1>7, <1>8

(* What the loops look at.                                                 *)
LEMMA PeekIs ==
  ASSUME Ground
  PROVE  /\ pos \in Int /\ pos >= 1 /\ pos <= Len(text) + 1 /\ Len(text) \in Int
         /\ peekChar = Nul \/ (pos <= Len(text) /\ peekChar = text[pos])
         /\ Read(text, pos) # peekChar => Read(text, pos) = "end" /\ peekChar = Nul
         /\ Read(text, pos + 1) # AfterNext => Read(text, pos + 1) = "end" /\ AfterNext = Nul
         /\ pos <= Len(text) => peekChar = text[pos]
  BY DEF Ground, peekChar, AfterNext, CharAt, Read

(* The loop of readIdent.                                                  *)
LEMMA WordRight == ASSUME IInv, FInv, readIdent PROVE FInv'
  <1> DEFINE type == IF SubSeq(text, start.pos, pos - 1) \in Keywords THEN "Keyword" ELSE "Ident"
  <1>1. mode = "ident"
    BY DEF readIdent
  <1>2. Ground
    BY OnGround
  <1>3. CASE peekChar \in Letters \cup Digits
    <2>1. Continue("ident", 1)
      BY <1>3 DEF readIdent
    <2>2. pos <= Len(text) /\ text[pos] \in Letters \cup Digits
      BY <1>2, <1>3, TurnIs DEF Letters, Digits, Nul
    <2>3. Within(text, mode, start.pos, pos) => Within(text, "ident", start.pos, pos + 1)
      BY <1>1, <1>2, <2>2 DEF Within, All, Ground
    <2> QED BY <1>1, <2>1, <2>3, ContinueRight
  <1>4. CASE peekChar \notin Letters \cup Digits
    <2>1. Emit(type, 0)
      BY <1>4 DEF readIdent
    <2>2. ASSUME Within(text, mode, start.pos, pos)
          PROVE  start.pos <= Len(text) /\ Decided(text, type, start.pos, pos + 0)
      <3>1. /\ start.pos \in 1..Len(text) /\ text[start.pos] \in Letters /\ start.pos <= pos
            /\ All(text, Letters \cup Digits, start.pos, pos)
        BY <1>1, <2>2 DEF Within
      <3>2. pos <= Len(text) => text[pos] \notin Letters \cup Digits
        BY <1>2, <1>4, TurnIs
      <3>3. pos \in Ends(text, start.pos)
        BY <1>2, <3>1, <3>2 DEF Ends, Ground
      <3>4. Decided(text, type, start.pos, pos)
        BY <1>2, <3>1, <3>2, <3>3, WordCut, Zenon DEF Ground
      <3>5. pos + 0 = pos
        BY <1>2 DEF Ground
      <3> HIDE DEF type
      <3> QED BY <3>1, <3>4, <3>5
    <2> HIDE DEF type
    <2> QED BY <1>1, <2>1, <2>2, EmitRight
  <1> QED BY <1>3, <1>4

(* The loop of readString, closed, cut off or going on.                    *)
LEMMA StringRight == ASSUME IInv, FInv, readString PROVE FInv'
  <1>1. /\ mode = "string"
        /\ CASE peekChar = "quote" -> Emit("String", 1)
             [] peekChar \in {Newline, Nul} -> Emit("String", 0)
             [] OTHER -> Continue("string", 1)
    BY DEF readString
  <1>2. Ground
    BY OnGround
  <1>3. ASSUME Within(text, mode, start.pos, pos)
        PROVE  /\ start.pos \in 1..Len(text) /\ text[start.pos] = "quote"
               /\ pos \in Ends(text, start.pos)
               /\ \A k \in start.pos + 1..pos - 1 : text[k] \notin {"quote", "nl"}
    BY <1>1, <1>2, <1>3 DEF Within, Ends, Ground
  <1>4. CASE peekChar = "quote"
    <2>1. Emit("String", 1)
      BY <1>1, <1>4 DEF Newline, Nul
    <2>2. pos <= Len(text) /\ text[pos] = "quote"
      BY <1>2, <1>4, TurnIs DEF Nul
    <2>3. ASSUME Within(text, mode, start.pos, pos)
          PROVE  start.pos <= Len(text) /\ Decided(text, "String", start.pos, pos + 1)
      <3>1. pos \in start.pos + 1..Len(text)
        BY <1>2, <1>3, <2>2, <2>3 DEF Ends
      <3> QED BY <1>2, <1>3, <2>2, <2>3, <3>1, StringClosed DEF Ground
    <2> QED BY <1>1, <2>1, <2>3, EmitRight
  <1>5. CASE peekChar \in {Newline, Nul}
    <2>1. Emit("String", 0)
      BY <1>1, <1>5 DEF Newline, Nul
    <2>2. ASSUME Within(text, mode, start.pos, pos)
          PROVE  start.pos <= Len(text) /\ Decided(text, "String", start.pos, pos + 0)
      <3>1. pos + 0 = pos
        BY <1>2 DEF Ground
      <3> QED BY <1>2, <1>3, <2>2, <3>1, StringOpen DEF Ground
    <2> QED BY <1>1, <2>1, <2>2, EmitRight
  <1>6. CASE peekChar \notin {"quote", Newline, Nul}
    <2>1. Continue("string", 1)
      BY <1>1, <1>6
    <2>2. pos <= Len(text) /\ text[pos] \notin {"quote", "nl"}
      BY <1>2, <1>6, TurnIs DEF Newline
    <2>3. Within(text, mode, start.pos, pos) => Within(text, "string", start.pos, pos + 1)
      BY <1>1, <1>2, <2>2 DEF Within, Ground
    <2> QED BY <1>1, <2>1, <2>3, ContinueRight
  <1> QED BY <1>4, <1>5, <1>6

(* A number: the digits, then H, X, a dot or another character.            *)
LEMMA NumberWithin ==
  ASSUME Ground, mode = "number", Within(text, mode, start.pos, pos), peekChar \notin HexDigits
  PROVE  start.pos \in 1..Len(text) /\ HexRun(text, start.pos, pos)
  <1>1. /\ start.pos \in 1..Len(text) /\ text[start.pos] \in Digits /\ start.pos <= pos
        /\ All(text, HexDigits, start.pos, pos)
    BY DEF Within
  <1>2. pos <= Len(text) => text[pos] \notin HexDigits
    BY TurnIs
  <1>3. pos \in Ends(text, start.pos)
    BY <1>1, <1>2 DEF Ends, Ground, HexDigits
  <1> QED BY <1>1, <1>2, <1>3 DEF HexRun

(* The first loop of readNumber.                                           *)
LEMMA NumberRight == ASSUME IInv, FInv, readNumber PROVE FInv'
  <1>1. /\ mode = "number"
        /\ CASE peekChar \in HexDigits -> Continue("number", 1)
             [] peekChar = "H" -> Emit("Integer", 1)
             [] peekChar = "X" -> Emit("String", 1)
             [] peekChar = "." /\ AfterNext # "." -> Continue("fraction", 1)
             [] OTHER -> Emit("Integer", 0)
    BY DEF readNumber
  <1>2. Ground
    BY OnGround
  <1>3. "H" \notin HexDigits /\ "X" \notin HexDigits /\ "." \notin HexDigits
    BY DEF HexDigits, Digits
  <1>4. CASE peekChar \in HexDigits
    <2>1. Continue("number", 1)
      BY <1>1, <1>3, <1>4
    <2>2. pos <= Len(text) /\ text[pos] \in HexDigits
      BY <1>2, <1>4, TurnIs DEF HexDigits, Digits, Nul
    <2>3. Within(text, mode, start.pos, pos) => Within(text, "number", start.pos, pos + 1)
      BY <1>1, <1>2, <2>2 DEF Within, All, Ground
    <2> QED BY <1>1, <2>1, <2>3, ContinueRight
  <1>5. ASSUME NEW mark \in {"H", "X"}, peekChar = mark,
               Emit(IF mark = "H" THEN "Integer" ELSE "String", 1)
        PROVE  FInv'
    <2>1. pos <= Len(text) /\ text[pos] = mark
      BY <1>2, <1>5, TurnIs DEF Nul
    <2>2. ASSUME Within(text, mode, start.pos, pos)
          PROVE  /\ start.pos <= Len(text)
                 /\ Decided(text, IF mark = "H" THEN "Integer" ELSE "String", start.pos, pos + 1)
      <3>1. start.pos \in 1..Len(text) /\ HexRun(text, start.pos, pos)
        BY <1>1, <1>2, <1>3, <1>5, <2>2, NumberWithin
      <3> QED BY <1>2, <2>1, <3>1, HexCut DEF Ground
    <2> QED BY <1>1, <1>5, <2>2, EmitRight
  <1>6. CASE peekChar = "H"
    BY <1>1, <1>3, <1>5, <1>6
  <1>7. CASE peekChar = "X"
    BY <1>1, <1>3, <1>5, <1>7
  <1>8. CASE peekChar = "." /\ AfterNext # "."
    <2>1. Continue("fraction", 1)
      BY <1>1, <1>3, <1>8
    <2>2. pos <= Len(text) /\ text[pos] = "." /\ Read(text, pos + 1) # "."
      BY <1>2, <1>8, PeekIs DEF Nul
    <2>3. ASSUME Within(text, mode, start.pos, pos)
          PROVE  Within(text, "fraction", start.pos, pos + 1)
      <3>1. start.pos \in 1..Len(text) /\ HexRun(text, start.pos, pos)
        BY <1>1, <1>2, <1>3, <1>8, <2>3, NumberWithin
      <3>2. Fraction(text, start.pos, pos, pos + 1)
        BY <1>2, <2>2, <3>1 DEF Fraction, All, Ground
      <3>3. start.pos \in 1..pos + 1
        BY <1>2, <2>3 DEF Within, Ground
      <3> QED BY <1>2, <3>1, <3>2, <3>3 DEF Within, Ground
    <2> QED BY <1>1, <2>1, <2>3, ContinueRight
  <1>9. CASE peekChar \notin HexDigits \cup {"H", "X"} /\ ~(peekChar = "." /\ AfterNext # ".")
    <2>1. Emit("Integer", 0)
      BY <1>1, <1>9
    <2>2. ASSUME Within(text, mode, start.pos, pos)
          PROVE  start.pos <= Len(text) /\ Decided(text, "Integer", start.pos, pos + 0)
      <3>1. start.pos \in 1..Len(text) /\ HexRun(text, start.pos, pos)
        BY <1>1, <1>2, <1>9, <2>2, NumberWithin
      <3>2. pos <= Len(text) => text[pos] \notin {"H", "X"}
        BY <1>2, <1>9, TurnIs
      <3>3. Read(text, pos) = "." => Read(text, pos + 1) = "."
        BY <1>2, <1>9, PeekIs DEF Nul
      <3>4. pos + 0 = pos
        BY <1>2 DEF Ground
      <3> QED BY <1>2, <3>1, <3>2, <3>3, <3>4, IntegerCut DEF Ground
    <2> QED BY <1>1, <2>1, <2>2, EmitRight
  <1> QED BY <1>4, <1>6, <1>7, <1>8, <1>9

(* Its second loop, behind the dot.                                        *)
LEMMA FractionRight == ASSUME IInv, FInv, readFraction PROVE FInv'
  <1>1. /\ mode = "fraction"
        /\ CASE peekChar \in Digits -> Continue("fraction", 1)
             [] peekChar \in {"E", "e"} ->
                  Continue("exponent", IF AfterNext \in Signs THEN 2 ELSE 1)
             [] OTHER -> Emit("Real", 0)
    BY DEF readFraction
  <1>2. Ground
    BY OnGround
  <1>3. ASSUME Within(text, mode, start.pos, pos)
        PROVE  /\ start.pos \in 1..Len(text) /\ start.pos <= pos
               /\ \E d \in Nat : Fraction(text, start.pos, d, pos)
    BY <1>1, <1>3 DEF Within
  <1>4. CASE peekChar \in Digits
    <2>1. Continue("fraction", 1)
      BY <1>1, <1>4 DEF Digits
    <2>2. pos <= Len(text) /\ text[pos] \in Digits
      BY <1>2, <1>4, TurnIs DEF Digits, Nul
    <2>3. ASSUME Within(text, mode, start.pos, pos)
          PROVE  Within(text, "fraction", start.pos, pos + 1)
      <3>1. PICK d \in Nat : Fraction(text, start.pos, d, pos)
        BY <1>3, <2>3
      <3>2. pos + 1 \in d + 1..Len(text) + 1 /\ All(text, Digits, d + 1, pos + 1)
        BY <1>2, <2>2, <3>1 DEF Fraction, All, Ground
      <3>3. Fraction(text, start.pos, d, pos + 1)
        BY <3>1, <3>2 DEF Fraction
      <3>4. start.pos \in 1..pos + 1 /\ start.pos <= Len(text)
        BY <1>2, <1>3, <2>3 DEF Ground
      <3> QED BY <3>3, <3>4 DEF Within
    <2> QED BY <1>1, <2>1, <2>3, ContinueRight
  <1>5. CASE peekChar \in {"E", "e"}
    <2> DEFINE n == IF AfterNext \in Signs THEN 2 ELSE 1
    <2>1. Continue("exponent", n)
      BY <1>1, <1>5 DEF Digits
    <2>2. pos <= Len(text) /\ text[pos] \in {"E", "e"}
      BY <1>2, <1>5, TurnIs DEF Nul
    <2>3. n \in {1, 2} /\ Exponents(text, pos, pos + n)
      <3>1. Read(text, pos + 1) \in Signs <=> AfterNext \in Signs
        BY <1>2, PeekIs DEF Signs, Nul
      <3> QED BY <2>2, <3>1 DEF Exponents
    <2> HIDE DEF n
    <2>4. ASSUME Within(text, mode, start.pos, pos)
          PROVE  Within(text, "exponent", start.pos, pos + n)
      <3>1. PICK d \in Nat : Fraction(text, start.pos, d, pos)
        BY <1>3, <2>4
      <3>2. pos \in Nat /\ pos + n \in Nat /\ pos + n <= pos + n
            /\ All(text, Digits, pos + n, pos + n)
        BY <1>2, <2>3 DEF All, Ground
      <3>3. start.pos \in 1..pos + n /\ start.pos <= Len(text)
        BY <1>2, <1>3, <2>3, <2>4 DEF Ground
      <3> QED BY <2>3, <3>1, <3>2, <3>3 DEF Within
    <2> QED BY <1>1, <2>1, <2>3, <2>4, ContinueRight
  <1>6. CASE peekChar \notin Digits \cup {"E", "e"}
    <2>1. Emit("Real", 0)
      BY <1>1, <1>6
    <2>2. ASSUME Within(text, mode, start.pos, pos)
          PROVE  start.pos <= Len(text) /\ Decided(text, "Real", start.pos, pos + 0)
      <3>1. PICK d \in Nat : Fraction(text, start.pos, d, pos)
        BY <1>3, <2>2
      <3>2. Read(text, pos) \notin Digits \cup {"E", "e"}
        BY <1>2, <1>6, PeekIs DEF Digits
      <3>3. pos + 0 = pos
        BY <1>2 DEF Ground
      <3> QED BY <1>2, <1>3, <2>2, <3>1, <3>2, <3>3, PlainCut DEF Ground
    <2> QED BY <1>1, <2>1, <2>2, EmitRight
  <1> QED BY <1>4, <1>5, <1>6

(* Its third, in the exponent.                                             *)
LEMMA ExponentRight == ASSUME IInv, FInv, readExponent PROVE FInv'
  <1>1. /\ mode = "exponent"
        /\ IF peekChar \in Digits THEN Continue("exponent", 1) ELSE Emit("Real", 0)
    BY DEF readExponent
  <1>2. Ground
    BY OnGround
  <1>3. ASSUME Within(text, mode, start.pos, pos)
        PROVE  /\ start.pos \in 1..Len(text) /\ start.pos <= pos
               /\ \E d \in Nat, f \in Nat, q \in Nat :
                    /\ Fraction(text, start.pos, d, f) /\ Exponents(text, f, q)
                    /\ q <= pos /\ All(text, Digits, q, pos)
    BY <1>1, <1>3 DEF Within
  <1>4. CASE peekChar \in Digits
    <2>1. Continue("exponent", 1)
      BY <1>1, <1>4
    <2>2. pos <= Len(text) /\ text[pos] \in Digits
      BY <1>2, <1>4, TurnIs DEF Digits, Nul
    <2>3. ASSUME Within(text, mode, start.pos, pos)
          PROVE  Within(text, "exponent", start.pos, pos + 1)
      <3>1. PICK d \in Nat, f \in Nat, q \in Nat :
              /\ Fraction(text, start.pos, d, f) /\ Exponents(text, f, q)
              /\ q <= pos /\ All(text, Digits, q, pos)
        BY <1>3, <2>3
      <3>2. q <= pos + 1 /\ All(text, Digits, q, pos + 1)
        BY <1>2, <2>2, <3>1 DEF All, Ground
      <3>3. start.pos \in 1..pos + 1 /\ start.pos <= Len(text)
        BY <1>2, <1>3, <2>3 DEF Ground
      <3> QED BY <3>1, <3>2, <3>3 DEF Within
    <2> QED BY <1>1, <2>1, <2>3, ContinueRight
  <1>5. CASE peekChar \notin Digits
    <2>1. Emit("Real", 0)
      BY <1>1, <1>5
    <2>2. ASSUME Within(text, mode, start.pos, pos)
          PROVE  start.pos <= Len(text) /\ Decided(text, "Real", start.pos, pos + 0)
      <3>1. PICK d \in Nat, f \in Nat, q \in Nat :
              /\ Fraction(text, start.pos, d, f) /\ Exponents(text, f, q)
              /\ q <= pos /\ All(text, Digits, q, pos)
        BY <1>3, <2>2
      <3>2. Read(text, pos) \notin Digits
        BY <1>2, <1>5, PeekIs DEF Digits
      <3>3. pos + 0 = pos /\ pos \in q..Len(text) + 1
        BY <1>2, <3>1 DEF Ground
      <3> QED BY <1>2, <1>3, <2>2, <3>1, <3>2, <3>3, ExponentCut DEF Ground
    <2> QED BY <1>1, <2>1, <2>2, EmitRight
  <1> QED BY <1>4, <1>5

-----------------------------------------------------------------------------
(* Calls, and the buffer: nothing is read.                                 *)
LEMMA CallsRight ==
  ASSUME IInv, FInv, UNCHANGED <<text, pos, scanned>>, mode \in {"idle", "done"},
         mode' \in {"idle", "done", "blank"}
  PROVE  FInv'
  <1>1. Ground
    BY OnGround
  <1>2. ASSUME Ended(scanned) PROVE FInv'
    BY <1>2 DEF FInv, AllRight
  <1>3. ASSUME ~Ended(scanned) PROVE FInv'
    <2>1. Way(text, From, pos, start.pos, mode, depth)
          => Way(text, From, pos', start'.pos, mode', depth')
      BY DEF Way, Within
    <2>2. NulIn(text, From, pos - 1) => NulIn(text, From, pos' - 1)
      OBVIOUS
    <2>3. pos' \in Nat /\ pos <= pos'
      BY <1>1 DEF Ground
    <2> QED BY <2>1, <2>2, <2>3, MoveRight
  <1> QED BY <1>2, <1>3

(* A step that touches none of it.                                         *)
LEMMA StillRight ==
  ASSUME IInv, FInv, UNCHANGED <<text, pos, scanned, mode, start, depth>>
  PROVE  FInv'
  BY DEF FInv, AllRight, From

(* Nothing is read at first.                                               *)
LEMMA InitRight == Init => FInv
  <1> SUFFICES ASSUME Init PROVE FInv
    OBVIOUS
  <1>1. scanned = <<>> /\ pos = 1 /\ mode = "idle" /\ Len(scanned) = 0
    BY DEF Init
  <1>2. AllRight /\ From = 1
    BY <1>1 DEF AllRight, From, Before
  <1>3. SoFar(text, From, pos, start.pos, mode, depth)
    BY <1>1, <1>2 DEF SoFar, Way
  <1> QED BY <1>2, <1>3 DEF FInv

(* Every step.                                                             *)
LEMMA NextRight == IInv /\ FInv /\ [Next]_vars => FInv'
  <1> SUFFICES ASSUME IInv, FInv, [Next]_vars PROVE FInv'
    OBVIOUS
  <1>1. CASE SkipBlank \/ OpenComment \/ StartToken \/ CommentNest \/ CommentClose \/ CommentChar
    BY <1>1, BlankRight, OpenRight, StartRight, NestRight, CloseRight, CharRight
  <1>2. CASE ReadEof \/ ReadWord \/ ReadDigit \/ ReadQuote \/ ReadSymbol
    BY <1>2, EofRight, FirstRight, SymbolRight
  <1>3. CASE readIdent \/ readNumber \/ readFraction \/ readExponent \/ readString
    BY <1>3, WordRight, NumberRight, FractionRight, ExponentRight, StringRight
  <1>4. CASE Return
    <2>1. mode = "done" /\ mode' = "idle" /\ UNCHANGED <<text, pos, scanned>>
      BY <1>4 DEF Return, input
    <2> QED BY <2>1, CallsRight
  <1>5. ASSUME NEW c, Begin(c) PROVE FInv'
    <2>1. mode = "idle" /\ mode' \in {"done", "blank"} /\ UNCHANGED <<text, pos, scanned>>
      BY <1>5 DEF Begin, input
    <2> QED BY <2>1, CallsRight
  <1>6. CASE Fill
    BY <1>5, <1>6 DEF Fill
  <1>7. ASSUME NEW c \in {"peek", "next"}, Call(c) PROVE FInv'
    BY <1>5, <1>7 DEF Call
  <1>8. ASSUME NEW c \in {"peek", "next"}, BufferedCall(c) PROVE FInv'
    <2>1. UNCHANGED <<text, pos, scanned, mode, start, depth>>
      BY <1>8 DEF BufferedCall, input
    <2> QED BY <2>1, StillRight
  <1>9. CASE UNCHANGED vars
    <2>1. UNCHANGED <<text, pos, scanned, mode, start, depth>>
      BY <1>9 DEF vars
    <2> QED BY <2>1, StillRight
  <1> QED BY <1>1, <1>2, <1>3, <1>4, <1>6, <1>7, <1>8, <1>9 DEF Next, Step

(* The tokenizer written by hand and the one generated by flex cut every   *)
(* text into the same tokens, whatever its length: but for the numbers and *)
(* strings Departs names, on which the two always differ, and for what has *)
(* a NUL in it, right behind it, or between it and the token before.       *)
THEOREM SameTokensAsFlex == Spec => []AgreesWithFlex
  <1>1. Init => IInv /\ FInv
    BY InitOK, InitRight
  <1>2. IInv /\ FInv /\ [Next]_vars => IInv' /\ FInv'
    BY NextOK, NextRight
  <1>3. FInv => AgreesWithFlex
    BY RightIsMeant DEF FInv
  <1> QED BY <1>1, <1>2, <1>3, PTL DEF Spec
=============================================================================

--------------------------- MODULE MCHandTokenizer ---------------------------
(* Texts over small alphabets, one for each hard part of the tokenizer:    *)
(* numbers, comments, a NUL, and words, strings and symbols.               *)
EXTENDS HandTokenizer

UpTo(n, S) == UNION {[1..k -> S] : k \in 0..n}

MCTexts ==
  {<<"1">> \o t : t \in UpTo(4, {"1", "D", "E", "H", ".", "+"})}
  \cup {<<"1", ".", "1">> \o t : t \in UpTo(3, {"1", "e", "+", "X", "."})}
  \cup {<<"1">> \o t : t \in UpTo(2, {"D", "X", "e", "z"})}
  \cup {<<"(">> \o t : t \in UpTo(5, {"(", "*", ")", "nl"})}
  \cup {<<"(", "*">> \o t : t \in UpTo(3, {"*", ")", "nul", "z"})}
  \cup UpTo(3, {"quote", "nl", "(", "z", "sp"})
  \cup UpTo(3, {":", "=", "<", ".", "@", "sp", "X"})

MCKeywords == {<<"z", "X">>, <<"X">>}
=============================================================================

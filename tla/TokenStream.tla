----------------------------- MODULE TokenStream -----------------------------
(***************************************************************************)
(* What a parser is promised of an ITokenizer, however the tokens are made: *)
(* they come in the order of the text, no two of them share a character,   *)
(* next hands out each of them once, peek shows the one next will hand     *)
(* out, and after Eof there is only Eof.  How many tokens are read ahead   *)
(* of the parser (one, or all of them) is left open.                       *)
(* tokenizer/ITokenizer.h:7.                                               *)
(***************************************************************************)
EXTENDS Integers, Sequences

CONSTANT Types        \* the token types, "Eof" among them

VARIABLES
  list,               \* the tokens found in the text so far
  at,                 \* how many of them next has handed out, Eof not counted
  answer              \* what the parser was last given

vars == <<list, at, answer>>

Token == [type : Types, first : Nat, end : Nat]
NoAnswer == [call |-> "none"]
Ended == list # <<>> /\ list[Len(list)].type = "Eof"

Init ==
  /\ list = <<>>
  /\ at = 0
  /\ answer = NoAnswer

(* One more token is found, behind the others.                             *)
Find ==
  /\ ~Ended
  /\ Len(list') = Len(list) + 1
  /\ \A k \in 1..Len(list) : list'[k] = list[k]
  /\ LET t == list'[Len(list) + 1]
     IN  /\ t \in Token /\ t.first <= t.end
         /\ list = <<>> \/ list[Len(list)].end <= t.first
  /\ UNCHANGED <<at, answer>>

Give(call) ==
  /\ at < Len(list)
  /\ answer' = [call |-> call, token |-> list[at + 1]]
  /\ UNCHANGED list

Peek == Give("peek") /\ UNCHANGED at

Next1 ==
  /\ Give("next")
  /\ at' = IF list[at + 1].type = "Eof" THEN at ELSE at + 1

Next == Find \/ Peek \/ Next1

Spec == Init /\ [][Next]_vars
=============================================================================

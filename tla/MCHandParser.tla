---------------------------- MODULE MCHandParser ----------------------------
(* Every token of the language; expressions, types, statement sequences and *)
(* declaration sequences within each other to a small depth.               *)
EXTENDS HandParser

MCTokens == {
  "Ident", "OtherName", "Integer", "String", "Literal", "Plus", "Minus", "OR", "Star",
  "MulOp", "Eq", "Rel", "Assign", "Caret", "Tilde", "Bar", "Range", "LParen", "RParen",
  "LBrack", "RBrack", "LBrace", "RBrace", "Comma", "Semicolon", "Colon", "Dot",
  "ARRAY", "BEGIN", "BY", "CASE", "CONST", "DO", "ELSE", "ELSIF", "END", "FOR", "IF",
  "IMPORT", "MODULE", "OF", "POINTER", "PROCEDURE", "RECORD", "REPEAT", "RETURN",
  "THEN", "TO", "TYPE", "UNTIL", "VAR", "WHILE", "Unknown", "Eof"}

=============================================================================

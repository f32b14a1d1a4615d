--------------------------- MODULE MCHttpGetJson ---------------------------
(* Texts over a digit and a letter, up to one character too many: numbers  *)
(* are JSON, whole or cut, the rest is not.                                *)
EXTENDS HttpGetJson, TLC

CONSTANTS digit, letter

MCTexts == UNION {[1..n -> {digit, letter}] : n \in 0..(MaxChars + 1)}

MCJsonTexts == {[i \in 1..n |-> digit] : n \in 1..(MaxChars + 1)}
=============================================================================

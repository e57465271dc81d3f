----------------------------- MODULE MCTextArea -----------------------------
(* Small areas: a letter of two bytes, and texts with and without it.      *)
EXTENDS TextArea

CONSTANT w

MCBytes == [c \in Char |-> IF c = w THEN 2 ELSE 1]
MCTexts == {<< >>, <<w>>, <<Newline>>}
=============================================================================

----------------------------- MODULE EditedText -----------------------------
(***************************************************************************)
(* What an editor of a text promises: a sequence of characters and a       *)
(* position in it.  A key inserts or, in the other mode, replaces one       *)
(* character at the position, removes one, or moves the position and       *)
(* leaves the text alone.                                                  *)
(***************************************************************************)
EXTENDS Integers, Sequences

CONSTANTS Char, Texts

VARIABLES text, pos, inserting

Init == text \in Texts /\ pos = Len(text) /\ inserting = TRUE

Before == SubSeq(text, 1, pos)
After == SubSeq(text, pos + 1, Len(text))

Insert(c) ==
    /\ inserting \/ pos = Len(text)
    /\ text' = Before \o <<c>> \o After /\ pos' = pos + 1
    /\ UNCHANGED inserting
Overwrite(c) ==
    /\ ~ inserting /\ pos < Len(text)
    /\ text' = [text EXCEPT ![pos + 1] = c] /\ pos' = pos + 1
    /\ UNCHANGED inserting
Backspace ==
    /\ pos > 0
    /\ text' = SubSeq(text, 1, pos - 1) \o After /\ pos' = pos - 1
    /\ UNCHANGED inserting
Delete ==
    /\ pos < Len(text)
    /\ text' = Before \o Tail(After)
    /\ UNCHANGED <<pos, inserting>>
Move == pos' \in 0..Len(text) /\ UNCHANGED <<text, inserting>>
Toggle == inserting' = ~ inserting /\ UNCHANGED <<text, pos>>

Next ==
    \/ \E c \in Char : Insert(c) \/ Overwrite(c)
    \/ Backspace
    \/ Delete
    \/ Move
    \/ Toggle

Spec == Init /\ [][Next]_<<text, pos, inserting>>
=============================================================================

----------------------------- MODULE GapBuffer -----------------------------
(***************************************************************************)
(* The text of a text area (ui/forms/textarea.rs, GapBuffer): one array    *)
(* with the characters before the cursor, a gap of zeroes, and the         *)
(* characters after it.  Moving the cursor carries one character from one  *)
(* side of the gap to the other.  Indexes start at 0, as in the code.      *)
(* The line counter lineno is left out: no code reads it.                  *)
(***************************************************************************)
EXTENDS Integers, Sequences, FiniteSetsExt

CONSTANTS Char,     \* characters
          Newline,  \* the one that ends a line
          Bytes,    \* Bytes[c]: length of c in UTF-8
          NUL,      \* an empty cell
          None,     \* no character
          GapSize   \* GAP_SIZE

ASSUME GapBufferAssumption ==
    /\ Newline \in Char
    /\ NUL \notin Char
    /\ None \notin Char \cup {NUL}
    /\ Bytes \in [Char -> 1..4]
    /\ GapSize \in Nat \ {0}

-----------------------------------------------------------------------------
Cell(g, i) == g.buffer[i + 1]
Size(g) == Len(g.buffer)

len(g) == Size(g) - g.gap

get(g, i) ==
    LET at == IF i < g.cursor THEN i ELSE i + g.gap
    IN  IF at < Size(g) THEN Cell(g, at) ELSE None

chr(g) == get(g, g.cursor)

to_string(g) == [i \in 1..len(g) |-> get(g, i - 1)]

(* Where the line of the cursor begins.                                    *)
find_line_start(g) ==
    LET last == IF g.cursor = 0 THEN 0 ELSE g.cursor - 1
        newlines == {k \in 0..last : Cell(g, k) = Newline}
        at == IF newlines = {} THEN 0 ELSE Max(newlines)
    IN  IF Cell(g, last) = Newline /\ chr(g) = None THEN g.cursor
        ELSE IF g.cursor > 0 /\ at + 1 + g.gap < Size(g) /\ Cell(g, at) = Newline
             THEN at + 1
             ELSE at

SetLineStart(g) == [g EXCEPT !.line_start = find_line_start(g)]
SetLineStartAt(g, c) == IF c = Newline THEN SetLineStart(g) ELSE g

(* The array is sized by the bytes of the text and filled by characters.   *)
BytesOf(text) ==
    LET sum[k \in 0..Len(text)] == IF k = 0 THEN 0 ELSE sum[k - 1] + Bytes[text[k]]
    IN  sum[Len(text)]
new(text) ==
    SetLineStart(
      [buffer |-> [i \in 1..(BytesOf(text) + GapSize) |->
                     IF i <= Len(text) THEN text[i] ELSE NUL],
       cursor |-> BytesOf(text), gap |-> GapSize, line_start |-> 0])

(* A gap that is used up: the array grows at its end, and the cells from   *)
(* the cursor on, as many as the gap is long, move up by as much as the    *)
(* array was long.                                                         *)
Moved(g) == {k \in g.cursor..(Size(g) - 1) : k < g.cursor + GapSize}

(* Variant with a bug: the array grows, but the gap stays at its end.      *)
realloc_AtEnd(g) ==
    [g EXCEPT !.gap = GapSize, !.buffer = @ \o [i \in 1..GapSize |-> NUL]]

realloc(g) ==
    LET old == Size(g)
        moved == Moved(g)
    IN  [g EXCEPT !.gap = GapSize,
           !.buffer = [i \in 1..(old + GapSize) |->
                         IF i - 1 \in moved THEN NUL
                         ELSE IF i - 1 - old \in moved THEN Cell(g, i - 1 - old)
                         ELSE IF i <= old THEN g.buffer[i] ELSE NUL]]

(* Variant with a bug: the gap keeps its size.                             *)
insert_KeepGap(g, c) ==
    LET h == IF g.gap = 0 THEN realloc(g) ELSE g
    IN  SetLineStartAt([h EXCEPT !.buffer[h.cursor + 1] = c, !.cursor = @ + 1], c)

insert(g, c) ==
    LET h == IF g.gap = 0 THEN realloc(g) ELSE g
    IN  SetLineStartAt([h EXCEPT !.buffer[h.cursor + 1] = c,
                                 !.cursor = @ + 1, !.gap = @ - 1], c)

(* It panics when a cell would move past the end of the array, or when the *)
(* cell it fills is not empty.                                             *)
insert_panics(g) ==
    IF g.gap = 0 THEN \E k \in Moved(g) : k >= GapSize
    ELSE Cell(g, g.cursor) # NUL

(* The test for a newline looks at the cell under the cursor, which        *)
(* belongs to the gap, unless the gap is used up; there may be no such     *)
(* cell then.                                                              *)
backspace_panics(g) == g.cursor > 0 /\ g.cursor = Size(g)

(* Variant with a bug: the removed character stays in its cell.            *)
backspace_NoClear(g) ==
    IF g.cursor = 0 THEN g
    ELSE SetLineStartAt([g EXCEPT !.cursor = @ - 1, !.gap = @ + 1], Cell(g, g.cursor))

backspace(g) ==
    IF g.cursor = 0 THEN g
    ELSE SetLineStartAt([g EXCEPT !.buffer[g.cursor] = NUL,
                                  !.cursor = @ - 1, !.gap = @ + 1],
                        Cell(g, g.cursor))

CanLeft(g) == g.cursor > 0

(* Variant with a bug: the character is copied over the gap, not moved.    *)
left_NoClear(g) ==
    IF ~ CanLeft(g) THEN g
    ELSE LET c == Cell(g, g.cursor - 1)
         IN  SetLineStartAt([g EXCEPT !.cursor = @ - 1,
                !.buffer = [g.buffer EXCEPT ![g.cursor + g.gap] = c]], c)

left(g) ==
    IF ~ CanLeft(g) THEN g
    ELSE LET c == Cell(g, g.cursor - 1)
             emptied == [g.buffer EXCEPT ![g.cursor] = NUL]
         IN  SetLineStartAt([g EXCEPT !.cursor = @ - 1,
                !.buffer = [emptied EXCEPT ![g.cursor + g.gap] = c]], c)

CanRight(g) == g.cursor + g.gap < Size(g)
right(g) ==
    IF ~ CanRight(g) THEN g
    ELSE LET c == Cell(g, g.cursor + g.gap)
             emptied == [g.buffer EXCEPT ![g.cursor + g.gap + 1] = NUL]
         IN  SetLineStartAt([g EXCEPT !.cursor = @ + 1,
                !.buffer = [emptied EXCEPT ![g.cursor + 1] = c]], c)

(* As many steps to the left or right as it takes: the characters between  *)
(* change sides of the gap.                                                *)
MoveTo(g, k) ==
    [g EXCEPT !.cursor = k,
       !.buffer = [i \in 1..Size(g) |->
                     IF i <= k THEN get(g, i - 1)
                     ELSE IF i <= k + g.gap THEN NUL ELSE get(g, i - 1 - g.gap)]]

delete_panics(g) == backspace_panics(right(g))
delete(g) == backspace(right(g))

replace(g, c) == left(insert(delete(g), c))
overwrite(g, c) == IF CanRight(g) THEN right(replace(g, c)) ELSE insert(g, c)
overwrite_panics(g) ==
    IF CanRight(g) THEN delete_panics(g) \/ insert_panics(delete(g))
    ELSE insert_panics(g)
=============================================================================

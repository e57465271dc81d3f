------------------------------ MODULE TextArea ------------------------------
(***************************************************************************)
(* An editable text area (ui/forms/textarea.rs, TextArea): the keys it     *)
(* handles, the cursor's way through the lines, and the part of the text   *)
(* that is scrolled into view.  A key is handled by one call, so each key  *)
(* is one step.                                                            *)
(***************************************************************************)
EXTENDS GapBuffer

CONSTANTS StartTexts,  \* texts a page may give the area
          NumRows, NumCols,
          MaxSize      \* bound: how many cells the array may grow to

ASSUME TextAreaAssumption ==
    /\ StartTexts \subseteq Seq(Char)
    /\ NumRows \in Nat \ {0} /\ NumCols \in Nat \ {0}
    /\ MaxSize \in Nat

VARIABLES inner_text,  \* the GapBuffer
          insert_mode, \* insert or overwrite (insert)
          scroll,      \* index of the first character shown
          cursor_col,  \* column that moving up and down aims for
          form_cursor, \* where the screen shows the cursor, in the area
          panicked     \* an index was out of bounds or an assertion failed

vars == <<inner_text, insert_mode, scroll, cursor_col, form_cursor, panicked>>

-----------------------------------------------------------------------------
Monus(a, b) == IF a > b THEN a - b ELSE 0

(* Moving by lines.                                                        *)
AtNewline(g) == chr(g) \in {Newline, None}

(* Where lines end, and where the line of the cursor does.                 *)
LineEnds(g) == {k \in 0..(len(g) - 1) : get(g, k) = Newline}
LineEnd(g) == Min({k \in LineEnds(g) : k >= g.cursor} \cup {len(g)})

(* What the loops over left and right come to: the gap is carried along    *)
(* until a newline is under the cursor or there is no further to go.       *)
LeftToNewline(g) ==
    LET at == Max({k \in LineEnds(g) : k <= g.cursor} \cup {0})
    IN  IF at = g.cursor THEN g ELSE SetLineStartAt(MoveTo(g, at), get(g, at))
RightToNewline(g) == MoveTo(g, LineEnd(g))
RightInLine(g, n) ==
    MoveTo(g, IF g.cursor + n < LineEnd(g) THEN g.cursor + n ELSE LineEnd(g))

(* From the end of the text and from a newline it first steps back.        *)
line_start(g) ==
    LET g1 == IF chr(g) = None THEN left(g) ELSE g
        g2 == IF AtNewline(g1) THEN left(g1) ELSE g1
        g3 == LeftToNewline(g2)
    IN  IF AtNewline(g1) /\ ~ CanLeft(g1) THEN g1
        ELSE IF AtNewline(g3) THEN right(g3) ELSE g3

line_end(g) == RightToNewline(g)

up(g, col) ==
    IF g.line_start = 0 THEN g
    ELSE RightInLine(line_start(left(line_start(g))), col)

down(g, col) == RightInLine(line_start(right(line_end(g))), col)

-----------------------------------------------------------------------------
(* The part of the text in view.  A row ends with a newline or when it is  *)
(* full.  The three walks go on from character to character.               *)

(* Row and length of the line after each character from s on.              *)
end_of_area(g, s) ==
    LET n == Monus(len(g), s)
        walk[k \in 0..n] ==
          IF k = 0 THEN <<0, 0>>
          ELSE LET row == walk[k - 1][1]
                   line_len == walk[k - 1][2] + 1
               IN  IF get(g, s + k - 1) = Newline THEN <<row + 1, 0>>
                   ELSE <<IF line_len % NumCols = 0 THEN row + 1 ELSE row, line_len>>
    IN  s + Min({k \in 0..n : walk[k][1] >= NumRows} \cup {n})

(* Row and column after each character from s on up to the cursor, and the *)
(* cursor's own in the area, None when it is not in view.                  *)
RowsTo(g, s) ==
    LET walk[k \in 0..Monus(g.cursor, s)] ==
          IF k = 0 THEN <<0, 0>>
          ELSE LET row == walk[k - 1][1]
                   col == walk[k - 1][2] + 1
               IN  IF get(g, s + k - 1) = Newline \/ col >= NumCols
                   THEN <<row + 1, 0>> ELSE <<row, col>>
    IN  walk
cursor_location(g, s) ==
    LET at == RowsTo(g, s)[Monus(g.cursor, s)]
    IN  IF g.cursor < s \/ at[1] >= NumRows THEN None ELSE at

(* Going back from the cursor by as many rows as it is down in the area:   *)
(* rows still to go, length of the line and the last character.            *)
RowsBack(g, rows) ==
    LET walk[k \in 0..(g.cursor - 1)] ==
          IF k = 0 THEN <<rows, 0, None>>
          ELSE LET row == walk[k - 1][1]
                   line_len == walk[k - 1][2] + 1
                   i == g.cursor - k
                   c == get(g, i)
               IN  IF c = Newline THEN <<row - 1, 0, c>>
                   ELSE <<IF i > 1 /\ line_len % NumCols = 0 THEN row - 1 ELSE row,
                          line_len, c>>
    IN  walk
start_of_area(g, s) ==
    LET at == cursor_location(g, s)
        walk == RowsBack(g, IF at = None THEN NumRows ELSE at[1] + 1)
        top == g.cursor - 1
        far == Min({k \in 0..top : walk[k][1] = 0} \cup {top})
    IN  IF g.cursor <= 1 THEN 0
        ELSE IF walk[far][3] = Newline THEN top - far + 2 ELSE top - far

ScrollBack(g) == IF g.cursor < scroll THEN find_line_start(g) ELSE scroll
ScrollOn(g) == IF g.cursor >= end_of_area(g, scroll) THEN start_of_area(g, scroll) ELSE scroll

-----------------------------------------------------------------------------
(* The last thing a key does.  An area that gets keys has the focus; a     *)
(* cursor out of view stays shown where it was.                            *)
focus ==
    LET at == cursor_location(inner_text', scroll')
    IN  form_cursor' = IF at = None THEN form_cursor ELSE at

Init ==
    /\ \E t \in StartTexts : inner_text = new(t)
    /\ insert_mode = TRUE /\ scroll = 0 /\ cursor_col = 0
    /\ form_cursor = LET at == cursor_location(inner_text, 0)
                     IN  IF at = None THEN <<0, 0>> ELSE at
    /\ panicked = FALSE

key_left ==
    /\ ~ panicked
    /\ inner_text' = left(inner_text)
    /\ cursor_col' = Monus(inner_text'.cursor, inner_text'.line_start)
    /\ scroll' = ScrollBack(inner_text')
    /\ focus
    /\ UNCHANGED <<insert_mode, panicked>>

key_right ==
    /\ ~ panicked
    /\ inner_text' = right(inner_text)
    /\ cursor_col' = Monus(inner_text'.cursor, inner_text'.line_start)
    /\ scroll' = ScrollOn(inner_text')
    /\ focus
    /\ UNCHANGED <<insert_mode, panicked>>

key_up ==
    /\ ~ panicked
    /\ inner_text' = up(inner_text, cursor_col)
    /\ scroll' = ScrollBack(inner_text')
    /\ focus
    /\ UNCHANGED <<insert_mode, cursor_col, panicked>>

key_down ==
    /\ ~ panicked
    /\ inner_text' = down(inner_text, cursor_col)
    /\ scroll' = ScrollOn(inner_text')
    /\ focus
    /\ UNCHANGED <<insert_mode, cursor_col, panicked>>

key_home ==
    /\ ~ panicked
    /\ inner_text' = line_start(inner_text)
    /\ scroll' = ScrollBack(inner_text')
    /\ focus
    /\ UNCHANGED <<insert_mode, cursor_col, panicked>>

key_end ==
    /\ ~ panicked
    /\ inner_text' = line_end(inner_text)
    /\ scroll' = ScrollOn(inner_text')
    /\ focus
    /\ UNCHANGED <<insert_mode, cursor_col, panicked>>

(* One edit.  A panic ends the process.                                    *)
Edit(edited, panics) ==
    /\ panicked' = panics
    /\ inner_text' = IF panics THEN inner_text ELSE edited

(* Bound: with the gap used up, a character that is inserted makes the     *)
(* array longer only while it stays within MaxSize cells.                  *)
Inserts == insert_mode \/ ~ CanRight(inner_text)
RoomToGrow ==
    inner_text.gap = 0 /\ Inserts => Size(inner_text) + GapSize <= MaxSize

key_backspace ==
    /\ ~ panicked
    /\ Edit(backspace(inner_text), backspace_panics(inner_text))
    /\ scroll' = ScrollBack(inner_text')
    /\ focus
    /\ UNCHANGED <<insert_mode, cursor_col>>

key_delete ==
    /\ ~ panicked
    /\ Edit(delete(inner_text), delete_panics(inner_text))
    /\ scroll' = ScrollBack(inner_text')
    /\ focus
    /\ UNCHANGED <<insert_mode, cursor_col>>

key_insert ==
    /\ ~ panicked
    /\ insert_mode' = ~ insert_mode
    /\ UNCHANGED <<inner_text, scroll, cursor_col, panicked>>
    /\ focus

key_char(c) ==
    /\ ~ panicked
    /\ RoomToGrow
    /\ IF insert_mode THEN Edit(insert(inner_text, c), insert_panics(inner_text))
       ELSE Edit(overwrite(inner_text, c), overwrite_panics(inner_text))
    /\ scroll' = ScrollOn(inner_text')
    /\ focus
    /\ UNCHANGED <<insert_mode, cursor_col>>

Next ==
    \/ key_left \/ key_right \/ key_up \/ key_down \/ key_home \/ key_end
    \/ key_backspace \/ key_delete \/ key_insert
    \/ \E c \in Char : key_char(c)

Spec == Init /\ [][Next]_vars

-----------------------------------------------------------------------------
(* The types, of areas of any start text: the cursor is never past the     *)
(* text (GapBuffer, cursor), and where its line starts, the scroll         *)
(* position and the cursor shown stay inside the array and the area.       *)
TypeOK ==
    /\ inner_text.buffer \in Seq(Char \cup {NUL})
    /\ inner_text.gap \in Nat
    /\ inner_text.cursor \in 0..len(inner_text)
    /\ inner_text.line_start \in 0..Size(inner_text)
    /\ insert_mode \in BOOLEAN /\ panicked \in BOOLEAN
    /\ scroll \in 0..Size(inner_text) /\ cursor_col \in 0..Size(inner_text)
    /\ form_cursor \in (0..(NumRows - 1)) \X (0..(NumCols - 1))

(* The gap follows the cursor through every move, edit and reallocation:   *)
(* its cells, from the cursor on, are empty, so no character hides in it   *)
(* and insert's assertion that the cell it fills is empty never fails.     *)
(* Only the gap is claimed to be empty: a start text with a character of   *)
(* more than one byte has empty cells among the text (new).                *)
GapIsEmpty ==
    \A i \in inner_text.cursor..(inner_text.cursor + inner_text.gap - 1) :
        Cell(inner_text, i) = NUL

(* A key makes an edit panic only with the gap used up, and then only      *)
(* backspace or delete at the end of the array (the test for a newline     *)
(* reads the cell under the cursor), or a character inserted inside the    *)
(* text of an array that is longer than GAP_SIZE (realloc moves cells past *)
(* the end of the array it has just grown).                                *)
PanicsOnlyWhenFull ==
    panicked =>
        /\ inner_text.gap = 0
        /\ \/ inner_text.cursor \in {Size(inner_text) - 1, Size(inner_text)}
           \/ insert_mode /\ inner_text.cursor > 0 /\ Size(inner_text) > GapSize

(* With the cursor at the start of a full array longer than GAP_SIZE,      *)
(* realloc carries the first GAP_SIZE characters behind all the others.    *)
Reorders ==
    LET t == to_string(inner_text)
    IN  /\ inner_text.gap = 0 /\ inner_text.cursor = 0
        /\ Size(inner_text) > GapSize /\ insert_mode
        /\ \E c \in Char : to_string(inner_text') =
               <<c>> \o SubSeq(t, GapSize + 1, Len(t)) \o SubSeq(t, 1, GapSize)
        /\ inner_text'.cursor = 1 /\ UNCHANGED insert_mode

(* The text a new area holds: the one the page gave it, and an empty cell  *)
(* for each byte by which a character is longer than one.                  *)
Padded(t) == t \o [i \in 1..(BytesOf(t) - Len(t)) |-> NUL]

(* Behind its gap the area edits a plain text: it begins with the page's   *)
(* text, padded, and every key that does not panic inserts, replaces (in   *)
(* overwrite mode) or removes one character at the cursor, or only moves   *)
(* the cursor, whatever part of the array is text and gap.  The one        *)
(* exception is a character typed at the start of a full array that has    *)
(* grown or did not begin empty: it reorders the text.                     *)
Edited == INSTANCE EditedText WITH Texts <- {Padded(t) : t \in StartTexts},
            text <- to_string(inner_text), pos <- inner_text.cursor,
            inserting <- insert_mode
EditsPlainText ==
    /\ Edited!Init
    /\ [][Edited!Next \/ Reorders]_<<to_string(inner_text), inner_text.cursor, insert_mode>>
=============================================================================

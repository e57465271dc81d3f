--------------------------- MODULE TextAreaProofs ---------------------------
(***************************************************************************)
(* A text area, for every start text, gap and size of the area, and every  *)
(* sequence of keys: the buffer is some text with an empty gap at the      *)
(* cursor, an edit panics only with the gap used up, and every other key   *)
(* edits a plain text or, at the start of a full array, reorders it.  The  *)
(* array may grow to any size (MaxSize).                                   *)
(***************************************************************************)
EXTENDS TextArea, TLAPS, SequenceTheorems, WellFoundedInduction

(* What a cell of the array holds.                                         *)
Sym == Char \cup {NUL}
USE DEF Sym

(***************************************************************************)
(* Buffer g holds text t: the characters before the cursor, the gap, and   *)
(* the characters after it.                                                *)
(***************************************************************************)
Rep(g, t) ==
    /\ g = [buffer |-> g.buffer, cursor |-> g.cursor, gap |-> g.gap,
            line_start |-> g.line_start]
    /\ t \in Seq(Sym)
    /\ g.buffer \in Seq(Sym)
    /\ g.gap \in Nat
    /\ g.cursor \in 0..Len(t)
    /\ Size(g) = Len(t) + g.gap
    /\ Size(g) >= 1
    /\ g.line_start \in 0..Size(g)
    /\ \A i \in 1..Size(g) :
          g.buffer[i] = IF i <= g.cursor THEN t[i]
                        ELSE IF i <= g.cursor + g.gap THEN NUL ELSE t[i - g.gap]

-----------------------------------------------------------------------------
(* Sets of naturals have a smallest element, and a largest when bounded.   *)

LEMMA SmallestNat == ASSUME NEW S \in SUBSET Nat, S # {} PROVE \E x \in S : \A y \in S : x <= y
<1> DEFINE R == OpToRel(<, Nat)
<1>1. \A x, y \in Nat : <<x, y>> \in R <=> x < y
  BY DEF OpToRel
<1>2. IsWellFoundedOn(R, Nat)
  BY NatLessThanWellFounded
<1> HIDE DEF R
<1>3. PICK x \in S : \A y \in S : ~(<<y, x>> \in R)
  BY <1>2, WFMin
<1>4. ASSUME NEW y \in S PROVE x <= y
  <2>1. x \in Nat /\ y \in Nat /\ ~(y < x)
    BY <1>1, <1>3
  <2> QED BY <2>1
<1> QED BY <1>4

LEMMA MinOf == ASSUME NEW S \in SUBSET Nat, S # {} PROVE Min(S) \in S /\ \A y \in S : Min(S) <= y
<1>1. \E x \in S : \A y \in S : x <= y
  BY SmallestNat
<1> QED BY <1>1 DEF Min

LEMMA MaxOf ==
    ASSUME NEW n \in Nat, NEW S \in SUBSET (0..n), S # {}
    PROVE  Max(S) \in S /\ \A y \in S : Max(S) >= y
<1> DEFINE T == {n - x : x \in S}
<1>1. T \in SUBSET Nat /\ T # {}
  <2>1. \A x \in S : x \in Int /\ 0 <= x /\ x <= n
    OBVIOUS
  <2>2. \A x \in S : n - x \in Nat
    BY <2>1
  <2>3. T \in SUBSET Nat
    BY <2>2
  <2>4. PICK x : x \in S
    OBVIOUS
  <2>5. n - x \in T
    BY <2>4
  <2> QED BY <2>3, <2>5
<1>2. PICK z \in T : \A y \in T : z <= y
  <2> HIDE DEF T
  <2> QED BY <1>1, SmallestNat
<1>3. PICK x \in S : z = n - x
  BY <1>2
<1>4. ASSUME NEW y \in S PROVE x >= y
  <2>1. n - y \in T
    OBVIOUS
  <2>2. y \in Int /\ x \in Int
    OBVIOUS
  <2> HIDE DEF T
  <2>3. n - x <= n - y
    BY <1>2, <1>3, <2>1
  <2> QED BY <2>2, <2>3
<1> QED BY <1>4 DEF Max

-----------------------------------------------------------------------------
(* Reading a buffer.                                                       *)

LEMMA RepType ==
    ASSUME NEW g, NEW t, Rep(g, t)
    PROVE  /\ Len(t) \in Nat /\ Size(g) \in Nat /\ g.gap \in Nat /\ g.cursor \in Nat
           /\ g.cursor <= Len(t) /\ Size(g) = Len(t) + g.gap /\ len(g) = Len(t)
           /\ DOMAIN g.buffer = 1..Size(g)
           /\ \A i \in 1..Len(t) : t[i] \in Sym
<1>1. Len(t) \in Nat /\ Size(g) \in Nat /\ DOMAIN g.buffer = 1..Size(g)
  BY LenProperties DEF Rep, Size
<1>2. \A i \in 1..Len(t) : t[i] \in Sym
  BY ElementOfSeq DEF Rep
<1> QED BY <1>1, <1>2 DEF Rep, len

LEMMA GetIs ==
    ASSUME NEW g, NEW t, Rep(g, t), NEW i \in Nat
    PROVE  get(g, i) = IF i < Len(t) THEN t[i + 1] ELSE None
<1>1. /\ Len(t) \in Nat /\ Size(g) \in Nat /\ g.gap \in Nat /\ g.cursor \in Nat
      /\ g.cursor <= Len(t) /\ Size(g) = Len(t) + g.gap
  BY RepType
<1>2. CASE i < g.cursor
  <2>1. i + 1 \in 1..Size(g) /\ i + 1 <= g.cursor /\ i < Size(g) /\ i < Len(t)
    BY <1>1, <1>2
  <2>2. g.buffer[i + 1] = t[i + 1]
    BY <2>1 DEF Rep
  <2> QED BY <1>2, <2>1, <2>2 DEF get, Cell
<1>3. CASE ~(i < g.cursor) /\ i < Len(t)
  <2>1. /\ i + g.gap + 1 \in 1..Size(g) /\ ~(i + g.gap + 1 <= g.cursor)
        /\ ~(i + g.gap + 1 <= g.cursor + g.gap) /\ i + g.gap < Size(g)
        /\ (i + g.gap + 1) - g.gap = i + 1
    BY <1>1, <1>3
  <2>2. g.buffer[i + g.gap + 1] = t[i + 1]
    BY <2>1 DEF Rep
  <2> QED BY <1>3, <2>1, <2>2 DEF get, Cell
<1>4. CASE ~(i < Len(t))
  <2>1. ~(i < g.cursor) /\ ~(i + g.gap < Size(g))
    BY <1>1, <1>4
  <2> QED BY <1>4, <2>1 DEF get
<1> QED BY <1>2, <1>3, <1>4

(* The string of a buffer is the text it holds.                            *)
LEMMA ToString == ASSUME NEW g, NEW t, Rep(g, t) PROVE to_string(g) = t
<1>1. Len(t) \in Nat /\ len(g) = Len(t) /\ t \in Seq(Sym) /\ \A i \in 1..Len(t) : t[i] \in Sym
  BY RepType DEF Rep
<1>2. ASSUME NEW i \in 1..Len(t) PROVE to_string(g)[i] = t[i]
  <2>1. i - 1 \in Nat /\ i - 1 < Len(t) /\ (i - 1) + 1 = i
    BY <1>1
  <2>2. get(g, i - 1) = t[i]
    BY <2>1, GetIs
  <2> QED BY <1>1, <2>2 DEF to_string
<1>3. to_string(g) \in [1..Len(t) -> Sym]
  BY <1>1, <1>2 DEF to_string
<1>4. t \in [1..Len(t) -> Sym]
  BY <1>1, LenProperties
<1> QED BY <1>2, <1>3, <1>4

-----------------------------------------------------------------------------
(* Building a buffer.                                                      *)

(* A line begins inside the array.                                         *)
LEMMA LineStartIn == ASSUME NEW g, NEW t, Rep(g, t) PROVE find_line_start(g) \in 0..Size(g)
<1> DEFINE last == IF g.cursor = 0 THEN 0 ELSE g.cursor - 1
           newlines == {k \in 0..last : Cell(g, k) = Newline}
           at == IF newlines = {} THEN 0 ELSE Max(newlines)
<1>1. /\ g.cursor \in Nat /\ Size(g) \in Nat /\ g.cursor <= Size(g) /\ Size(g) >= 1
  BY RepType DEF Rep
<1>2. last \in Nat /\ last < Size(g) /\ (g.cursor > 0 => last < g.cursor)
  BY <1>1
<1>3. newlines \in SUBSET (0..last)
  OBVIOUS
<1> HIDE DEF last, newlines
<1>4. at \in 0..last
  <2>1. newlines # {} => Max(newlines) \in newlines
    BY <1>2, <1>3, MaxOf
  <2>2. CASE newlines = {}
    BY <1>2, <2>2
  <2>3. CASE newlines # {}
    <3>1. at = Max(newlines)
      BY <2>3
    <3> QED BY <1>3, <2>1, <2>3, <3>1
  <2> QED BY <2>2, <2>3
<1>5. find_line_start(g) \in {g.cursor, at, at + 1} /\ (find_line_start(g) = at + 1 => at + 1 <= Size(g))
  <2>1. find_line_start(g) =
          IF Cell(g, last) = Newline /\ chr(g) = None THEN g.cursor
          ELSE IF g.cursor > 0 /\ at + 1 + g.gap < Size(g) /\ Cell(g, at) = Newline
               THEN at + 1 ELSE at
    BY DEF find_line_start, last, newlines
  <2> HIDE DEF at
  <2> QED BY <1>1, <1>2, <1>4, <2>1
<1> HIDE DEF at
<1> QED BY <1>1, <1>2, <1>4, <1>5

(* The start of the line is all that SetLineStartAt touches.               *)
LEMMA LineStartSet ==
    ASSUME NEW g, NEW t, Rep(g, t), NEW c
    PROVE  LET h == SetLineStartAt(g, c)
           IN  Rep(h, t) /\ h.cursor = g.cursor /\ h.gap = g.gap
<1> DEFINE h == SetLineStartAt(g, c)
<1>1. CASE c # Newline
  BY <1>1 DEF SetLineStartAt
<1>2. CASE c = Newline
  <2> DEFINE l == find_line_start(g)
  <2>1. PICK b, p, q, m : g = [buffer |-> b, cursor |-> p, gap |-> q, line_start |-> m]
    BY Zenon DEF Rep
  <2>2. l \in 0..Size(g)
    BY LineStartIn
  <2> HIDE DEF l
  <2>3. h = [buffer |-> b, cursor |-> p, gap |-> q, line_start |-> l]
    BY <1>2, <2>1 DEF SetLineStartAt, SetLineStart, l
  <2> HIDE DEF h
  <2>4. h.buffer = g.buffer /\ h.cursor = g.cursor /\ h.gap = g.gap /\ h.line_start = l
    BY <2>1, <2>3
  <2>5. h = [buffer |-> h.buffer, cursor |-> h.cursor, gap |-> h.gap, line_start |-> h.line_start]
    BY <2>3
  <2>6. Size(h) = Size(g)
    BY <2>4 DEF Size
  <2>7. Rep(h, t)
    BY <2>2, <2>4, <2>5, <2>6 DEF Rep
  <2> QED BY <2>4, <2>7 DEF h
<1> QED BY <1>1, <1>2

LEMMA FcnIsSeq ==
    ASSUME NEW n \in Nat, NEW S, NEW f \in [1..n -> S]
    PROVE  f \in Seq(S) /\ Len(f) = n
<1>1. f \in Seq(S)
  BY SeqDef
<1>2. Len(f) \in Nat /\ DOMAIN f = 1..Len(f) /\ DOMAIN f = 1..n
  BY <1>1, LenProperties
<1>3. Len(f) = n
  BY <1>2
<1> QED BY <1>1, <1>3

(* Array b holds t with a gap of q cells after the first p characters.     *)
Cells(b, t, p, q) ==
    /\ b \in Seq(Sym)
    /\ t \in Seq(Sym) /\ p \in 0..Len(t) /\ q \in Nat
    /\ Len(b) = Len(t) + q /\ Len(b) >= 1
    /\ \A i \in 1..Len(b) :
          b[i] = IF i <= p THEN t[i] ELSE IF i <= p + q THEN NUL ELSE t[i - q]

LEMMA CellsFrom ==
    ASSUME NEW n \in Nat, NEW b \in [1..n -> Sym], NEW t \in Seq(Sym),
           NEW p \in 0..Len(t), NEW q \in Nat, n = Len(t) + q, n >= 1,
           \A i \in 1..n :
              b[i] = IF i <= p THEN t[i] ELSE IF i <= p + q THEN NUL ELSE t[i - q]
    PROVE  Cells(b, t, p, q) /\ Len(b) = n
<1>1. b \in Seq(Sym) /\ Len(b) = n
  BY FcnIsSeq
<1> QED BY <1>1 DEF Cells

LEMMA CellsOf == ASSUME NEW g, NEW t, Rep(g, t) PROVE Cells(g.buffer, t, g.cursor, g.gap)
BY DEF Rep, Cells, Size

(* A record with the right cells holds t, whether or not the start of the  *)
(* line is then set.                                                       *)
LEMMA Build ==
    ASSUME NEW b, NEW t, NEW p, NEW q, Cells(b, t, p, q), NEW l \in 0..Len(b),
           NEW h, h = [buffer |-> b, cursor |-> p, gap |-> q, line_start |-> l]
    PROVE  Rep(h, t) /\ h.cursor = p /\ h.gap = q
<1>1. h.buffer = b /\ h.cursor = p /\ h.gap = q /\ h.line_start = l
  OBVIOUS
<1>2. h = [buffer |-> h.buffer, cursor |-> h.cursor, gap |-> h.gap, line_start |-> h.line_start]
  BY <1>1
<1>3. Rep(h, t)
  BY <1>1, <1>2 DEF Rep, Size, Cells
<1> QED BY <1>1, <1>3

LEMMA BuildSet ==
    ASSUME NEW b, NEW t, NEW p, NEW q, Cells(b, t, p, q), NEW l \in 0..Len(b), NEW c,
           NEW h, h = [buffer |-> b, cursor |-> p, gap |-> q, line_start |-> l]
    PROVE  /\ Rep(SetLineStartAt(h, c), t)
           /\ SetLineStartAt(h, c).cursor = p /\ SetLineStartAt(h, c).gap = q
<1>1. Rep(h, t) /\ h.cursor = p /\ h.gap = q
  BY Build
<1> QED BY <1>1, LineStartSet

-----------------------------------------------------------------------------
(* Moving the cursor.                                                      *)

LEMMA MoveToRep ==
    ASSUME NEW g, NEW t, Rep(g, t), NEW k \in 0..Len(t)
    PROVE  Rep(MoveTo(g, k), t) /\ MoveTo(g, k).cursor = k /\ MoveTo(g, k).gap = g.gap
<1> DEFINE n == Size(g)
           q == g.gap
           b == [i \in 1..n |-> IF i <= k THEN get(g, i - 1)
                                ELSE IF i <= k + q THEN NUL ELSE get(g, i - 1 - q)]
<1>1. /\ Len(t) \in Nat /\ n \in Nat /\ q \in Nat /\ n = Len(t) + q /\ n >= 1
      /\ \A i \in 1..Len(t) : t[i] \in Sym
      /\ t \in Seq(Sym) /\ g.line_start \in 0..n
  BY RepType DEF Rep
<1>2. MoveTo(g, k) = [buffer |-> b, cursor |-> k, gap |-> q, line_start |-> g.line_start]
  <2>1. PICK b0, p0, q0, m : g = [buffer |-> b0, cursor |-> p0, gap |-> q0, line_start |-> m]
    BY Zenon DEF Rep
  <2> HIDE DEF b
  <2>2. MoveTo(g, k) = [g EXCEPT !.cursor = k, !.buffer = b]
    BY DEF MoveTo, b
  <2> QED BY <2>1, <2>2
<1>3. ASSUME NEW i \in 1..n
      PROVE  /\ b[i] = IF i <= k THEN t[i] ELSE IF i <= k + q THEN NUL ELSE t[i - q]
             /\ b[i] \in Sym
  <2>1. CASE i <= k
    <3>1. i - 1 \in Nat /\ i - 1 < Len(t) /\ (i - 1) + 1 = i /\ i \in 1..Len(t)
      BY <1>1, <2>1
    <3>2. get(g, i - 1) = t[i]
      BY <3>1, GetIs
    <3> QED BY <1>1, <2>1, <3>1, <3>2
  <2>2. CASE ~(i <= k) /\ i <= k + q
    BY <2>2
  <2>3. CASE ~(i <= k) /\ ~(i <= k + q)
    <3>1. /\ i - 1 - q \in Nat /\ i - 1 - q < Len(t)
          /\ (i - 1 - q) + 1 = i - q /\ i - q \in 1..Len(t)
      BY <1>1, <2>3
    <3>2. get(g, i - 1 - q) = t[i - q]
      BY <3>1, GetIs
    <3> QED BY <1>1, <2>3, <3>1, <3>2
  <2> QED BY <2>1, <2>2, <2>3
<1>4. b \in [1..n -> Sym]
  BY <1>3
<1> HIDE DEF b, n, q
<1>5. Cells(b, t, k, q) /\ Len(b) = n
  BY <1>1, <1>3, <1>4, CellsFrom
<1>6. Rep(MoveTo(g, k), t) /\ MoveTo(g, k).cursor = k /\ MoveTo(g, k).gap = q
  BY <1>1, <1>2, <1>5, Build
<1> QED BY <1>6 DEF q

LEMMA LeftRep ==
    ASSUME NEW g, NEW t, Rep(g, t)
    PROVE  /\ Rep(left(g), t) /\ left(g).gap = g.gap
           /\ left(g).cursor = IF g.cursor > 0 THEN g.cursor - 1 ELSE g.cursor
<1>1. CASE ~ CanLeft(g)
  BY <1>1 DEF left, CanLeft
<1>2. CASE CanLeft(g)
  <2> DEFINE p == g.cursor
             q == g.gap
             n == Size(g)
             c == Cell(g, p - 1)
             emptied == [g.buffer EXCEPT ![p] = NUL]
             b == [emptied EXCEPT ![p + q] = c]
  <2>1. /\ Len(t) \in Nat /\ n \in Nat /\ q \in Nat /\ p \in Nat /\ p > 0
        /\ p <= Len(t) /\ n = Len(t) + q /\ n >= 1
        /\ g.buffer \in [1..n -> Sym]
        /\ t \in Seq(Sym) /\ g.line_start \in 0..n
    BY <1>2, RepType, LenProperties DEF Rep, CanLeft, Size
  <2>2. PICK e : e = [g EXCEPT !.cursor = @ - 1, !.buffer = b]
    OBVIOUS
  <2>3. left(g) = SetLineStartAt(e, c)
    BY <1>2, <2>2 DEF left
  <2>4. e = [buffer |-> b, cursor |-> p - 1, gap |-> q, line_start |-> g.line_start]
    <3>1. PICK b0, p0, q0, m : g = [buffer |-> b0, cursor |-> p0, gap |-> q0, line_start |-> m]
      BY Zenon DEF Rep
    <3> HIDE DEF b
    <3> QED BY <2>2, <3>1
  <2>5. c = t[p] /\ c \in Sym
    <3>1. (p - 1) + 1 = p /\ p \in 1..n /\ p \in 1..Len(t)
      BY <2>1
    <3>2. c = g.buffer[p]
      BY <3>1 DEF Cell
    <3>3. g.buffer[p] = t[p]
      BY <2>1, <3>1 DEF Rep
    <3> QED BY <3>1, <3>2, <3>3, RepType
  <2> HIDE DEF c
  <2>6. /\ b \in [1..n -> Sym]
        /\ \A i \in 1..n : b[i] = IF i = p + q THEN c ELSE IF i = p THEN NUL ELSE g.buffer[i]
    <3> HIDE DEF n
    <3>1. p + q \in 1..n /\ p \in 1..n
      BY <2>1
    <3> HIDE DEF p, q
    <3> QED BY <2>1, <2>5, <3>1
  <2>7. ASSUME NEW i \in 1..n
        PROVE  b[i] = IF i <= p - 1 THEN t[i] ELSE IF i <= (p - 1) + q THEN NUL ELSE t[i - q]
    <3>0. /\ i \in Int
          /\ g.buffer[i] = IF i <= p THEN t[i] ELSE IF i <= p + q THEN NUL ELSE t[i - q]
      BY <2>1 DEF Rep
    <3> HIDE DEF n, b, p, q
    <3>1. CASE i = p + q
      <4>1. ~(i <= p - 1) /\ ~(i <= (p - 1) + q) /\ i - q = p
        BY <2>1, <3>1
      <4> QED BY <2>5, <2>6, <3>1, <4>1
    <3>2. CASE i # p + q /\ i = p
      <4>1. ~(i <= p - 1) /\ i <= (p - 1) + q
        BY <2>1, <3>2
      <4> QED BY <2>6, <3>2, <4>1
    <3>3. CASE i # p + q /\ i # p
      <4>1. (i <= p - 1 <=> i <= p) /\ (i <= (p - 1) + q <=> i <= p + q)
        BY <2>1, <3>0, <3>3
      <4> QED BY <2>6, <3>0, <3>3, <4>1
    <3> QED BY <3>1, <3>2, <3>3
  <2> HIDE DEF b, p, q, n
  <2>8. p - 1 \in 0..Len(t)
    BY <2>1
  <2>9. Cells(b, t, p - 1, q) /\ Len(b) = n
    BY <2>1, <2>6, <2>7, <2>8, CellsFrom
  <2>10. /\ Rep(SetLineStartAt(e, c), t)
         /\ SetLineStartAt(e, c).cursor = p - 1 /\ SetLineStartAt(e, c).gap = q
    BY <2>1, <2>4, <2>9, BuildSet
  <2> QED BY <2>1, <2>3, <2>10 DEF p, q
<1> QED BY <1>1, <1>2

LEMMA RightRep ==
    ASSUME NEW g, NEW t, Rep(g, t)
    PROVE  /\ Rep(right(g), t) /\ right(g).gap = g.gap
           /\ right(g).cursor = IF g.cursor < Len(t) THEN g.cursor + 1 ELSE g.cursor
<1>0. /\ Len(t) \in Nat /\ Size(g) \in Nat /\ g.gap \in Nat /\ g.cursor \in Nat
      /\ g.cursor <= Len(t) /\ Size(g) = Len(t) + g.gap
  BY RepType
<1>1. CASE ~ CanRight(g)
  <2>1. ~(g.cursor < Len(t)) /\ right(g) = g
    BY <1>0, <1>1 DEF right, CanRight
  <2> QED BY <2>1
<1>2. CASE CanRight(g)
  <2> DEFINE p == g.cursor
             q == g.gap
             n == Size(g)
             c == Cell(g, p + q)
             emptied == [g.buffer EXCEPT ![p + q + 1] = NUL]
             b == [emptied EXCEPT ![p + 1] = c]
  <2>1. /\ Len(t) \in Nat /\ n \in Nat /\ q \in Nat /\ p \in Nat /\ p < Len(t)
        /\ n = Len(t) + q /\ n >= 1
        /\ g.buffer \in [1..n -> Sym]
        /\ t \in Seq(Sym) /\ g.line_start \in 0..n
    BY <1>0, <1>2, LenProperties DEF Rep, CanRight, Size
  <2>2. PICK e : e = [g EXCEPT !.cursor = @ + 1, !.buffer = b]
    OBVIOUS
  <2>3. right(g) = SetLineStartAt(e, c)
    BY <1>2, <2>2 DEF right
  <2>4. e = [buffer |-> b, cursor |-> p + 1, gap |-> q, line_start |-> g.line_start]
    <3>1. PICK b0, p0, q0, m : g = [buffer |-> b0, cursor |-> p0, gap |-> q0, line_start |-> m]
      BY Zenon DEF Rep
    <3> HIDE DEF b
    <3> QED BY <2>2, <3>1
  <2>5. c = t[p + 1] /\ c \in Sym
    <3>1. /\ p + q + 1 \in 1..n /\ p + 1 \in 1..Len(t) /\ (p + q + 1) - q = p + 1
          /\ ~(p + q + 1 <= p) /\ ~(p + q + 1 <= p + q)
      BY <2>1
    <3>2. c = g.buffer[p + q + 1]
      BY DEF Cell
    <3>3. g.buffer[p + q + 1] = t[p + 1]
      BY <3>1 DEF Rep
    <3> QED BY <3>1, <3>2, <3>3, RepType
  <2> HIDE DEF c
  <2>6. /\ b \in [1..n -> Sym]
        /\ \A i \in 1..n :
             b[i] = IF i = p + 1 THEN c ELSE IF i = p + q + 1 THEN NUL ELSE g.buffer[i]
    <3> HIDE DEF n
    <3>1. p + q + 1 \in 1..n /\ p + 1 \in 1..n
      BY <2>1
    <3> HIDE DEF p, q
    <3> QED BY <2>1, <2>5, <3>1
  <2>7. ASSUME NEW i \in 1..n
        PROVE  b[i] = IF i <= p + 1 THEN t[i] ELSE IF i <= (p + 1) + q THEN NUL ELSE t[i - q]
    <3>0. /\ i \in Int
          /\ g.buffer[i] = IF i <= p THEN t[i] ELSE IF i <= p + q THEN NUL ELSE t[i - q]
      BY <2>1 DEF Rep
    <3> HIDE DEF n, b, p, q
    <3>1. CASE i = p + 1
      <4>1. i <= p + 1
        BY <2>1, <3>1
      <4> QED BY <2>5, <2>6, <3>1, <4>1
    <3>2. CASE i # p + 1 /\ i = p + q + 1
      <4>1. ~(i <= p + 1) /\ i <= (p + 1) + q
        BY <2>1, <3>2
      <4> QED BY <2>6, <3>2, <4>1
    <3>3. CASE i # p + 1 /\ i # p + q + 1
      <4>1. (i <= p + 1 <=> i <= p) /\ (i <= (p + 1) + q <=> i <= p + q)
        BY <2>1, <3>0, <3>3
      <4> QED BY <2>6, <3>0, <3>3, <4>1
    <3> QED BY <3>1, <3>2, <3>3
  <2> HIDE DEF b, p, q, n
  <2>8. p + 1 \in 0..Len(t)
    BY <2>1
  <2>9. Cells(b, t, p + 1, q) /\ Len(b) = n
    BY <2>1, <2>6, <2>7, <2>8, CellsFrom
  <2>10. /\ Rep(SetLineStartAt(e, c), t)
         /\ SetLineStartAt(e, c).cursor = p + 1 /\ SetLineStartAt(e, c).gap = q
    BY <2>1, <2>4, <2>9, BuildSet
  <2> QED BY <2>1, <2>3, <2>10 DEF p, q
<1> QED BY <1>1, <1>2

-----------------------------------------------------------------------------
(* Texts after an edit at a position.                                      *)
Inserted(t, p, c) ==
    [i \in 1..(Len(t) + 1) |-> IF i <= p THEN t[i] ELSE IF i = p + 1 THEN c ELSE t[i - 1]]
Removed(t, p) == [i \in 1..(Len(t) - 1) |-> IF i < p THEN t[i] ELSE t[i + 1]]

LEMMA InsertedType ==
    ASSUME NEW t \in Seq(Sym), NEW p \in 0..Len(t), NEW c \in Sym
    PROVE  Inserted(t, p, c) \in Seq(Sym) /\ Len(Inserted(t, p, c)) = Len(t) + 1
<1>1. Len(t) \in Nat /\ Len(t) + 1 \in Nat /\ \A i \in 1..Len(t) : t[i] \in Sym
  BY LenProperties, ElementOfSeq
<1>2. Inserted(t, p, c) \in [1..(Len(t) + 1) -> Sym]
  <2>1. ASSUME NEW i \in 1..(Len(t) + 1)
        PROVE  (IF i <= p THEN t[i] ELSE IF i = p + 1 THEN c ELSE t[i - 1]) \in Sym
    <3>1. CASE i <= p
      BY <1>1, <3>1
    <3>2. CASE ~(i <= p) /\ i = p + 1
      BY <3>2
    <3>3. CASE ~(i <= p) /\ i # p + 1
      <4>1. i - 1 \in 1..Len(t)
        BY <1>1, <3>3
      <4> QED BY <1>1, <3>3, <4>1
    <3> QED BY <3>1, <3>2, <3>3
  <2> QED BY <2>1 DEF Inserted
<1> QED BY <1>1, <1>2, FcnIsSeq

LEMMA RemovedType ==
    ASSUME NEW t \in Seq(Sym), NEW p \in 1..Len(t)
    PROVE  Removed(t, p) \in Seq(Sym) /\ Len(Removed(t, p)) = Len(t) - 1
<1>1. Len(t) \in Nat /\ Len(t) - 1 \in Nat /\ \A i \in 1..Len(t) : t[i] \in Sym
  BY LenProperties, ElementOfSeq
<1>2. Removed(t, p) \in [1..(Len(t) - 1) -> Sym]
  <2>1. \A i \in 1..(Len(t) - 1) : i \in 1..Len(t) /\ i + 1 \in 1..Len(t)
    BY <1>1
  <2> QED BY <1>1, <2>1 DEF Removed
<1> QED BY <1>1, <1>2, FcnIsSeq

(* In the words of EditedText.                                             *)
LEMMA InsertedIs ==
    ASSUME NEW t \in Seq(Sym), NEW p \in 0..Len(t), NEW c \in Sym
    PROVE  Inserted(t, p, c) = SubSeq(t, 1, p) \o <<c>> \o SubSeq(t, p + 1, Len(t))
<1> DEFINE x == SubSeq(t, 1, p)
           y == SubSeq(t, p + 1, Len(t))
           n == Len(t)
<1>1. n \in Nat /\ p \in Nat /\ p <= n /\ \A i \in 1..n : t[i] \in Sym
  BY LenProperties, ElementOfSeq
<1>2. x \in Seq(Sym) /\ Len(x) = p /\ \A i \in 1..p : x[i] = t[i]
  <2>1. \A i \in 1..p : t[i] \in Sym
    BY <1>1
  <2>2. /\ x \in Seq(Sym) /\ Len(x) = IF 1 <= p THEN p - 1 + 1 ELSE 0
        /\ \A i \in 1..(p - 1 + 1) : x[i] = t[1 + i - 1]
    BY <1>1, <2>1, SubSeqProperties
  <2>3. p - 1 + 1 = p /\ (~(1 <= p) => p = 0) /\ \A i \in 1..p : 1 + i - 1 = i
    BY <1>1
  <2> HIDE DEF x
  <2> QED BY <2>2, <2>3
<1>3. y \in Seq(Sym) /\ Len(y) = n - p /\ \A i \in 1..(n - p) : y[i] = t[p + i]
  <2>1. \A i \in (p + 1)..n : t[i] \in Sym
    BY <1>1
  <2>2. /\ y \in Seq(Sym) /\ Len(y) = IF p + 1 <= n THEN n - (p + 1) + 1 ELSE 0
        /\ \A i \in 1..(n - (p + 1) + 1) : y[i] = t[(p + 1) + i - 1]
    BY <1>1, <2>1, SubSeqProperties
  <2>3. /\ n - (p + 1) + 1 = n - p /\ (~(p + 1 <= n) => n - p = 0)
        /\ \A i \in 1..(n - p) : (p + 1) + i - 1 = p + i
    BY <1>1
  <2> HIDE DEF y
  <2> QED BY <2>2, <2>3
<1> HIDE DEF x, y
<1>4. <<c>> \in Seq(Sym) /\ Len(<<c>>) = 1 /\ <<c>>[1] = c
  OBVIOUS
<1>5. /\ x \o <<c>> \in Seq(Sym) /\ Len(x \o <<c>>) = p + 1
      /\ \A i \in 1..(p + 1) : (x \o <<c>>)[i] = IF i <= p THEN t[i] ELSE c
  <2>1. /\ x \o <<c>> \in Seq(Sym) /\ Len(x \o <<c>>) = p + 1
        /\ \A i \in 1..(p + 1) : (x \o <<c>>)[i] = IF i <= p THEN x[i] ELSE <<c>>[i - p]
    BY <1>2, <1>4, ConcatProperties
  <2>2. \A i \in 1..(p + 1) : IF i <= p THEN i \in 1..p ELSE i - p = 1
    BY <1>1
  <2> QED BY <1>2, <1>4, <2>1, <2>2
<1> DEFINE z == x \o <<c>>
<1>6. z \in Seq(Sym) /\ Len(z) = p + 1 /\ \A i \in 1..(p + 1) : z[i] = IF i <= p THEN t[i] ELSE c
  BY <1>5
<1> HIDE DEF z
<1>7. /\ z \o y \in Seq(Sym) /\ Len(z \o y) = n + 1
      /\ \A i \in 1..(n + 1) : (z \o y)[i] = IF i <= p + 1 THEN z[i] ELSE y[i - (p + 1)]
  <2>1. (p + 1) + (n - p) = n + 1
    BY <1>1
  <2> QED BY <1>3, <1>6, <2>1, ConcatProperties
<1>8. Inserted(t, p, c) \in Seq(Sym) /\ Len(Inserted(t, p, c)) = n + 1
  BY InsertedType
<1>9. ASSUME NEW i \in 1..(n + 1) PROVE Inserted(t, p, c)[i] = (z \o y)[i]
  <2>0. Inserted(t, p, c)[i] = IF i <= p THEN t[i] ELSE IF i = p + 1 THEN c ELSE t[i - 1]
    BY DEF Inserted
  <2>1. CASE i <= p + 1
    <3>1. i \in 1..(p + 1) /\ (~(i <= p) => i = p + 1)
      BY <1>1, <2>1
    <3> QED BY <1>6, <1>7, <2>0, <2>1, <3>1
  <2>2. CASE ~(i <= p + 1)
    <3>1. i - (p + 1) \in 1..(n - p) /\ p + (i - (p + 1)) = i - 1 /\ ~(i <= p) /\ i # p + 1
      BY <1>1, <2>2
    <3>2. y[i - (p + 1)] = t[i - 1]
      BY <1>3, <3>1
    <3> QED BY <1>7, <2>0, <2>2, <3>1, <3>2
  <2> QED BY <2>1, <2>2
<1> HIDE DEF n
<1>10. Inserted(t, p, c) = z \o y
  BY <1>7, <1>8, <1>9, SeqEqual
<1> QED BY <1>10 DEF x, y, z

LEMMA RemovedIs ==
    ASSUME NEW t \in Seq(Sym), NEW p \in 1..Len(t)
    PROVE  Removed(t, p) = SubSeq(t, 1, p - 1) \o SubSeq(t, p + 1, Len(t))
<1> DEFINE x == SubSeq(t, 1, p - 1)
           y == SubSeq(t, p + 1, Len(t))
           n == Len(t)
<1>1. n \in Nat /\ p \in Nat /\ 1 <= p /\ p <= n /\ \A i \in 1..n : t[i] \in Sym
  BY LenProperties, ElementOfSeq
<1>2. x \in Seq(Sym) /\ Len(x) = p - 1 /\ \A i \in 1..(p - 1) : x[i] = t[i]
  <2>1. \A i \in 1..(p - 1) : t[i] \in Sym
    BY <1>1
  <2>2. /\ x \in Seq(Sym) /\ Len(x) = IF 1 <= p - 1 THEN (p - 1) - 1 + 1 ELSE 0
        /\ \A i \in 1..((p - 1) - 1 + 1) : x[i] = t[1 + i - 1]
    BY <1>1, <2>1, SubSeqProperties
  <2>3. /\ (p - 1) - 1 + 1 = p - 1 /\ (~(1 <= p - 1) => p - 1 = 0)
        /\ \A i \in 1..(p - 1) : 1 + i - 1 = i
    BY <1>1
  <2> HIDE DEF x
  <2> QED BY <2>2, <2>3
<1>3. y \in Seq(Sym) /\ Len(y) = n - p /\ \A i \in 1..(n - p) : y[i] = t[p + i]
  <2>1. \A i \in (p + 1)..n : t[i] \in Sym
    BY <1>1
  <2>2. /\ y \in Seq(Sym) /\ Len(y) = IF p + 1 <= n THEN n - (p + 1) + 1 ELSE 0
        /\ \A i \in 1..(n - (p + 1) + 1) : y[i] = t[(p + 1) + i - 1]
    BY <1>1, <2>1, SubSeqProperties
  <2>3. /\ n - (p + 1) + 1 = n - p /\ (~(p + 1 <= n) => n - p = 0)
        /\ \A i \in 1..(n - p) : (p + 1) + i - 1 = p + i
    BY <1>1
  <2> HIDE DEF y
  <2> QED BY <2>2, <2>3
<1> HIDE DEF x, y
<1>4. /\ x \o y \in Seq(Sym) /\ Len(x \o y) = n - 1
      /\ \A i \in 1..(n - 1) : (x \o y)[i] = IF i <= p - 1 THEN x[i] ELSE y[i - (p - 1)]
  <2>1. (p - 1) + (n - p) = n - 1
    BY <1>1
  <2>2. Len(x) + Len(y) = n - 1
    BY <1>2, <1>3, <2>1
  <2>3. /\ x \o y \in Seq(Sym) /\ Len(x \o y) = Len(x) + Len(y)
        /\ \A i \in 1..(Len(x) + Len(y)) : (x \o y)[i] = IF i <= Len(x) THEN x[i] ELSE y[i - Len(x)]
    BY <1>2, <1>3, ConcatProperties
  <2> QED BY <1>2, <2>2, <2>3
<1>5. Removed(t, p) \in Seq(Sym) /\ Len(Removed(t, p)) = n - 1
  BY RemovedType
<1>6. ASSUME NEW i \in 1..(n - 1) PROVE Removed(t, p)[i] = (x \o y)[i]
  <2>0. Removed(t, p)[i] = IF i < p THEN t[i] ELSE t[i + 1]
    BY DEF Removed
  <2>1. CASE i < p
    <3>1. i \in 1..(p - 1) /\ i <= p - 1
      BY <1>1, <2>1
    <3> QED BY <1>2, <1>4, <2>0, <2>1, <3>1
  <2>2. CASE ~(i < p)
    <3>1. i - (p - 1) \in 1..(n - p) /\ p + (i - (p - 1)) = i + 1 /\ ~(i <= p - 1)
      BY <1>1, <2>2
    <3>2. y[i - (p - 1)] = t[i + 1]
      BY <1>3, <3>1
    <3> QED BY <1>4, <2>0, <2>2, <3>1, <3>2
  <2> QED BY <2>1, <2>2
<1> HIDE DEF n
<1>7. Removed(t, p) = x \o y
  BY <1>4, <1>5, <1>6, SeqEqual
<1> QED BY <1>7 DEF x, y

(* A character removed and another inserted in its place.                  *)
LEMMA ReplacedIs ==
    ASSUME NEW t \in Seq(Sym), NEW p \in 0..Len(t), p < Len(t), NEW c \in Sym
    PROVE  Inserted(Removed(t, p + 1), p, c) = [t EXCEPT ![p + 1] = c]
<1> DEFINE n == Len(t)
           r == Removed(t, p + 1)
           u == Inserted(r, p, c)
           w == [t EXCEPT ![p + 1] = c]
<1>1. n \in Nat /\ p \in Nat /\ p < n /\ p + 1 \in 1..n
  BY LenProperties
<1>2. r \in Seq(Sym) /\ Len(r) = n - 1
  BY <1>1, RemovedType
<1>3. \A i \in 1..(n - 1) : r[i] = IF i < p + 1 THEN t[i] ELSE t[i + 1]
  BY DEF Removed
<1> HIDE DEF r
<1>4. u \in Seq(Sym) /\ Len(u) = n
  <2>1. p \in 0..Len(r) /\ Len(r) + 1 = n
    BY <1>1, <1>2
  <2> QED BY <1>2, <2>1, InsertedType
<1>5. \A i \in 1..n : u[i] = IF i <= p THEN r[i] ELSE IF i = p + 1 THEN c ELSE r[i - 1]
  <2>1. Len(r) + 1 = n
    BY <1>1, <1>2
  <2> QED BY <2>1 DEF Inserted
<1>6. /\ w \in Seq(Sym) /\ Len(w) = n
      /\ \A i \in 1..n : w[i] = IF i = p + 1 THEN c ELSE t[i]
  BY <1>1, ExceptSeq
<1> HIDE DEF u, w
<1>7. ASSUME NEW i \in 1..n PROVE u[i] = w[i]
  <2>1. CASE i <= p
    <3>1. i \in 1..(n - 1) /\ i < p + 1 /\ i # p + 1
      BY <1>1, <2>1
    <3> QED BY <1>3, <1>5, <1>6, <2>1, <3>1
  <2>2. CASE i = p + 1
    <3>1. ~(i <= p)
      BY <1>1, <2>2
    <3> QED BY <1>5, <1>6, <2>2, <3>1
  <2>3. CASE ~(i <= p) /\ i # p + 1
    <3>1. i - 1 \in 1..(n - 1) /\ ~(i - 1 < p + 1) /\ (i - 1) + 1 = i
      BY <1>1, <2>3
    <3> QED BY <1>3, <1>5, <1>6, <2>3, <3>1
  <2> QED BY <2>1, <2>2, <2>3
<1> HIDE DEF n
<1>8. u = w
  BY <1>4, <1>6, <1>7, SeqEqual
<1> QED BY <1>8 DEF u, w, r

-----------------------------------------------------------------------------
(* Editing the buffer.                                                     *)

(* The text after a full array has grown: the first GapSize characters go  *)
(* behind the others when the cursor is before them and there are others.  *)
Turns(t, p) == p = 0 /\ Len(t) > GapSize
Turned(t) ==
    [i \in 1..Len(t) |-> IF i <= Len(t) - GapSize THEN t[i + GapSize]
                         ELSE t[i - (Len(t) - GapSize)]]
Grown(t, p) == IF Turns(t, p) THEN Turned(t) ELSE t

LEMMA GrownType ==
    ASSUME NEW t \in Seq(Sym), NEW p
    PROVE  Grown(t, p) \in Seq(Sym) /\ Len(Grown(t, p)) = Len(t)
<1>1. Len(t) \in Nat /\ \A i \in 1..Len(t) : t[i] \in Sym
  BY LenProperties, ElementOfSeq
<1>2. CASE ~ Turns(t, p)
  BY <1>2 DEF Grown
<1>3. CASE Turns(t, p)
  <2>1. GapSize \in Nat /\ Len(t) > GapSize
    BY <1>3, GapBufferAssumption DEF Turns
  <2>2. ASSUME NEW i \in 1..Len(t)
        PROVE  (IF i <= Len(t) - GapSize THEN t[i + GapSize]
                ELSE t[i - (Len(t) - GapSize)]) \in Sym
    <3>1. CASE i <= Len(t) - GapSize
      <4>1. i + GapSize \in 1..Len(t)
        BY <1>1, <2>1, <3>1
      <4> QED BY <1>1, <3>1, <4>1
    <3>2. CASE ~(i <= Len(t) - GapSize)
      <4>1. i - (Len(t) - GapSize) \in 1..Len(t)
        BY <1>1, <2>1, <3>2
      <4> QED BY <1>1, <3>2, <4>1
    <3> QED BY <3>1, <3>2
  <2>3. Turned(t) \in [1..Len(t) -> Sym]
    BY <2>2 DEF Turned
  <2> QED BY <1>1, <1>3, <2>3, FcnIsSeq DEF Grown
<1> QED BY <1>2, <1>3

(* Where a full array can grow without a panic.                            *)
LEMMA GrowsAt ==
    ASSUME NEW g, NEW t, Rep(g, t), g.gap = 0, Size(g) >= GapSize, ~ insert_panics(g)
    PROVE  g.cursor = Size(g) \/ Size(g) = GapSize \/ Turns(t, g.cursor)
<1> DEFINE n == Size(g)
           p == g.cursor
           q == GapSize
<1>1. n \in Nat /\ p \in Nat /\ n = Len(t) /\ p <= n /\ n >= q
  BY RepType
<1>2. q \in Nat /\ q > 0
  BY GapBufferAssumption
<1>3. \A k \in p..(n - 1) : k < p + q => ~(k >= q)
  BY DEF insert_panics, Moved
<1> SUFFICES ASSUME p # n, n # q, p # 0 PROVE FALSE
  BY <1>1, <1>2 DEF Turns
<1> HIDE DEF n, p, q
<1>4. CASE p + q <= n
  <2>1. p + q - 1 \in p..(n - 1) /\ p + q - 1 < p + q /\ p + q - 1 >= q
    BY <1>1, <1>2, <1>4
  <2> QED BY <1>3, <2>1
<1>5. CASE ~(p + q <= n)
  <2>1. n - 1 \in p..(n - 1) /\ n - 1 < p + q /\ n - 1 >= q
    BY <1>1, <1>2, <1>5
  <2> QED BY <1>3, <2>1
<1> QED BY <1>4, <1>5

(* The array grows and the gap opens at the cursor.                        *)
LEMMA ReallocRep ==
    ASSUME NEW g, NEW t, Rep(g, t), g.gap = 0, Size(g) >= GapSize, ~ insert_panics(g)
    PROVE  /\ Rep(realloc(g), Grown(t, g.cursor))
           /\ realloc(g).cursor = g.cursor /\ realloc(g).gap = GapSize
<1> DEFINE n == Size(g)
           p == g.cursor
           q == GapSize
           u == Grown(t, p)
           M == Moved(g)
           b == [i \in 1..(n + q) |->
                   IF i - 1 \in M THEN NUL
                   ELSE IF i - 1 - n \in M THEN Cell(g, i - 1 - n)
                   ELSE IF i <= n THEN g.buffer[i] ELSE NUL]
<1>1. /\ Len(t) \in Nat /\ n \in Nat /\ n = Len(t) /\ n >= 1 /\ p \in Nat /\ p <= n
      /\ t \in Seq(Sym) /\ g.line_start \in 0..n
  BY RepType DEF Rep
<1>2. q \in Nat /\ q > 0 /\ n >= q
  BY GapBufferAssumption
<1>3. \A k \in Int : k \in M <=> p <= k /\ k <= n - 1 /\ k < p + q
  BY <1>1 DEF Moved
<1>4. realloc(g) = [buffer |-> b, cursor |-> p, gap |-> q, line_start |-> g.line_start]
  <2>1. PICK b0, p0, q0, m : g = [buffer |-> b0, cursor |-> p0, gap |-> q0, line_start |-> m]
    BY Zenon DEF Rep
  <2> HIDE DEF b, q
  <2>2. realloc(g) = [g EXCEPT !.gap = q, !.buffer = b]
    BY DEF realloc, b, q
  <2> QED BY <2>1, <2>2
<1>5. \A i \in 1..n : g.buffer[i] = t[i]
  <2>1. \A i \in 1..n : i <= p \/ (~(i <= p) /\ ~(i <= p + g.gap) /\ i - g.gap = i)
    BY <1>1
  <2> QED BY <2>1 DEF Rep
<1>6. u \in Seq(Sym) /\ Len(u) = n /\ \A i \in 1..n : u[i] \in Sym
  <2>1. u \in Seq(Sym) /\ Len(u) = n
    BY <1>1, GrownType
  <2> HIDE DEF u, n
  <2> QED BY <2>1, ElementOfSeq
<1>7. p = n \/ n = q \/ (p = 0 /\ n > q)
  BY <1>1, GrowsAt DEF Turns
<1>8. \A i \in 1..(n + q) :
        b[i] = IF i - 1 \in M THEN NUL
               ELSE IF i - 1 - n \in M THEN g.buffer[i - n]
               ELSE IF i <= n THEN g.buffer[i] ELSE NUL
  <2>1. \A i \in 1..(n + q) : (i - 1 - n) + 1 = i - n
    BY <1>1, <1>2
  <2> QED BY <2>1 DEF Cell
<1>9. (p = 0 /\ n > q) =>
        \A i \in 1..n : u[i] = IF i <= n - q THEN t[i + q] ELSE t[i - (n - q)]
  BY <1>1 DEF Grown, Turns, Turned
<1>10. ~(p = 0 /\ n > q) => u = t
  BY <1>1 DEF Grown, Turns
<1> HIDE DEF b, n, p, q, u, M
<1>11. ASSUME NEW i \in 1..(n + q)
       PROVE  b[i] = IF i <= p THEN u[i] ELSE IF i <= p + q THEN NUL ELSE u[i - q]
  <2>0. /\ i \in Int /\ 1 <= i /\ i <= n + q
        /\ i - 1 \in M <=> p <= i - 1 /\ i <= n /\ i <= p + q
        /\ i - 1 - n \in M <=> p <= i - 1 - n /\ i - n <= n /\ i - n <= p + q
    BY <1>1, <1>2, <1>3
  <2>1. CASE p = n
    <3>1. i - 1 \notin M /\ i - 1 - n \notin M /\ u = t
      BY <1>1, <1>2, <1>10, <2>0, <2>1
    <3>2. i <= n => i \in 1..n
      BY <1>1, <2>0
    <3>3. i <= p + q
      BY <2>0, <2>1
    <3> QED BY <1>5, <1>8, <2>1, <3>1, <3>2, <3>3
  <2>2. CASE n = q /\ p # n
    <3>1. u = t
      BY <1>1, <1>2, <1>10, <2>2
    <3>2. CASE i <= p
      <4>1. i - 1 \notin M /\ i - 1 - n \notin M /\ i <= n /\ i \in 1..n
        BY <1>1, <2>0, <3>2
      <4> QED BY <1>5, <1>8, <3>1, <3>2, <4>1
    <3>3. CASE ~(i <= p) /\ i <= n
      <4>1. i - 1 \in M /\ i <= p + q
        BY <1>1, <2>0, <2>2, <3>3
      <4> QED BY <1>8, <3>3, <4>1
    <3>4. CASE ~(i <= n) /\ i <= p + q
      <4>1. i - 1 \notin M /\ i - 1 - n \notin M /\ ~(i <= p)
        BY <1>1, <2>0, <2>2, <3>4
      <4> QED BY <1>8, <3>4, <4>1
    <3>5. CASE ~(i <= p + q)
      <4>1. i - 1 \notin M /\ i - 1 - n \in M /\ ~(i <= p) /\ i - n \in 1..n /\ i - n = i - q
        BY <1>1, <1>2, <2>0, <2>2, <3>5
      <4> QED BY <1>5, <1>8, <3>1, <3>5, <4>1
    <3>6. i <= n \/ i <= p + q \/ ~(i <= p + q)
      OBVIOUS
    <3> QED BY <3>2, <3>3, <3>4, <3>5, <3>6
  <2>3. CASE p = 0 /\ n > q
    <3>1. CASE i <= q
      <4>1. i - 1 \in M /\ ~(i <= p) /\ i <= p + q
        BY <1>1, <1>2, <2>0, <2>3, <3>1
      <4> QED BY <1>8, <4>1
    <3>2. CASE ~(i <= q) /\ i <= n
      <4>1. /\ i - 1 \notin M /\ i - 1 - n \notin M /\ ~(i <= p) /\ ~(i <= p + q)
            /\ i \in 1..n /\ i - q \in 1..n /\ i - q <= n - q /\ (i - q) + q = i
        BY <1>1, <1>2, <2>0, <2>3, <3>2
      <4>2. u[i - q] = t[i]
        BY <1>9, <2>3, <4>1
      <4> QED BY <1>5, <1>8, <3>2, <4>1, <4>2
    <3>3. CASE ~(i <= n)
      <4>1. /\ i - 1 \notin M /\ i - 1 - n \in M /\ ~(i <= p) /\ ~(i <= p + q)
            /\ i - n \in 1..n /\ i - q \in 1..n /\ ~(i - q <= n - q)
            /\ (i - q) - (n - q) = i - n
        BY <1>1, <1>2, <2>0, <2>3, <3>3
      <4>2. u[i - q] = t[i - n]
        BY <1>9, <2>3, <4>1
      <4> QED BY <1>5, <1>8, <4>1, <4>2
    <3>4. i <= q \/ ~(i <= q)
      OBVIOUS
    <3> QED BY <3>1, <3>2, <3>3, <3>4
  <2> QED BY <1>7, <2>1, <2>2, <2>3
<1>12. b \in [1..(n + q) -> Sym]
  <2>1. \A i \in 1..(n + q) : (i <= p => i \in 1..n) /\ (~(i <= p + q) => i - q \in 1..n)
    BY <1>1, <1>2
  <2>2. \A i \in 1..(n + q) : b[i] \in Sym
    BY <1>6, <1>11, <2>1
  <2>3. b = [i \in 1..(n + q) |-> b[i]]
    BY DEF b
  <2> QED BY <2>2, <2>3
<1>13. n + q \in Nat /\ n + q >= 1 /\ p \in 0..Len(u) /\ n + q = Len(u) + q
  BY <1>1, <1>2, <1>6
<1>14. Cells(b, u, p, q) /\ Len(b) = n + q
  BY <1>2, <1>6, <1>11, <1>12, <1>13, CellsFrom
<1>15. g.line_start \in 0..Len(b)
  BY <1>1, <1>2, <1>14
<1>16. Rep(realloc(g), u) /\ realloc(g).cursor = p /\ realloc(g).gap = q
  BY <1>4, <1>14, <1>15, Build
<1> QED BY <1>16 DEF p, q, u

(* The second half of insert, into a gap.                                  *)
LEMMA FillRep ==
    ASSUME NEW g, NEW t, Rep(g, t), g.gap > 0, NEW c \in Sym
    PROVE  LET h == SetLineStartAt([g EXCEPT !.buffer[g.cursor + 1] = c,
                                             !.cursor = @ + 1, !.gap = @ - 1], c)
           IN  /\ Rep(h, Inserted(t, g.cursor, c))
               /\ h.cursor = g.cursor + 1 /\ h.gap = g.gap - 1
<1> DEFINE p == g.cursor
           q == g.gap
           n == Size(g)
           b == [g.buffer EXCEPT ![p + 1] = c]
           u == Inserted(t, p, c)
<1>1. /\ Len(t) \in Nat /\ n \in Nat /\ q \in Nat /\ p \in Nat /\ p <= Len(t) /\ q > 0
      /\ n = Len(t) + q /\ n >= 1
      /\ g.buffer \in [1..n -> Sym]
      /\ t \in Seq(Sym) /\ g.line_start \in 0..n
  BY RepType, LenProperties DEF Rep, Size
<1>2. PICK e : e = [g EXCEPT !.buffer[g.cursor + 1] = c, !.cursor = @ + 1, !.gap = @ - 1]
  OBVIOUS
<1>3. e = [buffer |-> b, cursor |-> p + 1, gap |-> q - 1, line_start |-> g.line_start]
  <2>1. PICK b0, p0, q0, m : g = [buffer |-> b0, cursor |-> p0, gap |-> q0, line_start |-> m]
    BY Zenon DEF Rep
  <2> QED BY <1>2, <2>1
<1>4. /\ b \in [1..n -> Sym]
      /\ \A i \in 1..n : b[i] = IF i = p + 1 THEN c ELSE g.buffer[i]
  <2>1. p + 1 \in 1..n
    BY <1>1
  <2> HIDE DEF n, p
  <2> QED BY <1>1, <2>1
<1>5. /\ u \in Seq(Sym) /\ Len(u) = Len(t) + 1
      /\ \A i \in 1..(Len(t) + 1) :
           u[i] = IF i <= p THEN t[i] ELSE IF i = p + 1 THEN c ELSE t[i - 1]
  <2>1. p \in 0..Len(t)
    BY <1>1
  <2> HIDE DEF p
  <2>2. \A i \in 1..(Len(t) + 1) :
           u[i] = IF i <= p THEN t[i] ELSE IF i = p + 1 THEN c ELSE t[i - 1]
    BY DEF Inserted
  <2> QED BY <1>1, <2>1, <2>2, InsertedType
<1>6. ASSUME NEW i \in 1..n
      PROVE  b[i] = IF i <= p + 1 THEN u[i]
                    ELSE IF i <= (p + 1) + (q - 1) THEN NUL ELSE u[i - (q - 1)]
  <2>0. /\ i \in Int
        /\ g.buffer[i] = IF i <= p THEN t[i] ELSE IF i <= p + q THEN NUL ELSE t[i - q]
    BY <1>1 DEF Rep
  <2> HIDE DEF n, b, p, q, u
  <2>1. CASE i = p + 1
    <3>1. i <= p + 1 /\ ~(i <= p) /\ i \in 1..(Len(t) + 1)
      BY <1>1, <2>1
    <3> QED BY <1>4, <1>5, <2>1, <3>1
  <2>2. CASE i <= p
    <3>1. i <= p + 1 /\ i # p + 1 /\ i \in 1..(Len(t) + 1)
      BY <1>1, <2>2
    <3> QED BY <1>4, <1>5, <2>0, <2>2, <3>1
  <2>3. CASE ~(i <= p) /\ i # p + 1 /\ i <= p + q
    <3>1. ~(i <= p + 1) /\ i <= (p + 1) + (q - 1)
      BY <1>1, <2>0, <2>3
    <3> QED BY <1>4, <2>0, <2>3, <3>1
  <2>4. CASE ~(i <= p + q)
    <3>1. /\ ~(i <= p + 1) /\ ~(i <= (p + 1) + (q - 1)) /\ ~(i <= p) /\ i # p + 1
          /\ i - (q - 1) \in 1..(Len(t) + 1) /\ ~(i - (q - 1) <= p) /\ i - (q - 1) # p + 1
          /\ (i - (q - 1)) - 1 = i - q
      BY <1>1, <2>0, <2>4
    <3>2. u[i - (q - 1)] = t[i - q]
      BY <1>5, <3>1
    <3> QED BY <1>4, <2>0, <2>4, <3>1, <3>2
  <2> QED BY <1>1, <2>0, <2>1, <2>2, <2>3, <2>4
<1> HIDE DEF b, p, q, n, u
<1>7. p + 1 \in 0..Len(u) /\ q - 1 \in Nat /\ n = Len(u) + (q - 1)
  BY <1>1, <1>5
<1>8. Cells(b, u, p + 1, q - 1) /\ Len(b) = n
  <2> DEFINE p2 == p + 1
             q2 == q - 1
  <2>1. /\ n \in Nat /\ n >= 1 /\ b \in [1..n -> Sym] /\ u \in Seq(Sym)
        /\ p2 \in 0..Len(u) /\ q2 \in Nat /\ n = Len(u) + q2
    BY <1>1, <1>4, <1>5, <1>7
  <2>2. \A i \in 1..n :
          b[i] = IF i <= p2 THEN u[i] ELSE IF i <= p2 + q2 THEN NUL ELSE u[i - q2]
    BY <1>6
  <2> HIDE DEF p2, q2
  <2>3. Cells(b, u, p2, q2) /\ Len(b) = n
    BY <2>1, <2>2, CellsFrom
  <2> QED BY <2>3 DEF p2, q2
<1>9. /\ Rep(SetLineStartAt(e, c), u)
      /\ SetLineStartAt(e, c).cursor = p + 1 /\ SetLineStartAt(e, c).gap = q - 1
  BY <1>1, <1>3, <1>8, BuildSet
<1> QED BY <1>2, <1>9 DEF u, p, q

(* A gap takes the character without a panic.                              *)
LEMMA InsertSafe == ASSUME NEW g, NEW t, Rep(g, t), g.gap > 0 PROVE ~ insert_panics(g)
<1>1. /\ g.gap \in Nat /\ g.cursor \in Nat /\ Size(g) = Len(t) + g.gap /\ Len(t) \in Nat
      /\ g.cursor <= Len(t)
  BY RepType
<1>2. /\ g.cursor + 1 \in 1..Size(g) /\ ~(g.cursor + 1 <= g.cursor)
      /\ g.cursor + 1 <= g.cursor + g.gap /\ g.gap # 0
  BY <1>1
<1>3. g.buffer[g.cursor + 1] = NUL
  BY <1>2 DEF Rep
<1> QED BY <1>2, <1>3 DEF insert_panics, Cell

(* The text a character is inserted in: a full array grows first.          *)
Opened(g, t) == IF g.gap = 0 THEN Grown(t, g.cursor) ELSE t

(* A character typed before the text as it was turned.                     *)
LEMMA TurnedIs ==
    ASSUME NEW t \in Seq(Sym), Turns(t, 0), NEW c \in Sym
    PROVE  Inserted(Turned(t), 0, c) =
             <<c>> \o SubSeq(t, GapSize + 1, Len(t)) \o SubSeq(t, 1, GapSize)
<1> DEFINE n == Len(t)
           q == GapSize
           r == Turned(t)
           u == Inserted(r, 0, c)
           x == <<c>>
           y == SubSeq(t, q + 1, n)
           z == SubSeq(t, 1, q)
<1>1. n \in Nat /\ q \in Nat /\ q > 0 /\ n > q /\ \A i \in 1..n : t[i] \in Sym
  BY LenProperties, ElementOfSeq, GapBufferAssumption DEF Turns
<1>2. /\ r \in Seq(Sym) /\ Len(r) = n
      /\ \A i \in 1..n : r[i] = IF i <= n - q THEN t[i + q] ELSE t[i - (n - q)]
  <2>1. Grown(t, 0) = r
    BY DEF Grown
  <2> QED BY <2>1, GrownType DEF Turned
<1> HIDE DEF r
<1>3. /\ u \in Seq(Sym) /\ Len(u) = n + 1
      /\ \A i \in 1..(n + 1) : u[i] = IF i = 1 THEN c ELSE r[i - 1]
  <2>1. 0 \in 0..Len(r) /\ Len(r) + 1 = n + 1
    BY <1>1, <1>2
  <2>2. u \in Seq(Sym) /\ Len(u) = n + 1
    BY <1>2, <2>1, InsertedType
  <2>3. \A i \in 1..(n + 1) :
          u[i] = IF i <= 0 THEN r[i] ELSE IF i = 0 + 1 THEN c ELSE r[i - 1]
    BY <2>1 DEF Inserted
  <2> HIDE DEF u
  <2>4. \A i \in 1..(n + 1) : ~(i <= 0)
    OBVIOUS
  <2> QED BY <2>2, <2>3, <2>4
<1>4. y \in Seq(Sym) /\ Len(y) = n - q /\ \A i \in 1..(n - q) : y[i] = t[i + q]
  <2>1. \A i \in (q + 1)..n : t[i] \in Sym
    BY <1>1
  <2>2. /\ y \in Seq(Sym) /\ Len(y) = IF q + 1 <= n THEN n - (q + 1) + 1 ELSE 0
        /\ \A i \in 1..(n - (q + 1) + 1) : y[i] = t[(q + 1) + i - 1]
    BY <1>1, <2>1, SubSeqProperties
  <2>3. n - (q + 1) + 1 = n - q /\ q + 1 <= n /\ \A i \in 1..(n - q) : (q + 1) + i - 1 = i + q
    BY <1>1
  <2> HIDE DEF y
  <2> QED BY <2>2, <2>3
<1>5. z \in Seq(Sym) /\ Len(z) = q /\ \A i \in 1..q : z[i] = t[i]
  <2>1. \A i \in 1..q : t[i] \in Sym
    BY <1>1
  <2>2. /\ z \in Seq(Sym) /\ Len(z) = IF 1 <= q THEN q - 1 + 1 ELSE 0
        /\ \A i \in 1..(q - 1 + 1) : z[i] = t[1 + i - 1]
    BY <1>1, <2>1, SubSeqProperties
  <2>3. q - 1 + 1 = q /\ 1 <= q /\ \A i \in 1..q : 1 + i - 1 = i
    BY <1>1
  <2> HIDE DEF z
  <2> QED BY <2>2, <2>3
<1>6. x \in Seq(Sym) /\ Len(x) = 1 /\ x[1] = c
  OBVIOUS
<1> HIDE DEF u, x, y, z
<1> DEFINE xy == x \o y
<1>7. /\ xy \in Seq(Sym) /\ Len(xy) = (n - q) + 1
      /\ \A i \in 1..((n - q) + 1) : xy[i] = IF i <= 1 THEN x[i] ELSE y[i - 1]
  <2>1. Len(x) + Len(y) = (n - q) + 1
    BY <1>1, <1>4, <1>6
  <2>2. /\ xy \in Seq(Sym) /\ Len(xy) = Len(x) + Len(y)
        /\ \A i \in 1..(Len(x) + Len(y)) :
             xy[i] = IF i <= Len(x) THEN x[i] ELSE y[i - Len(x)]
    BY <1>4, <1>6, ConcatProperties
  <2> HIDE DEF xy
  <2> QED BY <1>6, <2>1, <2>2
<1> HIDE DEF xy
<1>8. /\ xy \o z \in Seq(Sym) /\ Len(xy \o z) = n + 1
      /\ \A i \in 1..(n + 1) :
           (xy \o z)[i] = IF i <= (n - q) + 1 THEN xy[i] ELSE z[i - ((n - q) + 1)]
  <2>1. Len(xy) + Len(z) = n + 1
    BY <1>1, <1>5, <1>7
  <2> QED BY <1>5, <1>7, <2>1, ConcatProperties
<1> DEFINE w == xy \o z
<1> HIDE DEF w
<1>9. ASSUME NEW i \in 1..(n + 1) PROVE u[i] = w[i]
  <2> HIDE DEF n, q
  <2>0. w[i] = IF i <= (n - q) + 1 THEN xy[i] ELSE z[i - ((n - q) + 1)]
    BY <1>8 DEF w
  <2>1. CASE i = 1
    <3>1. i <= (n - q) + 1 /\ i \in 1..((n - q) + 1) /\ i <= 1
      BY <1>1, <2>1
    <3> QED BY <1>3, <1>6, <1>7, <2>0, <2>1, <3>1
  <2>2. CASE i # 1 /\ i <= (n - q) + 1
    <3>1. /\ i \in 1..((n - q) + 1) /\ ~(i <= 1) /\ i - 1 \in 1..(n - q)
          /\ i - 1 \in 1..n /\ i - 1 <= n - q
      BY <1>1, <2>2
    <3>2. xy[i] = t[(i - 1) + q]
      BY <1>4, <1>7, <3>1
    <3>3. u[i] = t[(i - 1) + q]
      BY <1>2, <1>3, <2>2, <3>1
    <3> QED BY <2>0, <2>2, <3>2, <3>3
  <2>3. CASE ~(i <= (n - q) + 1)
    <3>1. /\ i # 1 /\ i - ((n - q) + 1) \in 1..q /\ i - 1 \in 1..n /\ ~(i - 1 <= n - q)
          /\ (i - 1) - (n - q) = i - ((n - q) + 1)
      BY <1>1, <2>3
    <3>2. u[i] = t[i - ((n - q) + 1)]
      BY <1>2, <1>3, <3>1
    <3>3. z[i - ((n - q) + 1)] = t[i - ((n - q) + 1)]
      BY <1>5, <3>1
    <3> QED BY <2>0, <2>3, <3>2, <3>3
  <2> QED BY <2>1, <2>2, <2>3
<1>10. w \in Seq(Sym) /\ Len(w) = n + 1
  BY <1>8 DEF w
<1> HIDE DEF n
<1>11. u = w
  BY <1>3, <1>9, <1>10, SeqEqual
<1> QED BY <1>11 DEF u, w, xy, x, y, z, r, n, q

LEMMA InsertRep ==
    ASSUME NEW g, NEW t, Rep(g, t), Size(g) >= GapSize, ~ insert_panics(g), NEW c \in Sym
    PROVE  /\ Rep(insert(g, c), Inserted(Opened(g, t), g.cursor, c))
           /\ insert(g, c).cursor = g.cursor + 1
           /\ insert(g, c).gap = (IF g.gap = 0 THEN GapSize ELSE g.gap) - 1
<1>1. g.gap \in Nat /\ GapSize \in Nat /\ GapSize > 0
  BY RepType, GapBufferAssumption
<1>2. CASE g.gap = 0
  <2> DEFINE h == realloc(g)
             u == Grown(t, g.cursor)
  <2>1. Rep(h, u) /\ h.cursor = g.cursor /\ h.gap = GapSize
    BY <1>2, ReallocRep
  <2>2. insert(g, c) = SetLineStartAt([h EXCEPT !.buffer[h.cursor + 1] = c,
                                                !.cursor = @ + 1, !.gap = @ - 1], c)
    BY <1>2 DEF insert
  <2> HIDE DEF h, u
  <2>3. /\ Rep(insert(g, c), Inserted(u, h.cursor, c))
        /\ insert(g, c).cursor = h.cursor + 1 /\ insert(g, c).gap = h.gap - 1
    BY <1>1, <2>1, <2>2, FillRep
  <2>4. Opened(g, t) = u
    BY <1>2 DEF Opened, u
  <2> QED BY <1>2, <2>1, <2>3, <2>4
<1>3. CASE g.gap # 0
  <2>1. insert(g, c) = SetLineStartAt([g EXCEPT !.buffer[g.cursor + 1] = c,
                                                !.cursor = @ + 1, !.gap = @ - 1], c)
    BY <1>3 DEF insert
  <2>2. g.gap > 0
    BY <1>1, <1>3
  <2>3. /\ Rep(insert(g, c), Inserted(t, g.cursor, c))
        /\ insert(g, c).cursor = g.cursor + 1 /\ insert(g, c).gap = g.gap - 1
    BY <2>1, <2>2, FillRep
  <2> QED BY <1>3, <2>3 DEF Opened
<1> QED BY <1>2, <1>3

LEMMA BackspaceRep ==
    ASSUME NEW g, NEW t, Rep(g, t), g.cursor > 0
    PROVE  /\ Rep(backspace(g), Removed(t, g.cursor))
           /\ backspace(g).cursor = g.cursor - 1 /\ backspace(g).gap = g.gap + 1
<1> DEFINE p == g.cursor
           q == g.gap
           n == Size(g)
           b == [g.buffer EXCEPT ![p] = NUL]
           u == Removed(t, p)
<1>1. /\ Len(t) \in Nat /\ n \in Nat /\ q \in Nat /\ p \in Nat /\ p <= Len(t) /\ p > 0
      /\ n = Len(t) + q /\ n >= 1
      /\ g.buffer \in [1..n -> Sym]
      /\ t \in Seq(Sym) /\ g.line_start \in 0..n
  BY RepType, LenProperties DEF Rep, Size
<1>2. PICK e : e = [g EXCEPT !.buffer[g.cursor] = NUL, !.cursor = @ - 1, !.gap = @ + 1]
  OBVIOUS
<1>3. e = [buffer |-> b, cursor |-> p - 1, gap |-> q + 1, line_start |-> g.line_start]
  <2>1. PICK b0, p0, q0, m : g = [buffer |-> b0, cursor |-> p0, gap |-> q0, line_start |-> m]
    BY Zenon DEF Rep
  <2> QED BY <1>2, <2>1
<1>4. backspace(g) = SetLineStartAt(e, Cell(g, g.cursor))
  <2>1. g.cursor # 0
    BY <1>1
  <2> QED BY <1>2, <2>1 DEF backspace
<1>5. /\ b \in [1..n -> Sym]
      /\ \A i \in 1..n : b[i] = IF i = p THEN NUL ELSE g.buffer[i]
  <2>1. p \in 1..n
    BY <1>1
  <2> HIDE DEF n, p
  <2> QED BY <1>1, <2>1
<1>6. /\ u \in Seq(Sym) /\ Len(u) = Len(t) - 1
      /\ \A i \in 1..(Len(t) - 1) : u[i] = IF i < p THEN t[i] ELSE t[i + 1]
  <2>1. p \in 1..Len(t)
    BY <1>1
  <2> HIDE DEF p
  <2>2. \A i \in 1..(Len(t) - 1) : u[i] = IF i < p THEN t[i] ELSE t[i + 1]
    BY DEF Removed
  <2> QED BY <1>1, <2>1, <2>2, RemovedType
<1>7. ASSUME NEW i \in 1..n
      PROVE  b[i] = IF i <= p - 1 THEN u[i]
                    ELSE IF i <= (p - 1) + (q + 1) THEN NUL ELSE u[i - (q + 1)]
  <2>0. /\ i \in Int
        /\ g.buffer[i] = IF i <= p THEN t[i] ELSE IF i <= p + q THEN NUL ELSE t[i - q]
    BY <1>1 DEF Rep
  <2> HIDE DEF n, b, p, q, u
  <2>1. CASE i = p
    <3>1. ~(i <= p - 1) /\ i <= (p - 1) + (q + 1)
      BY <1>1, <2>1
    <3> QED BY <1>5, <2>1, <3>1
  <2>2. CASE i <= p /\ i # p
    <3>1. i <= p - 1 /\ i < p /\ i \in 1..(Len(t) - 1)
      BY <1>1, <2>0, <2>2
    <3> QED BY <1>5, <1>6, <2>0, <2>2, <3>1
  <2>3. CASE ~(i <= p) /\ i <= p + q
    <3>1. ~(i <= p - 1) /\ i # p /\ i <= (p - 1) + (q + 1)
      BY <1>1, <2>0, <2>3
    <3> QED BY <1>5, <2>0, <2>3, <3>1
  <2>4. CASE ~(i <= p) /\ ~(i <= p + q)
    <3>1. /\ ~(i <= p - 1) /\ ~(i <= (p - 1) + (q + 1)) /\ i # p
          /\ i - (q + 1) \in 1..(Len(t) - 1) /\ ~(i - (q + 1) < p)
          /\ (i - (q + 1)) + 1 = i - q
      BY <1>1, <2>0, <2>4
    <3>2. u[i - (q + 1)] = t[i - q]
      BY <1>6, <3>1
    <3> QED BY <1>5, <2>0, <2>4, <3>1, <3>2
  <2> QED BY <2>1, <2>2, <2>3, <2>4
<1> HIDE DEF b, p, q, n, u
<1>8. Cells(b, u, p - 1, q + 1) /\ Len(b) = n
  <2> DEFINE p2 == p - 1
             q2 == q + 1
  <2>1. p2 \in 0..Len(u) /\ q2 \in Nat /\ n = Len(u) + q2
    BY <1>1, <1>6
  <2>2. \A i \in 1..n :
          b[i] = IF i <= p2 THEN u[i] ELSE IF i <= p2 + q2 THEN NUL ELSE u[i - q2]
    BY <1>7
  <2>3. n \in Nat /\ n >= 1 /\ b \in [1..n -> Sym] /\ u \in Seq(Sym)
    BY <1>1, <1>5, <1>6
  <2> HIDE DEF p2, q2
  <2>4. Cells(b, u, p2, q2) /\ Len(b) = n
    BY <2>1, <2>2, <2>3, CellsFrom
  <2> QED BY <2>4 DEF p2, q2
<1> DEFINE c == Cell(g, g.cursor)
<1> HIDE DEF c
<1>9. /\ Rep(SetLineStartAt(e, c), u)
      /\ SetLineStartAt(e, c).cursor = p - 1 /\ SetLineStartAt(e, c).gap = q + 1
  BY <1>1, <1>3, <1>8, BuildSet
<1> QED BY <1>4, <1>9 DEF u, p, q, c

(* The cell under the cursor is missing only at the end of a full array.   *)
LEMMA BackspacePanics ==
    ASSUME NEW g, NEW t, Rep(g, t), backspace_panics(g)
    PROVE  g.gap = 0 /\ g.cursor = Size(g)
<1>1. /\ g.gap \in Nat /\ g.cursor \in Nat /\ Size(g) \in Nat /\ g.cursor <= Len(t)
      /\ Len(t) \in Nat /\ Size(g) = Len(t) + g.gap
  BY RepType
<1> QED BY <1>1 DEF backspace_panics

LEMMA DeleteRep ==
    ASSUME NEW g, NEW t, Rep(g, t), g.cursor < Len(t)
    PROVE  /\ Rep(delete(g), Removed(t, g.cursor + 1))
           /\ delete(g).cursor = g.cursor /\ delete(g).gap = g.gap + 1
<1> DEFINE h == right(g)
<1>1. g.cursor \in Nat
  BY RepType
<1>2. Rep(h, t) /\ h.gap = g.gap /\ h.cursor = g.cursor + 1
  BY RightRep
<1>3. delete(g) = backspace(h)
  BY DEF delete
<1> HIDE DEF h
<1>4. /\ Rep(delete(g), Removed(t, h.cursor))
      /\ delete(g).cursor = h.cursor - 1 /\ delete(g).gap = h.gap + 1
  <2>1. h.cursor > 0
    BY <1>1, <1>2
  <2> QED BY <1>2, <1>3, <2>1, BackspaceRep
<1> QED BY <1>1, <1>2, <1>4

(* At the end of the text delete is a backspace.                           *)
LEMMA DeleteAtEnd ==
    ASSUME NEW g, NEW t, Rep(g, t), ~(g.cursor < Len(t))
    PROVE  delete(g) = backspace(g)
<1>1. ~ CanRight(g)
  <2>1. /\ g.gap \in Nat /\ g.cursor \in Nat /\ g.cursor <= Len(t)
        /\ Len(t) \in Nat /\ Size(g) = Len(t) + g.gap
    BY RepType
  <2> QED BY <2>1 DEF CanRight
<1> QED BY <1>1 DEF delete, right

LEMMA DeletePanics ==
    ASSUME NEW g, NEW t, Rep(g, t), delete_panics(g)
    PROVE  g.gap = 0 /\ g.cursor \in {Size(g) - 1, Size(g)}
<1> DEFINE h == right(g)
<1>1. /\ Rep(h, t) /\ h.gap = g.gap
      /\ h.cursor = IF g.cursor < Len(t) THEN g.cursor + 1 ELSE g.cursor
  BY RightRep
<1>2. backspace_panics(h)
  BY DEF delete_panics
<1> HIDE DEF h
<1>3. h.gap = 0 /\ h.cursor = Size(h)
  BY <1>1, <1>2, BackspacePanics
<1>4. Size(h) = Size(g) /\ Size(g) \in Nat /\ g.cursor \in Nat
  BY <1>1, RepType
<1> QED BY <1>1, <1>3, <1>4

LEMMA OverwriteRep ==
    ASSUME NEW g, NEW t, Rep(g, t), Size(g) >= GapSize, g.cursor < Len(t), NEW c \in Sym
    PROVE  /\ Rep(overwrite(g, c), [t EXCEPT ![g.cursor + 1] = c])
           /\ overwrite(g, c).cursor = g.cursor + 1 /\ overwrite(g, c).gap = g.gap
           /\ overwrite_panics(g) => delete_panics(g)
<1> DEFINE p == g.cursor
           r == Removed(t, p + 1)
           u == Inserted(r, p, c)
           d == delete(g)
           i == insert(d, c)
           l == left(i)
           o == right(l)
<1>0. /\ p \in Nat /\ p < Len(t) /\ Len(t) \in Nat /\ g.gap \in Nat /\ t \in Seq(Sym)
      /\ Size(g) = Len(t) + g.gap
  BY RepType DEF Rep
<1>1. CanRight(g)
  BY <1>0 DEF CanRight
<1>2. Rep(d, r) /\ d.cursor = p /\ d.gap = g.gap + 1
  BY DeleteRep
<1>3. overwrite(g, c) = o
  BY <1>1 DEF overwrite, replace
<1>4. overwrite_panics(g) = (delete_panics(g) \/ insert_panics(d))
  BY <1>1 DEF overwrite_panics
<1>5. u = [t EXCEPT ![p + 1] = c]
  <2>1. p \in 0..Len(t)
    BY <1>0
  <2> HIDE DEF p, u, r
  <2>2. Inserted(Removed(t, p + 1), p, c) = [t EXCEPT ![p + 1] = c]
    BY <1>0, <2>1, ReplacedIs
  <2> QED BY <2>2 DEF u, r
<1>6. Len(u) = Len(t)
  <2>1. p + 1 \in 1..Len(t)
    BY <1>0
  <2> HIDE DEF u, p
  <2> QED BY <1>0, <1>5, <2>1, ExceptSeq
<1> HIDE DEF d, p, r
<1>7. Rep(i, u) /\ i.cursor = p + 1 /\ i.gap = g.gap /\ ~ insert_panics(d)
  <2>1. d.gap > 0 /\ d.gap # 0 /\ (g.gap + 1) - 1 = g.gap
    BY <1>0, <1>2
  <2>2. Size(d) = Size(g) /\ Opened(d, r) = r
    <3>1. p + 1 \in 1..Len(t)
      BY <1>0 DEF p
    <3>2. Len(r) = Len(t) - 1
      BY <1>0, <3>1, RemovedType DEF r
    <3>3. Size(d) = Len(r) + d.gap
      BY <1>2, RepType
    <3> QED BY <1>0, <1>2, <2>1, <3>2, <3>3 DEF Opened
  <2>3. ~ insert_panics(d)
    BY <1>2, <2>1, InsertSafe
  <2> QED BY <1>2, <2>1, <2>2, <2>3, InsertRep DEF i, u
<1>8. Rep(l, u) /\ l.cursor = p /\ l.gap = g.gap
  <2>1. p + 1 > 0 /\ (p + 1) - 1 = p
    BY <1>0
  <2> QED BY <1>7, <2>1, LeftRep
<1> HIDE DEF l
<1>9. Rep(o, u) /\ o.cursor = p + 1 /\ o.gap = g.gap
  BY <1>0, <1>6, <1>8, RightRep
<1> QED BY <1>3, <1>4, <1>5, <1>7, <1>9 DEF p

LEMMA OverwriteAtEnd ==
    ASSUME NEW g, NEW t, Rep(g, t), ~(g.cursor < Len(t)), NEW c
    PROVE  overwrite(g, c) = insert(g, c) /\ overwrite_panics(g) = insert_panics(g)
<1>1. ~ CanRight(g)
  <2>1. /\ g.gap \in Nat /\ g.cursor \in Nat /\ g.cursor <= Len(t)
        /\ Len(t) \in Nat /\ Size(g) = Len(t) + g.gap
    BY RepType
  <2> QED BY <2>1 DEF CanRight
<1> QED BY <1>1 DEF overwrite, overwrite_panics

-----------------------------------------------------------------------------
(* Moving by lines keeps the text and the gap.                             *)

LEMMA LineEndIn == ASSUME NEW g, NEW t, Rep(g, t) PROVE LineEnd(g) \in 0..Len(t)
<1> DEFINE S == {k \in LineEnds(g) : k >= g.cursor} \cup {len(g)}
<1>1. Len(t) \in Nat /\ len(g) = Len(t)
  BY RepType
<1>2. LineEnds(g) \subseteq 0..Len(t)
  BY <1>1 DEF LineEnds
<1>3. S \subseteq 0..Len(t) /\ S # {}
  BY <1>1, <1>2
<1>4. LineEnd(g) = Min(S)
  BY DEF LineEnd
<1> HIDE DEF S
<1>5. S \in SUBSET Nat
  BY <1>1, <1>3
<1> QED BY <1>3, <1>4, <1>5, MinOf

LEMMA LeftToNewlineRep ==
    ASSUME NEW g, NEW t, Rep(g, t)
    PROVE  Rep(LeftToNewline(g), t) /\ LeftToNewline(g).gap = g.gap
<1> DEFINE S == {k \in LineEnds(g) : k <= g.cursor} \cup {0}
           at == Max(S)
           m == MoveTo(g, at)
<1>1. Len(t) \in Nat /\ len(g) = Len(t)
  BY RepType
<1>2. LineEnds(g) \subseteq 0..Len(t)
  BY <1>1 DEF LineEnds
<1>3. S \in SUBSET (0..Len(t)) /\ S # {}
  BY <1>1, <1>2
<1>4. LeftToNewline(g) = IF at = g.cursor THEN g ELSE SetLineStartAt(m, get(g, at))
  BY DEF LeftToNewline
<1> HIDE DEF S
<1>5. at \in 0..Len(t)
  BY <1>1, <1>3, MaxOf
<1> HIDE DEF at
<1>6. Rep(m, t) /\ m.gap = g.gap
  BY <1>5, MoveToRep
<1> HIDE DEF m
<1>7. Rep(SetLineStartAt(m, get(g, at)), t) /\ SetLineStartAt(m, get(g, at)).gap = m.gap
  BY <1>6, LineStartSet
<1> QED BY <1>4, <1>6, <1>7

LEMMA LineStartRep ==
    ASSUME NEW g, NEW t, Rep(g, t)
    PROVE  Rep(line_start(g), t) /\ line_start(g).gap = g.gap
<1> DEFINE g1 == IF chr(g) = None THEN left(g) ELSE g
           g2 == IF AtNewline(g1) THEN left(g1) ELSE g1
           g3 == LeftToNewline(g2)
           g4 == IF AtNewline(g3) THEN right(g3) ELSE g3
<1>1. line_start(g) = IF AtNewline(g1) /\ ~ CanLeft(g1) THEN g1 ELSE g4
  BY DEF line_start
<1>2. Rep(g1, t) /\ g1.gap = g.gap
  BY LeftRep
<1> HIDE DEF g1
<1>3. Rep(g2, t) /\ g2.gap = g.gap
  BY <1>2, LeftRep
<1> HIDE DEF g2
<1>4. Rep(g3, t) /\ g3.gap = g.gap
  BY <1>3, LeftToNewlineRep
<1> HIDE DEF g3
<1>5. Rep(g4, t) /\ g4.gap = g.gap
  BY <1>4, RightRep
<1> HIDE DEF g4
<1> QED BY <1>1, <1>2, <1>5

LEMMA LineEndRep ==
    ASSUME NEW g, NEW t, Rep(g, t)
    PROVE  Rep(line_end(g), t) /\ line_end(g).gap = g.gap
BY LineEndIn, MoveToRep DEF line_end, RightToNewline

LEMMA RightInLineRep ==
    ASSUME NEW g, NEW t, Rep(g, t), NEW n \in Nat
    PROVE  Rep(RightInLine(g, n), t) /\ RightInLine(g, n).gap = g.gap
<1> DEFINE k == IF g.cursor + n < LineEnd(g) THEN g.cursor + n ELSE LineEnd(g)
<1>1. g.cursor \in Nat /\ Len(t) \in Nat /\ LineEnd(g) \in 0..Len(t)
  BY RepType, LineEndIn
<1>2. k \in 0..Len(t)
  BY <1>1
<1>3. RightInLine(g, n) = MoveTo(g, k)
  BY DEF RightInLine
<1> HIDE DEF k
<1> QED BY <1>2, <1>3, MoveToRep

LEMMA UpRep ==
    ASSUME NEW g, NEW t, Rep(g, t), NEW n \in Nat
    PROVE  Rep(up(g, n), t) /\ up(g, n).gap = g.gap
<1> DEFINE g1 == line_start(g)
           g2 == left(g1)
           g3 == line_start(g2)
           g4 == RightInLine(g3, n)
<1>1. up(g, n) = IF g.line_start = 0 THEN g ELSE g4
  BY DEF up
<1>2. Rep(g1, t) /\ g1.gap = g.gap
  BY LineStartRep
<1> HIDE DEF g1
<1>3. Rep(g2, t) /\ g2.gap = g.gap
  BY <1>2, LeftRep
<1> HIDE DEF g2
<1>4. Rep(g3, t) /\ g3.gap = g.gap
  BY <1>3, LineStartRep
<1> HIDE DEF g3
<1>5. Rep(g4, t) /\ g4.gap = g.gap
  BY <1>4, RightInLineRep
<1> HIDE DEF g4
<1> QED BY <1>1, <1>5

LEMMA DownRep ==
    ASSUME NEW g, NEW t, Rep(g, t), NEW n \in Nat
    PROVE  Rep(down(g, n), t) /\ down(g, n).gap = g.gap
<1> DEFINE g1 == line_end(g)
           g2 == right(g1)
           g3 == line_start(g2)
<1>1. down(g, n) = RightInLine(g3, n)
  BY DEF down
<1>2. Rep(g1, t) /\ g1.gap = g.gap
  BY LineEndRep
<1> HIDE DEF g1
<1>3. Rep(g2, t) /\ g2.gap = g.gap
  BY <1>2, RightRep
<1> HIDE DEF g2
<1>4. Rep(g3, t) /\ g3.gap = g.gap
  BY <1>3, LineStartRep
<1> HIDE DEF g3
<1> QED BY <1>1, <1>4, RightInLineRep

-----------------------------------------------------------------------------
(* Recursive functions over 0..n.                                          *)

(* A walk of n steps from a, and each next place a function of the number  *)
(* of the step and the place before.                                       *)
IsWalk(f, n, V, a, F) ==
    /\ f \in [0..n -> V]
    /\ f[0] = a
    /\ \A k \in 1..n : f[k] = F[<<k, f[k - 1]>>]

(* A recursive function over 0..n exists: what its next value is made of   *)
(* is a function of its argument and the value before.                     *)
LEMMA WalkExists ==
    ASSUME NEW n \in Nat, NEW V, NEW a \in V, NEW F \in [(1..n) \X V -> V]
    PROVE  \E f : IsWalk(f, n, V, a, F)
<1> DEFINE Walk(m) == \E f \in [0..m -> V] : f[0] = a /\ \A k \in 1..m : f[k] = F[<<k, f[k - 1]>>]
           Bad == {m \in 0..n : ~ Walk(m)}
<1>1. SUFFICES ASSUME Bad # {} PROVE FALSE
  <2>1. n \in 0..n
    OBVIOUS
  <2>2. n \notin Bad
    BY <1>1
  <2>3. Walk(n)
    BY <2>1, <2>2
  <2> QED BY <2>3 DEF IsWalk
<1>2. PICK m \in Bad : \A y \in Bad : m <= y
  <2>1. Bad \in SUBSET Nat
    OBVIOUS
  <2> HIDE DEF Bad
  <2> QED BY <1>1, <2>1, SmallestNat
<1>3. m \in Nat /\ m <= n /\ ~ Walk(m)
  OBVIOUS
<1>4. m # 0
  <2>1. SUFFICES ASSUME m = 0 PROVE Walk(m)
    BY <1>3
  <2> DEFINE f == [k \in 0..m |-> a]
  <2>2. f \in [0..m -> V] /\ f[0] = a /\ 1..m = {}
    BY <2>1
  <2> HIDE DEF f
  <2> QED BY <2>2
<1>5. Walk(m - 1)
  <2>1. m - 1 \in 0..n /\ ~(m <= m - 1)
    BY <1>3, <1>4
  <2>2. m - 1 \notin Bad
    BY <1>2, <2>1
  <2> QED BY <2>1, <2>2
<1>6. PICK f \in [0..(m - 1) -> V] : f[0] = a /\ \A k \in 1..(m - 1) : f[k] = F[<<k, f[k - 1]>>]
  BY <1>5
<1> HIDE DEF Bad
<1> DEFINE h == [k \in 0..m |-> IF k = m THEN F[<<m, f[m - 1]>>] ELSE f[k]]
<1>7. F[<<m, f[m - 1]>>] \in V
  <2>1. m \in 1..n /\ m - 1 \in 0..(m - 1)
    BY <1>3, <1>4
  <2>2. f[m - 1] \in V
    BY <1>6, <2>1
  <2>3. <<m, f[m - 1]>> \in (1..n) \X V
    BY <2>1, <2>2
  <2> QED BY <2>3
<1>8. h \in [0..m -> V]
  <2>1. \A k \in 0..m : k # m => k \in 0..(m - 1)
    BY <1>3, <1>4
  <2> QED BY <1>6, <1>7, <2>1
<1>9. h[0] = a
  <2>1. 0 \in 0..m /\ 0 # m
    BY <1>3, <1>4
  <2> QED BY <1>6, <2>1
<1>10. ASSUME NEW k \in 1..m PROVE h[k] = F[<<k, h[k - 1]>>]
  <2>1. k \in 0..m /\ k - 1 \in 0..m /\ k - 1 # m
    BY <1>3
  <2>2. h[k - 1] = f[k - 1]
    BY <2>1
  <2>3. CASE k = m
    BY <2>1, <2>2, <2>3
  <2>4. CASE k # m
    <3>1. k \in 1..(m - 1)
      BY <1>3, <2>4
    <3> QED BY <1>6, <2>1, <2>2, <2>4, <3>1
  <2> QED BY <2>3, <2>4
<1> HIDE DEF h
<1>11. Walk(m)
  BY <1>8, <1>9, <1>10
<1> QED BY <1>3, <1>11

(* What one step of a walk keeps, the walk keeps.                          *)
LEMMA WalkStays ==
    ASSUME NEW n \in Nat, NEW V, NEW w, w[0] \in V,
           \A k \in 1..n : w[k - 1] \in V => w[k] \in V
    PROVE  \A k \in 0..n : w[k] \in V
<1> DEFINE Bad == {m \in 0..n : w[m] \notin V}
<1>1. SUFFICES ASSUME Bad # {} PROVE FALSE
  OBVIOUS
<1>2. PICK m \in Bad : \A y \in Bad : m <= y
  <2>1. Bad \in SUBSET Nat
    OBVIOUS
  <2> HIDE DEF Bad
  <2> QED BY <1>1, <2>1, SmallestNat
<1>3. m \in Nat /\ m <= n /\ w[m] \notin V
  OBVIOUS
<1>4. m # 0
  BY <1>3
<1>5. m - 1 \in 0..n /\ m \in 1..n /\ ~(m <= m - 1)
  BY <1>3, <1>4
<1>6. m - 1 \notin Bad
  BY <1>2, <1>5
<1>7. w[m - 1] \in V
  BY <1>5, <1>6
<1> HIDE DEF Bad
<1> QED BY <1>3, <1>5, <1>7

-----------------------------------------------------------------------------
(* A new area.                                                             *)

(* A text is no longer than its bytes.                                     *)
LEMMA BytesOfType ==
    ASSUME NEW t \in StartTexts
    PROVE  BytesOf(t) \in Nat /\ BytesOf(t) >= Len(t)
<1> DEFINE n == Len(t)
           F == [kv \in (1..n) \X Nat |-> kv[2] + Bytes[t[kv[1]]]]
           Eq(w) == w = [k \in 0..n |-> IF k = 0 THEN 0 ELSE w[k - 1] + Bytes[t[k]]]
<1>1. n \in Nat /\ \A k \in 1..n : Bytes[t[k]] \in Nat /\ Bytes[t[k]] >= 1
  <2>1. t \in Seq(Char)
    BY TextAreaAssumption
  <2>2. n \in Nat /\ \A k \in 1..n : t[k] \in Char
    BY <2>1, LenProperties, ElementOfSeq
  <2> QED BY <2>2, GapBufferAssumption
<1> HIDE DEF n
<1>2. F \in [(1..n) \X Nat -> Nat] /\ \A k \in 1..n, v \in Nat : F[<<k, v>>] = v + Bytes[t[k]]
  BY <1>1
<1> HIDE DEF F
<1>3. PICK f : IsWalk(f, n, Nat, 0, F)
  <2> DEFINE V == Nat
  <2>1. 0 \in V /\ F \in [(1..n) \X V -> V]
    BY <1>2
  <2> HIDE DEF V
  <2>2. \E f : IsWalk(f, n, V, 0, F)
    BY <1>1, <2>1, WalkExists
  <2> QED BY <2>2 DEF V
<1>4. Eq(f)
  <2>1. ASSUME NEW k \in 0..n
        PROVE  f[k] = IF k = 0 THEN 0 ELSE f[k - 1] + Bytes[t[k]]
    <3>1. CASE k = 0
      BY <1>3, <3>1 DEF IsWalk
    <3>2. CASE k # 0
      <4>1. k \in 1..n /\ k - 1 \in 0..n
        BY <1>1, <3>2
      <4>2. f[k - 1] \in Nat
        BY <1>3, <4>1 DEF IsWalk
      <4> QED BY <1>2, <1>3, <3>2, <4>1, <4>2 DEF IsWalk
    <3> QED BY <3>1, <3>2
  <2> QED BY <1>3, <2>1 DEF IsWalk
<1> DEFINE w == CHOOSE x : Eq(x)
<1>5. Eq(w)
  <2> HIDE DEF Eq
  <2> QED BY <1>4
<1>6. BytesOf(t) = w[n]
  BY DEF BytesOf, n
<1> HIDE DEF w
<1>7. w[0] = 0 /\ \A k \in 1..n : w[k] = w[k - 1] + Bytes[t[k]]
  BY <1>1, <1>5
<1> DEFINE V == {kv \in Nat \X Nat : kv[2] >= kv[1]}
           p == [k \in 0..n |-> <<k, w[k]>>]
<1>8. p[0] \in V
  <2>1. 0 \in 0..n
    BY <1>1
  <2> QED BY <1>7, <2>1
<1>9. ASSUME NEW k \in 1..n, p[k - 1] \in V PROVE p[k] \in V
  <2>1. k \in 0..n /\ k - 1 \in 0..n
    BY <1>1
  <2>2. p[k - 1] = <<k - 1, w[k - 1]>> /\ p[k] = <<k, w[k]>>
    BY <2>1
  <2>3. w[k - 1] \in Nat /\ w[k - 1] >= k - 1
    BY <1>9, <2>2
  <2>4. w[k] \in Nat /\ w[k] >= k
    BY <1>1, <1>7, <2>3
  <2> QED BY <2>1, <2>2, <2>4
<1> HIDE DEF p, V
<1>10. \A k \in 0..n : p[k] \in V
  BY <1>1, <1>8, <1>9, WalkStays
<1>11. n \in 0..n /\ p[n] = <<n, w[n]>>
  BY <1>1 DEF p
<1>12. w[n] \in Nat /\ w[n] >= n
  BY <1>10, <1>11 DEF V
<1> QED BY <1>6, <1>12 DEF n

(* Its array begins with the text and empty cells for the other bytes.     *)
LEMMA NewRep ==
    ASSUME NEW t \in StartTexts
    PROVE  /\ Rep(new(t), Padded(t)) /\ new(t).cursor = Len(Padded(t))
           /\ Size(new(t)) >= GapSize
<1> DEFINE u == Padded(t)
           p == BytesOf(t)
           m == Len(t)
           q == GapSize
           b == [i \in 1..(p + q) |-> IF i <= m THEN t[i] ELSE NUL]
<1>1. /\ t \in Seq(Sym) /\ m \in Nat /\ q \in Nat /\ q > 0 /\ p \in Nat /\ p >= m
      /\ \A i \in 1..m : t[i] \in Sym
  <2>1. t \in Seq(Char)
    BY TextAreaAssumption
  <2>2. m \in Nat /\ \A i \in 1..m : t[i] \in Char
    BY <2>1, LenProperties, ElementOfSeq
  <2>3. t \in [1..m -> Sym]
    BY <2>1, <2>2, LenProperties
  <2>4. t \in Seq(Sym)
    BY <2>2, <2>3, FcnIsSeq
  <2> QED BY <2>2, <2>4, BytesOfType, GapBufferAssumption
<1>2. u \in Seq(Sym) /\ Len(u) = p /\ \A i \in 1..p : u[i] = IF i <= m THEN t[i] ELSE NUL
  <2> DEFINE k == p - m
             pad == [i \in 1..k |-> NUL]
  <2>1. k \in Nat /\ m + k = p
    BY <1>1
  <2>2. pad \in [1..k -> Sym]
    OBVIOUS
  <2>3. u = t \o pad
    BY DEF Padded
  <2> HIDE DEF k
  <2>4. \A i \in 1..k : pad[i] = NUL
    OBVIOUS
  <2> HIDE DEF pad, u, p, m
  <2>5. pad \in Seq(Sym) /\ Len(pad) = k
    BY <2>1, <2>2, FcnIsSeq
  <2>6. /\ u \in Seq(Sym) /\ Len(u) = m + k
        /\ \A i \in 1..(m + k) : u[i] = IF i <= m THEN t[i] ELSE pad[i - m]
    BY <1>1, <2>3, <2>5, ConcatProperties DEF m
  <2>7. \A i \in 1..p : ~(i <= m) => i - m \in 1..k
    BY <1>1, <2>1
  <2> QED BY <2>1, <2>4, <2>6, <2>7
<1> HIDE DEF u
<1>3. PICK e : e = [buffer |-> b, cursor |-> p, gap |-> q, line_start |-> 0]
  OBVIOUS
<1>4. new(t) = SetLineStartAt(e, Newline)
  BY <1>3 DEF new, SetLineStartAt
<1>5. b \in [1..(p + q) -> Sym]
  <2>1. \A i \in 1..(p + q) : i <= m => i \in 1..m
    BY <1>1
  <2> QED BY <1>1, <2>1
<1>6. \A i \in 1..(p + q) :
        b[i] = IF i <= p THEN u[i] ELSE IF i <= p + q THEN NUL ELSE u[i - q]
  <2>1. \A i \in 1..(p + q) : (i <= p => i \in 1..p) /\ i <= p + q /\ (i <= m => i <= p)
    BY <1>1
  <2> QED BY <1>2, <2>1
<1>7. p + q \in Nat /\ p + q >= 1 /\ p + q >= q /\ p \in 0..p /\ p + q = Len(u) + q /\ p \in 0..Len(u)
  BY <1>1, <1>2
<1> HIDE DEF b, q, p
<1>8. Cells(b, u, p, q) /\ Len(b) = p + q
  BY <1>1, <1>2, <1>5, <1>6, <1>7, CellsFrom
<1>9. 0 \in 0..Len(b)
  BY <1>7, <1>8
<1>10. /\ Rep(SetLineStartAt(e, Newline), u) /\ SetLineStartAt(e, Newline).cursor = p
       /\ SetLineStartAt(e, Newline).gap = q
  BY <1>3, <1>8, <1>9, BuildSet
<1>11. Size(new(t)) = p + q
  <2>1. Size(new(t)) = Len(u) + q
    BY <1>4, <1>10, RepType
  <2> QED BY <1>7, <2>1
<1> QED BY <1>2, <1>4, <1>7, <1>10, <1>11 DEF u, q

-----------------------------------------------------------------------------
(* Rows and columns on the way to the cursor.                              *)
LEMMA RowsToType ==
    ASSUME NEW g, NEW s \in Nat, g.cursor \in Nat
    PROVE  \A k \in 0..Monus(g.cursor, s) : RowsTo(g, s)[k] \in Nat \X (0..(NumCols - 1))
<1> DEFINE n == Monus(g.cursor, s)
           V == Nat \X (0..(NumCols - 1))
           Next2(k, v) == IF get(g, s + k - 1) = Newline \/ v[2] + 1 >= NumCols
                          THEN <<v[1] + 1, 0>> ELSE <<v[1], v[2] + 1>>
           F == [kv \in (1..n) \X V |-> Next2(kv[1], kv[2])]
           Eq(w) == w = [k \in 0..n |-> IF k = 0 THEN <<0, 0>> ELSE Next2(k, w[k - 1])]
<1>1. n \in Nat
  BY DEF Monus
<1>2. NumCols \in Nat /\ NumCols > 0
  BY TextAreaAssumption
<1>3. <<0, 0>> \in V
  BY <1>2
<1> HIDE DEF n
<1>4. ASSUME NEW k, NEW v \in V PROVE Next2(k, v) \in V
  <2>1. v[1] \in Nat /\ v[2] \in Nat /\ v[2] <= NumCols - 1
    BY <1>2
  <2>2. <<v[1] + 1, 0>> \in V
    BY <1>2, <2>1
  <2>3. CASE get(g, s + k - 1) = Newline \/ v[2] + 1 >= NumCols
    BY <2>2, <2>3
  <2>4. CASE ~(get(g, s + k - 1) = Newline \/ v[2] + 1 >= NumCols)
    <3>1. <<v[1], v[2] + 1>> \in V
      BY <1>2, <2>1, <2>4
    <3> QED BY <2>4, <3>1
  <2> QED BY <2>3, <2>4
<1> HIDE DEF V
<1>5. F \in [(1..n) \X V -> V] /\ \A k \in 1..n, v \in V : F[<<k, v>>] = Next2(k, v)
  <2>1. \A kv \in (1..n) \X V : kv[2] \in V
    OBVIOUS
  <2> HIDE DEF Next2
  <2> QED BY <1>4, <2>1
<1> HIDE DEF F
<1>6. PICK f : IsWalk(f, n, V, <<0, 0>>, F)
  <2> DEFINE a == <<0, 0>>
  <2>1. a \in V /\ F \in [(1..n) \X V -> V]
    BY <1>3, <1>5
  <2> HIDE DEF a
  <2>2. \E f : IsWalk(f, n, V, a, F)
    BY <1>1, <2>1, WalkExists
  <2> QED BY <2>2 DEF a
<1>7. Eq(f)
  <2> HIDE DEF Next2
  <2>1. ASSUME NEW k \in 0..n
        PROVE  f[k] = IF k = 0 THEN <<0, 0>> ELSE Next2(k, f[k - 1])
    <3>1. CASE k = 0
      BY <1>6, <3>1 DEF IsWalk
    <3>2. CASE k # 0
      <4>1. k \in 1..n /\ k - 1 \in 0..n
        BY <1>1, <3>2
      <4>2. f[k - 1] \in V
        BY <1>6, <4>1 DEF IsWalk
      <4> QED BY <1>5, <1>6, <3>2, <4>1, <4>2 DEF IsWalk
    <3> QED BY <3>1, <3>2
  <2> QED BY <1>6, <2>1 DEF IsWalk
<1> DEFINE w == RowsTo(g, s)
<1>8. w = CHOOSE x : Eq(x)
  BY DEF RowsTo, n
<1>9. Eq(w)
  <2> HIDE DEF Eq, w
  <2> QED BY <1>7, <1>8
<1> HIDE DEF w
<1>10. w[0] \in V
  BY <1>1, <1>3, <1>9
<1>11. ASSUME NEW k \in 1..n, w[k - 1] \in V PROVE w[k] \in V
  <2> HIDE DEF Next2
  <2>1. k \in 0..n /\ k # 0
    BY <1>1
  <2>2. w[k] = Next2(k, w[k - 1])
    BY <1>9, <2>1
  <2> QED BY <1>4, <1>11, <2>2
<1>12. \A k \in 0..n : w[k] \in V
  BY <1>1, <1>10, <1>11, WalkStays
<1> QED BY <1>12 DEF w, n, V

LEMMA CursorLocationType ==
    ASSUME NEW g, NEW t, Rep(g, t), NEW s \in Nat
    PROVE  \/ cursor_location(g, s) = None
           \/ cursor_location(g, s) \in (0..(NumRows - 1)) \X (0..(NumCols - 1))
<1> DEFINE n == Monus(g.cursor, s)
           at == RowsTo(g, s)[n]
<1>1. g.cursor \in Nat /\ NumRows \in Nat
  BY RepType, TextAreaAssumption
<1>2. n \in Nat /\ n \in 0..n
  BY <1>1 DEF Monus
<1>3. at \in Nat \X (0..(NumCols - 1))
  BY <1>1, <1>2, RowsToType
<1>4. cursor_location(g, s) = IF g.cursor < s \/ at[1] >= NumRows THEN None ELSE at
  BY DEF cursor_location
<1> HIDE DEF at
<1>5. PICK r \in Nat, c \in 0..(NumCols - 1) : at = <<r, c>>
  BY <1>3
<1>6. at[1] = r
  BY <1>5
<1>7. CASE g.cursor < s \/ at[1] >= NumRows
  BY <1>4, <1>7
<1>8. CASE ~(g.cursor < s \/ at[1] >= NumRows)
  <2>1. r \in 0..(NumRows - 1)
    BY <1>1, <1>6, <1>8
  <2>2. at \in (0..(NumRows - 1)) \X (0..(NumCols - 1))
    BY <1>5, <2>1
  <2> QED BY <1>4, <1>8, <2>2
<1> QED BY <1>7, <1>8

(* The way back begins at no character.                                    *)
LEMMA RowsBackAt0 ==
    ASSUME NEW g, NEW t, Rep(g, t), g.cursor > 0, NEW rows \in Int
    PROVE  RowsBack(g, rows)[0] = <<rows, 0, None>>
<1> DEFINE n == g.cursor - 1
           C == Sym \cup {None}
           V == Int \X Nat \X C
           Ch(k) == get(g, g.cursor - k)
           Back(k, v) ==
             IF Ch(k) = Newline THEN <<v[1] - 1, 0, Ch(k)>>
             ELSE <<IF g.cursor - k > 1 /\ (v[2] + 1) % NumCols = 0 THEN v[1] - 1 ELSE v[1],
                    v[2] + 1, Ch(k)>>
           F == [kv \in (1..n) \X V |-> Back(kv[1], kv[2])]
           a == <<rows, 0, None>>
           Eq(w) == w = [k \in 0..n |-> IF k = 0 THEN a ELSE Back(k, w[k - 1])]
<1>1. g.cursor \in Nat /\ n \in Nat
  BY RepType
<1>2. a \in V
  OBVIOUS
<1>3. ASSUME NEW k \in 1..n PROVE Ch(k) \in C
  <2>1. g.cursor - k \in Nat /\ (g.cursor - k) + 1 \in Nat /\ Len(t) \in Nat
    BY <1>1, RepType
  <2>2. Ch(k) = IF g.cursor - k < Len(t) THEN t[(g.cursor - k) + 1] ELSE None
    BY <2>1, GetIs
  <2>3. g.cursor - k < Len(t) => (g.cursor - k) + 1 \in 1..Len(t)
    BY <2>1
  <2> QED BY <2>2, <2>3, RepType
<1>4. ASSUME NEW k \in 1..n, NEW v \in V PROVE Back(k, v) \in V
  <2>1. v[1] \in Int /\ v[2] \in Nat /\ Ch(k) \in C
    BY <1>3
  <2> HIDE DEF Ch
  <2>2. v[1] - 1 \in Int /\ v[2] + 1 \in Nat /\ 0 \in Nat
    BY <2>1
  <2> DEFINE r == IF g.cursor - k > 1 /\ (v[2] + 1) % NumCols = 0 THEN v[1] - 1 ELSE v[1]
  <2>3. r \in Int
    BY <2>1, <2>2
  <2>4. Back(k, v) = IF Ch(k) = Newline THEN <<v[1] - 1, 0, Ch(k)>> ELSE <<r, v[2] + 1, Ch(k)>>
    OBVIOUS
  <2> HIDE DEF r, Back
  <2> QED BY <2>1, <2>2, <2>3, <2>4
<1> HIDE DEF V, C, n, a, Back
<1>5. F \in [(1..n) \X V -> V] /\ \A k \in 1..n, v \in V : F[<<k, v>>] = Back(k, v)
  <2>1. \A kv \in (1..n) \X V : kv[1] \in 1..n /\ kv[2] \in V
    OBVIOUS
  <2> QED BY <1>4, <2>1
<1> HIDE DEF F
<1>6. PICK f : IsWalk(f, n, V, a, F)
  BY <1>1, <1>2, <1>5, WalkExists
<1>7. Eq(f)
  <2>1. ASSUME NEW k \in 0..n
        PROVE  f[k] = IF k = 0 THEN a ELSE Back(k, f[k - 1])
    <3>1. CASE k = 0
      BY <1>6, <3>1 DEF IsWalk
    <3>2. CASE k # 0
      <4>1. k \in 1..n /\ k - 1 \in 0..n
        BY <1>1, <3>2
      <4>2. f[k - 1] \in V
        BY <1>6, <4>1 DEF IsWalk
      <4> QED BY <1>5, <1>6, <3>2, <4>1, <4>2 DEF IsWalk
    <3> QED BY <3>1, <3>2
  <2> QED BY <1>6, <2>1 DEF IsWalk
<1> DEFINE w == RowsBack(g, rows)
<1>8. w = CHOOSE x : Eq(x)
  BY DEF RowsBack, n, a, Back
<1>9. Eq(w)
  <2> HIDE DEF Eq, w
  <2> QED BY <1>7, <1>8
<1> HIDE DEF w
<1>10. w[0] = a
  BY <1>1, <1>9
<1> QED BY <1>10 DEF w, a

LEMMA StartOfAreaIn ==
    ASSUME NEW g, NEW t, Rep(g, t), NEW s \in Nat
    PROVE  start_of_area(g, s) \in 0..Size(g)
<1> DEFINE at == cursor_location(g, s)
           rows == IF at = None THEN NumRows ELSE at[1] + 1
           walk == RowsBack(g, rows)
           top == g.cursor - 1
           S == {k \in 0..top : walk[k][1] = 0} \cup {top}
           far == Min(S)
<1>1. /\ g.cursor \in Nat /\ Size(g) \in Nat /\ g.cursor <= Size(g) /\ NumRows \in Nat
  <2>1. /\ g.cursor \in Nat /\ Size(g) \in Nat /\ g.gap \in Nat /\ Len(t) \in Nat
        /\ g.cursor <= Len(t) /\ Size(g) = Len(t) + g.gap
    BY RepType
  <2> QED BY <2>1, TextAreaAssumption
<1>2. start_of_area(g, s) = IF g.cursor <= 1 THEN 0
                            ELSE IF walk[far][3] = Newline THEN top - far + 2 ELSE top - far
  BY DEF start_of_area
<1>3. rows \in Int
  <2>1. at = None \/ at \in (0..(NumRows - 1)) \X (0..(NumCols - 1))
    BY CursorLocationType
  <2> HIDE DEF at
  <2>2. CASE at = None
    BY <1>1, <2>2
  <2>3. CASE at # None
    <3>1. at[1] \in 0..(NumRows - 1)
      BY <2>1, <2>3
    <3> QED BY <1>1, <2>3, <3>1
  <2> QED BY <2>2, <2>3
<1>4. CASE g.cursor <= 1
  BY <1>1, <1>2, <1>4
<1>5. CASE ~(g.cursor <= 1)
  <2>1. top \in Nat /\ g.cursor > 0
    BY <1>1, <1>5
  <2>2. S \in SUBSET (0..top) /\ S # {}
    BY <2>1
  <2> HIDE DEF rows, S
  <2>3. far \in 0..top
    <3>1. S \in SUBSET Nat
      BY <2>1, <2>2
    <3> QED BY <2>2, <3>1, MinOf
  <2>4. walk[0] = <<rows, 0, None>>
    BY <1>3, <2>1, RowsBackAt0
  <2>5. walk[far][3] = Newline => far # 0
    <3>1. walk[0][3] = None /\ None # Newline
      BY <2>4, GapBufferAssumption
    <3> HIDE DEF walk, far
    <3> QED BY <3>1
  <2> HIDE DEF walk, far
  <2>6. far \in Int /\ 0 <= far /\ far <= g.cursor - 1
    BY <1>1, <2>3
  <2> HIDE DEF top
  <2>7. CASE walk[far][3] = Newline
    <3>1. start_of_area(g, s) = top - far + 2
      BY <1>2, <1>5, <2>7
    <3> QED BY <1>1, <2>5, <2>6, <2>7, <3>1 DEF top
  <2>8. CASE walk[far][3] # Newline
    <3>1. start_of_area(g, s) = top - far
      BY <1>2, <1>5, <2>8
    <3> QED BY <1>1, <2>6, <3>1 DEF top
  <2> QED BY <2>7, <2>8
<1> QED BY <1>4, <1>5

-----------------------------------------------------------------------------

(***************************************************************************)
(* The inductive invariant: the buffer holds its own string, and the       *)
(* places that keys compute from it stay inside the array and the area.    *)
(***************************************************************************)
InView == (0..(NumRows - 1)) \X (0..(NumCols - 1))
IInv ==
    /\ Rep(inner_text, to_string(inner_text))
    /\ Size(inner_text) >= GapSize
    /\ insert_mode \in BOOLEAN /\ panicked \in BOOLEAN
    /\ PanicsOnlyWhenFull
    /\ scroll \in 0..Size(inner_text) /\ cursor_col \in 0..Size(inner_text)
    /\ form_cursor \in InView

(* What a key does to the text and the buffer: it panics with the gap used *)
(* up, or edits the plain text, reorders it or leaves it alone, and the    *)
(* array never shrinks.                                                    *)
Edits ==
    [Edited!Next \/ Reorders]_<<to_string(inner_text), inner_text.cursor, insert_mode>>
KeyKeeps ==
    /\ Rep(inner_text', to_string(inner_text'))
    /\ Size(inner_text) <= Size(inner_text')
    /\ panicked' \in BOOLEAN /\ PanicsOnlyWhenFull' /\ insert_mode' \in BOOLEAN
    /\ Edits

(* The array is the text and the gap.                                      *)
LEMMA SizeFrom ==
    ASSUME NEW g, NEW t, Rep(g, t), NEW h, NEW u, Rep(h, u), Len(t) + g.gap <= Len(u) + h.gap
    PROVE  Size(g) <= Size(h) /\ Rep(h, to_string(h)) /\ to_string(h) = u /\ to_string(g) = t
BY RepType, ToString

LEMMA Moves ==
    ASSUME IInv, insert_mode' = insert_mode, panicked' = FALSE,
           Rep(inner_text', to_string(inner_text)), inner_text'.gap = inner_text.gap
    PROVE  KeyKeeps
<1> DEFINE t == to_string(inner_text)
<1>1. Rep(inner_text, t) /\ Len(t) + inner_text.gap <= Len(t) + inner_text'.gap
  <2>1. Rep(inner_text, t)
    BY DEF IInv
  <2> HIDE DEF t
  <2>2. Len(t) \in Nat /\ inner_text.gap \in Nat
    BY <2>1, RepType
  <2> QED BY <2>1, <2>2
<1>2. /\ Size(inner_text) <= Size(inner_text') /\ Rep(inner_text', to_string(inner_text'))
      /\ to_string(inner_text') = t
  <2> HIDE DEF t
  <2>1. Rep(inner_text', t)
    BY DEF t
  <2> QED BY <1>1, <2>1, SizeFrom
<1>3. inner_text'.cursor \in 0..Len(t)
  BY DEF Rep
<1>4. Edited!Move
  BY <1>2, <1>3 DEF Edited!Move
<1> QED BY <1>2, <1>4 DEF KeyKeeps, IInv, Edited!Next, Edits, PanicsOnlyWhenFull

LEMMA KeyMoves ==
    ASSUME IInv, key_left \/ key_right \/ key_up \/ key_down \/ key_home \/ key_end
    PROVE  KeyKeeps
<1> DEFINE g == inner_text
           t == to_string(g)
<1>1. Rep(g, t) /\ Size(g) \in Nat /\ cursor_col \in Nat
  <2>1. Rep(g, t) /\ cursor_col \in 0..Size(g)
    BY DEF IInv
  <2>2. Size(g) \in Nat
    BY <2>1, RepType
  <2> QED BY <2>1, <2>2
<1>2. insert_mode' = insert_mode /\ panicked' = FALSE
  BY DEF IInv, key_left, key_right, key_up, key_down, key_home, key_end
<1>3. Rep(g', t) /\ g'.gap = g.gap
  <2> DEFINE col == cursor_col
  <2>0. Rep(g, t) /\ col \in Nat
    BY <1>1
  <2> HIDE DEF t
  <2>1. CASE g' = left(g)
    BY <2>0, <2>1, LeftRep
  <2>2. CASE g' = right(g)
    BY <2>0, <2>2, RightRep
  <2>3. CASE g' = up(g, col)
    BY <2>0, <2>3, UpRep
  <2>4. CASE g' = down(g, col)
    BY <2>0, <2>4, DownRep
  <2>5. CASE g' = line_start(g)
    BY <2>0, <2>5, LineStartRep
  <2>6. CASE g' = line_end(g)
    BY <2>0, <2>6, LineEndRep
  <2> QED BY <2>1, <2>2, <2>3, <2>4, <2>5, <2>6
          DEF key_left, key_right, key_up, key_down, key_home, key_end
<1> QED BY <1>2, <1>3, Moves

LEMMA KeyInsert == ASSUME IInv, key_insert PROVE KeyKeeps
<1>1. inner_text' = inner_text /\ panicked' = FALSE /\ insert_mode' = ~ insert_mode
  BY DEF key_insert, IInv
<1>2. Rep(inner_text', to_string(inner_text')) /\ Size(inner_text) <= Size(inner_text')
  <2>1. Rep(inner_text, to_string(inner_text))
    BY DEF IInv
  <2>2. Size(inner_text) \in Nat
    BY <2>1, RepType
  <2> QED BY <1>1, <2>1, <2>2
<1>3. Edited!Toggle
  BY <1>1 DEF Edited!Toggle
<1> QED BY <1>1, <1>2, <1>3 DEF KeyKeeps, Edited!Next, Edits, PanicsOnlyWhenFull

(* A removed character, at the cursor or before it.                        *)
LEMMA Erases ==
    ASSUME IInv, insert_mode' = insert_mode, panicked' = FALSE, inner_text.cursor > 0,
           inner_text' = backspace(inner_text)
    PROVE  KeyKeeps
<1> DEFINE g == inner_text
           h == inner_text'
           t == to_string(g)
           p == g.cursor
           u == Removed(t, p)
<1>1. Rep(g, t)
  BY DEF IInv
<1>2. /\ t \in Seq(Sym) /\ Len(t) \in Nat /\ p \in Nat /\ p > 0 /\ p <= Len(t) /\ g.gap \in Nat
  BY <1>1, RepType DEF Rep
<1>3. Rep(h, u) /\ h.cursor = p - 1 /\ h.gap = g.gap + 1
  <2> HIDE DEF t
  <2> QED BY <1>1, BackspaceRep
<1>4. p \in 1..Len(t)
  BY <1>2
<1>5. Len(u) = Len(t) - 1 /\ u = SubSeq(t, 1, p - 1) \o SubSeq(t, p + 1, Len(t))
  <2> HIDE DEF t, p
  <2> QED BY <1>2, <1>4, RemovedType, RemovedIs
<1>6. Size(g) <= Size(h) /\ Rep(h, to_string(h)) /\ to_string(h) = u
  <2> HIDE DEF g, h, t, u
  <2>1. Len(t) + g.gap <= Len(u) + h.gap
    <3>1. \A m, k \in Nat : m + k <= (m - 1) + (k + 1)
      OBVIOUS
    <3> QED BY <1>2, <1>3, <1>5, <3>1
  <2> QED BY <1>1, <1>3, <2>1, SizeFrom
<1>7. Edited!Backspace
  <2> HIDE DEF u
  <2> QED BY <1>2, <1>3, <1>5, <1>6 DEF Edited!Backspace, Edited!After
<1> QED BY <1>6, <1>7 DEF KeyKeeps, IInv, Edited!Next, Edits, PanicsOnlyWhenFull

(* A panic leaves the text as it was.                                      *)
LEMMA Panics ==
    ASSUME IInv, insert_mode' = insert_mode, inner_text' = inner_text, panicked' = TRUE,
           inner_text.gap = 0,
           \/ inner_text.cursor \in {Size(inner_text) - 1, Size(inner_text)}
           \/ insert_mode /\ inner_text.cursor > 0 /\ Size(inner_text) > GapSize
    PROVE  KeyKeeps
<1>1. Rep(inner_text, to_string(inner_text))
  BY DEF IInv
<1>2. Size(inner_text) \in Nat
  BY <1>1, RepType
<1>3. to_string(inner_text') = to_string(inner_text) /\ Size(inner_text') = Size(inner_text)
  OBVIOUS
<1>4. PanicsOnlyWhenFull'
  BY <1>3 DEF PanicsOnlyWhenFull
<1> QED BY <1>1, <1>2, <1>3, <1>4 DEF KeyKeeps, IInv, Edits

LEMMA KeyBackspace == ASSUME IInv, key_backspace PROVE KeyKeeps
<1> DEFINE g == inner_text
           t == to_string(g)
<1>1. Rep(g, t) /\ insert_mode' = insert_mode
  BY DEF IInv, key_backspace
<1>2. g.cursor \in Nat
  <2> HIDE DEF t
  <2> QED BY <1>1, RepType
<1>3. CASE backspace_panics(g)
  <2>1. panicked' = TRUE /\ g' = g
    BY <1>3 DEF key_backspace, Edit, backspace_panics
  <2>2. g.gap = 0 /\ g.cursor = Size(g)
    <3> HIDE DEF t
    <3> QED BY <1>1, <1>3, BackspacePanics
  <2> QED BY <1>1, <2>1, <2>2, Panics
<1>4. CASE ~ backspace_panics(g)
  <2>1. panicked' = FALSE /\ g' = backspace(g)
    BY <1>4 DEF key_backspace, Edit, backspace_panics
  <2>2. CASE g.cursor = 0
    <3>1. g' = g
      BY <2>1, <2>2 DEF backspace
    <3> QED BY <1>1, <2>1, <3>1, Moves
  <2>3. CASE g.cursor # 0
    <3>1. g.cursor > 0
      BY <1>2, <2>3
    <3> QED BY <1>1, <2>1, <3>1, Erases
  <2> QED BY <2>2, <2>3
<1> QED BY <1>3, <1>4

LEMMA KeyDelete == ASSUME IInv, key_delete PROVE KeyKeeps
<1> DEFINE g == inner_text
           h == inner_text'
           t == to_string(g)
           p == g.cursor
           u == Removed(t, p + 1)
<1>1. Rep(g, t) /\ insert_mode' = insert_mode
  BY DEF IInv, key_delete
<1>2. t \in Seq(Sym) /\ Len(t) \in Nat /\ p \in Nat /\ p <= Len(t) /\ g.gap \in Nat
  BY <1>1, RepType DEF Rep
<1>3. CASE delete_panics(g)
  <2>1. panicked' = TRUE /\ h = g
    BY <1>3 DEF key_delete, Edit, delete_panics, backspace_panics
  <2>2. g.gap = 0 /\ p \in {Size(g) - 1, Size(g)}
    <3> HIDE DEF t
    <3> QED BY <1>1, <1>3, DeletePanics
  <2> QED BY <1>1, <2>1, <2>2, Panics
<1>4. CASE ~ delete_panics(g)
  <2>0. panicked' = FALSE /\ h = delete(g)
    BY <1>4 DEF key_delete, Edit, delete_panics, backspace_panics
  <2>1. CASE ~(p < Len(t))
    <3>1. h = backspace(g)
      <4> HIDE DEF t
      <4> QED BY <1>1, <2>0, <2>1, DeleteAtEnd
    <3>2. CASE p = 0
      <4>1. backspace(g) = g
        BY <3>2 DEF backspace
      <4> QED BY <1>1, <2>0, <3>1, <4>1, Moves
    <3>3. CASE p # 0
      <4>1. p > 0
        BY <1>2, <3>3
      <4> QED BY <1>1, <2>0, <3>1, <4>1, Erases
    <3> QED BY <3>2, <3>3
  <2>2. CASE p < Len(t)
    <3>1. Rep(h, u) /\ h.cursor = p /\ h.gap = g.gap + 1
      <4> HIDE DEF t
      <4> QED BY <1>1, <2>0, <2>2, DeleteRep
    <3>2. p + 1 \in 1..Len(t) /\ (p + 1) - 1 = p
      BY <1>2, <2>2
    <3>3. Len(u) = Len(t) - 1 /\ u = SubSeq(t, 1, p) \o SubSeq(t, (p + 1) + 1, Len(t))
      <4> HIDE DEF t, p
      <4> QED BY <1>2, <3>2, RemovedType, RemovedIs
    <3>4. Size(g) <= Size(h) /\ Rep(h, to_string(h)) /\ to_string(h) = u
      <4> HIDE DEF g, h, t, u
      <4>1. Len(t) + g.gap <= Len(u) + h.gap
        <5>1. \A m, k \in Nat : m + k <= (m - 1) + (k + 1)
          OBVIOUS
        <5> QED BY <1>2, <3>1, <3>3, <5>1
      <4> QED BY <1>1, <3>1, <4>1, SizeFrom
    <3>5. Tail(SubSeq(t, p + 1, Len(t))) = SubSeq(t, (p + 1) + 1, Len(t))
      <4>1. Len(t) \in (p + 1)..Len(t)
        BY <1>2, <3>2
      <4> HIDE DEF t, p
      <4> QED BY <1>2, <3>2, <4>1, HeadTailOfSubSeq
    <3>6. Edited!Delete
      <4> HIDE DEF u
      <4> QED BY <1>1, <2>2, <3>1, <3>3, <3>4, <3>5 DEF Edited!Delete, Edited!Before, Edited!After
    <3> QED BY <1>1, <2>0, <3>4, <3>6 DEF KeyKeeps, IInv, Edited!Next, Edits, PanicsOnlyWhenFull
  <2> QED BY <2>1, <2>2
<1> QED BY <1>3, <1>4

(* A character typed into the text, or before it with the gap used up.     *)
LEMMA Types ==
    ASSUME IInv, NEW c \in Char, insert_mode' = insert_mode, panicked' = FALSE,
           ~ insert_panics(inner_text),
           insert_mode \/ inner_text.cursor = Len(to_string(inner_text)),
           inner_text' = insert(inner_text, c)
    PROVE  KeyKeeps
<1> DEFINE g == inner_text
           h == inner_text'
           t == to_string(g)
           p == g.cursor
           o == Opened(g, t)
           u == Inserted(o, p, c)
<1>1. Rep(g, t) /\ Size(g) >= GapSize
  BY DEF IInv
<1>2. /\ t \in Seq(Sym) /\ Len(t) \in Nat /\ p \in 0..Len(t) /\ g.gap \in Nat
      /\ GapSize \in Nat /\ GapSize > 0 /\ Size(g) = Len(t) + g.gap
  BY <1>1, RepType, GapBufferAssumption DEF Rep
<1>3. Rep(h, u) /\ h.cursor = p + 1 /\ h.gap = (IF g.gap = 0 THEN GapSize ELSE g.gap) - 1
  <2> HIDE DEF t
  <2> QED BY <1>1, InsertRep
<1>4. o \in Seq(Sym) /\ Len(o) = Len(t)
  <2> HIDE DEF t
  <2> QED BY <1>2, GrownType DEF Opened
<1>5. Len(u) = Len(t) + 1
  <2> HIDE DEF t, p, o
  <2> QED BY <1>2, <1>4, InsertedType
<1>6. Size(g) <= Size(h) /\ Rep(h, to_string(h)) /\ to_string(h) = u
  <2> HIDE DEF g, h, t, u
  <2>1. Len(t) + g.gap <= Len(u) + h.gap
    BY <1>2, <1>3, <1>5
  <2> QED BY <1>1, <1>3, <2>1, SizeFrom
<1>7. CASE g.gap = 0 /\ Turns(t, p)
  <2>1. p = 0 /\ Len(t) > GapSize /\ insert_mode /\ Size(g) > GapSize
    BY <1>2, <1>7 DEF Turns
  <2>2. o = Turned(t) /\ Turns(t, 0)
    BY <1>7, <2>1 DEF Opened, Grown
  <2>3. u = <<c>> \o SubSeq(t, GapSize + 1, Len(t)) \o SubSeq(t, 1, GapSize)
    <3> HIDE DEF t, p, o
    <3> QED BY <1>2, <2>1, <2>2, TurnedIs
  <2>4. h.cursor = 1
    BY <1>3, <2>1
  <2>5. Reorders
    <3> HIDE DEF u
    <3> QED BY <1>6, <1>7, <2>1, <2>3, <2>4 DEF Reorders
  <2> QED BY <1>6, <2>5 DEF KeyKeeps, IInv, Edits, PanicsOnlyWhenFull
<1>8. CASE ~(g.gap = 0 /\ Turns(t, p))
  <2>1. o = t
    BY <1>8 DEF Opened, Grown
  <2>2. u = SubSeq(t, 1, p) \o <<c>> \o SubSeq(t, p + 1, Len(t))
    <3> HIDE DEF t, p, o
    <3> QED BY <1>2, <2>1, InsertedIs
  <2>3. Edited!Insert(c)
    <3> HIDE DEF u
    <3> QED BY <1>3, <1>6, <2>2 DEF Edited!Insert, Edited!Before, Edited!After
  <2> QED BY <1>6, <2>3 DEF KeyKeeps, IInv, Edited!Next, Edits, PanicsOnlyWhenFull
<1> QED BY <1>7, <1>8

(* A full array that cannot open a gap at the cursor.                      *)
LEMMA InsertPanics ==
    ASSUME NEW g, NEW t, Rep(g, t), insert_panics(g)
    PROVE  g.gap = 0 /\ g.cursor > 0 /\ Size(g) > GapSize
<1>1. /\ g.gap \in Nat /\ g.cursor \in Nat /\ Size(g) \in Nat /\ GapSize \in Nat
  BY RepType, GapBufferAssumption
<1>2. g.gap = 0
  <2>1. ~(g.gap > 0)
    BY InsertSafe
  <2> QED BY <1>1, <2>1
<1>3. PICK k \in Moved(g) : k >= GapSize
  BY <1>2 DEF insert_panics
<1>4. k \in g.cursor..(Size(g) - 1) /\ k < g.cursor + GapSize
  BY DEF Moved
<1> QED BY <1>1, <1>2, <1>3, <1>4

LEMMA KeyChar == ASSUME IInv, NEW c \in Char, key_char(c) PROVE KeyKeeps
<1> DEFINE g == inner_text
           h == inner_text'
           t == to_string(g)
           p == g.cursor
<1>1. /\ Rep(g, t) /\ insert_mode' = insert_mode /\ insert_mode \in BOOLEAN
      /\ Size(g) >= GapSize
  BY DEF IInv, key_char
<1>2. /\ t \in Seq(Sym) /\ Len(t) \in Nat /\ p \in 0..Len(t) /\ g.gap \in Nat
      /\ Size(g) = Len(t) + g.gap
  BY <1>1, RepType DEF Rep
<1>3. insert_panics(g) => g.gap = 0 /\ p > 0 /\ Size(g) > GapSize
  <2> HIDE DEF t
  <2> QED BY <1>1, InsertPanics
<1>4. insert_panics(g) \in BOOLEAN
  BY DEF insert_panics
<1>5. CASE insert_mode
  <2>1. panicked' = insert_panics(g) /\ h = IF insert_panics(g) THEN g ELSE insert(g, c)
    BY <1>5 DEF key_char, Edit
  <2>2. CASE insert_panics(g)
    <3>1. panicked' = TRUE /\ h = g
      BY <1>4, <2>1, <2>2
    <3> QED BY <1>1, <1>3, <1>5, <2>2, <3>1, Panics
  <2>3. CASE ~ insert_panics(g)
    <3>1. panicked' = FALSE /\ h = insert(g, c)
      BY <1>4, <2>1, <2>3
    <3> QED BY <1>1, <1>5, <2>3, <3>1, Types
  <2> QED BY <2>2, <2>3
<1>6. CASE ~ insert_mode /\ ~(p < Len(t))
  <2>1. overwrite(g, c) = insert(g, c) /\ overwrite_panics(g) = insert_panics(g)
    <3> HIDE DEF t
    <3> QED BY <1>1, <1>6, OverwriteAtEnd
  <2>2. panicked' = insert_panics(g) /\ h = IF insert_panics(g) THEN g ELSE insert(g, c)
    BY <1>6, <2>1 DEF key_char, Edit
  <2>3. p = Len(t)
    BY <1>2, <1>6
  <2>4. CASE insert_panics(g)
    <3>1. panicked' = TRUE /\ h = g
      BY <1>4, <2>2, <2>4
    <3>2. p = Size(g)
      BY <1>2, <1>3, <2>3, <2>4
    <3> QED BY <1>1, <1>3, <2>4, <3>1, <3>2, Panics
  <2>5. CASE ~ insert_panics(g)
    <3>1. panicked' = FALSE /\ h = insert(g, c)
      BY <1>4, <2>2, <2>5
    <3> QED BY <1>1, <2>3, <2>5, <3>1, Types
  <2> QED BY <2>4, <2>5
<1>7. CASE ~ insert_mode /\ p < Len(t)
  <2> DEFINE u == [t EXCEPT ![p + 1] = c]
  <2>1. /\ Rep(overwrite(g, c), u) /\ overwrite(g, c).cursor = p + 1
        /\ overwrite(g, c).gap = g.gap /\ (overwrite_panics(g) => delete_panics(g))
    <3> HIDE DEF t
    <3> QED BY <1>1, <1>7, OverwriteRep
  <2>2. /\ panicked' = overwrite_panics(g) /\ overwrite_panics(g) \in BOOLEAN
        /\ h = IF overwrite_panics(g) THEN g ELSE overwrite(g, c)
    BY <1>7 DEF key_char, Edit, overwrite_panics, insert_panics, delete_panics, backspace_panics
  <2>3. CASE overwrite_panics(g)
    <3>1. panicked' = TRUE /\ h = g /\ delete_panics(g)
      BY <2>1, <2>2, <2>3
    <3>2. g.gap = 0 /\ p \in {Size(g) - 1, Size(g)}
      <4> HIDE DEF t
      <4> QED BY <1>1, <3>1, DeletePanics
    <3> QED BY <1>1, <3>1, <3>2, Panics
  <2>4. CASE ~ overwrite_panics(g)
    <3>1. panicked' = FALSE /\ h = overwrite(g, c)
      BY <2>2, <2>4
    <3>2. Len(u) = Len(t)
      <4>1. p + 1 \in 1..Len(t)
        BY <1>2, <1>7
      <4> HIDE DEF t, p
      <4> QED BY <1>2, <4>1, ExceptSeq
    <3>3. Size(g) <= Size(h) /\ Rep(h, to_string(h)) /\ to_string(h) = u
      <4>1. Rep(h, u) /\ h.gap = g.gap
        BY <2>1, <3>1
      <4> HIDE DEF g, h, t, u
      <4>2. Len(t) + g.gap <= Len(u) + h.gap
        BY <1>2, <3>2, <4>1
      <4> QED BY <1>1, <4>1, <4>2, SizeFrom
    <3>4. Edited!Overwrite(c)
      <4>1. h.cursor = p + 1
        BY <2>1, <3>1
      <4> QED BY <1>1, <1>7, <3>3, <4>1 DEF Edited!Overwrite
    <3> QED BY <1>1, <3>1, <3>3, <3>4 DEF KeyKeeps, Edited!Next, Edits, PanicsOnlyWhenFull
  <2> QED BY <2>3, <2>4
<1> QED BY <1>1, <1>5, <1>6, <1>7

-----------------------------------------------------------------------------
(* The view follows the text.                                              *)

LEMMA ViewKept ==
    ASSUME IInv, KeyKeeps, focus,
           \/ scroll' = scroll
           \/ scroll' = ScrollBack(inner_text')
           \/ scroll' = ScrollOn(inner_text')
    PROVE  scroll' \in 0..Size(inner_text') /\ form_cursor' \in InView
<1> DEFINE g == inner_text
           h == inner_text'
<1>1. Rep(g, to_string(g)) /\ Rep(h, to_string(h)) /\ Size(g) <= Size(h) /\ scroll \in 0..Size(g)
      /\ form_cursor \in InView
  BY DEF IInv, KeyKeeps
<1>2. Size(g) \in Nat /\ Size(h) \in Nat /\ scroll \in Nat /\ scroll <= Size(h)
  <2> HIDE DEF g, h
  <2>1. Size(g) \in Nat /\ Size(h) \in Nat
    BY <1>1, RepType
  <2> QED BY <1>1, <2>1
<1>3. find_line_start(h) \in 0..Size(h) /\ start_of_area(h, scroll) \in 0..Size(h)
  <2> DEFINE s == scroll
  <2>1. s \in Nat
    BY <1>2
  <2> HIDE DEF s, h
  <2>2. find_line_start(h) \in 0..Size(h) /\ start_of_area(h, s) \in 0..Size(h)
    BY <1>1, <2>1, LineStartIn, StartOfAreaIn
  <2> QED BY <2>2 DEF s
<1>4. scroll \in 0..Size(h)
  BY <1>2
<1>5. scroll' \in 0..Size(h)
  <2> HIDE DEF h
  <2> QED BY <1>3, <1>4 DEF ScrollBack, ScrollOn, h
<1>6. form_cursor' \in InView
  <2> DEFINE s2 == scroll'
             at == cursor_location(h, s2)
  <2>1. s2 \in Nat
    BY <1>2, <1>5
  <2>2. at = None \/ at \in InView
    <3> HIDE DEF s2, h
    <3> QED BY <1>1, <2>1, CursorLocationType DEF InView
  <2>3. form_cursor' = IF at = None THEN form_cursor ELSE at
    BY DEF focus
  <2> HIDE DEF at
  <2> QED BY <1>1, <2>2, <2>3
<1> QED BY <1>5, <1>6

LEMMA ColumnKept ==
    ASSUME IInv, KeyKeeps,
           \/ cursor_col' = cursor_col
           \/ cursor_col' = Monus(inner_text'.cursor, inner_text'.line_start)
    PROVE  cursor_col' \in 0..Size(inner_text')
<1> DEFINE g == inner_text
           h == inner_text'
<1>1. /\ Rep(g, to_string(g)) /\ Rep(h, to_string(h)) /\ Size(g) <= Size(h)
      /\ cursor_col \in 0..Size(g)
  BY DEF IInv, KeyKeeps
<1>2. /\ Size(g) \in Nat /\ Size(h) \in Nat /\ h.cursor \in Nat /\ h.cursor <= Size(h)
      /\ h.line_start \in Nat
  <2> HIDE DEF g, h
  <2> DEFINE t == to_string(h)
  <2>1. /\ Size(g) \in Nat /\ Size(h) \in Nat /\ h.cursor \in Nat /\ h.gap \in Nat
        /\ Len(t) \in Nat /\ h.cursor <= Len(t) /\ Size(h) = Len(t) + h.gap
    BY <1>1, RepType
  <2>2. h.line_start \in 0..Size(h)
    BY <1>1 DEF Rep
  <2> HIDE DEF t
  <2> QED BY <2>1, <2>2
<1>3. cursor_col \in 0..Size(h)
  BY <1>1, <1>2
<1>4. Monus(h.cursor, h.line_start) \in 0..Size(h)
  <2> HIDE DEF h
  <2> QED BY <1>2 DEF Monus
<1> QED BY <1>3, <1>4

-----------------------------------------------------------------------------
(* Every key keeps the invariant and edits the plain text.                 *)
LEMMA NextKeeps == ASSUME IInv, Next PROVE KeyKeeps
<1>1. CASE key_left \/ key_right \/ key_up \/ key_down \/ key_home \/ key_end
  BY <1>1, KeyMoves
<1>2. CASE key_backspace
  BY <1>2, KeyBackspace
<1>3. CASE key_delete
  BY <1>3, KeyDelete
<1>4. CASE key_insert
  BY <1>4, KeyInsert
<1>5. ASSUME NEW c \in Char, key_char(c) PROVE KeyKeeps
  BY <1>5, KeyChar
<1> QED BY <1>1, <1>2, <1>3, <1>4, <1>5 DEF Next

LEMMA NextInv == ASSUME IInv, Next PROVE IInv'
<1>1. KeyKeeps
  BY NextKeeps
<1>2. /\ focus
      /\ \/ scroll' = scroll
         \/ scroll' = ScrollBack(inner_text')
         \/ scroll' = ScrollOn(inner_text')
      /\ \/ cursor_col' = cursor_col
         \/ cursor_col' = Monus(inner_text'.cursor, inner_text'.line_start)
  BY DEF Next, key_left, key_right, key_up, key_down, key_home, key_end,
         key_backspace, key_delete, key_insert, key_char
<1>3. scroll' \in 0..Size(inner_text') /\ form_cursor' \in InView
  BY <1>1, <1>2, ViewKept
<1>4. cursor_col' \in 0..Size(inner_text')
  BY <1>1, <1>2, ColumnKept
<1>5. Size(inner_text') >= GapSize
  <2> DEFINE g == inner_text
             h == inner_text'
  <2>1. Rep(g, to_string(g)) /\ Rep(h, to_string(h)) /\ Size(g) >= GapSize /\ Size(g) <= Size(h)
    BY <1>1 DEF IInv, KeyKeeps
  <2> HIDE DEF g, h
  <2>2. Size(g) \in Nat /\ Size(h) \in Nat /\ GapSize \in Nat
    BY <2>1, RepType, GapBufferAssumption
  <2>3. Size(h) >= GapSize
    BY <2>1, <2>2
  <2> QED BY <2>3 DEF h
<1> QED BY <1>1, <1>3, <1>4, <1>5 DEF IInv, KeyKeeps, InView

LEMMA InitInv == ASSUME Init PROVE IInv /\ Edited!Init
<1> DEFINE g == inner_text
<1>1. PICK t \in StartTexts : g = new(t)
  BY DEF Init
<1> DEFINE u == Padded(t)
<1>2. Rep(g, u) /\ g.cursor = Len(u) /\ Size(g) >= GapSize
  BY <1>1, NewRep
<1> HIDE DEF u
<1>3. to_string(g) = u
  BY <1>2, ToString
<1>4. Size(g) \in Nat /\ 0 \in 0..Size(g)
  <2>1. Size(g) \in Nat
    BY <1>2, RepType
  <2> QED BY <2>1
<1>5. form_cursor \in InView
  <2> DEFINE at == cursor_location(g, 0)
  <2>1. at = None \/ at \in InView
    BY <1>2, CursorLocationType DEF InView
  <2>2. form_cursor = IF at = None THEN <<0, 0>> ELSE at
    BY DEF Init
  <2>3. <<0, 0>> \in InView
    BY TextAreaAssumption DEF InView
  <2> HIDE DEF at
  <2> QED BY <2>1, <2>2, <2>3
<1>6. IInv
  BY <1>2, <1>3, <1>4, <1>5 DEF IInv, Init, PanicsOnlyWhenFull
<1>7. Edited!Init
  <2>1. u \in {Padded(x) : x \in StartTexts}
    BY DEF u
  <2> QED BY <1>2, <1>3, <2>1 DEF Edited!Init, Init
<1> QED BY <1>6, <1>7

LEMMA InvImplies == ASSUME IInv PROVE TypeOK /\ GapIsEmpty /\ PanicsOnlyWhenFull
<1> DEFINE g == inner_text
           t == to_string(g)
<1>1. Rep(g, t)
  BY DEF IInv
<1>2. /\ Len(t) \in Nat /\ Size(g) \in Nat /\ g.gap \in Nat /\ g.cursor \in Nat
      /\ g.cursor <= Len(t) /\ Size(g) = Len(t) + g.gap /\ len(g) = Len(t)
  <2> HIDE DEF t
  <2> QED BY <1>1, RepType
<1>3. TypeOK
  BY <1>1, <1>2 DEF TypeOK, IInv, Rep, InView
<1>4. GapIsEmpty
  <2> SUFFICES ASSUME NEW i \in g.cursor..(g.cursor + g.gap - 1) PROVE Cell(g, i) = NUL
    BY DEF GapIsEmpty
  <2>1. i + 1 \in 1..Size(g) /\ ~(i + 1 <= g.cursor) /\ i + 1 <= g.cursor + g.gap
    BY <1>2
  <2> QED BY <1>1, <2>1 DEF Rep, Cell
<1> QED BY <1>3, <1>4 DEF IInv

LEMMA SpecInv == Spec => []IInv
<1>1. Init => IInv
  BY InitInv
<1>2. IInv /\ [Next]_vars => IInv'
  <2> SUFFICES ASSUME IInv, [Next]_vars PROVE IInv'
    OBVIOUS
  <2>1. CASE Next
    BY <2>1, NextInv
  <2>2. CASE UNCHANGED vars
    BY <2>2 DEF vars, IInv, Rep, Size, InView, to_string, len, get, Cell, PanicsOnlyWhenFull
  <2> QED BY <2>1, <2>2
<1> QED BY <1>1, <1>2, PTL DEF Spec

(* The types hold of every area, whatever its start text and the keys      *)
(* (TextArea, GapBuffer): the cursor is never past the text, and the line  *)
(* start, the scroll position and the cursor on the screen stay inside the *)
(* array and the area.                                                     *)
THEOREM SpecTypeOK == Spec => []TypeOK
<1>1. Spec => []IInv
  BY SpecInv
<1>2. IInv => TypeOK
  BY InvImplies
<1> QED BY <1>1, <1>2, PTL

(* The cells of the gap are empty after every key (left, right, insert,    *)
(* backspace, realloc), for every start text and gap size, those with      *)
(* characters of several bytes included.                                   *)
THEOREM SpecGapIsEmpty == Spec => []GapIsEmpty
<1>1. Spec => []IInv
  BY SpecInv
<1>2. IInv => GapIsEmpty
  BY InvImplies
<1> QED BY <1>1, <1>2, PTL

(* No key of handle_event makes an edit index the array out of bounds or   *)
(* fail the assertion of insert, but for a used-up gap: backspace and      *)
(* delete at the end of the array, and typing inside one that has grown or *)
(* did not begin empty.                                                    *)
THEOREM SpecPanicsOnlyWhenFull == Spec => []PanicsOnlyWhenFull
<1>1. Spec => []IInv
  BY SpecInv
<1>2. IInv => PanicsOnlyWhenFull
  BY InvImplies
<1> QED BY <1>1, <1>2, PTL

(* Behind its gap the area edits a plain text, the page's with an empty    *)
(* cell for each further byte of a character: each key is one step of      *)
(* EditedText, leaves text and position alone, or is the character typed   *)
(* at the start of a full array, which reorders the text.                  *)
THEOREM SpecEditsPlainText == Spec => EditsPlainText
<1>1. Init => Edited!Init
  BY InitInv
<1>2. IInv /\ [Next]_vars
        => [Edited!Next \/ Reorders]_<<to_string(inner_text), inner_text.cursor, insert_mode>>
  <2> SUFFICES ASSUME IInv, [Next]_vars PROVE Edits
    BY DEF Edits
  <2>1. CASE Next
    BY <2>1, NextKeeps DEF KeyKeeps
  <2>2. CASE UNCHANGED vars
    BY <2>2 DEF vars, to_string, len, get, Cell, Size, Edits
  <2> QED BY <2>1, <2>2
<1>3. Spec => []IInv
  BY SpecInv
<1> QED BY <1>1, <1>2, <1>3, PTL DEF Spec, EditsPlainText
=============================================================================

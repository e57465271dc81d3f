----------------------------- MODULE FormsProofs -----------------------------
(***************************************************************************)
(* The frame and its forms, for every page, every size of the root pane    *)
(* and every set of characters: focus goes round the forms on the screen,  *)
(* a checkbox is never indexed past its options, what the user entered is  *)
(* kept, and a typed character appears at the cursor.                      *)
(*                                                                         *)
(* The model draws, filters and reads the screen with folds.  Facts about  *)
(* them are proved by looking at the smallest step at which they fail.     *)
(***************************************************************************)
EXTENDS Forms, TLAPS, SequenceTheorems, FiniteSetTheorems, WellFoundedInduction

(* A form the user may have changed.                                       *)
FormRecord == [id : Nat \ {0}, kind : STRING, vp : Nat, row : Nat, col : Nat, text : Seq(Glyph),
         handle : Nat, flow : BOOLEAN, newline : BOOLEAN, options : Seq(BOOLEAN),
         selector : Nat, cursor : Nat, insert : BOOLEAN, max_len : Nat]

(* The selector is inside the options, if there are any, and the cursor    *)
(* inside the text, counted in bytes.                                      *)
GoodForm(form) ==
    /\ form \in FormRecord /\ form.kind \in FormTypes
    /\ form.kind = "Checkbox" =>
         /\ Len(form.options) = Len(form.text)
         /\ form.options # <<>> => form.selector < Len(form.options)
    /\ form.kind = "TextLine" => form.cursor <= Bytes(form.text)

IsForms(forms) ==
    /\ forms = [el \in DOMAIN forms |-> forms[el]]
    /\ IsFiniteSet(DOMAIN forms) /\ DOMAIN forms \subseteq Nat \ {0}
    /\ \A el \in DOMAIN forms : GoodForm(forms[el])

(* Checkboxes without options, of which nothing is ever drawn.             *)
Idle(forms) == {el \in DOMAIN forms : forms[el].kind = "Checkbox" /\ forms[el].options = <<>>}

Cells(forms) == {c \in Nat \X Glyph : c[1] \notin Idle(forms)}

Viewport(C) == [id : Nat \ {0}, parent : Nat, row : Nat, col : Nat, rows : Nat,
                cols : Nat \ {0}, visible : BOOLEAN, buff : Seq(C)]

Place == [row : Nat, col : Nat, depth : Nat]

(* A root is a record with these fields.                                   *)
Shape(f) ==
    f = [vps |-> f.vps, at |-> f.at, zbuff |-> f.zbuff, screen |-> f.screen, forms |-> f.forms,
         dynamic |-> f.dynamic, focused |-> f.focused, next |-> f.next, prev |-> f.prev,
         first |-> f.first, cursor |-> f.cursor, events |-> f.events]

(* The forms the focus may be on: forms of the page with something to draw.*)
Reachable(f) == DOMAIN f.forms \ (f.dynamic \cup Idle(f.forms))

(* What drawing starts from and keeps.                                     *)
Drawable(f) ==
    /\ Shape(f)
    /\ IsForms(f.forms)
    /\ f.vps \in Seq(Viewport(Cells(f.forms)))
    /\ f.at \in [DOMAIN f.vps -> Place]
    /\ \A z \in f.zbuff : z \in [Pixels -> {None} \cup DOMAIN f.vps]

(* Who the forms are, and which of them the focus can be on.               *)
Focused(f, ids) ==
    /\ f.dynamic \subseteq DOMAIN f.forms
    /\ \A el \in f.dynamic : f.forms[el].kind \in {"Text", "Print"}
    /\ DOMAIN f.forms \ f.dynamic \subseteq ids
    /\ {f.focused, f.first} \subseteq {None} \cup Reachable(f)
    /\ Range(f.next) \cup Range(f.prev) \subseteq Reachable(f)

StaticIds(p) == {form.id : form \in Range(p.static)}

PageOK(p) ==
    /\ p \in Tables
    /\ \A form \in Range(p.static), new \in {p.dynamic} \cup p.contents :
         \A other \in Range(new) : form.id # other.id

-----------------------------------------------------------------------------
(* Smallest and largest numbers.                                           *)

(* Every set of natural numbers has a smallest one.                        *)
LEMMA SmallestNat == ASSUME NEW S \in SUBSET Nat, S # {} PROVE \E x \in S : \A y \in S : x <= y
<1> DEFINE R == OpToRel(<, Nat)
<1>1. \A x, y \in Nat : <<x, y>> \in R <=> x < y
  BY DEF OpToRel
<1>2. IsWellFoundedOn(R, Nat)
  BY NatLessThanWellFounded
<1> HIDE DEF R
<1>3. PICK x \in S : \A y \in S : ~(<<y, x>> \in R)
  BY <1>2, WFMin
<1>4. ASSUME NEW y \in S PROVE x <= y
  <2>1. x \in Nat /\ y \in Nat /\ ~(y < x)
    BY <1>1, <1>3
  <2> QED BY <2>1
<1> QED BY <1>4

(* Every bounded set of natural numbers has a largest one.                 *)
LEMMA LargestNat ==
    ASSUME NEW n \in Nat, NEW S \in SUBSET (0..n), S # {}
    PROVE  \E x \in S : \A y \in S : y <= x
<1> DEFINE T == {n - y : y \in S}
<1>1. T \in SUBSET Nat /\ T # {}
  <2>1. \A y \in S : n - y \in Nat
    OBVIOUS
  <2> QED BY <2>1
<1>2. PICK t \in T : \A u \in T : t <= u
  BY <1>1, SmallestNat
<1>3. PICK x \in S : t = n - x
  BY <1>2
<1>4. ASSUME NEW y \in S PROVE y <= x
  <2>1. n - x <= n - y /\ x \in Int /\ y \in Int
    BY <1>2, <1>3
  <2> QED BY <2>1
<1> QED BY <1>4

(* What holds at 0 and passes from each number to the next holds up to n.  *)
LEMMA AlongNat ==
    ASSUME NEW n \in Nat, NEW P, 0 \in P, \A k \in 1..n : k - 1 \in P => k \in P
    PROVE  \A k \in 0..n : k \in P
<1> DEFINE Bad == {k \in 0..n : k \notin P}
<1> SUFFICES ASSUME Bad # {} PROVE FALSE
  OBVIOUS
<1>1. PICK m \in Bad : \A y \in Bad : m <= y
  <2>1. Bad \in SUBSET Nat
    OBVIOUS
  <2> HIDE DEF Bad
  <2> QED BY <2>1, SmallestNat
<1>2. m \in 0..n /\ m \notin P /\ m # 0
  BY <1>1
<1>3. m \in 1..n /\ m - 1 \in 0..n /\ ~(m <= m - 1)
  BY <1>2
<1>4. m - 1 \notin Bad
  BY <1>1, <1>3
<1> QED BY <1>2, <1>3, <1>4

-----------------------------------------------------------------------------
(* Folds.                                                                  *)

(* The sequences that KeepIn goes through.                                 *)
IsKeeping(w, seq, S, n) ==
    w = [k \in 0..n |-> IF k = 0 THEN <<>>
                        ELSE IF seq[k] \in S THEN Append(w[k - 1], seq[k]) ELSE w[k - 1]]

(* KeepIn is the last of the sequences it goes through.                    *)
LEMMA KeepInWalk ==
    ASSUME NEW seq, NEW S, Len(seq) \in Nat
    PROVE  \E w : IsKeeping(w, seq, S, Len(seq)) /\ KeepIn(seq, S) = w[Len(seq)]
<1> DEFINE n == Len(seq)
           base == <<>>
           Step(a, x) == IF x \in S THEN Append(a, x) ELSE a
           Is(w, m) == w = [k \in 0..m |-> IF k = 0 THEN base ELSE Step(w[k - 1], seq[k])]
           Eq(w) == w = [k \in 0..n |-> IF k = 0 THEN base
                                        ELSE CHOOSE r \in {Step(a, seq[k]) : a \in {w[k - 1]}} : TRUE]
           P == {m \in 0..n : \E w : Is(w, m)}
<1>1. KeepIn(seq, S) = (CHOOSE w : Eq(w))[n]
  BY DEF KeepIn, Fold
<1>2. \A w : Is(w, n) <=> IsKeeping(w, seq, S, n)
  BY DEF IsKeeping
<1> HIDE DEF base, Step
<1>3. \A a, x : (CHOOSE r \in {Step(b, x) : b \in {a}} : TRUE) = Step(a, x)
  OBVIOUS
<1>4. \A w : Is(w, n) <=> Eq(w)
  BY <1>3
<1>5. n \in Nat
  OBVIOUS
<1> HIDE DEF n
<1>6. 0 \in P
  <2> DEFINE w == [k \in 0..0 |-> base]
  <2>1. Is(w, 0)
    OBVIOUS
  <2> HIDE DEF Is, w
  <2> QED BY <1>5, <2>1
<1>7. ASSUME NEW m \in 1..n, m - 1 \in P PROVE m \in P
  <2>1. PICK w : Is(w, m - 1)
    BY <1>7
  <2> DEFINE h == [k \in 0..m |-> IF k = 0 THEN base ELSE Step(w[k - 1], seq[k])]
  <2>2. \A j \in 0..(m - 1) : h[j] = w[j]
    BY <2>1, <1>5
  <2>3. \A k \in 0..m : k # 0 => k - 1 \in 0..(m - 1)
    BY <1>5
  <2>4. Is(h, m)
    BY <2>2, <2>3
  <2> HIDE DEF Is, h
  <2> QED BY <1>5, <2>4
<1> HIDE DEF P
<1>8. \A m \in 0..n : m \in P
  BY <1>5, <1>6, <1>7, AlongNat
<1>9. \E w : Is(w, n)
  <2> HIDE DEF Is
  <2> QED BY <1>5, <1>8 DEF P
<1>10. Eq(CHOOSE w : Eq(w))
  <2> HIDE DEF Is, Eq
  <2> QED BY <1>4, <1>9
<1> HIDE DEF Is, Eq
<1> QED BY <1>1, <1>2, <1>4, <1>10 DEF n

(* A function on the first n positions is a sequence.                      *)
LEMMA FcnIsSeq ==
    ASSUME NEW n \in Nat, NEW T, NEW f \in [1..n -> T]
    PROVE  f \in Seq(T) /\ Len(f) = n /\ DOMAIN f = 1..n
<1>1. f \in Seq(T)
  BY SeqDef
<1> QED BY <1>1, LenProperties

(* What KeepIn returns is in the sequence and in the set.                  *)
LEMMA KeepInFacts ==
    ASSUME NEW T, NEW seq \in Seq(T), NEW S
    PROVE  KeepIn(seq, S) \in Seq(Range(seq) \cap S)
<1> DEFINE n == Len(seq)
           V == Seq(Range(seq) \cap S)
<1>1. n \in Nat
  BY LenProperties
<1>2. PICK w : IsKeeping(w, seq, S, n) /\ KeepIn(seq, S) = w[n]
  BY <1>1, KeepInWalk
<1> DEFINE P == {k \in 0..n : w[k] \in V}
<1>3. 0 \in P
  BY <1>1, <1>2, EmptySeq DEF IsKeeping
<1>4. ASSUME NEW k \in 1..n, k - 1 \in P PROVE k \in P
  <2>1. k \in 0..n /\ k # 0 /\ w[k - 1] \in V
    BY <1>1, <1>4
  <2>2. w[k] = IF seq[k] \in S THEN Append(w[k - 1], seq[k]) ELSE w[k - 1]
    BY <1>2, <2>1 DEF IsKeeping
  <2>3. seq[k] \in Range(seq)
    BY <1>1, LenProperties DEF Range
  <2>4. CASE seq[k] \in S
    <3>1. w[k] = Append(w[k - 1], seq[k]) /\ seq[k] \in Range(seq) \cap S
      BY <2>2, <2>3, <2>4
    <3>2. w[k] \in V
      BY <2>1, <3>1, AppendProperties
    <3> QED BY <2>1, <3>2
  <2>5. CASE seq[k] \notin S
    BY <2>1, <2>2, <2>5
  <2> QED BY <2>4, <2>5
<1>5. \A k \in 0..n : k \in P
  <2> HIDE DEF P, n
  <2> QED BY <1>1, <1>3, <1>4, AlongNat
<1> QED BY <1>1, <1>2, <1>5

(* A sequence over a set is one over every larger set.                     *)
LEMMA SeqOfSubset ==
    ASSUME NEW S, NEW T, S \subseteq T, NEW seq \in Seq(S)
    PROVE  seq \in Seq(T)
<1>1. Len(seq) \in Nat /\ seq \in [1..Len(seq) -> S]
  BY LenProperties
<1>2. seq \in [1..Len(seq) -> T]
  BY <1>1
<1> QED BY <1>1, <1>2, SeqDef

-----------------------------------------------------------------------------
(* Drawing.  C is the set of cells that may be drawn.                      *)

(* Writing a text of el leaves cells that were there, blanks and cells of  *)
(* el.                                                                     *)
LEMMA PrintAt ==
    ASSUME NEW C, Blank \in C, NEW v \in Viewport(C), NEW el, \A c \in Glyph : <<el, c>> \in C,
           NEW row \in Nat, NEW col \in Nat, NEW text \in Seq(Glyph)
    PROVE  /\ print_at(v, el, row, col, text).v \in Viewport(C)
           /\ print_at(v, el, row, col, text).cursor \in Nat \X Nat
<1> DEFINE off == v.cols * row + col
           end == off + Len(text)
           pad == [i \in 1..SatSub(off, Len(v.buff)) |-> Blank]
           padded == v.buff \o pad
           own == [i \in DOMAIN text |-> <<el, text[i]>>]
           buff == SubSeq(padded, 1, off) \o own \o SubSeq(padded, end + 1, Len(padded))
           d == print_at(v, el, row, col, text)
<1>1. v.cols \in Nat /\ v.cols > 0 /\ v.buff \in Seq(C)
  BY DEF Viewport
<1>2. off \in Nat
  <2>1. v.cols * row \in Nat
    BY <1>1
  <2> QED BY <2>1
<1>3. d.v = [v EXCEPT !.buff = buff] /\ d.cursor = <<end \div v.cols, end % v.cols>>
  BY DEF print_at
<1> HIDE DEF off, d
<1>4. end \in Nat /\ Len(v.buff) \in Nat /\ SatSub(off, Len(v.buff)) \in Nat
  BY <1>1, <1>2, LenProperties DEF SatSub
<1>5. pad \in Seq(C) /\ Len(pad) = SatSub(off, Len(v.buff))
  BY <1>4, FcnIsSeq
<1>6. padded \in Seq(C) /\ Len(padded) = Len(v.buff) + SatSub(off, Len(v.buff))
  <2> DEFINE b == v.buff
             m == SatSub(off, Len(b))
  <2>1. b \in Seq(C) /\ pad \in Seq(C) /\ Len(pad) = m
    BY <1>1, <1>5
  <2> HIDE DEF pad, b, m
  <2>2. b \o pad \in Seq(C) /\ Len(b \o pad) = Len(b) + m
    BY <2>1, ConcatProperties
  <2> QED BY <2>2 DEF b, m
<1>7. off <= Len(padded) /\ Len(padded) \in Nat
  BY <1>2, <1>4, <1>6 DEF SatSub
<1>8. own \in Seq(C)
  <2>1. Len(text) \in Nat /\ DOMAIN text = 1..Len(text) /\ \A i \in DOMAIN text : text[i] \in Glyph
    BY LenProperties, ElementOfSeq
  <2>2. own \in [1..Len(text) -> C]
    BY <2>1
  <2> HIDE DEF own
  <2> QED BY <2>1, <2>2, FcnIsSeq
<1> HIDE DEF padded, own, end
<1>9. SubSeq(padded, 1, off) \in Seq(C) /\ SubSeq(padded, end + 1, Len(padded)) \in Seq(C)
  <2>1. \A i \in 1..off : i \in 1..Len(padded)
    BY <1>2, <1>7
  <2>2. \A i \in (end + 1)..Len(padded) : i \in 1..Len(padded)
    BY <1>4, <1>7
  <2> QED BY <1>2, <1>4, <1>6, <1>7, <2>1, <2>2, SubSeqProperties
<1>10. buff \in Seq(C)
  BY <1>8, <1>9, ConcatProperties
<1> HIDE DEF buff
<1>11. d.v \in Viewport(C)
  BY <1>3, <1>10 DEF Viewport
<1>12. end \div v.cols \in Nat /\ end % v.cols \in Nat
  <2>1. \A a \in Nat, b \in Nat \ {0} : a \div b \in Nat /\ a % b \in Nat
    OBVIOUS
  <2> DEFINE c == v.cols
  <2>2. c \in Nat \ {0} /\ end \in Nat
    BY <1>1, <1>4
  <2> HIDE DEF c
  <2>3. end \div c \in Nat /\ end % c \in Nat
    BY <2>1, <2>2
  <2> QED BY <2>3 DEF c
<1> QED BY <1>3, <1>11, <1>12 DEF d

DrawState(C) == [v : Viewport(C), cursor : Nat \X Nat]

(* print_at leaves a viewport and a cursor.                                *)
LEMMA PrintAtType ==
    ASSUME NEW C, Blank \in C, NEW v \in Viewport(C), NEW el, \A c \in Glyph : <<el, c>> \in C,
           NEW row \in Nat, NEW col \in Nat, NEW text \in Seq(Glyph)
    PROVE  print_at(v, el, row, col, text) \in DrawState(C)
<1> DEFINE d == print_at(v, el, row, col, text)
<1>1. d = [v |-> d.v, cursor |-> d.cursor]
  BY DEF print_at
<1>2. d.v \in Viewport(C) /\ d.cursor \in Nat \X Nat
  BY PrintAt
<1> HIDE DEF d
<1>3. d \in DrawState(C)
  BY <1>1, <1>2 DEF DrawState
<1> QED BY <1>3 DEF d

PrintState(C) == [v : Viewport(C), row : Nat, idx : Nat, cursor : Nat \X Nat]

(* So does each word of inner_print.                                       *)
LEMMA PrintWordType ==
    ASSUME NEW C, Blank \in C, NEW el, \A c \in Glyph : <<el, c>> \in C,
           NEW cols \in Nat \ {0}, NEW acc \in PrintState(C), NEW w \in Glyph
    PROVE  PrintWord(cols, el, acc, w) \in PrintState(C)
<1>1. CASE w = "\n"
  <2> DEFINE e == PrintWord(cols, el, acc, w)
  <2>1. e = [acc EXCEPT !.row = acc.row + 1, !.idx = 0]
    BY <1>1 DEF PrintWord
  <2> HIDE DEF e
  <2>2. acc = [v |-> acc.v, row |-> acc.row, idx |-> acc.idx, cursor |-> acc.cursor]
    BY DEF PrintState
  <2>3. e = [v |-> acc.v, row |-> acc.row + 1, idx |-> 0, cursor |-> acc.cursor]
    BY <2>1, <2>2
  <2>4. e \in PrintState(C)
    BY <2>3 DEF PrintState
  <2> QED BY <2>4 DEF e
<1>2. CASE w # "\n"
  <2> DEFINE wrap == acc.idx + 1 >= cols
             r == IF wrap THEN acc.row + 1 ELSE acc.row
             c == IF wrap THEN 0 ELSE acc.idx
             d == print_at(acc.v, el, r, c, <<w>>)
             down == 1 \div cols
             right == 1 % cols
  <2>1. r \in Nat /\ c \in Nat /\ acc.v \in Viewport(C) /\ <<w>> \in Seq(Glyph) /\ acc.idx \in Nat
    BY DEF PrintState
  <2>2. down \in Nat /\ right \in Nat
    OBVIOUS
  <2>3. PrintWord(cols, el, acc, w) =
           [v |-> d.v, cursor |-> d.cursor, row |-> r + down,
            idx |-> IF wrap THEN right ELSE acc.idx + 1]
    BY <1>2 DEF PrintWord
  <2> HIDE DEF r, c, down, right, wrap
  <2>4. d \in DrawState(C)
    BY <2>1, PrintAtType
  <2>5. d.v \in Viewport(C) /\ d.cursor \in Nat \X Nat
    BY <2>4 DEF DrawState
  <2> HIDE DEF d
  <2> QED BY <2>1, <2>2, <2>3, <2>5 DEF PrintState
<1> QED BY <1>1, <1>2

PrintWords(cols, el, base, words) ==
    Fold(LAMBDA acc, w : PrintWord(cols, el, acc, w), base, words)

(* The states that inner_print goes through.                               *)
IsPrinting(w, cols, el, base, words, n) ==
    w = [k \in 0..n |-> IF k = 0 THEN base
                        ELSE PrintWord(cols, el, w[k - 1], words[k])]

(* inner_print ends at the last of its words.                              *)
LEMMA InnerPrintWalk ==
    ASSUME NEW cols, NEW el, NEW base, NEW words, Len(words) \in Nat
    PROVE  \E w : IsPrinting(w, cols, el, base, words, Len(words)) /\ PrintWords(cols, el, base, words) = w[Len(words)]
<1> DEFINE n == Len(words)
           Step(a, x) == PrintWord(cols, el, a, x)
           Is(w, m) == w = [k \in 0..m |-> IF k = 0 THEN base ELSE Step(w[k - 1], words[k])]
           Eq(w) == w = [k \in 0..n |-> IF k = 0 THEN base
                                        ELSE CHOOSE r \in {Step(a, words[k]) : a \in {w[k - 1]}} : TRUE]
           P == {m \in 0..n : \E w : Is(w, m)}
<1>1. PrintWords(cols, el, base, words) = (CHOOSE w : Eq(w))[n]
  BY DEF Fold, PrintWords
<1>2. \A w : Is(w, n) <=> IsPrinting(w, cols, el, base, words, n)
  BY DEF IsPrinting
<1> HIDE DEF Step
<1>3. \A a, x : (CHOOSE r \in {Step(b, x) : b \in {a}} : TRUE) = Step(a, x)
  OBVIOUS
<1>4. \A w : Is(w, n) <=> Eq(w)
  BY <1>3
<1>5. n \in Nat
  OBVIOUS
<1> HIDE DEF n
<1>6. 0 \in P
  <2> DEFINE w == [k \in 0..0 |-> base]
  <2>1. Is(w, 0)
    OBVIOUS
  <2> HIDE DEF Is, w
  <2> QED BY <1>5, <2>1
<1>7. ASSUME NEW m \in 1..n, m - 1 \in P PROVE m \in P
  <2>1. PICK w : Is(w, m - 1)
    BY <1>7
  <2> DEFINE h == [k \in 0..m |-> IF k = 0 THEN base ELSE Step(w[k - 1], words[k])]
  <2>2. \A j \in 0..(m - 1) : h[j] = w[j]
    BY <2>1, <1>5
  <2>3. \A k \in 0..m : k # 0 => k - 1 \in 0..(m - 1)
    BY <1>5
  <2>4. Is(h, m)
    BY <2>2, <2>3
  <2> HIDE DEF Is, h
  <2> QED BY <1>5, <2>4
<1> HIDE DEF P
<1>8. \A m \in 0..n : m \in P
  BY <1>5, <1>6, <1>7, AlongNat
<1>9. \E w : Is(w, n)
  <2> HIDE DEF Is
  <2> QED BY <1>5, <1>8 DEF P
<1>10. Eq(CHOOSE w : Eq(w))
  <2> HIDE DEF Is, Eq
  <2> QED BY <1>4, <1>9
<1> HIDE DEF Is, Eq
<1> QED BY <1>1, <1>2, <1>4, <1>10 DEF n

(* Printing word by word draws cells of el only.                           *)
LEMMA InnerPrint ==
    ASSUME NEW C, Blank \in C, NEW v \in Viewport(C), NEW el, \A c \in Glyph : <<el, c>> \in C,
           NEW row \in Nat, NEW col \in Nat, NEW words \in Seq(Glyph), NEW newline
    PROVE  inner_print(v, el, row, col, words, newline) \in DrawState(C)
<1> DEFINE n == Len(words)
           cols == v.cols
           base == [v |-> v, row |-> row, idx |-> col, cursor |-> <<row, col>>]
           end == PrintWords(cols, el, base, words)
<1>1. n \in Nat /\ \A k \in 1..n : words[k] \in Glyph
  BY LenProperties, ElementOfSeq
<1>2. cols \in Nat \ {0} /\ base \in PrintState(C)
  BY DEF Viewport, PrintState
<1>3. inner_print(v, el, row, col, words, newline) =
        [v |-> end.v, cursor |-> IF newline THEN <<end.cursor[1] + 1, 0>> ELSE end.cursor]
  BY DEF inner_print, PrintWords
<1> HIDE DEF cols, base
<1>4. PICK w : IsPrinting(w, cols, el, base, words, n) /\ end = w[n]
  BY <1>1, InnerPrintWalk
<1> DEFINE P == {k \in 0..n : w[k] \in PrintState(C)}
<1>5. 0 \in P
  BY <1>1, <1>2, <1>4 DEF IsPrinting
<1>6. ASSUME NEW k \in 1..n, k - 1 \in P PROVE k \in P
  <2>1. k \in 0..n /\ k # 0 /\ w[k - 1] \in PrintState(C)
    BY <1>1, <1>6
  <2>2. w[k] = PrintWord(cols, el, w[k - 1], words[k])
    BY <1>4, <2>1 DEF IsPrinting
  <2>3. w[k] \in PrintState(C)
    BY <1>1, <1>2, <2>1, <2>2, PrintWordType
  <2> QED BY <2>1, <2>3
<1>7. \A k \in 0..n : k \in P
  <2> HIDE DEF P, n
  <2> QED BY <1>1, <1>5, <1>6, AlongNat
<1>8. end \in PrintState(C)
  BY <1>1, <1>4, <1>7
<1> HIDE DEF end
<1>9. end.v \in Viewport(C) /\ end.cursor \in Nat \X Nat
  BY <1>8 DEF PrintState
<1>10. <<end.cursor[1] + 1, 0>> \in Nat \X Nat
  BY <1>9
<1> QED BY <1>3, <1>9, <1>10 DEF DrawState

PrintOptions(el, form, base, rows) ==
    Fold(LAMBDA acc, i : PrintOption(el, form, acc, i), base, rows)

(* The states that Checkbox_render goes through.                           *)
IsTicking(w, el, form, base, rows, n) ==
    w = [k \in 0..n |-> IF k = 0 THEN base
                        ELSE PrintOption(el, form, w[k - 1], rows[k])]

(* A checkbox is drawn when the last of its options is.                    *)
LEMMA CheckboxWalk ==
    ASSUME NEW el, NEW form, NEW base, NEW rows, Len(rows) \in Nat
    PROVE  \E w : IsTicking(w, el, form, base, rows, Len(rows)) /\ PrintOptions(el, form, base, rows) = w[Len(rows)]
<1> DEFINE n == Len(rows)
           Step(a, x) == PrintOption(el, form, a, x)
           Is(w, m) == w = [k \in 0..m |-> IF k = 0 THEN base ELSE Step(w[k - 1], rows[k])]
           Eq(w) == w = [k \in 0..n |-> IF k = 0 THEN base
                                        ELSE CHOOSE r \in {Step(a, rows[k]) : a \in {w[k - 1]}} : TRUE]
           P == {m \in 0..n : \E w : Is(w, m)}
<1>1. PrintOptions(el, form, base, rows) = (CHOOSE w : Eq(w))[n]
  BY DEF Fold, PrintOptions
<1>2. \A w : Is(w, n) <=> IsTicking(w, el, form, base, rows, n)
  BY DEF IsTicking
<1> HIDE DEF Step
<1>3. \A a, x : (CHOOSE r \in {Step(b, x) : b \in {a}} : TRUE) = Step(a, x)
  OBVIOUS
<1>4. \A w : Is(w, n) <=> Eq(w)
  BY <1>3
<1>5. n \in Nat
  OBVIOUS
<1> HIDE DEF n
<1>6. 0 \in P
  <2> DEFINE w == [k \in 0..0 |-> base]
  <2>1. Is(w, 0)
    OBVIOUS
  <2> HIDE DEF Is, w
  <2> QED BY <1>5, <2>1
<1>7. ASSUME NEW m \in 1..n, m - 1 \in P PROVE m \in P
  <2>1. PICK w : Is(w, m - 1)
    BY <1>7
  <2> DEFINE h == [k \in 0..m |-> IF k = 0 THEN base ELSE Step(w[k - 1], rows[k])]
  <2>2. \A j \in 0..(m - 1) : h[j] = w[j]
    BY <2>1, <1>5
  <2>3. \A k \in 0..m : k # 0 => k - 1 \in 0..(m - 1)
    BY <1>5
  <2>4. Is(h, m)
    BY <2>2, <2>3
  <2> HIDE DEF Is, h
  <2> QED BY <1>5, <2>4
<1> HIDE DEF P
<1>8. \A m \in 0..n : m \in P
  BY <1>5, <1>6, <1>7, AlongNat
<1>9. \E w : Is(w, n)
  <2> HIDE DEF Is
  <2> QED BY <1>5, <1>8 DEF P
<1>10. Eq(CHOOSE w : Eq(w))
  <2> HIDE DEF Is, Eq
  <2> QED BY <1>4, <1>9
<1> HIDE DEF Is, Eq
<1> QED BY <1>1, <1>2, <1>4, <1>10 DEF n

(* A checkbox draws cells of its own, and only if it has options.          *)
LEMMA CheckboxDraws ==
    ASSUME NEW C, Blank \in C, NEW v \in Viewport(C), NEW el, NEW form, GoodForm(form),
           form.kind = "Checkbox", form.options # <<>> => \A c \in Glyph : <<el, c>> \in C,
           NEW cursor \in Nat \X Nat
    PROVE  Checkbox_render(v, el, form, cursor) \in DrawState(C)
<1> DEFINE n == Len(form.options)
           rows == [i \in DOMAIN form.options |-> i]
           base == [v |-> v, cursor |-> cursor]
<1>1. form.options \in Seq(BOOLEAN) /\ form.text \in Seq(Glyph) /\ Len(form.text) = n
      /\ form.row \in Nat /\ form.col \in Nat
  BY DEF GoodForm, FormRecord
<1>2. n \in Nat /\ DOMAIN form.options = 1..n /\ \A k \in 1..n : form.text[k] \in Glyph
  BY <1>1, LenProperties, ElementOfSeq
<1>3. rows \in [1..n -> Nat] /\ \A k \in 1..n : rows[k] = k
  BY <1>2
<1>4. Checkbox_render(v, el, form, cursor) = PrintOptions(el, form, base, rows)
  BY DEF Checkbox_render, PrintOptions
<1>5. base \in DrawState(C)
  BY DEF DrawState
<1> HIDE DEF rows, base, n
<1>6. Len(rows) = n
  BY <1>2, <1>3, FcnIsSeq
<1>7. PICK w : IsTicking(w, el, form, base, rows, n) /\ PrintOptions(el, form, base, rows) = w[n]
  BY <1>2, <1>6, CheckboxWalk
<1> DEFINE P == {k \in 0..n : w[k] \in DrawState(C)}
<1>8. 0 \in P
  BY <1>2, <1>5, <1>7 DEF IsTicking
<1>9. ASSUME NEW k \in 1..n, k - 1 \in P PROVE k \in P
  <2>1. k \in 0..n /\ k # 0 /\ k \in Nat /\ w[k - 1] \in DrawState(C)
    BY <1>2, <1>9
  <2>2. w[k] = PrintOption(el, form, w[k - 1], k)
    BY <1>3, <1>7, <2>1 DEF IsTicking
  <2>3. \A c \in Glyph : <<el, c>> \in C
    <3>1. form.options # <<>>
      BY <1>2, <2>1
    <3> QED BY <3>1
  <2> DEFINE mark == IF form.options[k] THEN "*" ELSE "o"
             text == <<mark, form.text[k]>>
             at == form.row + k - 1
             vp == w[k - 1].v
             col == form.col
  <2>4. w[k] = print_at(vp, el, at, col, text)
    BY <2>2 DEF PrintOption
  <2>5. text \in Seq(Glyph) /\ at \in Nat /\ vp \in Viewport(C) /\ col \in Nat
    <3>1. mark \in Glyph /\ form.text[k] \in Glyph
      BY <1>2 DEF Glyph
    <3> HIDE DEF mark
    <3>2. text \in Seq(Glyph)
      BY <3>1
    <3> QED BY <1>1, <2>1, <3>2 DEF DrawState
  <2> HIDE DEF text, at, vp, col
  <2>6. w[k] \in DrawState(C)
    BY <2>3, <2>4, <2>5, PrintAtType
  <2> QED BY <2>1, <2>6
<1>10. \A k \in 0..n : k \in P
  <2> HIDE DEF P
  <2> QED BY <1>2, <1>8, <1>9, AlongNat
<1> QED BY <1>2, <1>4, <1>7, <1>10

(* A text line stays a text when it is filled up.                          *)
LEMMA PaddedText ==
    ASSUME NEW C, NEW v \in Viewport(C), NEW form, GoodForm(form)
    PROVE  padded_text(v, form) \in Seq(Glyph)
<1> DEFINE width == Least(SatSub(v.cols, form.col), form.max_len)
           m == SatSub(width, Len(form.text))
           pad == [i \in 1..m |-> " "]
<1>1. form.text \in Seq(Glyph) /\ form.col \in Nat /\ form.max_len \in Nat /\ v.cols \in Nat
  BY DEF GoodForm, FormRecord, Viewport
<1>2. Len(form.text) \in Nat
  BY <1>1, LenProperties
<1>3. width \in Nat
  BY <1>1 DEF Least, SatSub
<1>4. m \in Nat
  BY <1>2, <1>3 DEF SatSub
<1>5. padded_text(v, form) = form.text \o pad
  BY DEF padded_text
<1> HIDE DEF m
<1>6. pad \in Seq(Glyph)
  <2>1. pad \in [1..m -> Glyph]
    BY DEF Glyph
  <2> QED BY <1>4, <2>1, FcnIsSeq
<1> HIDE DEF pad
<1> QED BY <1>1, <1>5, <1>6, ConcatProperties

(* Whatever a form draws in a viewport, the cells are its own.             *)
LEMMA FormDraws ==
    ASSUME NEW C, Blank \in C, NEW v \in Viewport(C), NEW el, NEW form, GoodForm(form),
           ~(form.kind = "Checkbox" /\ form.options = <<>>) => \A c \in Glyph : <<el, c>> \in C,
           NEW focused, NEW cursor \in Nat \X Nat
    PROVE  DrawForm(v, el, form, focused, cursor) \in DrawState(C)
<1>1. form.text \in Seq(Glyph) /\ form.row \in Nat /\ form.col \in Nat /\ form.kind \in FormTypes
  BY DEF GoodForm, FormRecord
<1> DEFINE text == form.text
           row == form.row
           col == form.col
<1>2. CASE form.kind = "Checkbox"
  <2>1. DrawForm(v, el, form, focused, cursor) = Checkbox_render(v, el, form, cursor)
    BY <1>2 DEF DrawForm
  <2> QED BY <1>2, <2>1, CheckboxDraws
<1>3. ASSUME form.kind # "Checkbox" PROVE \A c \in Glyph : <<el, c>> \in C
  BY <1>3
<1>4. CASE form.kind = "Text"
  <2>1. DrawForm(v, el, form, focused, cursor) = print_at(v, el, row, col, text)
    BY <1>4 DEF DrawForm, RawText_render
  <2>2. text \in Seq(Glyph) /\ row \in Nat /\ col \in Nat
    BY <1>1
  <2> HIDE DEF text, row, col
  <2> QED BY <1>3, <1>4, <2>1, <2>2, PrintAtType
<1>5. CASE form.kind = "Print"
  <2> DEFINE at == IF form.flow THEN cursor ELSE <<form.row, form.col>>
             r == at[1]
             c == at[2]
             newline == form.newline
  <2>1. DrawForm(v, el, form, focused, cursor) = inner_print(v, el, r, c, text, newline)
    BY <1>5 DEF DrawForm, PrintText_render
  <2>2. text \in Seq(Glyph) /\ r \in Nat /\ c \in Nat
    BY <1>1
  <2> HIDE DEF text, r, c, newline
  <2> QED BY <1>3, <1>5, <2>1, <2>2, InnerPrint
<1>6. CASE form.kind = "Button"
  <2> DEFINE mark == IF focused THEN "<" ELSE "["
             label == <<mark>> \o text
  <2>1. DrawForm(v, el, form, focused, cursor) = print_at(v, el, row, col, label)
    BY <1>6 DEF DrawForm, Button_render
  <2>2. label \in Seq(Glyph) /\ row \in Nat /\ col \in Nat
    <3>1. mark \in Glyph /\ text \in Seq(Glyph)
      BY <1>1 DEF Glyph
    <3> HIDE DEF mark, text
    <3>2. <<mark>> \in Seq(Glyph)
      BY <3>1
    <3>3. label \in Seq(Glyph)
      BY <3>1, <3>2, ConcatProperties
    <3> QED BY <1>1, <3>3
  <2> HIDE DEF label, row, col
  <2> QED BY <1>3, <1>6, <2>1, <2>2, PrintAtType
<1>7. CASE form.kind = "TextLine"
  <2> DEFINE line == padded_text(v, form)
  <2>1. DrawForm(v, el, form, focused, cursor) = print_at(v, el, row, col, line)
    BY <1>7 DEF DrawForm, TextLine_render
  <2>2. line \in Seq(Glyph) /\ row \in Nat /\ col \in Nat
    BY <1>1, PaddedText
  <2> HIDE DEF line, row, col
  <2> QED BY <1>3, <1>7, <2>1, <2>2, PrintAtType
<1> QED BY <1>1, <1>2, <1>4, <1>5, <1>6, <1>7 DEF FormTypes

(* Blanks and what a form draws are cells, but for forms that draw         *)
(* nothing.                                                                *)
LEMMA CellFacts ==
    ASSUME NEW forms, IsForms(forms)
    PROVE  /\ Blank \in Cells(forms)
           /\ \A el \in DOMAIN forms \ Idle(forms), c \in Glyph : <<el, c>> \in Cells(forms)
<1>1. 0 \notin Idle(forms) /\ DOMAIN forms \subseteq Nat
  BY DEF IsForms, Idle
<1> QED BY <1>1 DEF Cells, Blank, None, Glyph

(* g is f with its viewports drawn in and its cursor moved.                *)
OnlyDrawn(g, f) ==
    /\ Shape(g)
    /\ g.at = f.at /\ g.zbuff = f.zbuff /\ g.screen = f.screen /\ g.forms = f.forms
    /\ g.dynamic = f.dynamic /\ g.focused = f.focused /\ g.next = f.next /\ g.prev = f.prev
    /\ g.first = f.first /\ g.events = f.events
    /\ g.vps \in [DOMAIN f.vps -> Viewport(Cells(f.forms))]

IsFlow(flow) == \A x \in DOMAIN flow : flow[x] \in Nat \X Nat

Drawing(acc, f) ==
    /\ acc = [f |-> acc.f, flow |-> acc.flow]
    /\ OnlyDrawn(acc.f, f) /\ IsFlow(acc.flow)

(* Drawing one form.                                                       *)
LEMMA DrawNextKeeps ==
    ASSUME NEW f, Drawable(f), NEW which, NEW acc, Drawing(acc, f), NEW el \in DOMAIN f.forms
    PROVE  Drawing(DrawNext(f, which, acc, el), f)
<1> DEFINE form == f.forms[el]
           is == Index(f.vps, form.vp)
           i == CHOOSE x \in is : TRUE
           v == acc.f.vps[i]
           C == Cells(f.forms)
           cursor == IF form.vp \in DOMAIN acc.flow THEN acc.flow[form.vp] ELSE <<0, 0>>
           focused == f.focused = el
           d == DrawForm(v, el, form, focused, cursor)
           e == DrawNext(f, which, acc, el)
           g == [acc.f EXCEPT !.vps[i] = d.v,
                              !.cursor = IF f.focused = el THEN set_form_cursor(f, form) ELSE @]
           flow == [x \in DOMAIN acc.flow \cup {form.vp} |->
                       IF x = form.vp THEN d.cursor ELSE acc.flow[x]]
<1>1. CASE is = {} \/ v.visible \notin which
  <2>1. e = acc
    BY <1>1 DEF DrawNext
  <2> QED BY <2>1
<1>2. CASE ~(is = {} \/ v.visible \notin which)
  <2>1. e = [f |-> g, flow |-> flow]
    BY <1>2 DEF DrawNext
  <2>2. IsForms(f.forms) /\ GoodForm(form)
    BY DEF Drawable, IsForms
  <2>3. i \in DOMAIN f.vps
    BY <1>2 DEF Index
  <2>4. OnlyDrawn(acc.f, f) /\ IsFlow(acc.flow)
    BY DEF Drawing
  <2>5. v \in Viewport(C) /\ cursor \in Nat \X Nat
    <3>1. v \in Viewport(C)
      BY <2>3, <2>4 DEF OnlyDrawn
    <3>2. cursor \in Nat \X Nat
      BY <2>4 DEF IsFlow
    <3> QED BY <3>1, <3>2
  <2>6. d \in DrawState(C)
    <3>1. Blank \in C
      BY <2>2, CellFacts
    <3>2. ASSUME ~(form.kind = "Checkbox" /\ form.options = <<>>)
          PROVE  \A c \in Glyph : <<el, c>> \in C
      <4>1. el \in DOMAIN f.forms \ Idle(f.forms)
        BY <3>2 DEF Idle
      <4> QED BY <2>2, <4>1, CellFacts
    <3> HIDE DEF form, v, C, cursor, focused
    <3> QED BY <2>2, <2>5, <3>1, <3>2, FormDraws
  <2>7. d.v \in Viewport(C) /\ d.cursor \in Nat \X Nat
    <3> HIDE DEF d, C
    <3> QED BY <2>6 DEF DrawState
  <2>8. OnlyDrawn(g, f)
    <3> DEFINE b == acc.f
               dv == d.v
               cur == IF f.focused = el THEN set_form_cursor(f, form) ELSE b.cursor
    <3>1. g = [b EXCEPT !.vps[i] = dv, !.cursor = cur]
      OBVIOUS
    <3>2. Shape(b) /\ b.vps \in [DOMAIN f.vps -> Viewport(C)]
      BY <2>4 DEF OnlyDrawn
    <3>3. dv \in Viewport(C)
      BY <2>7
    <3> HIDE DEF g, b, dv, cur, i, C
    <3>4. /\ Shape(g) /\ g.at = b.at /\ g.zbuff = b.zbuff /\ g.screen = b.screen
          /\ g.forms = b.forms /\ g.dynamic = b.dynamic /\ g.focused = b.focused
          /\ g.next = b.next /\ g.prev = b.prev /\ g.first = b.first /\ g.events = b.events
          /\ g.vps = [b.vps EXCEPT ![i] = dv]
      BY <3>1, <3>2 DEF Shape
    <3>5. g.vps \in [DOMAIN f.vps -> Viewport(C)]
      BY <3>2, <3>3, <3>4
    <3>6. OnlyDrawn(b, f)
      BY <2>4 DEF b
    <3> QED BY <3>4, <3>5, <3>6 DEF OnlyDrawn, C
  <2>9. IsFlow(flow)
    <3> HIDE DEF d
    <3> QED BY <2>4, <2>7 DEF IsFlow
  <2> HIDE DEF g, flow, e
  <2>10. Drawing(e, f)
    BY <2>1, <2>8, <2>9 DEF Drawing
  <2> QED BY <2>10 DEF e
<1> QED BY <1>1, <1>2

(* The frames that DrawAll goes through.                                   *)
IsDrawing(w, f, flow, ids, which, n) ==
    w = [k \in 0..n |-> IF k = 0 THEN [f |-> f, flow |-> flow]
                        ELSE DrawNext(f, which, w[k - 1], ids[k])]

(* DrawAll ends at the last of the forms it draws.                         *)
LEMMA DrawAllWalk ==
    ASSUME NEW f, NEW flow, NEW ids, NEW which, Len(ids) \in Nat
    PROVE  \E w : IsDrawing(w, f, flow, ids, which, Len(ids)) /\ DrawAll(f, flow, ids, which) = w[Len(ids)]
<1> DEFINE n == Len(ids)
           base == [f |-> f, flow |-> flow]
           Step(a, x) == DrawNext(f, which, a, x)
           Is(w, m) == w = [k \in 0..m |-> IF k = 0 THEN base ELSE Step(w[k - 1], ids[k])]
           Eq(w) == w = [k \in 0..n |-> IF k = 0 THEN base
                                        ELSE CHOOSE r \in {Step(a, ids[k]) : a \in {w[k - 1]}} : TRUE]
           P == {m \in 0..n : \E w : Is(w, m)}
<1>1. DrawAll(f, flow, ids, which) = (CHOOSE w : Eq(w))[n]
  BY DEF DrawAll, Fold
<1>2. \A w : Is(w, n) <=> IsDrawing(w, f, flow, ids, which, n)
  BY DEF IsDrawing
<1> HIDE DEF base, Step
<1>3. \A a, x : (CHOOSE r \in {Step(b, x) : b \in {a}} : TRUE) = Step(a, x)
  OBVIOUS
<1>4. \A w : Is(w, n) <=> Eq(w)
  BY <1>3
<1>5. n \in Nat
  OBVIOUS
<1> HIDE DEF n
<1>6. 0 \in P
  <2> DEFINE w == [k \in 0..0 |-> base]
  <2>1. Is(w, 0)
    OBVIOUS
  <2> HIDE DEF Is, w
  <2> QED BY <1>5, <2>1
<1>7. ASSUME NEW m \in 1..n, m - 1 \in P PROVE m \in P
  <2>1. PICK w : Is(w, m - 1)
    BY <1>7
  <2> DEFINE h == [k \in 0..m |-> IF k = 0 THEN base ELSE Step(w[k - 1], ids[k])]
  <2>2. \A j \in 0..(m - 1) : h[j] = w[j]
    BY <2>1, <1>5
  <2>3. \A k \in 0..m : k # 0 => k - 1 \in 0..(m - 1)
    BY <1>5
  <2>4. Is(h, m)
    BY <2>2, <2>3
  <2> HIDE DEF Is, h
  <2> QED BY <1>5, <2>4
<1> HIDE DEF P
<1>8. \A m \in 0..n : m \in P
  BY <1>5, <1>6, <1>7, AlongNat
<1>9. \E w : Is(w, n)
  <2> HIDE DEF Is
  <2> QED BY <1>5, <1>8 DEF P
<1>10. Eq(CHOOSE w : Eq(w))
  <2> HIDE DEF Is, Eq
  <2> QED BY <1>4, <1>9
<1> HIDE DEF Is, Eq
<1> QED BY <1>1, <1>2, <1>4, <1>10 DEF n

(* Drawing any forms, in any order.                                        *)
LEMMA DrawAllKeeps ==
    ASSUME NEW f, Drawable(f), NEW flow, IsFlow(flow), NEW ids \in Seq(DOMAIN f.forms), NEW which
    PROVE  Drawing(DrawAll(f, flow, ids, which), f)
<1> DEFINE n == Len(ids)
           base == [f |-> f, flow |-> flow]
<1>1. n \in Nat /\ \A k \in 1..n : ids[k] \in DOMAIN f.forms
  BY LenProperties, ElementOfSeq
<1>2. PICK w : IsDrawing(w, f, flow, ids, which, n) /\ DrawAll(f, flow, ids, which) = w[n]
  BY <1>1, DrawAllWalk
<1>3. Drawing(base, f)
  <2>1. f.vps \in [DOMAIN f.vps -> Viewport(Cells(f.forms))]
    <3>1. f.vps \in Seq(Viewport(Cells(f.forms)))
      BY DEF Drawable
    <3> DEFINE vps == f.vps
               V == Viewport(Cells(f.forms))
    <3> HIDE DEF vps, V
    <3>2. vps \in [DOMAIN vps -> V]
      BY <3>1, LenProperties DEF vps, V
    <3> QED BY <3>2 DEF vps, V
  <2>2. OnlyDrawn(f, f)
    BY <2>1 DEF OnlyDrawn, Drawable
  <2> QED BY <2>2 DEF Drawing
<1> DEFINE P == {k \in 0..n : Drawing(w[k], f)}
<1>4. 0 \in P
  <2>1. w[0] = base
    BY <1>1, <1>2 DEF IsDrawing
  <2> HIDE DEF base
  <2> QED BY <1>1, <1>3, <2>1
<1>5. ASSUME NEW k \in 1..n, k - 1 \in P PROVE k \in P
  <2>1. k \in 0..n /\ k # 0 /\ Drawing(w[k - 1], f)
    BY <1>1, <1>5
  <2>2. w[k] = DrawNext(f, which, w[k - 1], ids[k])
    BY <1>2, <2>1 DEF IsDrawing
  <2>3. Drawing(w[k], f)
    BY <1>1, <2>1, <2>2, DrawNextKeeps
  <2> QED BY <2>1, <2>3
<1>6. \A k \in 0..n : k \in P
  <2> HIDE DEF P, n
  <2> QED BY <1>1, <1>4, <1>5, AlongNat
<1> QED BY <1>1, <1>2, <1>6

(* What was drawn on can be drawn on again.                                *)
LEMMA DrawnIsDrawable ==
    ASSUME NEW f, Drawable(f), NEW g, OnlyDrawn(g, f)
    PROVE  Drawable(g)
<1> DEFINE V == Viewport(Cells(f.forms))
           n == Len(f.vps)
<1>1. n \in Nat /\ DOMAIN f.vps = 1..n
  BY LenProperties DEF Drawable
<1>2. g.vps \in [1..n -> V] /\ g.forms = f.forms /\ g.at = f.at /\ g.zbuff = f.zbuff /\ Shape(g)
  BY <1>1 DEF OnlyDrawn
<1> HIDE DEF V, n
<1>3. g.vps \in Seq(V) /\ DOMAIN g.vps = DOMAIN f.vps
  BY <1>1, <1>2, FcnIsSeq
<1> QED BY <1>2, <1>3 DEF Drawable, V

-----------------------------------------------------------------------------
(* The screen.                                                             *)

(* SceneGraph is well defined: a parent is created before its children.    *)
LEMMA SceneGraphPlaces ==
    ASSUME NEW C, NEW vps \in Seq(Viewport(C)),
           \A i, j \in DOMAIN vps : vps[i].id = vps[j].id => i = j,
           \A i \in DOMAIN vps : vps[i].parent # None =>
              \E j \in DOMAIN vps : j < i /\ vps[j].id = vps[i].parent
    PROVE  SceneGraph(vps) \in [DOMAIN vps -> Place]
<1> DEFINE n == Len(vps)
           Up(i) == CHOOSE j \in DOMAIN vps : vps[j].id = vps[i].parent
           Below(up, i) == [row |-> vps[i].row + up.row, col |-> vps[i].col + up.col,
                            depth |-> up.depth + 1]
           Top(i) == [row |-> vps[i].row, col |-> vps[i].col, depth |-> 0]
           Is(w, m) == w = [i \in 1..m |-> IF vps[i].parent = None THEN Top(i)
                                           ELSE Below(w[Up(i)], i)]
           P == {m \in 0..n : \E w : Is(w, m)}
<1>1. n \in Nat /\ DOMAIN vps = 1..n
  BY LenProperties
<1>2. SceneGraph(vps) = CHOOSE w : Is(w, n)
  <2>1. SceneGraph(vps) = CHOOSE w : w = [i \in DOMAIN vps |-> IF vps[i].parent = None THEN Top(i)
                                                              ELSE Below(w[Up(i)], i)]
    BY DEF SceneGraph
  <2> HIDE DEF Top, Below, Up
  <2> QED BY <1>1, <2>1
<1>3. \A i \in 1..n : vps[i].parent # None => Up(i) \in 1..n /\ Up(i) < i
  BY <1>1
<1>4. \A i \in 1..n : vps[i].row \in Nat /\ vps[i].col \in Nat
  <2>1. \A i \in 1..n : vps[i] \in Viewport(C)
    BY <1>1, ElementOfSeq
  <2> QED BY <2>1 DEF Viewport
<1>5. \A i \in 1..n : Top(i) \in Place
  BY <1>4 DEF Place
<1>6. \A i \in 1..n : \A up \in Place : Below(up, i) \in Place
  BY <1>4 DEF Place
<1> HIDE DEF n, Up, Below, Top
<1>7. 0 \in P
  <2> DEFINE w == [i \in 1..0 |-> Top(i)]
  <2>1. Is(w, 0)
    OBVIOUS
  <2> HIDE DEF Is, w
  <2> QED BY <1>1, <2>1
<1>8. ASSUME NEW m \in 1..n, m - 1 \in P PROVE m \in P
  <2>1. PICK w : Is(w, m - 1)
    BY <1>8
  <2> DEFINE h == [i \in 1..m |-> IF vps[i].parent = None THEN Top(i) ELSE Below(w[Up(i)], i)]
  <2>2. \A j \in 1..(m - 1) : h[j] = w[j]
    BY <1>1, <2>1
  <2>3. \A i \in 1..m : vps[i].parent # None => Up(i) \in 1..(m - 1)
    BY <1>1, <1>3
  <2>4. Is(h, m)
    BY <2>2, <2>3
  <2> HIDE DEF Is, h
  <2> QED BY <1>1, <2>4
<1>9. \A m \in 0..n : m \in P
  <2> HIDE DEF P
  <2> QED BY <1>1, <1>7, <1>8, AlongNat
<1>10. PICK at : Is(at, n) /\ SceneGraph(vps) = at
  <2> HIDE DEF Is
  <2>1. \E w : Is(w, n)
    BY <1>1, <1>9
  <2> QED BY <1>2, <2>1
<1> DEFINE Q == {m \in 0..n : \A i \in 1..m : at[i] \in Place}
<1>11. 0 \in Q
  BY <1>1
<1>12. ASSUME NEW m \in 1..n, m - 1 \in Q PROVE m \in Q
  <2>1. \A i \in 1..(m - 1) : at[i] \in Place
    BY <1>12
  <2>2. at[m] = IF vps[m].parent = None THEN Top(m) ELSE Below(at[Up(m)], m)
    BY <1>10
  <2>3. at[m] \in Place
    <3>1. vps[m].parent # None => at[Up(m)] \in Place
      BY <1>1, <1>3, <2>1
    <3> QED BY <1>5, <1>6, <2>2, <3>1
  <2>4. \A i \in 1..m : i = m \/ i \in 1..(m - 1)
    BY <1>1
  <2> QED BY <1>1, <2>1, <2>3, <2>4
<1>13. \A m \in 0..n : m \in Q
  <2> HIDE DEF Q
  <2> QED BY <1>1, <1>11, <1>12, AlongNat
<1>14. \A i \in 1..n : at[i] \in Place
  BY <1>1, <1>13
<1> QED BY <1>1, <1>10, <1>14

(* The z-buffer names a viewport or none for each pixel.                   *)
LEMMA ZBuffer ==
    ASSUME NEW f
    PROVE  make_zbuff(f) \in [Pixels -> {None} \cup DOMAIN f.vps]
<1>1. ASSUME NEW r, NEW c PROVE viewport_at(f, r, c) \in {None} \cup DOMAIN f.vps
  BY DEF viewport_at
<1> QED BY <1>1 DEF make_zbuff

(* The screen shows only cells of forms that draw something.               *)
LEMMA ScreenCells ==
    ASSUME NEW f, Drawable(f), NEW z \in [Pixels -> {None} \cup DOMAIN f.vps]
    PROVE  charbuff(f, z) \in [Pixels -> Cells(f.forms)]
<1> DEFINE C == Cells(f.forms)
<1>1. Blank \in C /\ f.vps \in Seq(Viewport(C)) /\ f.at \in [DOMAIN f.vps -> Place]
  BY CellFacts DEF Drawable
<1>2. ASSUME NEW px \in Pixels PROVE charbuff(f, z)[px] \in C
  <2> DEFINE i == z[px]
             v == f.vps[i]
             at == f.at[i]
             rel == translate_coordinate(at, v, px)
  <2>1. charbuff(f, z)[px] = IF i = None \/ rel = <<>> THEN Blank ELSE charcell_at(v, rel)
    BY DEF charbuff
  <2>2. CASE i = None \/ rel = <<>>
    BY <1>1, <2>1, <2>2
  <2>3. CASE ~(i = None \/ rel = <<>>)
    <3>1. v \in Viewport(C) /\ at \in Place
      <4>1. i \in DOMAIN f.vps
        BY <2>3
      <4> QED BY <1>1, <4>1, ElementOfSeq
    <3>2. rel = <<px[1] - at.row, px[2] - at.col>> /\ at.row <= px[1] /\ at.col <= px[2]
      BY <2>3 DEF translate_coordinate, Covers
    <3>3. px[1] \in Nat /\ px[2] \in Nat
      <4>1. px[1] \in 0..(Rows - 1) /\ px[2] \in 0..(Cols - 1)
        BY DEF Pixels
      <4>2. \A m \in Nat \ {0} : 0..(m - 1) \subseteq Nat
        OBVIOUS
      <4> QED BY <4>1, <4>2, FormsAssumption
    <3> DEFINE r == px[1] - at.row
               c == px[2] - at.col
               b == v.buff
               at1 == v.cols * r + c + 1
    <3>4. r \in Nat /\ c \in Nat /\ b \in Seq(C) /\ v.cols \in Nat
      <4>1. at.row \in Nat /\ at.col \in Nat
        BY <3>1 DEF Place
      <4>2. \A x, y \in Nat : y <= x => x - y \in Nat
        OBVIOUS
      <4>3. r \in Nat /\ c \in Nat
        <5> HIDE DEF at
        <5> QED BY <3>2, <3>3, <4>1, <4>2
      <4>4. b \in Seq(C) /\ v.cols \in Nat
        <5> HIDE DEF v, C
        <5> QED BY <3>1 DEF Viewport
      <4> QED BY <4>3, <4>4
    <3>5. at1 \in Nat /\ at1 >= 1
      <4> DEFINE m == v.cols
                 x == m * r
      <4> HIDE DEF r, c, m
      <4>1. x \in Nat
        BY <3>4 DEF m
      <4> HIDE DEF x
      <4>2. x + c + 1 \in Nat /\ x + c + 1 >= 1
        BY <3>4, <4>1
      <4> QED BY <4>2 DEF x, m
    <3>6. charcell_at(v, rel) = IF r < v.rows /\ at1 <= Len(b) THEN b[at1] ELSE Blank
      BY <3>2 DEF charcell_at
    <3> HIDE DEF r, c, b, at1
    <3>7. charcell_at(v, rel) \in C
      <4>1. CASE r < v.rows /\ at1 <= Len(b)
        <5>1. at1 \in 1..Len(b)
          BY <3>4, <3>5, <4>1, LenProperties
        <5>2. b[at1] \in C
          BY <3>4, <5>1, ElementOfSeq
        <5> QED BY <3>6, <4>1, <5>2
      <4>2. CASE ~(r < v.rows /\ at1 <= Len(b))
        BY <1>1, <3>6, <4>2
      <4> QED BY <4>1, <4>2
    <3> QED BY <2>1, <2>3, <3>7
  <2> QED BY <2>2, <2>3
<1>3. charbuff(f, z) = [px \in Pixels |-> charbuff(f, z)[px]]
  BY DEF charbuff
<1> QED BY <1>2, <1>3

-----------------------------------------------------------------------------
(* Reading the screen.                                                     *)

(* Division with a rest, which locates the cells of the screen.            *)
LEMMA DivMod ==
    ASSUME NEW a \in Nat, NEW b \in Nat \ {0}
    PROVE  a = b * (a \div b) + (a % b) /\ a % b \in 0..(b - 1) /\ a \div b \in Nat
<1>1. a = b * (a \div b) + (a % b)
  OBVIOUS
<1>2. a % b \in 0..(b - 1) /\ a \div b \in Nat
  OBVIOUS
<1> QED BY <1>1, <1>2

(* A later row begins after the end of an earlier one.                     *)
LEMMA TimesGrows ==
    ASSUME NEW x \in Nat, NEW y \in Nat, NEW b \in Nat, x < y
    PROVE  b * x + b <= b * y
<1>1. PICK d \in Nat : y = x + 1 + d
  <2>1. y - x - 1 \in Nat /\ y = x + 1 + (y - x - 1)
    OBVIOUS
  <2> QED BY <2>1
<1>2. b * y = b * x + b + b * d /\ b * d \in Nat /\ b * x \in Nat
  BY <1>1
<1> QED BY <1>2

(* A cell's number gives back its row and column.                          *)
LEMMA RowAndColumn ==
    ASSUME NEW r \in Nat, NEW b \in Nat \ {0}, NEW c \in 0..(b - 1)
    PROVE  (b * r + c) \div b = r /\ (b * r + c) % b = c
<1> DEFINE a == b * r + c
           q == a \div b
           m == a % b
<1>1. b * r \in Nat
  OBVIOUS
<1>2. a \in Nat
  BY <1>1
<1> HIDE DEF a
<1>3. a = b * q + m /\ m \in 0..(b - 1) /\ q \in Nat
  BY <1>2, DivMod
<1> HIDE DEF q, m
<1>4. b * q \in Nat
  BY <1>3
<1>5. ~(q < r)
  <2> SUFFICES ASSUME q < r PROVE FALSE
    OBVIOUS
  <2>1. b * q + b <= b * r
    BY <1>3, TimesGrows
  <2> QED BY <1>1, <1>3, <1>4, <2>1 DEF a
<1>6. ~(r < q)
  <2> SUFFICES ASSUME r < q PROVE FALSE
    OBVIOUS
  <2>1. b * r + b <= b * q
    BY <1>3, TimesGrows
  <2> QED BY <1>1, <1>3, <1>4, <2>1 DEF a
<1>7. q = r
  BY <1>3, <1>5, <1>6
<1>8. m = c
  BY <1>1, <1>2, <1>3, <1>7 DEF a
<1> QED BY <1>7, <1>8 DEF q, m, a

(* A cell's number is that of a pixel, and every pixel has a number.       *)
LEMMA CellNumbers ==
    /\ Rows * Cols \in Nat
    /\ \A i \in 1..(Rows * Cols) : <<(i - 1) \div Cols, (i - 1) % Cols>> \in Pixels
    /\ \A px \in Pixels : \E i \in 1..(Rows * Cols) :
          (i - 1) \div Cols = px[1] /\ (i - 1) % Cols = px[2]
<1> DEFINE N == Rows * Cols
<1>1. Rows \in Nat \ {0} /\ Cols \in Nat \ {0} /\ N \in Nat
  <2>1. \A a, b \in Nat : a * b \in Nat
    OBVIOUS
  <2> QED BY <2>1, FormsAssumption
<1>2. ASSUME NEW i \in 1..N PROVE <<(i - 1) \div Cols, (i - 1) % Cols>> \in Pixels
  <2> DEFINE a == i - 1
             q == a \div Cols
             m == a % Cols
  <2>1. a \in Nat /\ a < N
    <3> HIDE DEF N
    <3> QED BY <1>1
  <2> HIDE DEF a
  <2>2. a = Cols * q + m /\ m \in 0..(Cols - 1) /\ q \in Nat
    BY <1>1, <2>1, DivMod
  <2> HIDE DEF q, m
  <2>3. q < Rows
    <3> SUFFICES ASSUME ~(q < Rows) PROVE FALSE
      OBVIOUS
    <3>1. PICK d \in Nat : q = Rows + d
      <4>1. q - Rows \in Nat /\ q = Rows + (q - Rows)
        BY <1>1, <2>2
      <4> QED BY <4>1
    <3>2. Cols * q = N + Cols * d /\ Cols * d \in Nat
      BY <1>1, <3>1
    <3> HIDE DEF N
    <3> QED BY <1>1, <2>1, <2>2, <3>2
  <2>4. q \in 0..(Rows - 1)
    BY <1>1, <2>2, <2>3
  <2>5. <<q, m>> \in Pixels
    BY <2>2, <2>4 DEF Pixels
  <2> QED BY <2>5 DEF q, m, a
<1>3. ASSUME NEW px \in Pixels
      PROVE  \E i \in 1..N : (i - 1) \div Cols = px[1] /\ (i - 1) % Cols = px[2]
  <2> DEFINE r == px[1]
             c == px[2]
             x == Cols * r
             i == x + c + 1
  <2>1. r \in 0..(Rows - 1) /\ c \in 0..(Cols - 1)
    BY DEF Pixels
  <2> HIDE DEF r, c
  <2>2. r \in Nat /\ r < Rows /\ c \in Nat /\ c < Cols
    BY <1>1, <2>1
  <2>3. x \in Nat /\ x + Cols <= N
    <3>1. Cols * r + Cols <= Cols * Rows
      BY <1>1, <2>2, TimesGrows
    <3>2. Cols * Rows = N
      BY <1>1
    <3> QED BY <1>1, <2>2, <3>1, <3>2
  <2>4. x \div Cols = x \div Cols /\ (x + c) \div Cols = r /\ (x + c) % Cols = c
    BY <1>1, <2>1, <2>2, RowAndColumn
  <2> HIDE DEF x, N
  <2>5. i \in 1..N /\ i - 1 = x + c
    BY <1>1, <2>2, <2>3
  <2> HIDE DEF i
  <2>6. (i - 1) \div Cols = r /\ (i - 1) % Cols = c
    BY <2>4, <2>5
  <2> QED BY <2>5, <2>6 DEF r, c
<1> QED BY <1>1, <1>2, <1>3

(* Every position up to the size of a set of numbers is that of one of     *)
(* them.                                                                   *)
LEMMA Ranked ==
    ASSUME NEW n \in Nat, NEW S \in SUBSET (1..n), NEW k \in 1..Cardinality(S)
    PROVE  \E i \in S : Cardinality({j \in S : j <= i}) = k
<1> DEFINE To(m) == {j \in S : j <= m}
           Big == {m \in 0..n : Cardinality(To(m)) >= k}
<1>1. IsFiniteSet(S) /\ Cardinality(S) \in Nat
  <2>1. IsFiniteSet(1..n)
    BY FS_Interval
  <2> QED BY <2>1, FS_Subset, FS_CardinalityType
<1> \A j \in S : j \in Nat /\ 1 <= j /\ j <= n
  OBVIOUS
<1>2. \A m : IsFiniteSet(To(m)) /\ Cardinality(To(m)) \in Nat
  <2>1. ASSUME NEW m PROVE IsFiniteSet(To(m)) /\ Cardinality(To(m)) \in Nat
    <3>1. To(m) \in SUBSET S
      OBVIOUS
    <3> HIDE DEF To
    <3> QED BY <1>1, <3>1, FS_Subset, FS_CardinalityType
  <2> QED BY <2>1
<1>3. n \in Big
  <2>1. To(n) = S
    OBVIOUS
  <2> HIDE DEF To
  <2> QED BY <1>1, <2>1
<1>4. PICK m \in Big : \A y \in Big : m <= y
  <2> HIDE DEF To
  <2>1. Big \in SUBSET Nat /\ Big # {}
    BY <1>3
  <2> HIDE DEF Big
  <2> QED BY <2>1, SmallestNat
<1>5. m \in 0..n /\ Cardinality(To(m)) >= k
  BY <1>4
<1>6. m # 0
  <2> SUFFICES ASSUME m = 0 PROVE FALSE
    OBVIOUS
  <2>1. \A j \in S : ~(j <= 0)
    OBVIOUS
  <2>2. To(0) = {}
    BY <2>1
  <2>3. Cardinality(To(0)) = 0
    BY <2>2, FS_EmptySet
  <2> HIDE DEF To
  <2> QED BY <1>1, <1>5, <2>3
<1>7. m - 1 \in 0..n /\ ~(m <= m - 1)
  BY <1>5, <1>6
<1>8. Cardinality(To(m - 1)) < k
  <2>1. m - 1 \notin Big
    BY <1>4, <1>7
  <2> HIDE DEF To
  <2> QED BY <1>1, <1>2, <1>7, <2>1
<1>9. m \in S
  <2> SUFFICES ASSUME m \notin S PROVE FALSE
    OBVIOUS
  <2>1. \A j \in S : j <= m <=> j <= m - 1
    BY <1>5
  <2>2. To(m) = To(m - 1)
    BY <2>1
  <2> HIDE DEF To
  <2> QED BY <1>1, <1>2, <1>5, <1>8, <2>2
<1>10. Cardinality(To(m)) = Cardinality(To(m - 1)) + 1
  <2>1. \A j \in S : j <= m <=> (j <= m - 1 \/ j = m)
    BY <1>5
  <2>2. To(m) = To(m - 1) \cup {m}
    BY <1>9, <2>1
  <2>3. m \notin To(m - 1)
    BY <1>7
  <2> HIDE DEF To
  <2> QED BY <1>2, <2>2, <2>3, FS_AddElement
<1>11. Cardinality(To(m)) = k
  <2> HIDE DEF To
  <2> QED BY <1>1, <1>2, <1>5, <1>8, <1>10
<1> QED BY <1>9, <1>11

(* The focusable forms with a cell in cb.                                  *)
Seen(f, cb) == {cb[px][1] : px \in Pixels} \cap Focusable(f)

(* Max of a nonempty set of positions is one of them and the largest.      *)
LEMMA LargestIn ==
    ASSUME NEW n \in Nat, NEW S \in SUBSET (1..n), S # {}
    PROVE  Max(S) \in S /\ \A y \in S : y <= Max(S)
<1>1. S \in SUBSET (0..n)
  OBVIOUS
<1>2. PICK x \in S : \A y \in S : y <= x
  BY <1>1, LargestNat
<1>3. \A y \in S : x >= y
  BY <1>2
<1>4. Max(S) \in S /\ \A y \in S : Max(S) >= y
  BY <1>3 DEF Max
<1> QED BY <1>4

(* Reading the screen lists the forms that are on it, all of them.         *)
LEMMA ElementIdsFacts ==
    ASSUME NEW f, NEW cb
    PROVE  /\ ElementIds(f, cb) \in Seq(Seen(f, cb))
           /\ Range(ElementIds(f, cb)) = Seen(f, cb)
<1> DEFINE N == Rows * Cols
           cells == [i \in 1..N |-> element_at(cb, (i - 1) \div Cols, (i - 1) % Cols)]
           met == {i \in DOMAIN cells : cells[i] \in DOMAIN f.forms /\ focusable(f.forms[cells[i]])}
           before(i) == {j \in met : j < i}
           new == {i \in met : before(i) = {} \/ cells[Max(before(i))] # cells[i]}
           To(i) == {j \in new : j <= i}
           pos(k) == CHOOSE i \in new : Cardinality(To(i)) = k
           seen == Seen(f, cb)
           ids == [k \in 1..Cardinality(new) |-> cells[pos(k)]]
<1>1. ElementIds(f, cb) = ids
  BY DEF ElementIds
<1>2. N \in Nat /\ DOMAIN cells = 1..N
  BY CellNumbers
<1>3. \A i \in 1..N : \E px \in Pixels : cells[i] = cb[px][1]
  BY CellNumbers DEF element_at
<1>4. \A px \in Pixels : \E i \in 1..N : cells[i] = cb[px][1]
  <2>1. ASSUME NEW px \in Pixels PROVE \E i \in 1..N : cells[i] = cb[px][1]
    <3>1. PICK i \in 1..N : (i - 1) \div Cols = px[1] /\ (i - 1) % Cols = px[2]
      BY CellNumbers
    <3>2. px = <<px[1], px[2]>>
      BY DEF Pixels
    <3>3. cells[i] = cb[<<px[1], px[2]>>][1]
      BY <3>1 DEF element_at
    <3> QED BY <3>2, <3>3
  <2> QED BY <2>1
<1> HIDE DEF N, cells
<1>5. met \in SUBSET (1..N) /\ \A i \in met : cells[i] \in seen
  BY <1>2, <1>3 DEF Seen, Focusable
<1>6. \A el \in seen : \E i \in met : cells[i] = el
  BY <1>2, <1>4 DEF Seen, Focusable
<1> HIDE DEF met, seen
<1>7. new \in SUBSET (1..N) /\ new \in SUBSET met
  BY <1>5
<1>8. \A el \in seen : \E i \in new : cells[i] = el
  <2>1. ASSUME NEW el \in seen PROVE \E i \in new : cells[i] = el
    <3> DEFINE A == {i \in met : cells[i] = el}
    <3>1. A \in SUBSET Nat /\ A # {}
      <4>1. \A i \in 1..N : i \in Nat
        BY <1>2
      <4> QED BY <1>5, <1>6, <4>1
    <3>2. PICK i \in A : \A y \in A : i <= y
      <4> HIDE DEF A
      <4> QED BY <3>1, SmallestNat
    <3>3. i \in met /\ cells[i] = el /\ i \in Nat
      BY <1>5, <3>2
    <3>4. ASSUME before(i) # {} PROVE cells[Max(before(i))] # el
      <4> DEFINE b == before(i)
                 m == Max(b)
      <4>1. b \in SUBSET (1..N)
        BY <1>5
      <4>2. m \in b
        <5> HIDE DEF b
        <5> QED BY <1>2, <3>4, <4>1, LargestIn DEF b
      <4>3. m \in met /\ m < i /\ m \in Nat
        <5> HIDE DEF m
        <5> QED BY <1>5, <4>2
      <4> HIDE DEF m
      <4>4. m \notin A
        BY <3>2, <3>3, <4>3
      <4>5. cells[m] # el
        BY <4>3, <4>4
      <4> QED BY <4>5 DEF m
    <3> HIDE DEF before
    <3>5. i \in new
      BY <3>3, <3>4
    <3> QED BY <3>3, <3>5
  <2> QED BY <2>1
<1> HIDE DEF new
<1>9. IsFiniteSet(new) /\ Cardinality(new) \in Nat
  <2>1. IsFiniteSet(1..N)
    BY <1>2, FS_Interval
  <2> QED BY <1>7, <2>1, FS_Subset, FS_CardinalityType
<1>10. \A k \in 1..Cardinality(new) : pos(k) \in new /\ Cardinality(To(pos(k))) = k
  <2>1. ASSUME NEW k \in 1..Cardinality(new) PROVE \E i \in new : Cardinality(To(i)) = k
    BY <1>2, <1>7, Ranked
  <2> HIDE DEF To
  <2> QED BY <2>1
<1>11. \A i, j \in new : Cardinality(To(i)) = Cardinality(To(j)) => i = j
  <2>1. \A i \in new : i \in Nat /\ IsFiniteSet(To(i)) /\ i \in To(i)
    <3>1. ASSUME NEW i \in new PROVE i \in Nat /\ IsFiniteSet(To(i)) /\ i \in To(i)
      <4>1. To(i) \in SUBSET new /\ i \in Nat
        BY <1>7
      <4>2. i \in To(i)
        BY <4>1
      <4> HIDE DEF To
      <4> QED BY <1>9, <4>1, <4>2, FS_Subset
    <3> QED BY <3>1
  <2>2. ASSUME NEW i \in new, NEW j \in new, i < j
        PROVE  Cardinality(To(i)) # Cardinality(To(j))
    <3>1. \A x \in new : x <= i => x <= j
      BY <1>7, <2>2
    <3>2. To(i) \in SUBSET To(j)
      BY <3>1
    <3>3. ~(j <= i)
      <4> HIDE DEF To
      <4> QED BY <2>1, <2>2
    <3>4. j \notin To(i) /\ j \in To(j)
      BY <2>1, <3>3
    <3> HIDE DEF To
    <3> QED BY <2>1, <3>2, <3>4, FS_Subset
  <2>3. \A i, j \in new : i = j \/ i < j \/ j < i
    <3> HIDE DEF To
    <3> QED BY <2>1
  <2> HIDE DEF To
  <2> QED BY <2>2, <2>3
<1>12. \A i \in new : Cardinality(To(i)) \in 1..Cardinality(new)
  <2>1. ASSUME NEW i \in new PROVE Cardinality(To(i)) \in 1..Cardinality(new)
    <3>1. To(i) \in SUBSET new /\ i \in To(i)
      BY <1>7
    <3> HIDE DEF To
    <3>2. IsFiniteSet(To(i)) /\ Cardinality(To(i)) <= Cardinality(new)
      BY <1>9, <3>1, FS_Subset
    <3>3. Cardinality(To(i)) \in Nat /\ Cardinality(To(i)) # 0
      BY <3>1, <3>2, FS_CardinalityType, FS_EmptySet
    <3> QED BY <1>9, <3>2, <3>3
  <2> QED BY <2>1
<1> HIDE DEF pos
<1>13. ids \in [1..Cardinality(new) -> seen]
  BY <1>5, <1>7, <1>10
<1>14. ids \in Seq(seen) /\ DOMAIN ids = 1..Cardinality(new)
  <2> HIDE DEF ids
  <2> QED BY <1>9, <1>13, FcnIsSeq
<1>15. \A i \in new : \E k \in DOMAIN ids : ids[k] = cells[i]
  <2>1. ASSUME NEW i \in new PROVE \E k \in DOMAIN ids : ids[k] = cells[i]
    <3> DEFINE k == Cardinality(To(i))
    <3>1. k \in 1..Cardinality(new)
      BY <1>12
    <3>2. pos(k) = i
      BY <1>10, <1>11, <3>1
    <3> HIDE DEF k
    <3> QED BY <1>14, <3>1, <3>2
  <2> QED BY <2>1
<1>16. Range(ids) = seen
  <2>1. \A el \in seen : el \in Range(ids)
    BY <1>8, <1>15 DEF Range
  <2>2. Range(ids) \subseteq seen
    BY <1>13, <1>14 DEF Range
  <2> QED BY <2>1, <2>2
<1> HIDE DEF ids
<1> QED BY <1>1, <1>14, <1>16 DEF seen

-----------------------------------------------------------------------------
(* The focus order.                                                        *)

(* The map leads from each member of from to the member of to in its       *)
(* place, if from has no member twice.                                     *)
Leads(map, dom, from, to, n, T) ==
    /\ map \in [dom -> T]
    /\ (\A j, k \in 1..n : from[j] = from[k] => j = k) => \A k \in 1..n : map[from[k]] = to[k]

(* Pairs leads from each key to a value it was inserted with.              *)
LEMMA PairsFacts ==
    ASSUME NEW n \in Nat, NEW T, NEW from \in [1..n -> T], NEW to \in [1..n -> T], NEW ids,
           Range(ids) = Range(from)
    PROVE  Leads(Pairs(ids, from, to), Range(ids), from, to, n, T)
<1> DEFINE Last1(el, k) == from[k] = el /\ \A j \in DOMAIN from : from[j] = el => j <= k
           at(el) == CHOOSE k \in DOMAIN from : Last1(el, k)
<1>1. Pairs(ids, from, to) = [el \in Range(ids) |-> to[at(el)]]
  BY DEF Pairs
<1>2. ASSUME NEW el \in Range(ids) PROVE at(el) \in 1..n /\ from[at(el)] = el
  <2> DEFINE A == {k \in 1..n : from[k] = el}
  <2>1. A \in SUBSET (1..n) /\ A # {}
    BY <1>2 DEF Range
  <2>2. Max(A) \in A /\ \A y \in A : y <= Max(A)
    <3> HIDE DEF A
    <3> QED BY <2>1, LargestIn
  <2> DEFINE m == Max(A)
  <2> HIDE DEF m
  <2>3. m \in 1..n /\ Last1(el, m)
    BY <2>2 DEF m
  <2>4. \E k \in DOMAIN from : Last1(el, k)
    BY <2>3
  <2> QED BY <2>4
<1> HIDE DEF at
<1>3. Pairs(ids, from, to) \in [Range(ids) -> T]
  BY <1>1, <1>2
<1>4. ASSUME \A j, k \in 1..n : from[j] = from[k] => j = k, NEW k \in 1..n
      PROVE  Pairs(ids, from, to)[from[k]] = to[k]
  <2>1. from[k] \in Range(ids)
    BY DEF Range
  <2>2. at(from[k]) = k
    BY <1>2, <1>4, <2>1
  <2> QED BY <1>1, <2>1, <2>2
<1> QED BY <1>3, <1>4 DEF Leads

(* The list moved on by one, its first at the end.                         *)
LEMMA Turned ==
    ASSUME NEW T, NEW ids \in Seq(T), ids # <<>>
    PROVE  LET n == Len(ids)
               turned == Tail(ids) \o <<ids[1]>>
           IN  /\ n \in Nat \ {0} /\ ids \in [1..n -> T] /\ turned \in [1..n -> T]
               /\ \A k \in 1..n : turned[k] = IF k < n THEN ids[k + 1] ELSE ids[1]
               /\ Range(turned) = Range(ids)
<1> DEFINE n == Len(ids)
           one == <<ids[1]>>
           t == Tail(ids)
           turned == t \o one
<1>1. n \in Nat \ {0} /\ ids \in [1..n -> T] /\ DOMAIN ids = 1..n
  BY EmptySeq, LenProperties
<1>2. t \in Seq(T) /\ Len(t) = n - 1 /\ \A k \in 1..(n - 1) : t[k] = ids[k + 1]
  BY <1>1, HeadTailProperties
<1>3. one \in Seq(T) /\ Len(one) = 1 /\ one[1] = ids[1]
  BY <1>1
<1> HIDE DEF one, n, t
<1>4. turned \in Seq(T) /\ Len(turned) = n
  <2>1. turned \in Seq(T) /\ Len(turned) = Len(t) + Len(one)
    BY <1>2, <1>3, ConcatProperties
  <2>2. \A x \in Nat \ {0} : x - 1 + 1 = x
    OBVIOUS
  <2> QED BY <1>1, <1>2, <1>3, <2>1, <2>2
<1>5. ASSUME NEW k \in 1..n PROVE turned[k] = IF k < n THEN ids[k + 1] ELSE ids[1]
  <2>1. turned[k] = IF k <= n - 1 THEN t[k] ELSE one[k - (n - 1)]
    <3>1. t \in Seq(T) /\ one \in Seq(T)
      BY <1>2, <1>3
    <3>2. \A i \in 1..(Len(t) + Len(one)) :
             turned[i] = IF i <= Len(t) THEN t[i] ELSE one[i - Len(t)]
      BY <3>1, ConcatProperties, Zenon
    <3>3. k \in 1..(Len(t) + Len(one))
      BY <1>1, <1>2, <1>3
    <3> HIDE DEF turned
    <3> QED BY <1>2, <3>2, <3>3
  <2>2. CASE k < n
    BY <1>1, <1>2, <2>1, <2>2
  <2>3. CASE ~(k < n)
    <3>1. k = n /\ k - (n - 1) = 1 /\ ~(k <= n - 1)
      BY <1>1, <2>3
    <3> QED BY <1>3, <2>1, <2>3, <3>1
  <2> QED BY <2>2, <2>3
<1>6. turned \in [1..n -> T] /\ DOMAIN turned = 1..n
  BY <1>4, LenProperties
<1> HIDE DEF turned
<1>7. Range(turned) = Range(ids)
  <2>1. ASSUME NEW k \in 1..n PROVE \E j \in 1..n : turned[k] = ids[j]
    <3>1. CASE k < n
      <4>1. k + 1 \in 1..n
        BY <1>1, <3>1
      <4> QED BY <1>5, <3>1, <4>1
    <3>2. CASE ~(k < n)
      BY <1>1, <1>5, <3>2
    <3> QED BY <3>1, <3>2
  <2>2. ASSUME NEW k \in 1..n PROVE \E j \in 1..n : turned[j] = ids[k]
    <3>1. CASE k = 1
      <4>1. n \in 1..n /\ ~(n < n)
        BY <1>1
      <4> QED BY <1>5, <3>1, <4>1
    <3>2. CASE k # 1
      <4> DEFINE j == k - 1
      <4>1. j \in 1..n /\ j < n /\ j + 1 = k
        BY <1>1, <3>2
      <4> HIDE DEF j
      <4> QED BY <1>5, <4>1
    <3> QED BY <3>1, <3>2
  <2>3. Range(turned) = {turned[k] : k \in 1..n} /\ Range(ids) = {ids[k] : k \in 1..n}
    BY <1>1, <1>6 DEF Range
  <2> QED BY <2>1, <2>2, <2>3
<1> QED BY <1>1, <1>5, <1>6, <1>7 DEF n, turned, one, t

(* Tab goes through seen in one round, and BackTab the other way.          *)
GoesRound(next, prev, seen) ==
    /\ DOMAIN next = seen /\ Range(next) = seen
    /\ seen # {} => \A el \in seen : prev[next[el]] = el
    /\ \A S \in SUBSET seen : (S # {} /\ \A el \in S : next[el] \in S) => S = seen

(* Without repetitions, the pairs of neighbours make one cycle.            *)
LEMMA RoundTrip ==
    ASSUME NEW seen, NEW ids \in Seq(seen), ids # <<>>, Range(ids) = seen,
           \A j, k \in DOMAIN ids : ids[j] = ids[k] => j = k
    PROVE  LET turned == Tail(ids) \o <<ids[1]>>
           IN  GoesRound(Pairs(ids, ids, turned), Pairs(ids, turned, ids), seen)
<1> DEFINE n == Len(ids)
           turned == Tail(ids) \o <<ids[1]>>
           next == Pairs(ids, ids, turned)
           prev == Pairs(ids, turned, ids)
<1>1. /\ n \in Nat \ {0} /\ ids \in [1..n -> seen] /\ turned \in [1..n -> seen]
      /\ \A k \in 1..n : turned[k] = IF k < n THEN ids[k + 1] ELSE ids[1]
      /\ Range(turned) = Range(ids)
  BY Turned
<1> HIDE DEF n, turned
<1>2. \A j, k \in 1..n : ids[j] = ids[k] => j = k
  BY <1>1
<1>3. \A j, k \in 1..n : turned[j] = turned[k] => j = k
  <2>1. ASSUME NEW j \in 1..n, NEW k \in 1..n, turned[j] = turned[k] PROVE j = k
    <3> DEFINE a == IF j < n THEN j + 1 ELSE 1
               b == IF k < n THEN k + 1 ELSE 1
    <3>1. a \in 1..n /\ b \in 1..n
      BY <1>1
    <3>2. turned[j] = ids[a] /\ turned[k] = ids[b]
      BY <1>1
    <3>3. a = b
      <4> HIDE DEF a, b
      <4> QED BY <1>2, <2>1, <3>1, <3>2
    <3> QED BY <1>1, <3>3
  <2> QED BY <2>1
<1>4. next \in [seen -> seen] /\ \A k \in 1..n : next[ids[k]] = turned[k]
  <2>1. n \in Nat /\ Range(ids) = Range(ids)
    BY <1>1
  <2>2. Leads(next, Range(ids), ids, turned, n, seen)
    BY <1>1, <2>1, PairsFacts
  <2> QED BY <1>2, <2>2 DEF Leads
<1>5. prev \in [seen -> seen] /\ \A k \in 1..n : prev[turned[k]] = ids[k]
  <2>1. n \in Nat /\ Range(ids) = Range(turned)
    BY <1>1
  <2>2. Leads(prev, Range(ids), turned, ids, n, seen)
    BY <1>1, <2>1, PairsFacts
  <2> QED BY <1>3, <2>2 DEF Leads
<1> HIDE DEF next, prev
<1>6. \A el \in seen : \E k \in 1..n : el = ids[k]
  BY <1>1 DEF Range
<1>7. Range(next) = seen
  <2>1. \A el \in seen : \E k \in 1..n : el = turned[k]
    BY <1>1 DEF Range
  <2>2. \A el \in seen : \E x \in seen : el = next[x]
    BY <1>1, <1>4, <2>1
  <2>3. Range(next) = {next[x] : x \in seen} /\ \A x \in seen : next[x] \in seen
    BY <1>4 DEF Range
  <2> QED BY <2>2, <2>3
<1>8. \A el \in seen : prev[next[el]] = el
  BY <1>4, <1>5, <1>6
<1>9. ASSUME NEW S \in SUBSET seen, S # {}, \A el \in S : next[el] \in S PROVE S = seen
  <2>1. ASSUME NEW a \in 1..n, ids[a] \in S, NEW b \in 1..n, a <= b PROVE ids[b] \in S
    <3> DEFINE m == n - a
               P == {x \in 0..m : ids[a + x] \in S}
    <3>1. m \in Nat /\ a \in Nat /\ b - a \in 0..m /\ a + (b - a) = b /\ a + 0 = a
      BY <1>1, <2>1
    <3>2. 0 \in P
      BY <2>1, <3>1
    <3>3. ASSUME NEW x \in 1..m, x - 1 \in P PROVE x \in P
      <4> DEFINE k == a + (x - 1)
      <4>1. k \in 1..n /\ k < n /\ k + 1 = a + x /\ x \in 0..m
        BY <1>1, <3>1, <3>3
      <4>2. ids[k] \in S
        BY <3>3
      <4> HIDE DEF k
      <4>3. next[ids[k]] = ids[k + 1]
        BY <1>1, <1>4, <4>1
      <4>4. ids[k + 1] \in S
        BY <1>9, <4>2, <4>3
      <4> QED BY <4>1, <4>4
    <3>4. \A x \in 0..m : x \in P
      <4> HIDE DEF P, m
      <4> QED BY <3>1, <3>2, <3>3, AlongNat
    <3> QED BY <3>1, <3>4
  <2>2. PICK a \in 1..n : ids[a] \in S
    BY <1>6, <1>9
  <2>3. n \in 1..n /\ 1 \in 1..n /\ a <= n /\ ~(n < n)
    BY <1>1
  <2>4. ids[n] \in S
    BY <2>1, <2>2, <2>3
  <2>5. next[ids[n]] = ids[1]
    BY <1>1, <1>4, <2>3
  <2>6. ids[1] \in S
    BY <1>9, <2>4, <2>5
  <2>7. \A b \in 1..n : 1 <= b
    BY <1>1
  <2>8. \A b \in 1..n : ids[b] \in S
    BY <2>1, <2>3, <2>6, <2>7
  <2>9. \A el \in seen : el \in S
    BY <1>6, <2>8
  <2> QED BY <2>9
<1>10. GoesRound(next, prev, seen)
  BY <1>4, <1>7, <1>8, <1>9 DEF GoesRound
<1> QED BY <1>10 DEF next, prev, turned

(* The focus order of a screen that shows the forms seen.                  *)
OrderOf(g, seen) ==
    IF seen = {} THEN g.next = <<>> /\ g.first = None
    ELSE g.next \in [seen -> seen] /\ g.prev \in [seen -> seen] /\ g.first \in seen

(* g is f with another focus order.                                        *)
OnlyOrdered(g, f) ==
    /\ Shape(g)
    /\ g.vps = f.vps /\ g.at = f.at /\ g.zbuff = f.zbuff /\ g.screen = f.screen
    /\ g.forms = f.forms /\ g.dynamic = f.dynamic /\ g.focused = f.focused
    /\ g.cursor = f.cursor /\ g.events = f.events
    /\ g.first = None => g.prev = f.prev

(* As many reads as forms means that no form is read twice.                *)
LEMMA OnceEach ==
    ASSUME NEW seen, NEW ids \in Seq(seen), Range(ids) = seen, Len(ids) = Cardinality(seen)
    PROVE  \A j, k \in DOMAIN ids : ids[j] = ids[k] => j = k
<1> DEFINE n == Len(ids)
<1>1. n \in Nat /\ ids \in [1..n -> seen] /\ DOMAIN ids = 1..n
  BY LenProperties
<1>2. IsFiniteSet(1..n) /\ Cardinality(1..n) = n
  BY <1>1, FS_Interval
<1> HIDE DEF n
<1>3. ids \in Surjection(1..n, seen)
  BY <1>1 DEF Surjection, Range
<1>4. Cardinality(1..n) = Cardinality(seen)
  BY <1>2 DEF n
<1>5. ids \in Injection(1..n, seen)
  BY <1>2, <1>3, <1>4, FS_SurjSameCardinalityImpliesInj
<1> QED BY <1>1, <1>5 DEF Injection, IsInjective

(* make_focus_order leads to the focusable forms seen, round when each is  *)
(* seen once.                                                              *)
LEMMA FocusOrder ==
    ASSUME NEW f, Shape(f), None \notin DOMAIN f.forms, NEW cb
    PROVE  LET g == make_focus_order(f, cb)
               seen == Seen(f, cb)
           IN  /\ OnlyOrdered(g, f) /\ OrderOf(g, seen)
               /\ Len(ElementIds(f, cb)) = Cardinality(seen) => GoesRound(g.next, g.prev, seen)
<1> DEFINE ids == ElementIds(f, cb)
           seen == Seen(f, cb)
           turned == Tail(ids) \o <<ids[1]>>
           next == Pairs(ids, ids, turned)
           prev == Pairs(ids, turned, ids)
           g == make_focus_order(f, cb)
<1>1. ids \in Seq(seen) /\ Range(ids) = seen
  BY ElementIdsFacts
<1>2. g = IF ids = <<>> THEN [f EXCEPT !.next = <<>>, !.first = None]
          ELSE [f EXCEPT !.next = next, !.prev = prev, !.first = ids[1]]
  BY DEF make_focus_order
<1> HIDE DEF ids, seen, g
<1>3. CASE ids = <<>>
  <2>1. g = [f EXCEPT !.next = <<>>, !.first = None]
    BY <1>2, <1>3
  <2>2. /\ Shape(g) /\ g.next = <<>> /\ g.first = None /\ g.prev = f.prev
        /\ OnlyOrdered(g, f)
    BY <2>1 DEF Shape, OnlyOrdered
  <2>3. seen = {}
    BY <1>1, <1>3 DEF Range
  <2>4. GoesRound(g.next, g.prev, seen)
    BY <2>2, <2>3 DEF GoesRound, Range
  <2> QED BY <2>2, <2>3, <2>4 DEF OrderOf, g, ids, seen
<1>4. CASE ids # <<>>
  <2>1. g = [f EXCEPT !.next = next, !.prev = prev, !.first = ids[1]]
    BY <1>2, <1>4
  <2>2. /\ Len(ids) \in Nat \ {0} /\ ids \in [1..Len(ids) -> seen]
        /\ turned \in [1..Len(ids) -> seen] /\ Range(turned) = Range(ids)
    BY <1>1, <1>4, Turned
  <2>3. ids[1] \in seen /\ seen # {}
    BY <2>2
  <2> HIDE DEF turned
  <2>4. Len(ids) \in Nat /\ Range(ids) = Range(ids) /\ Range(ids) = Range(turned)
    BY <2>2
  <2>5. /\ Leads(next, Range(ids), ids, turned, Len(ids), seen)
        /\ Leads(prev, Range(ids), turned, ids, Len(ids), seen)
    BY <2>2, <2>4, PairsFacts
  <2>6. next \in [seen -> seen] /\ prev \in [seen -> seen]
    BY <1>1, <2>5 DEF Leads
  <2>7. ASSUME Len(ids) = Cardinality(seen) PROVE GoesRound(next, prev, seen)
    <3>1. \A j, k \in DOMAIN ids : ids[j] = ids[k] => j = k
      BY <1>1, <2>7, OnceEach
    <3> QED BY <1>1, <1>4, <3>1, RoundTrip DEF turned
  <2> HIDE DEF next, prev
  <2>8. /\ Shape(g) /\ g.next = next /\ g.first = ids[1] /\ g.prev = prev
        /\ g.vps = f.vps /\ g.at = f.at /\ g.zbuff = f.zbuff /\ g.screen = f.screen
        /\ g.forms = f.forms /\ g.dynamic = f.dynamic /\ g.focused = f.focused
        /\ g.cursor = f.cursor /\ g.events = f.events
    BY <2>1 DEF Shape
  <2>9. g.first # None
    <3>1. seen \subseteq DOMAIN f.forms
      BY DEF seen, Seen, Focusable
    <3> QED BY <2>3, <2>8, <3>1
  <2>10. OnlyOrdered(g, f) /\ OrderOf(g, seen)
    BY <2>3, <2>6, <2>8, <2>9 DEF OnlyOrdered, OrderOf
  <2> QED BY <2>7, <2>8, <2>10 DEF g, ids, seen
<1> QED BY <1>3, <1>4

(* The focus order is the one of the forms on the screen.                  *)
InOrder(g) ==
    /\ OrderOf(g, Seen(g, g.screen))
    /\ Len(ElementIds(g, g.screen)) = Cardinality(Seen(g, g.screen)) =>
          GoesRound(g.next, g.prev, Seen(g, g.screen))

(* g is a rendering of f.                                                  *)
Rendered(g, f) ==
    /\ Drawable(g) /\ InOrder(g)
    /\ g.screen \in [Pixels -> Cells(g.forms)]
    /\ g.vps = f.vps /\ g.at = f.at /\ g.forms = f.forms /\ g.dynamic = f.dynamic
    /\ g.focused = f.focused /\ g.cursor = f.cursor /\ g.events = f.events
    /\ g.first = None => g.prev = f.prev

(* Cells and focusability are read from the table of forms only.           *)
LEMMA SameSeen ==
    ASSUME NEW f, NEW g, g.forms = f.forms, NEW cb
    PROVE  Seen(g, cb) = Seen(f, cb) /\ ElementIds(g, cb) = ElementIds(f, cb)
<1>1. Seen(g, cb) = Seen(f, cb)
  BY DEF Seen, Focusable
<1>2. ElementIds(g, cb) = ElementIds(f, cb)
  BY DEF ElementIds
<1> QED BY <1>1, <1>2

(* Rendering keeps what was drawn and orders the forms on the screen.      *)
LEMMA RenderFacts ==
    ASSUME NEW f, Drawable(f)
    PROVE  Rendered(render(f), f)
<1> DEFINE z == IF f.zbuff = {} THEN make_zbuff(f) ELSE CHOOSE x \in f.zbuff : TRUE
           cb == charbuff(f, z)
           h == [f EXCEPT !.zbuff = {z}, !.screen = cb]
           g == make_focus_order(h, cb)
<1>1. render(f) = g
  BY DEF render
<1>2. z \in [Pixels -> {None} \cup DOMAIN f.vps]
  <2>1. make_zbuff(f) \in [Pixels -> {None} \cup DOMAIN f.vps]
    BY ZBuffer
  <2>2. \A x \in f.zbuff : x \in [Pixels -> {None} \cup DOMAIN f.vps]
    BY DEF Drawable
  <2> QED BY <2>1, <2>2
<1> HIDE DEF z
<1>3. cb \in [Pixels -> Cells(f.forms)]
  BY <1>2, ScreenCells
<1> HIDE DEF cb
<1>4. /\ Shape(h) /\ h.zbuff = {z} /\ h.screen = cb /\ h.vps = f.vps /\ h.at = f.at
      /\ h.forms = f.forms /\ h.dynamic = f.dynamic /\ h.focused = f.focused
      /\ h.next = f.next /\ h.prev = f.prev /\ h.first = f.first
      /\ h.cursor = f.cursor /\ h.events = f.events
  <2>1. Shape(f) /\ h = [f EXCEPT !.zbuff = {z}, !.screen = cb]
    BY DEF Drawable
  <2> HIDE DEF h
  <2> QED BY <2>1 DEF Shape
<1> HIDE DEF h
<1>5. None \notin DOMAIN h.forms
  BY <1>4 DEF Drawable, IsForms, None
<1>6. /\ OnlyOrdered(g, h) /\ OrderOf(g, Seen(h, cb))
      /\ Len(ElementIds(h, cb)) = Cardinality(Seen(h, cb)) => GoesRound(g.next, g.prev, Seen(h, cb))
  BY <1>4, <1>5, FocusOrder
<1> HIDE DEF g
<1>7. /\ Shape(g) /\ g.vps = f.vps /\ g.at = f.at /\ g.zbuff = {z} /\ g.screen = cb
      /\ g.forms = f.forms /\ g.dynamic = f.dynamic /\ g.focused = f.focused
      /\ g.cursor = f.cursor /\ g.events = f.events /\ g.forms = h.forms
      /\ g.first = None => g.prev = f.prev
  BY <1>4, <1>6 DEF OnlyOrdered
<1>8. Seen(g, cb) = Seen(h, cb) /\ ElementIds(g, cb) = ElementIds(h, cb)
  BY <1>7, SameSeen
<1>9. InOrder(g)
  BY <1>6, <1>7, <1>8 DEF InOrder
<1>10. Drawable(g)
  BY <1>2, <1>7 DEF Drawable
<1> QED BY <1>1, <1>3, <1>7, <1>9, <1>10 DEF Rendered

(* What is on the screen can take the focus and has something to draw.     *)
LEMMA SeenIsReachable ==
    ASSUME NEW f, Drawable(f), f.screen \in [Pixels -> Cells(f.forms)],
           \A el \in f.dynamic : f.forms[el].kind \in {"Text", "Print"}
    PROVE  Seen(f, f.screen) \subseteq Reachable(f)
<1>1. \A el \in Seen(f, f.screen) : /\ el \in DOMAIN f.forms /\ focusable(f.forms[el])
                                    /\ \E px \in Pixels : el = f.screen[px][1]
  BY DEF Seen, Focusable
<1>2. \A px \in Pixels : f.screen[px][1] \notin Idle(f.forms)
  BY DEF Cells
<1>3. \A el \in DOMAIN f.forms : focusable(f.forms[el]) => el \notin f.dynamic
  BY DEF focusable
<1> QED BY <1>1, <1>2, <1>3 DEF Reachable

(* Rendering keeps the invariant, and makes the order good again when the  *)
(* old one was of forms that can still take the focus.                     *)
LEMMA RenderedIsGood ==
    ASSUME NEW f, NEW g, Rendered(g, f), NEW ids, Focused(f, ids)
    PROVE  Focused(g, ids)
<1>1. /\ g.forms = f.forms /\ g.dynamic = f.dynamic /\ g.focused = f.focused
      /\ Drawable(g) /\ g.screen \in [Pixels -> Cells(g.forms)]
      /\ g.first = None => g.prev = f.prev
  BY DEF Rendered
<1>2. Reachable(g) = Reachable(f)
  BY <1>1 DEF Reachable
<1> DEFINE seen == Seen(g, g.screen)
<1>3. seen \subseteq Reachable(g)
  BY <1>1, SeenIsReachable DEF Focused
<1>4. OrderOf(g, seen)
  BY DEF Rendered, InOrder
<1> HIDE DEF seen
<1>5. /\ g.first \in {None} \cup Reachable(g)
      /\ Range(g.next) \cup Range(g.prev) \subseteq Reachable(g)
  <2>1. CASE seen = {}
    <3>1. g.next = <<>> /\ g.first = None
      BY <1>4, <2>1 DEF OrderOf
    <3>2. Range(g.next) = {}
      BY <3>1 DEF Range
    <3>3. Range(g.prev) \subseteq Reachable(g)
      BY <1>1, <1>2, <3>1 DEF Focused
    <3> QED BY <3>1, <3>2, <3>3
  <2>2. CASE seen # {}
    <3>1. g.next \in [seen -> seen] /\ g.prev \in [seen -> seen] /\ g.first \in seen
      BY <1>4, <2>2 DEF OrderOf
    <3>2. Range(g.next) \subseteq seen /\ Range(g.prev) \subseteq seen
      BY <3>1 DEF Range
    <3> QED BY <1>3, <3>1, <3>2
  <2> QED BY <2>1, <2>2
<1> QED BY <1>1, <1>2, <1>5 DEF Focused

-----------------------------------------------------------------------------
(* Texts under edit.                                                       *)

(* The length and the elements of a part of a sequence.                    *)
LEMMA SubSeqOf ==
    ASSUME NEW T, NEW s \in Seq(T), NEW m \in Nat \ {0}, NEW n \in 0..Len(s)
    PROVE  /\ SubSeq(s, m, n) \in Seq(T)
           /\ Len(SubSeq(s, m, n)) = IF m <= n THEN n - m + 1 ELSE 0
           /\ \A i \in 1..(n - m + 1) : SubSeq(s, m, n)[i] = s[m + i - 1]
<1>1. Len(s) \in Nat /\ s \in [1..Len(s) -> T]
  BY LenProperties
<1>2. \A i \in m..n : i \in 1..Len(s)
  BY <1>1
<1>3. \A i \in m..n : s[i] \in T
  BY <1>1, <1>2
<1>4. m \in Int /\ n \in Int
  BY <1>1
<1> QED BY <1>3, <1>4, SubSeqProperties

(* A character is at least one byte.                                       *)
LEMMA BytesFacts ==
    ASSUME NEW T, NEW text \in Seq(T)
    PROVE  Bytes(text) \in Nat /\ Len(text) <= Bytes(text)
<1> DEFINE W == {i \in DOMAIN text : text[i] \in Wide}
<1>1. Len(text) \in Nat /\ DOMAIN text = 1..Len(text)
  BY LenProperties
<1>2. IsFiniteSet(1..Len(text))
  BY <1>1, FS_Interval
<1>3. W \in SUBSET (1..Len(text))
  BY <1>1
<1>4. Bytes(text) = Len(text) + Cardinality(W)
  BY DEF Bytes
<1> HIDE DEF W
<1>5. Cardinality(W) \in Nat
  BY <1>2, <1>3, FS_Subset, FS_CardinalityType
<1> QED BY <1>1, <1>4, <1>5

(* Appending a character adds at least a byte.                             *)
LEMMA BytesAppend ==
    ASSUME NEW T, NEW text \in Seq(T), NEW c \in T
    PROVE  Bytes(text) + 1 <= Bytes(Append(text, c))
<1> DEFINE new == Append(text, c)
           W == {i \in DOMAIN text : text[i] \in Wide}
           X == {i \in DOMAIN new : new[i] \in Wide}
           n == Len(text)
<1>1. n \in Nat /\ DOMAIN text = 1..n
  BY LenProperties
<1>2. new \in Seq(T) /\ Len(new) = n + 1 /\ \A i \in 1..n : new[i] = text[i]
  BY AppendProperties
<1>3. DOMAIN new = 1..(n + 1)
  BY <1>2, LenProperties
<1>4. IsFiniteSet(1..(n + 1))
  BY <1>1, FS_Interval
<1>5. X \in SUBSET (1..(n + 1))
  BY <1>3
<1>6. W \in SUBSET X
  <2>1. \A i \in 1..n : i \in 1..(n + 1)
    BY <1>1
  <2> QED BY <1>1, <1>2, <1>3, <2>1
<1>7. Bytes(text) = n + Cardinality(W) /\ Bytes(new) = n + 1 + Cardinality(X)
  BY <1>2 DEF Bytes
<1> HIDE DEF W, X, n, new
<1>8. IsFiniteSet(X) /\ Cardinality(X) \in Nat
  BY <1>4, <1>5, FS_Subset, FS_CardinalityType
<1>9. IsFiniteSet(W) /\ Cardinality(W) <= Cardinality(X)
  BY <1>6, <1>8, FS_Subset
<1>10. Cardinality(W) \in Nat
  BY <1>9, FS_CardinalityType
<1>11. Bytes(text) + 1 <= Bytes(new)
  BY <1>1, <1>7, <1>8, <1>9, <1>10
<1> QED BY <1>11 DEF new

(* Without removes one character, or nothing past the end.                 *)
LEMMA WithoutText ==
    ASSUME NEW T, NEW text \in Seq(T), NEW i \in Nat
    PROVE  /\ Without(text, i) \in Seq(T)
           /\ i \in 1..Len(text) => Len(Without(text, i)) = Len(text) - 1
           /\ i \notin 1..Len(text) => Without(text, i) = text
<1> DEFINE n == Len(text)
           a == SubSeq(text, 1, i - 1)
           b == SubSeq(text, i + 1, n)
<1>1. n \in Nat /\ DOMAIN text = 1..n
  BY LenProperties
<1>2. CASE i \notin 1..n
  BY <1>1, <1>2 DEF Without
<1>3. CASE i \in 1..n
  <2>1. /\ 1 \in Nat \ {0} /\ i + 1 \in Nat \ {0} /\ i - 1 \in 0..n /\ n \in 0..n
    BY <1>1, <1>3
  <2>2. a \in Seq(T) /\ Len(a) = IF 1 <= i - 1 THEN i - 1 - 1 + 1 ELSE 0
    BY <2>1, SubSeqOf
  <2>3. b \in Seq(T) /\ Len(b) = IF i + 1 <= n THEN n - (i + 1) + 1 ELSE 0
    BY <2>1, SubSeqOf
  <2>4. Without(text, i) = a \o b
    BY <1>1, <1>3 DEF Without, RemoveAt
  <2> HIDE DEF a, b, n
  <2>5. a \o b \in Seq(T) /\ Len(a \o b) = Len(a) + Len(b)
    BY <2>2, <2>3, ConcatProperties
  <2>6. Len(a) + Len(b) = n - 1
    BY <1>1, <1>3, <2>2, <2>3
  <2> QED BY <1>3, <2>4, <2>5, <2>6 DEF n
<1> QED BY <1>2, <1>3

(* InsertAt puts a character between those before and after the position.  *)
LEMMA InsertedText ==
    ASSUME NEW T, NEW text \in Seq(T), NEW c \in T, NEW at \in 0..Len(text)
    PROVE  /\ InsertAt(text, at + 1, c) =
                SubSeq(text, 1, at) \o <<c>> \o SubSeq(text, at + 1, Len(text))
           /\ InsertAt(text, at + 1, c) \in Seq(T)
           /\ Len(InsertAt(text, at + 1, c)) = Len(text) + 1
<1> DEFINE n == Len(text)
           a == SubSeq(text, 1, at)
           b == SubSeq(text, at + 1, n)
           one == <<c>>
<1>1. n \in Nat /\ at \in Nat /\ at <= n
  BY LenProperties
<1>2. /\ 1 \in Nat \ {0} /\ at + 1 \in Nat \ {0} /\ at \in 0..n /\ n \in 0..n /\ (at + 1) - 1 = at
  BY <1>1
<1>3. a \in Seq(T) /\ Len(a) = IF 1 <= at THEN at - 1 + 1 ELSE 0
  BY <1>2, SubSeqOf
<1>4. b \in Seq(T) /\ Len(b) = IF at + 1 <= n THEN n - (at + 1) + 1 ELSE 0
  BY <1>2, SubSeqOf
<1>5. one \in Seq(T) /\ Len(one) = 1
  OBVIOUS
<1>6. InsertAt(text, at + 1, c) = a \o one \o b
  <2>1. InsertAt(text, at + 1, c) =
           SubSeq(text, 1, (at + 1) - 1) \o <<c>> \o SubSeq(text, at + 1, Len(text))
    BY Zenon DEF InsertAt
  <2>2. SubSeq(text, 1, (at + 1) - 1) = a
    BY <1>2
  <2> QED BY <2>1, <2>2, Zenon
<1> HIDE DEF a, b, n, one
<1>7. a \o one \in Seq(T) /\ Len(a \o one) = Len(a) + Len(one)
  BY <1>3, <1>5, ConcatProperties
<1> DEFINE ao == a \o one
<1>8. ao \in Seq(T) /\ Len(ao) = Len(a) + Len(one)
  BY <1>7
<1> HIDE DEF ao
<1>9. ao \o b \in Seq(T) /\ Len(ao \o b) = Len(ao) + Len(b)
  BY <1>4, <1>8, ConcatProperties
<1>10. Len(a) + 1 + Len(b) = n + 1
  BY <1>1, <1>3, <1>4
<1> QED BY <1>5, <1>6, <1>8, <1>9, <1>10 DEF ao, a, b, n, one

-----------------------------------------------------------------------------
(* Keys.                                                                   *)

(* g is form after a key: still a good form of its kind, and a checkbox    *)
(* has options if it had some.                                             *)
Edited(g, form) ==
    /\ GoodForm(g) /\ g.kind = form.kind
    /\ g.options = <<>> <=> form.options = <<>>

(* A text line with another text, cursor and mode is an edit of it.        *)
LEMMA EditedLine ==
    ASSUME NEW form, GoodForm(form), form.kind = "TextLine",
           NEW text \in Seq(Glyph), NEW cursor \in Nat, cursor <= Bytes(text),
           NEW insert \in BOOLEAN,
           NEW g, g = [form EXCEPT !.text = text, !.cursor = cursor, !.insert = insert]
    PROVE  Edited(g, form)
<1>1. form \in FormRecord
  BY DEF GoodForm
<1>2. /\ g \in FormRecord /\ g.kind = form.kind /\ g.options = form.options
      /\ g.text = text /\ g.cursor = cursor
  BY <1>1 DEF FormRecord
<1> QED BY <1>2 DEF Edited, GoodForm, FormTypes

(* The three fields an edit of a line can change, whichever it names.      *)
LEMMA LineFields ==
    ASSUME NEW form \in FormRecord, NEW text, NEW cursor, NEW insert
    PROVE  /\ [form EXCEPT !.cursor = cursor] =
                [form EXCEPT !.text = form.text, !.cursor = cursor, !.insert = form.insert]
           /\ [form EXCEPT !.text = text] =
                [form EXCEPT !.text = text, !.cursor = form.cursor, !.insert = form.insert]
           /\ [form EXCEPT !.insert = insert] =
                [form EXCEPT !.text = form.text, !.cursor = form.cursor, !.insert = insert]
           /\ [form EXCEPT !.text = text, !.cursor = cursor] =
                [form EXCEPT !.text = text, !.cursor = cursor, !.insert = form.insert]
BY DEF FormRecord

(* Typing edits a text line, also when it is full or past its end.         *)
LEMMA TypeCharKeeps ==
    ASSUME NEW form, GoodForm(form), form.kind = "TextLine", NEW c \in Glyph
    PROVE  Edited(TypeChar(form, c), form)
<1> DEFINE t == form.text
           p == form.cursor
           new == IF p = Bytes(t) THEN Append(t, c)
                  ELSE IF p >= Len(t) THEN t
                  ELSE IF form.insert THEN InsertAt(t, p + 1, c)
                  ELSE ReplaceAt(t, p + 1, c)
<1>1. form \in FormRecord /\ t \in Seq(Glyph) /\ p \in Nat /\ form.insert \in BOOLEAN
  BY DEF GoodForm, FormRecord
<1>2. Len(t) \in Nat /\ Bytes(t) \in Nat /\ Len(t) <= Bytes(t) /\ p <= Bytes(t)
  BY <1>1, BytesFacts, LenProperties DEF GoodForm
<1> HIDE DEF t, p
<1>3. new \in Seq(Glyph) /\ p + 1 <= Bytes(new) /\ p + 1 \in Nat
  <2>1. CASE p = Bytes(t)
    <3>1. new = Append(t, c)
      BY <2>1
    <3>2. Append(t, c) \in Seq(Glyph)
      BY <1>1, AppendProperties
    <3>3. Bytes(t) + 1 <= Bytes(Append(t, c))
      BY <1>1, BytesAppend
    <3> QED BY <1>1, <2>1, <3>1, <3>2, <3>3
  <2>2. CASE p # Bytes(t) /\ p >= Len(t)
    BY <1>1, <1>2, <2>2
  <2>3. CASE p # Bytes(t) /\ ~(p >= Len(t)) /\ form.insert
    <3>1. new = InsertAt(t, p + 1, c)
      BY <2>3
    <3>2. p \in 0..Len(t)
      BY <1>1, <1>2, <2>3
    <3>3. InsertAt(t, p + 1, c) \in Seq(Glyph) /\ Len(InsertAt(t, p + 1, c)) = Len(t) + 1
      BY <1>1, <3>2, InsertedText
    <3> HIDE DEF new
    <3>4. Bytes(new) \in Nat /\ Len(new) <= Bytes(new)
      BY <3>1, <3>3, BytesFacts
    <3> QED BY <1>1, <1>2, <2>3, <3>1, <3>3, <3>4
  <2>4. CASE p # Bytes(t) /\ ~(p >= Len(t)) /\ ~form.insert
    <3>1. new = [t EXCEPT ![p + 1] = c]
      BY <2>4 DEF ReplaceAt
    <3>2. new \in Seq(Glyph) /\ Len(new) = Len(t)
      <4>1. t \in [1..Len(t) -> Glyph]
        BY <1>1, LenProperties
      <4> HIDE DEF new
      <4>2. new \in [1..Len(t) -> Glyph]
        BY <3>1, <4>1
      <4> QED BY <1>2, <4>2, FcnIsSeq
    <3> HIDE DEF new
    <3>3. Bytes(new) \in Nat /\ Len(new) <= Bytes(new)
      BY <3>2, BytesFacts
    <3> QED BY <1>1, <1>2, <2>4, <3>2, <3>3
  <2> QED BY <2>1, <2>2, <2>3, <2>4
<1>4. CASE Bytes(t) >= form.max_len
  <2>1. TypeChar(form, c) = form
    BY <1>4 DEF TypeChar, t
  <2> QED BY <2>1 DEF Edited
<1>5. CASE ~(Bytes(t) >= form.max_len)
  <2>1. TypeChar(form, c) = [form EXCEPT !.cursor = p + 1, !.text = new]
    BY <1>1, <1>5 DEF TypeChar, t, p
  <2> HIDE DEF new
  <2>2. [form EXCEPT !.cursor = p + 1, !.text = new] =
           [form EXCEPT !.text = new, !.cursor = p + 1, !.insert = form.insert]
    BY <1>1 DEF FormRecord
  <2>3. TypeChar(form, c) = [form EXCEPT !.text = new, !.cursor = p + 1, !.insert = form.insert]
    BY <2>1, <2>2
  <2> QED BY <1>1, <1>3, <2>3, EditedLine
<1> QED BY <1>4, <1>5

(* Only typed keys carry a character.                                      *)
LEMMA KeyFacts ==
    ASSUME NEW k \in Key
    PROVE  /\ k.key = "Char" => k.chr \in Glyph
           /\ k.chr # "" => k.key = "Char"
<1>1. CASE \E c \in Char : k = Typed(c)
  <2>1. PICK c \in Char : k = [key |-> "Char", chr |-> c]
    BY <1>1 DEF Typed
  <2>2. k.key = "Char" /\ k.chr = c
    BY <2>1
  <2>3. c \in Glyph
    BY FormsAssumption
  <2> QED BY <2>2, <2>3
<1>2. CASE k \in {KeyOf(x) : x \in {"Tab", "BackTab", "Esc", "Enter", "Space", "Up", "Down", "Left",
             "Right", "Backspace", "Delete", "Insert", "Home", "End", "g", "q"}}
  <2>1. \E x : k = [key |-> x, chr |-> ""] /\ x # "Char"
    BY <1>2 DEF KeyOf
  <2>2. PICK x : k = [key |-> x, chr |-> ""] /\ x # "Char"
    BY <2>1
  <2>3. k.key = x /\ k.chr = ""
    BY <2>2
  <2> QED BY <2>2, <2>3
<1> QED BY <1>1, <1>2 DEF Key

(* Every key of a text line leaves the cursor within the text in bytes.    *)
LEMMA TextLineKeeps ==
    ASSUME NEW form, GoodForm(form), form.kind = "TextLine", NEW k \in Key
    PROVE  Edited(TextLine_handle_event(form, k).form, form)
<1> DEFINE t == form.text
           p == form.cursor
           g == TextLine_handle_event(form, k).form
<1> SUFFICES Edited(g, form)
  OBVIOUS
<1>1. /\ form \in FormRecord /\ t \in Seq(Glyph) /\ p \in Nat /\ form.insert \in BOOLEAN
      /\ form.max_len \in Nat
  BY DEF GoodForm, FormRecord
<1>2. Len(t) \in Nat /\ Bytes(t) \in Nat /\ Len(t) <= Bytes(t) /\ p <= Bytes(t)
  BY <1>1, BytesFacts, LenProperties DEF GoodForm
<1>3. Edited(form, form)
  BY DEF Edited
<1>4. ASSUME NEW cursor \in Nat, cursor <= Bytes(t) PROVE Edited([form EXCEPT !.cursor = cursor], form)
  <2>1. [form EXCEPT !.cursor = cursor] =
           [form EXCEPT !.text = form.text, !.cursor = cursor, !.insert = form.insert]
    BY <1>1, LineFields
  <2> QED BY <1>1, <1>4, <2>1, EditedLine DEF t
<1>5. " " \in Glyph /\ "g" \in Glyph /\ "q" \in Glyph
  BY DEF Glyph
<1>6. CASE k.key = "Left"
  <2>1. g = [form EXCEPT !.cursor = SatSub(p, 1)]
    BY <1>1, <1>6 DEF TextLine_handle_event
  <2>2. SatSub(p, 1) \in Nat /\ SatSub(p, 1) <= Bytes(t)
    BY <1>1, <1>2 DEF SatSub
  <2> HIDE DEF g, t, p
  <2> QED BY <1>4, <2>1, <2>2
<1>7. CASE k.key = "Right"
  <2>1. g = [form EXCEPT !.cursor = Least(p + 1, Least(Bytes(t), form.max_len))]
    BY <1>1, <1>7 DEF TextLine_handle_event
  <2> DEFINE x == Least(p + 1, Least(Bytes(t), form.max_len))
  <2>2. x \in Nat /\ x <= Bytes(t)
    BY <1>1, <1>2 DEF Least
  <2> HIDE DEF g, t, p, x
  <2>3. Edited([form EXCEPT !.cursor = x], form)
    BY <1>4, <2>2
  <2> QED BY <2>1, <2>3 DEF x
<1>8. CASE k.key = "Home"
  <2>1. g = [form EXCEPT !.cursor = 0]
    BY <1>1, <1>8 DEF TextLine_handle_event
  <2>2. 0 \in Nat /\ 0 <= Bytes(t)
    BY <1>2
  <2> HIDE DEF g, t, p
  <2> QED BY <1>4, <2>1, <2>2
<1>9. CASE k.key = "End"
  <2>1. g = [form EXCEPT !.cursor = Bytes(t)]
    BY <1>1, <1>9 DEF TextLine_handle_event
  <2> HIDE DEF g, t, p
  <2> QED BY <1>2, <1>4, <2>1
<1>10. CASE k.key = "Backspace" /\ p > 0
  <2> DEFINE new == Without(t, p)
             q == p - 1
  <2>1. g = [form EXCEPT !.text = new, !.cursor = q]
    BY <1>1, <1>10 DEF TextLine_handle_event
  <2>2. /\ new \in Seq(Glyph)
        /\ p \in 1..Len(t) => Len(new) = Len(t) - 1
        /\ p \notin 1..Len(t) => new = t
    BY <1>1, WithoutText
  <2>3. Bytes(new) \in Nat /\ Len(new) <= Bytes(new)
    BY <2>2, BytesFacts
  <2> HIDE DEF g, t, p, new
  <2>4. q \in Nat /\ q <= Bytes(new)
    BY <1>1, <1>2, <1>10, <2>2, <2>3
  <2> HIDE DEF q
  <2>5. g = [form EXCEPT !.text = new, !.cursor = q, !.insert = form.insert]
    BY <1>1, <2>1, LineFields
  <2> QED BY <1>1, <2>2, <2>4, <2>5, EditedLine
<1>11. CASE k.key = "Delete" /\ p < Bytes(t)
  <2> DEFINE new == Without(t, p + 1)
  <2>1. g = [form EXCEPT !.text = new]
    BY <1>1, <1>11 DEF TextLine_handle_event
  <2>2. /\ new \in Seq(Glyph)
        /\ p + 1 \in 1..Len(t) => Len(new) = Len(t) - 1
        /\ p + 1 \notin 1..Len(t) => new = t
    <3>1. p + 1 \in Nat
      BY <1>1
    <3> HIDE DEF p
    <3> QED BY <1>1, <3>1, WithoutText
  <2>3. Bytes(new) \in Nat /\ Len(new) <= Bytes(new)
    BY <2>2, BytesFacts
  <2> HIDE DEF g, t, p, new
  <2>4. p <= Bytes(new)
    BY <1>1, <1>2, <1>11, <2>2, <2>3
  <2>5. g = [form EXCEPT !.text = new, !.cursor = p, !.insert = form.insert]
    BY <1>1, <2>1, LineFields DEF p
  <2> QED BY <1>1, <2>2, <2>4, <2>5, EditedLine
<1>12. CASE k.key = "Insert"
  <2>1. g = [form EXCEPT !.insert = ~form.insert]
    BY <1>1, <1>12 DEF TextLine_handle_event
  <2>2. g = [form EXCEPT !.text = t, !.cursor = p, !.insert = ~form.insert] /\ (~form.insert) \in BOOLEAN
    <3>1. \A x \in BOOLEAN : (~x) \in BOOLEAN
      OBVIOUS
    <3>2. (~form.insert) \in BOOLEAN
      BY <1>1, <3>1, Zenon
    <3> HIDE DEF g
    <3> QED BY <1>1, <2>1, <3>2, LineFields
  <2> HIDE DEF g, t, p
  <2> QED BY <1>1, <1>2, <2>2, EditedLine
<1>13. CASE k.key = "Char"
  <2>1. g = TypeChar(form, k.chr)
    BY <1>13 DEF TextLine_handle_event
  <2> QED BY <1>13, <2>1, KeyFacts, TypeCharKeeps
<1>14. CASE k.key = "Space"
  <2>1. g = TypeChar(form, " ")
    BY <1>14 DEF TextLine_handle_event
  <2> QED BY <1>5, <2>1, TypeCharKeeps
<1>15. CASE k.key \in {"g", "q"}
  <2>1. g = TypeChar(form, k.key)
    BY <1>15 DEF TextLine_handle_event
  <2>2. k.key \in Glyph
    BY <1>5, <1>15
  <2> QED BY <2>1, <2>2, TypeCharKeeps
<1>16. CASE /\ k.key \notin {"Left", "Right", "Insert", "Home", "End", "Char", "Space", "g", "q"}
            /\ ~(k.key = "Backspace" /\ p > 0) /\ ~(k.key = "Delete" /\ p < Bytes(t))
  <2>1. g = form
    BY <1>16 DEF TextLine_handle_event
  <2> QED BY <1>3, <2>1
<1> HIDE DEF g
<1> QED BY <1>6, <1>7, <1>8, <1>9, <1>10, <1>11, <1>12, <1>13, <1>14, <1>15, <1>16

(* Every key of a checkbox leaves the selector on an option.               *)
LEMMA CheckboxKeeps ==
    ASSUME NEW form, GoodForm(form), form.kind = "Checkbox", NEW k
    PROVE  Edited(Checkbox_handle_event(form, k).form, form)
<1> DEFINE o == form.options
           n == Len(form.options)
           s == form.selector
           g == Checkbox_handle_event(form, k).form
<1> SUFFICES Edited(g, form)
  OBVIOUS
<1>1. form \in FormRecord /\ o \in Seq(BOOLEAN) /\ s \in Nat
  BY DEF GoodForm, FormRecord
<1>2. n \in Nat /\ o \in [1..n -> BOOLEAN] /\ (o # <<>> => n > 0 /\ s < n)
  <2>1. n \in Nat /\ o \in [1..n -> BOOLEAN] /\ (o = <<>> <=> n = 0)
    BY <1>1, LenProperties, EmptySeq
  <2>2. o # <<>> => s < n
    BY DEF GoodForm
  <2> QED BY <2>1, <2>2
<1>3. Len(o) = Len(form.text)
  BY DEF GoodForm
<1>4. ASSUME NEW x \in Nat, o # <<>> => x < n, g = [form EXCEPT !.selector = x]
      PROVE  Edited(g, form)
  <2> HIDE DEF g
  <2>1. /\ g \in FormRecord /\ g.kind = form.kind /\ g.options = o /\ g.text = form.text
        /\ g.selector = x
    BY <1>1, <1>4 DEF FormRecord
  <2> QED BY <1>3, <1>4, <2>1 DEF Edited, GoodForm, FormTypes
<1>5. CASE k.key = "Up"
  <2>1. g = [form EXCEPT !.selector = SatSub(s, 1)]
    BY <1>1, <1>5 DEF Checkbox_handle_event
  <2>2. SatSub(s, 1) \in Nat /\ (o # <<>> => SatSub(s, 1) < n)
    BY <1>1, <1>2 DEF SatSub
  <2> HIDE DEF g, s, n, o
  <2> QED BY <1>4, <2>1, <2>2
<1>6. CASE k.key = "Down"
  <2> DEFINE x == Least(s + 1, SatSub(n, 1))
  <2>1. g = [form EXCEPT !.selector = x]
    BY <1>1, <1>6 DEF Checkbox_handle_event
  <2>2. x \in Nat /\ (o # <<>> => x < n)
    <3> HIDE DEF s, n, o
    <3> QED BY <1>1, <1>2 DEF SatSub, Least
  <2> HIDE DEF g, s, n, o, x
  <2> QED BY <1>4, <2>1, <2>2
<1>7. CASE k.key \in {"Enter", "Space"}
  <2> DEFINE new == [o EXCEPT ![s + 1] = ~o[s + 1]]
  <2>1. g = [form EXCEPT !.options = new]
    BY <1>1, <1>7 DEF Checkbox_handle_event
  <2>2. new \in [1..n -> BOOLEAN]
    <3>1. \A x \in BOOLEAN : (~x) \in BOOLEAN
      OBVIOUS
    <3>2. \A i \in 1..n : (~o[i]) \in BOOLEAN
      BY <1>2, <3>1, Zenon
    <3> HIDE DEF o, s, n
    <3> QED BY <1>2, <3>2
  <2> HIDE DEF new
  <2>3. new \in Seq(BOOLEAN) /\ Len(new) = n
    BY <1>2, <2>2, FcnIsSeq
  <2>4. new = <<>> <=> o = <<>>
    <3>1. (new = <<>> <=> Len(new) = 0) /\ (o = <<>> <=> Len(o) = 0)
      BY <1>1, <2>3, EmptySeq
    <3> QED BY <2>3, <3>1
  <2> HIDE DEF g
  <2>5. /\ g \in FormRecord /\ g.kind = form.kind /\ g.options = new /\ g.text = form.text
        /\ g.selector = s
    BY <1>1, <2>1, <2>3 DEF FormRecord
  <2> QED BY <1>2, <1>3, <2>3, <2>4, <2>5 DEF Edited, GoodForm, FormTypes
<1>8. CASE k.key \notin {"Up", "Down", "Enter", "Space"}
  <2>1. g = form
    BY <1>8 DEF Checkbox_handle_event
  <2> QED BY <2>1 DEF Edited
<1> HIDE DEF g
<1> QED BY <1>5, <1>6, <1>7, <1>8

(* A key edits a form and makes no other form of it.                       *)
LEMMA FormEventKeeps ==
    ASSUME NEW form, GoodForm(form), NEW k \in Key
    PROVE  Edited(FormEvent(form, k).form, form)
<1>1. CASE form.kind = "Checkbox"
  BY <1>1, CheckboxKeeps DEF FormEvent
<1>2. CASE form.kind = "TextLine"
  BY <1>2, TextLineKeeps DEF FormEvent
<1>3. CASE form.kind \notin {"Checkbox", "TextLine"}
  <2>1. FormEvent(form, k).form = form
    BY <1>3 DEF FormEvent, Button_handle_event
  <2> QED BY <2>1 DEF Edited
<1> QED BY <1>1, <1>2, <1>3

(* g is f after a key, before it is redrawn.                               *)
Keyed(g, f) ==
    /\ Shape(g)
    /\ g.vps = f.vps /\ g.at = f.at /\ g.zbuff = f.zbuff /\ g.dynamic = f.dynamic
    /\ g.next = f.next /\ g.prev = f.prev /\ g.first = f.first
    /\ IsForms(g.forms) /\ DOMAIN g.forms = DOMAIN f.forms
    /\ \A el \in DOMAIN f.forms : Edited(g.forms[el], f.forms[el])
    /\ g.focused \in {None} \cup Reachable(f)

(* After a key the frame can be drawn and its focus is where it may be.    *)
LEMMA KeyedIsGood ==
    ASSUME NEW f, NEW ids, Drawable(f), Focused(f, ids), NEW g, Keyed(g, f)
    PROVE  Drawable(g) /\ Focused(g, ids)
<1>1. Idle(g.forms) = Idle(f.forms)
  BY DEF Idle, Keyed, Edited
<1>2. Cells(g.forms) = Cells(f.forms)
  BY <1>1 DEF Cells
<1>3. Reachable(g) = Reachable(f)
  BY <1>1 DEF Reachable, Keyed
<1>4. Drawable(g)
  BY <1>2 DEF Drawable, Keyed
<1>5. Focused(g, ids)
  <2>1. \A el \in g.dynamic : g.forms[el].kind \in {"Text", "Print"}
    BY DEF Keyed, Focused, Edited
  <2> QED BY <1>3, <2>1 DEF Focused, Keyed
<1> QED BY <1>4, <1>5

(* A key may change nothing.                                               *)
LEMMA SameIsKeyed ==
    ASSUME NEW f, NEW ids, Drawable(f), Focused(f, ids)
    PROVE  Keyed(f, f)
BY DEF Keyed, Drawable, Focused, Edited, IsForms

(* The root passes a key to the focused form and to no other.              *)
LEMMA HandleEventKeeps ==
    ASSUME NEW f, NEW ids, Drawable(f), Focused(f, ids), NEW k \in Key
    PROVE  LET g == handle_event(f, k)
           IN  /\ Keyed(g, f)
               /\ \A el \in DOMAIN f.forms \ {f.focused} : g.forms[el] = f.forms[el]
<1> DEFINE el0 == f.focused
           e == FormEvent(f.forms[el0], k)
           cursor == IF focusable(e.form) THEN set_form_cursor(f, e.form) ELSE f.cursor
           events == IF e.event THEN Append(f.events, el0) ELSE f.events
           g == handle_event(f, k)
<1> SUFFICES /\ Keyed(g, f)
             /\ \A el \in DOMAIN f.forms \ {el0} : g.forms[el] = f.forms[el]
  OBVIOUS
<1>1. CASE f.focused \notin DOMAIN f.forms
  <2>1. g = f
    BY <1>1 DEF handle_event
  <2> HIDE DEF g
  <2> QED BY <2>1, SameIsKeyed
<1>2. CASE f.focused \in DOMAIN f.forms
  <2>1. Shape(f) /\ IsForms(f.forms)
    BY DEF Drawable
  <2>2. g = [f EXCEPT !.forms[el0] = e.form, !.cursor = cursor, !.events = events]
    BY <1>2, <2>1 DEF handle_event, Shape
  <2>3. Edited(e.form, f.forms[el0])
    BY <1>2, <2>1, FormEventKeeps DEF IsForms
  <2> HIDE DEF e, cursor, events, g, el0
  <2>4. /\ Shape(g) /\ g.forms = [f.forms EXCEPT ![el0] = e.form]
        /\ g.vps = f.vps /\ g.at = f.at /\ g.zbuff = f.zbuff /\ g.dynamic = f.dynamic
        /\ g.next = f.next /\ g.prev = f.prev /\ g.first = f.first /\ g.focused = f.focused
    BY <2>1, <2>2 DEF Shape
  <2>5. /\ g.forms = [el \in DOMAIN f.forms |-> IF el = el0 THEN e.form ELSE f.forms[el]]
        /\ DOMAIN g.forms = DOMAIN f.forms
    BY <2>1, <2>4 DEF IsForms
  <2>6. \A el \in DOMAIN f.forms : Edited(g.forms[el], f.forms[el]) /\ GoodForm(g.forms[el])
    BY <2>1, <2>3, <2>5 DEF Edited, IsForms
  <2>7. IsForms(g.forms)
    BY <2>1, <2>5, <2>6 DEF IsForms
  <2>8. Keyed(g, f)
    BY <2>4, <2>5, <2>6, <2>7 DEF Keyed, Focused
  <2> QED BY <2>5, <2>8
<1> QED BY <1>1, <1>2

(* Moving the focus follows the order, whose forms are reachable.          *)
LEMMA NextFocusKeeps ==
    ASSUME NEW f, NEW ids, Drawable(f), Focused(f, ids), NEW reverse
    PROVE  LET g == inner_next_focus(f, reverse)
           IN  Keyed(g, f) /\ g.forms = f.forms
<1> DEFINE to == IF f.focused = None THEN f.first
                 ELSE At(IF reverse THEN f.prev ELSE f.next, f.focused)
           cursor == IF to \in DOMAIN f.forms THEN set_form_cursor(f, f.forms[to]) ELSE f.cursor
           g == inner_next_focus(f, reverse)
<1>1. to \in {None} \cup Reachable(f)
  <2>1. \A el \in DOMAIN f.next : f.next[el] \in Reachable(f)
    BY DEF Focused, Range
  <2>2. \A el \in DOMAIN f.prev : f.prev[el] \in Reachable(f)
    BY DEF Focused, Range
  <2> QED BY <2>1, <2>2 DEF Focused, At
<1>2. Shape(f)
  BY DEF Drawable
<1>3. g = [f EXCEPT !.focused = to, !.cursor = cursor]
  BY <1>2 DEF inner_next_focus, Shape
<1> HIDE DEF to, cursor, g
<1>4. /\ Shape(g) /\ g.forms = f.forms /\ g.focused = to
      /\ g.vps = f.vps /\ g.at = f.at /\ g.zbuff = f.zbuff /\ g.dynamic = f.dynamic
      /\ g.next = f.next /\ g.prev = f.prev /\ g.first = f.first
  BY <1>2, <1>3 DEF Shape
<1>5. IsForms(f.forms) /\ \A el \in DOMAIN f.forms : Edited(f.forms[el], f.forms[el])
  BY DEF Drawable, IsForms, Edited
<1>6. Keyed(g, f)
  BY <1>1, <1>4, <1>5 DEF Keyed
<1> QED BY <1>4, <1>6 DEF g

(* Losing the focus leaves the forms alone.                                *)
LEMMA ClearFocusKeeps ==
    ASSUME NEW f, NEW ids, Drawable(f), Focused(f, ids)
    PROVE  Keyed(clear_focus(f), f) /\ clear_focus(f).forms = f.forms
<1> DEFINE g == clear_focus(f)
<1>1. Shape(f) /\ g = [f EXCEPT !.focused = None]
  BY DEF clear_focus, Drawable
<1> HIDE DEF g
<1>2. /\ Shape(g) /\ g.forms = f.forms /\ g.focused = None
      /\ g.vps = f.vps /\ g.at = f.at /\ g.zbuff = f.zbuff /\ g.dynamic = f.dynamic
      /\ g.next = f.next /\ g.prev = f.prev /\ g.first = f.first
  BY <1>1 DEF Shape
<1>3. IsForms(f.forms) /\ \A el \in DOMAIN f.forms : Edited(f.forms[el], f.forms[el])
  BY DEF Drawable, IsForms, Edited
<1> QED BY <1>2, <1>3 DEF Keyed, g

-----------------------------------------------------------------------------
(* What a key does to the viewer's frame.                                  *)

(* The viewer changes a form only with the focus on the root and on the    *)
(* form.                                                                   *)
LEMMA DispatchKeeps ==
    ASSUME NEW ids, Drawable(frame), Focused(frame, ids), NEW k \in Key
    PROVE  LET d == dispatch_keyboard_event(k)
           IN  /\ Keyed(d.frame, frame)
               /\ \A el \in DOMAIN frame.forms : d.frame.forms[el] # frame.forms[el] =>
                     focus = "Root" /\ frame.focused = el
               /\ (focus = "Root" /\ k.key = "Char") => d.frame = handle_event(frame, k)
<1> DEFINE d == dispatch_keyboard_event(k)
<1> SUFFICES /\ Keyed(d.frame, frame)
             /\ \A el \in DOMAIN frame.forms : d.frame.forms[el] # frame.forms[el] =>
                   focus = "Root" /\ frame.focused = el
             /\ (focus = "Root" /\ k.key = "Char") => d.frame = handle_event(frame, k)
  OBVIOUS
<1>1. CASE k.key = "Tab"
  <2>1. d.frame = inner_next_focus(frame, FALSE)
    BY <1>1 DEF dispatch_keyboard_event
  <2> HIDE DEF d
  <2> QED BY <1>1, <2>1, NextFocusKeeps
<1>2. CASE k.key = "BackTab"
  <2>1. d.frame = inner_next_focus(frame, TRUE)
    BY <1>2 DEF dispatch_keyboard_event
  <2> HIDE DEF d
  <2> QED BY <1>2, <2>1, NextFocusKeeps
<1>3. CASE k.key = "Esc" /\ focus = "Root"
  <2>1. d.frame = clear_focus(frame)
    BY <1>3 DEF dispatch_keyboard_event
  <2> HIDE DEF d
  <2> QED BY <1>3, <2>1, ClearFocusKeeps
<1>4. CASE k.key \notin {"Tab", "BackTab", "Esc"} /\ focus = "Root"
  <2>1. d.frame = handle_event(frame, k)
    BY <1>4 DEF dispatch_keyboard_event
  <2> HIDE DEF d
  <2> QED BY <1>4, <2>1, HandleEventKeeps
<1>5. CASE k.key \notin {"Tab", "BackTab"} /\ focus # "Root"
  <2>1. d.frame = frame
    BY <1>5 DEF dispatch_keyboard_event
  <2> HIDE DEF d
  <2> QED BY <1>5, <2>1, SameIsKeyed
<1> HIDE DEF d
<1> QED BY <1>1, <1>2, <1>3, <1>4, <1>5

(* An order of a finite set is a sequence.                                 *)
LEMMA OrderIsSeq ==
    ASSUME NEW S, IsFiniteSet(S), NEW order \in Orders(S)
    PROVE  order \in Seq(S)
<1>1. Cardinality(S) \in Nat
  BY FS_CardinalityType
<1>2. order \in [1..Cardinality(S) -> S]
  BY DEF Orders
<1> QED BY <1>1, <1>2, FcnIsSeq

(* Drawing does not move the focus.                                        *)
LEMMA DrawnIsFocused ==
    ASSUME NEW f, NEW ids, Focused(f, ids), NEW g, OnlyDrawn(g, f)
    PROVE  Focused(g, ids)
<1>1. Reachable(g) = Reachable(f)
  BY DEF Reachable, OnlyDrawn
<1> QED BY <1>1 DEF Focused, OnlyDrawn

(* The frame the viewer keeps after rendering f.                           *)
Shown(g, f, ids) ==
    /\ Drawable(g) /\ Focused(g, ids) /\ InOrder(g)
    /\ g.forms = f.forms /\ g.dynamic = f.dynamic /\ g.focused = f.focused

(* Rendering does not move the focus either.                               *)
LEMMA RenderShows ==
    ASSUME NEW f, NEW ids, Drawable(f), Focused(f, ids)
    PROVE  Shown(render(f), f, ids)
<1>1. Rendered(render(f), f)
  BY RenderFacts
<1>2. Focused(render(f), ids)
  BY <1>1, RenderedIsGood
<1> QED BY <1>1, <1>2 DEF Shown, Rendered

(* The redraw after a key, in any order, keeps the forms and the focus.    *)
LEMMA RedrawShows ==
    ASSUME NEW f, NEW ids, Drawable(f), Focused(f, ids), NEW order \in Orders(DOMAIN f.forms)
    PROVE  LET drawn == DrawAll(f, NoFlow, order, AnyViewport).f
           IN  Shown([render(drawn) EXCEPT !.events = <<>>], f, ids)
<1> DEFINE acc == DrawAll(f, NoFlow, order, AnyViewport)
           g == render(acc.f)
           h == [g EXCEPT !.events = <<>>]
<1>1. IsFlow(NoFlow)
  BY DEF IsFlow, NoFlow
<1>2. order \in Seq(DOMAIN f.forms)
  BY OrderIsSeq DEF Drawable, IsForms
<1>3. Drawing(acc, f)
  BY <1>1, <1>2, DrawAllKeeps
<1> HIDE DEF acc
<1>4. OnlyDrawn(acc.f, f)
  BY <1>3 DEF Drawing
<1>5. Drawable(acc.f) /\ Focused(acc.f, ids)
  BY <1>4, DrawnIsDrawable, DrawnIsFocused
<1>6. Shown(g, acc.f, ids)
  BY <1>5, RenderShows
<1>7. /\ g.forms = f.forms /\ g.dynamic = f.dynamic /\ g.focused = f.focused
      /\ Drawable(g) /\ Focused(g, ids) /\ InOrder(g) /\ Shape(g)
  BY <1>4, <1>6 DEF Shown, OnlyDrawn, Drawable
<1> HIDE DEF g
<1>8. /\ Shape(h) /\ h.vps = g.vps /\ h.at = g.at /\ h.zbuff = g.zbuff /\ h.screen = g.screen
      /\ h.forms = g.forms /\ h.dynamic = g.dynamic /\ h.focused = g.focused
      /\ h.next = g.next /\ h.prev = g.prev /\ h.first = g.first
  <2>1. h = [g EXCEPT !.events = <<>>]
    OBVIOUS
  <2> HIDE DEF h
  <2> QED BY <1>7, <2>1 DEF Shape
<1> HIDE DEF h
<1>9. Drawable(h)
  BY <1>7, <1>8 DEF Drawable
<1>10. Focused(h, ids)
  <2>1. Reachable(h) = Reachable(g)
    BY <1>8 DEF Reachable
  <2> QED BY <1>7, <1>8, <2>1 DEF Focused
<1>11. InOrder(h)
  <2>1. \A cb : Seen(h, cb) = Seen(g, cb) /\ ElementIds(h, cb) = ElementIds(g, cb)
    BY <1>8, SameSeen
  <2> QED BY <1>7, <1>8, <2>1 DEF InOrder, OrderOf
<1> QED BY <1>7, <1>8, <1>9, <1>10, <1>11 DEF Shown, h, g, acc

-----------------------------------------------------------------------------
(* Forms from the page's tables.                                           *)

(* The new forms the provers are told of: of these kinds, outside ids.     *)
Fresh(kinds, ids) == {form \in NewForm : form.kind \in kinds /\ form.id \notin ids}

(* The elements of some kinds, on top of forms with other IDs.             *)
LEMMA OfKindsFacts ==
    ASSUME NEW ids, NEW forms \in Seq(NewForm), \A form \in Range(forms) : form.id \notin ids, NEW kinds
    PROVE  OfKinds(forms, kinds) \in Seq(Range(forms) \cap Fresh(kinds, ids))
<1> DEFINE S == {form \in Range(forms) : form.kind \in kinds}
           R == Range(forms)
           all == KeepIn(forms, S)
<1>1. all \in Seq(R \cap S)
  BY KeepInFacts
<1>2. R \subseteq NewForm
  <2>1. forms \in [1..Len(forms) -> NewForm]
    BY LenProperties
  <2> QED BY <2>1 DEF Range
<1>3. R \cap S \subseteq R \cap Fresh(kinds, ids)
  BY <1>2 DEF Fresh
<1>4. OfKinds(forms, kinds) = all
  BY DEF OfKinds
<1> HIDE DEF all, S, R
<1>5. all \in Seq(R \cap Fresh(kinds, ids))
  BY <1>1, <1>3, SeqOfSubset
<1> QED BY <1>4, <1>5 DEF R

(* The dynamic contents are texts and prints with IDs of their own.        *)
LEMMA DynamicContents ==
    ASSUME NEW ids, NEW forms \in Seq(NewForm), \A form \in Range(forms) : form.id \notin ids
    PROVE  get_dynamic_ui_contents(forms) \in Seq(Fresh({"Text", "Print"}, ids))
<1> DEFINE D == Fresh({"Text", "Print"}, ids)
           a == OfKinds(forms, {"Text"})
           b == OfKinds(forms, {"Print"})
<1>1. a \in Seq(Range(forms) \cap Fresh({"Text"}, ids)) /\ b \in Seq(Range(forms) \cap Fresh({"Print"}, ids))
  BY OfKindsFacts
<1>2. /\ Range(forms) \cap Fresh({"Text"}, ids) \subseteq D
      /\ Range(forms) \cap Fresh({"Print"}, ids) \subseteq D
  BY DEF Fresh
<1> HIDE DEF a, b, D
<1>3. a \in Seq(D) /\ b \in Seq(D)
  BY <1>1, <1>2, SeqOfSubset
<1>4. a \o b \in Seq(D)
  BY <1>3, ConcatProperties
<1> QED BY <1>4 DEF get_dynamic_ui_contents, a, b, D

(* A form that nobody has used is good.                                    *)
LEMMA NewIsGood ==
    ASSUME NEW form \in NewForm, form.kind \in FormTypes,
           form.kind = "Checkbox" => Len(form.options) = Len(form.text)
    PROVE  GoodForm(form)
<1>1. /\ form \in FormRecord /\ form.options \in Seq(BOOLEAN) /\ form.text \in Seq(Glyph)
      /\ form.selector = 0 /\ form.cursor = 0
  BY DEF NewForm, FormRecord
<1> DEFINE o == form.options
           t == form.text
<1>2. o # <<>> => 0 < Len(o)
  <2> HIDE DEF o
  <2>1. o \in Seq(BOOLEAN)
    BY <1>1 DEF o
  <2>2. Len(o) \in Nat /\ (o = <<>> <=> Len(o) = 0)
    BY <2>1, LenProperties, EmptySeq
  <2> QED BY <2>2
<1>3. 0 <= Bytes(t)
  <2> HIDE DEF t
  <2>1. t \in Seq(Glyph)
    BY <1>1 DEF t
  <2>2. Bytes(t) \in Nat
    BY <2>1, BytesFacts
  <2> QED BY <2>2
<1> QED BY <1>1, <1>2, <1>3 DEF GoodForm

(* The table of forms has each form under its ID.                          *)
LEMMA ByIdFacts ==
    ASSUME NEW forms \in Seq(NewForm)
    PROVE  LET ids == {form.id : form \in Range(forms)}
               table == ById(forms)
           IN  /\ table = [el \in ids |-> table[el]] /\ DOMAIN table = ids
               /\ IsFiniteSet(ids) /\ ids \subseteq Nat \ {0}
               /\ \A el \in ids : table[el] \in Range(forms) /\ table[el].id = el
<1> DEFINE ids == {form.id : form \in Range(forms)}
           n == Len(forms)
           t == [i \in 1..n |-> forms[i].id]
<1>1. n \in Nat /\ forms \in [1..n -> NewForm] /\ DOMAIN forms = 1..n
  BY LenProperties
<1> HIDE DEF n
<1>2. Range(forms) = {forms[i] : i \in 1..n}
  BY <1>1 DEF Range
<1>3. \A i \in 1..n : forms[i].id \in Nat \ {0}
  BY <1>1 DEF NewForm
<1>4. IsFiniteSet(ids)
  <2>1. t \in Surjection(1..n, ids)
    BY <1>2 DEF Surjection
  <2>2. IsFiniteSet(1..n)
    BY <1>1, FS_Interval
  <2> HIDE DEF t, ids
  <2> QED BY <2>1, <2>2, FS_Surjection
<1>5. ids \subseteq Nat \ {0}
  BY <1>2, <1>3
<1>6. ById(forms) = [el \in ids |-> CHOOSE form \in Range(forms) : form.id = el]
  BY DEF ById
<1>7. \A el \in ids : \E form \in Range(forms) : form.id = el
  OBVIOUS
<1> HIDE DEF ids
<1>8. \A el \in ids : ById(forms)[el] \in Range(forms) /\ ById(forms)[el].id = el
  BY <1>6, <1>7
<1>9. ById(forms) = [el \in ids |-> ById(forms)[el]] /\ DOMAIN ById(forms) = ids
  BY <1>6
<1> QED BY <1>4, <1>5, <1>8, <1>9 DEF ids

-----------------------------------------------------------------------------
(* The first frame of a page.                                              *)

(* A viewport nothing was drawn in may hold any cells.                     *)
LEMMA NewViewports ==
    ASSUME NEW vps \in Seq(NewViewport), NEW C
    PROVE  vps \in Seq(Viewport(C))
<1>1. NewViewport \subseteq Viewport(C)
  <2>1. <<>> \in Seq(C)
    OBVIOUS
  <2> QED BY <2>1 DEF NewViewport, Viewport
<1> QED BY <1>1, SeqOfSubset

(* The viewports of a page, parents first, have places.                    *)
LEMMA FirstViewports ==
    ASSUME NEW p \in Page, NEW C
    PROVE  /\ get_viewports(p) \in Seq(Viewport(C))
           /\ SceneGraph(get_viewports(p)) \in [DOMAIN get_viewports(p) -> Place]
<1> DEFINE w == p.viewports
           n == Len(w)
           vps == get_viewports(p)
<1>1. w \in Seq(NewViewport)
  BY PageAssumption DEF Tables
<1>2. n \in Nat /\ w \in [1..n -> NewViewport] /\ DOMAIN w = 1..n
  BY <1>1, LenProperties
<1>3. /\ \A i, j \in 1..n : w[i].id = w[j].id => i = j
      /\ \A i \in 1..n : w[i].parent # 0 => \E j \in 1..n : j > i /\ w[j].id = w[i].parent
  BY <1>2, PageAssumption
<1>4. vps = [i \in 1..n |-> w[(n - i) + 1]]
  BY DEF get_viewports, Reverse
<1> HIDE DEF w, n, vps
<1>5. \A i \in 1..n : (n - i) + 1 \in 1..n /\ (n - ((n - i) + 1)) + 1 = i
  BY <1>2
<1>6. vps \in [1..n -> NewViewport] /\ \A i \in 1..n : vps[i] = w[(n - i) + 1]
  BY <1>2, <1>4, <1>5
<1>7. vps \in Seq(NewViewport) /\ DOMAIN vps = 1..n
  BY <1>2, <1>6, FcnIsSeq
<1>8. vps \in Seq(Viewport(C))
  BY <1>7, NewViewports
<1>9. ASSUME NEW i \in 1..n, NEW j \in 1..n, vps[i].id = vps[j].id PROVE i = j
  <2>1. (n - i) + 1 = (n - j) + 1
    BY <1>3, <1>5, <1>6, <1>9
  <2> QED BY <1>2, <2>1
<1>10. ASSUME NEW i \in 1..n, vps[i].parent # None
       PROVE  \E j \in 1..n : j < i /\ vps[j].id = vps[i].parent
  <2> DEFINE x == (n - i) + 1
  <2>1. x \in 1..n /\ vps[i] = w[x]
    BY <1>5, <1>6
  <2> HIDE DEF x
  <2>2. PICK y \in 1..n : y > x /\ w[y].id = w[x].parent
    BY <1>3, <1>10, <2>1 DEF None
  <2> DEFINE j == (n - y) + 1
  <2>3. j \in 1..n /\ vps[j] = w[y]
    <3>1. (n - j) + 1 = y
      BY <1>2
    <3> QED BY <1>5, <1>6, <3>1
  <2>4. j < i
    BY <1>2, <2>2 DEF x
  <2> HIDE DEF j
  <2> QED BY <2>1, <2>2, <2>3, <2>4
<1>11. SceneGraph(vps) \in [DOMAIN vps -> Place]
  BY <1>7, <1>8, <1>9, <1>10, SceneGraphPlaces
<1> QED BY <1>8, <1>11 DEF vps

(* The first frame of a page can be drawn, and it has the page's forms.    *)
LEMMA FirstFrame ==
    ASSUME NEW p \in Page
    PROVE  PageOK(p) /\ Shown(render(make_root(p)), make_root(p), StaticIds(p))
<1> DEFINE ids == StaticIds(p)
           static == get_static_ui_contents(p)
           dynamic == get_dynamic_ui_contents(p.dynamic)
           all == static \o dynamic
           dyn == {form.id : form \in Range(dynamic)}
           f == NewRoot(p)
           g == [f EXCEPT !.forms = ById(all), !.dynamic = dyn]
           order == [i \in DOMAIN all |-> all[i].id]
           acc == DrawAll(g, NoFlow, order, AnyViewport)
<1>1. /\ p \in Tables
      /\ \A form \in Range(p.static), new \in {p.dynamic} \cup p.contents :
            \A other \in Range(new) : form.id # other.id
      /\ \A form \in Range(p.static) : form.kind = "Checkbox" => Len(form.options) = Len(form.text)
  BY PageAssumption
<1>2. p.static \in Seq(NewForm) /\ p.dynamic \in Seq(NewForm)
  BY <1>1 DEF Tables
<1>3. PageOK(p)
  BY <1>1 DEF PageOK
<1> DEFINE S == Range(p.static) \cap Fresh(FormTypes, {})
           D == Fresh({"Text", "Print"}, ids)
           U == S \cup D
<1>4. static \in Seq(S)
  BY <1>2, OfKindsFacts DEF get_static_ui_contents
<1>5. dynamic \in Seq(D)
  <2>1. \A form \in Range(p.dynamic) : form.id \notin ids
    BY <1>1 DEF StaticIds
  <2> HIDE DEF ids
  <2> QED BY <1>2, <2>1, DynamicContents
<1>6. U \subseteq NewForm /\ \A form \in S : form.id \in ids
  BY DEF Fresh, StaticIds
<1>7. /\ \A form \in U : GoodForm(form)
      /\ \A form \in D : form.kind \in {"Text", "Print"} /\ form.id \notin ids
  <2>1. \A form \in U : /\ form \in NewForm /\ form.kind \in FormTypes
                        /\ form.kind = "Checkbox" => Len(form.options) = Len(form.text)
    BY <1>1 DEF Fresh, FormTypes
  <2>2. \A form \in U : GoodForm(form)
    <3> HIDE DEF U
    <3> QED BY <2>1, NewIsGood
  <2> QED BY <2>2 DEF Fresh
<1> HIDE DEF S, D, ids, static, dynamic
<1>8. /\ static \in Seq(U) /\ dynamic \in Seq(U)
      /\ Range(static) \subseteq S /\ Range(dynamic) \subseteq D
  <2>1. S \subseteq U /\ D \subseteq U
    OBVIOUS
  <2>2. static \in Seq(U) /\ dynamic \in Seq(U)
    <3> HIDE DEF U
    <3> QED BY <1>4, <1>5, <2>1, SeqOfSubset
  <2>3. static \in [1..Len(static) -> S] /\ dynamic \in [1..Len(dynamic) -> D]
    BY <1>4, <1>5, LenProperties
  <2> QED BY <2>2, <2>3 DEF Range
<1>9. all \in Seq(U) /\ Range(all) = Range(static) \cup Range(dynamic)
  <2> HIDE DEF U
  <2>1. all \in Seq(U)
    BY <1>8, ConcatProperties
  <2>2. Range(all) = Range(static) \cup Range(dynamic)
    BY <1>8, RangeConcatenation
  <2> QED BY <2>1, <2>2
<1> HIDE DEF U, all
<1>10. all \in Seq(NewForm) /\ Range(all) \subseteq U
  <2>1. all \in Seq(NewForm)
    BY <1>6, <1>9, SeqOfSubset
  <2>2. all \in [1..Len(all) -> U]
    BY <1>9, LenProperties
  <2> QED BY <2>1, <2>2 DEF Range
<1> DEFINE A == {form.id : form \in Range(all)}
           table == ById(all)
<1>11. /\ table = [el \in A |-> table[el]] /\ DOMAIN table = A
       /\ IsFiniteSet(A) /\ A \subseteq Nat \ {0}
       /\ \A el \in A : table[el] \in Range(all) /\ table[el].id = el
  BY <1>10, ByIdFacts
<1>12. order \in Seq(A)
  <2>1. Len(all) \in Nat /\ DOMAIN all = 1..Len(all)
    BY <1>10, LenProperties
  <2>2. \A i \in DOMAIN all : all[i] \in Range(all)
    BY DEF Range
  <2>3. order \in [1..Len(all) -> A]
    BY <2>1, <2>2
  <2> HIDE DEF order, A
  <2> QED BY <2>1, <2>3, FcnIsSeq
<1>13. dyn \subseteq A /\ A \ dyn \subseteq ids /\ \A el \in dyn : el \notin ids
  BY <1>6, <1>7, <1>8, <1>9
<1> HIDE DEF table, A, order, dyn
<1>14. \A el \in A : GoodForm(table[el])
  BY <1>7, <1>10, <1>11
<1>15. \A el \in dyn : table[el].kind \in {"Text", "Print"}
  <2>1. ASSUME NEW el \in dyn PROVE table[el] \in D
    <3>1. table[el] \in S \cup D /\ table[el].id = el
      BY <1>8, <1>9, <1>11, <1>13
    <3> QED BY <1>6, <1>13, <3>1
  <2> QED BY <1>7, <2>1
<1>16. IsForms(table)
  BY <1>11, <1>14 DEF IsForms
<1> DEFINE vps == get_viewports(p)
<1>17. /\ Shape(g) /\ g.vps = vps /\ g.at = SceneGraph(vps) /\ g.zbuff = {} /\ g.forms = table
       /\ g.dynamic = dyn /\ g.focused = None /\ g.first = None /\ g.next = <<>> /\ g.prev = <<>>
  <2>1. Shape(f) /\ f.vps = vps /\ f.at = SceneGraph(vps) /\ f.zbuff = {} /\ f.focused = None
        /\ f.first = None /\ f.next = <<>> /\ f.prev = <<>>
    <3> HIDE DEF vps
    <3> QED BY DEF NewRoot, Shape, vps
  <2>2. g = [f EXCEPT !.forms = table, !.dynamic = dyn]
    BY DEF table
  <2> HIDE DEF f, g, vps
  <2> QED BY <2>1, <2>2 DEF Shape
<1>18. vps \in Seq(Viewport(Cells(table))) /\ SceneGraph(vps) \in [DOMAIN vps -> Place]
  BY FirstViewports
<1>19. make_root(p) = acc.f
  BY DEF make_root, set_all_forms, static, dynamic, all, dyn, order
<1> HIDE DEF vps, g
<1>20. Drawable(g)
  BY <1>16, <1>17, <1>18 DEF Drawable
<1>21. Focused(g, ids)
  <2>1. Range(g.next) = {} /\ Range(g.prev) = {}
    BY <1>17 DEF Range
  <2> QED BY <1>11, <1>13, <1>15, <1>17, <2>1 DEF Focused
<1>22. OnlyDrawn(acc.f, g)
  <2>1. IsFlow(NoFlow)
    BY DEF IsFlow, NoFlow
  <2>2. order \in Seq(DOMAIN g.forms)
    BY <1>11, <1>12, <1>17
  <2>3. Drawing(acc, g)
    BY <1>20, <2>1, <2>2, DrawAllKeeps
  <2> HIDE DEF acc
  <2> QED BY <2>3 DEF Drawing
<1> HIDE DEF acc
<1>23. Shown(render(acc.f), acc.f, ids)
  BY <1>20, <1>21, <1>22, DrawnIsDrawable, DrawnIsFocused, RenderShows
<1> QED BY <1>3, <1>19, <1>23 DEF ids

-----------------------------------------------------------------------------
(* Frame updates.                                                          *)

(* A merged viewport is empty.                                             *)
LEMMA MergeUpdate ==
    ASSUME NEW C, NEW v \in Viewport(C), NEW vp \in NewViewport
    PROVE  merge_update(v, vp) \in Viewport(C)
<1> DEFINE g == merge_update(v, vp)
<1>1. /\ vp.row \in Nat /\ vp.col \in Nat /\ vp.rows \in Nat /\ vp.cols \in Nat \ {0}
      /\ vp.visible \in BOOLEAN /\ <<>> \in Seq(C)
  BY DEF NewViewport
<1>2. g = [v EXCEPT !.row = vp.row, !.col = vp.col, !.rows = vp.rows, !.cols = vp.cols,
                    !.visible = vp.visible, !.buff = <<>>]
  BY DEF merge_update
<1> HIDE DEF g
<1>3. g \in Viewport(C)
  BY <1>1, <1>2 DEF Viewport
<1> QED BY <1>3 DEF g

(* The forms of the page stay, without the texts of the last update.       *)
LEMMA KeptForms ==
    ASSUME NEW f, NEW ids, Drawable(f), Focused(f, ids)
    PROVE  LET kept == DOMAIN f.forms \ f.dynamic
               forms == [el \in kept |-> f.forms[el]]
           IN  /\ IsForms(forms) /\ DOMAIN forms = kept
               /\ Idle(forms) = Idle(f.forms) /\ Cells(forms) = Cells(f.forms)
<1> DEFINE kept == DOMAIN f.forms \ f.dynamic
           forms == [el \in kept |-> f.forms[el]]
<1>1. /\ IsFiniteSet(DOMAIN f.forms) /\ DOMAIN f.forms \subseteq Nat \ {0}
      /\ \A el \in DOMAIN f.forms : GoodForm(f.forms[el])
      /\ \A el \in f.dynamic : f.forms[el].kind \in {"Text", "Print"}
  BY DEF Drawable, IsForms, Focused
<1>2. IsFiniteSet(kept) /\ kept \subseteq DOMAIN f.forms
  BY <1>1, FS_Subset
<1>3. forms = [el \in kept |-> forms[el]] /\ DOMAIN forms = kept
      /\ \A el \in kept : forms[el] = f.forms[el]
  OBVIOUS
<1>4. Idle(forms) = Idle(f.forms)
  <2>1. \A el \in DOMAIN f.forms : f.forms[el].kind = "Checkbox" => el \in kept
    BY <1>1
  <2> HIDE DEF forms, kept
  <2> QED BY <1>2, <1>3, <2>1 DEF Idle
<1> HIDE DEF forms, kept
<1>5. IsForms(forms)
  BY <1>1, <1>2, <1>3 DEF IsForms
<1> QED BY <1>3, <1>4, <1>5 DEF Cells, forms, kept

(* New texts under IDs no form of the page has change neither the page's   *)
(* forms nor what can be on a cell.                                        *)
LEMMA AddedForms ==
    ASSUME NEW forms, IsForms(forms), NEW ids, DOMAIN forms \subseteq ids,
           NEW shown \in Seq(Fresh({"Text", "Print"}, ids))
    PROVE  LET new == ById(shown)
               all == [el \in DOMAIN forms \cup DOMAIN new |->
                          IF el \in DOMAIN new THEN new[el] ELSE forms[el]]
           IN  /\ IsForms(all) /\ DOMAIN all = DOMAIN forms \cup DOMAIN new
               /\ Idle(all) = Idle(forms) /\ Cells(all) = Cells(forms)
               /\ DOMAIN new \cap DOMAIN forms = {}
               /\ \A el \in DOMAIN forms : all[el] = forms[el]
               /\ \A el \in DOMAIN new : all[el].kind \in {"Text", "Print"}
<1> DEFINE D == Fresh({"Text", "Print"}, ids)
           new == ById(shown)
           N == DOMAIN new
           K == DOMAIN forms
           all == [el \in K \cup N |-> IF el \in N THEN new[el] ELSE forms[el]]
<1>1. D \subseteq NewForm /\ \A form \in D : form.kind \in {"Text", "Print"} /\ form.id \notin ids
  BY DEF Fresh
<1> HIDE DEF D
<1>2. shown \in Seq(NewForm) /\ Range(shown) \subseteq D
  <2>1. shown \in Seq(D)
    BY DEF D
  <2>2. shown \in Seq(NewForm)
    BY <1>1, <2>1, SeqOfSubset
  <2>3. shown \in [1..Len(shown) -> D]
    BY <2>1, LenProperties
  <2> QED BY <2>2, <2>3 DEF Range
<1>3. /\ N = {form.id : form \in Range(shown)} /\ IsFiniteSet(N) /\ N \subseteq Nat \ {0}
      /\ \A el \in N : new[el] \in Range(shown) /\ new[el].id = el
  BY <1>2, ByIdFacts
<1> HIDE DEF new, N
<1>4. \A el \in N : new[el] \in D /\ el \notin K /\ new[el].kind \in {"Text", "Print"}
  BY <1>1, <1>2, <1>3
<1>5. \A el \in N : GoodForm(new[el])
  BY <1>1, <1>4, NewIsGood DEF FormTypes
<1>6. IsFiniteSet(K) /\ K \subseteq Nat \ {0} /\ \A el \in K : GoodForm(forms[el])
  BY DEF IsForms
<1>7. /\ DOMAIN all = K \cup N /\ all = [el \in K \cup N |-> all[el]]
      /\ \A el \in N : all[el] = new[el]
      /\ \A el \in K : all[el] = forms[el]
  BY <1>4
<1>8. IsFiniteSet(K \cup N)
  BY <1>3, <1>6, FS_Union
<1> HIDE DEF all, K
<1>9. \A el \in K \cup N : GoodForm(all[el])
  BY <1>5, <1>6, <1>7
<1>10. IsForms(all)
  BY <1>3, <1>6, <1>7, <1>8, <1>9 DEF IsForms
<1>11. Idle(all) = Idle(forms)
  BY <1>4, <1>7 DEF Idle, K
<1>12. N \cap K = {}
  BY <1>4
<1> QED BY <1>4, <1>7, <1>10, <1>11, <1>12 DEF Cells, all, new, N, K

(* g is f after an update: it has the forms of the page that f had.        *)
Replaced(g, f, ids) ==
    /\ Drawable(g) /\ Focused(g, ids)
    /\ \A el \in DOMAIN f.forms \ f.dynamic : el \in DOMAIN g.forms /\ g.forms[el] = f.forms[el]

(* An update keeps the forms of the page as they are, and a focus on one   *)
(* of them.                                                                *)
LEMMA UpdateKeeps ==
    ASSUME NEW f, NEW ids, Drawable(f), Focused(f, ids),
           NEW changed, \A x \in DOMAIN changed : changed[x] \in NewViewport,
           NEW contents \in Seq(Fresh({"Text", "Print"}, ids)),
           NEW order \in Orders(DOMAIN f.forms \ OldForms(f))
    PROVE  Replaced(update_forms(f, changed, contents, order), f, ids)
<1> DEFINE kept == DOMAIN f.forms \ OldForms(f)
           forms == [el \in kept |-> f.forms[el]]
           C == Cells(f.forms)
           D == Fresh({"Text", "Print"}, ids)
           dirty == {f.forms[el].vp : el \in kept} \cup {form.vp : form \in Range(contents)}
           vps == [i \in DOMAIN f.vps |->
                      LET v == f.vps[i]
                      IN  IF v.id \in DOMAIN changed THEN merge_update(v, changed[v.id])
                          ELSE IF v.id \in dirty THEN [v EXCEPT !.buff = <<>>] ELSE v]
           cleared == [f EXCEPT !.vps = vps, !.forms = forms, !.dynamic = {}]
           old == DrawAll(cleared, NoFlow, order, VisibleOnly)
           on == {form \in Range(contents) : \E i \in Index(vps, form.vp) : vps[i].visible}
           shown == KeepIn(contents, on)
           table == ById(shown)
           all == [el \in kept \cup DOMAIN table |->
                      IF el \in DOMAIN table THEN table[el] ELSE f.forms[el]]
           added == [old.f EXCEPT !.forms = all, !.dynamic = DOMAIN table]
           names == [i \in DOMAIN shown |-> shown[i].id]
           new == DrawAll(added, old.flow, names, VisibleOnly)
           focused == IF new.f.focused \in DOMAIN new.f.forms THEN new.f.focused ELSE None
           last == [new.f EXCEPT !.focused = focused]
<1>1. update_forms(f, changed, contents, order) = last
  BY DEF update_forms
<1>2. OldForms(f) = f.dynamic
  BY DEF OldForms
<1>3. /\ IsForms(forms) /\ DOMAIN forms = kept /\ Idle(forms) = Idle(f.forms)
      /\ Cells(forms) = C /\ \A el \in kept : forms[el] = f.forms[el]
  BY <1>2, KeptForms
<1>4. /\ Shape(f) /\ f.vps \in Seq(Viewport(C)) /\ f.at \in [DOMAIN f.vps -> Place]
      /\ \A z \in f.zbuff : z \in [Pixels -> {None} \cup DOMAIN f.vps]
  BY DEF Drawable
<1> HIDE DEF C
<1>5. vps \in Seq(Viewport(C)) /\ DOMAIN vps = DOMAIN f.vps
  <2> DEFINE n == Len(f.vps)
             V == Viewport(C)
  <2>1. n \in Nat /\ DOMAIN f.vps = 1..n /\ \A i \in 1..n : f.vps[i] \in V
    BY <1>4, LenProperties
  <2>2. \A v \in V : [v EXCEPT !.buff = <<>>] \in V
    <3>1. <<>> \in Seq(C)
      OBVIOUS
    <3> QED BY <3>1 DEF Viewport
  <2>3. \A v \in V : v.id \in DOMAIN changed => merge_update(v, changed[v.id]) \in V
    BY MergeUpdate
  <2> HIDE DEF V, n, dirty
  <2>4. vps \in [1..n -> V]
    BY <2>1, <2>2, <2>3
  <2> HIDE DEF vps
  <2> QED BY <2>1, <2>4, FcnIsSeq DEF V
<1> HIDE DEF vps, forms, kept
<1>6. /\ Shape(cleared) /\ cleared.vps = vps /\ cleared.at = f.at /\ cleared.zbuff = f.zbuff
      /\ cleared.forms = forms /\ cleared.focused = f.focused
      /\ cleared.next = f.next /\ cleared.prev = f.prev /\ cleared.first = f.first
  <2>1. cleared = [f EXCEPT !.vps = vps, !.forms = forms, !.dynamic = {}]
    OBVIOUS
  <2> HIDE DEF cleared
  <2> QED BY <1>4, <2>1 DEF Shape
<1> HIDE DEF cleared
<1>7. Drawable(cleared)
  BY <1>3, <1>4, <1>5, <1>6 DEF Drawable
<1>8. Drawing(old, cleared)
  <2>1. IsFlow(NoFlow)
    BY DEF IsFlow, NoFlow
  <2>2. IsFiniteSet(kept)
    BY <1>3 DEF IsForms
  <2>3. order \in Seq(kept)
    BY <2>2, OrderIsSeq DEF kept
  <2>4. order \in Seq(DOMAIN cleared.forms)
    BY <1>3, <1>6, <2>3
  <2> QED BY <1>7, <2>1, <2>4, DrawAllKeeps
<1> HIDE DEF old
<1>9. /\ Shape(old.f) /\ old.f.at = f.at /\ old.f.zbuff = f.zbuff /\ old.f.focused = f.focused
      /\ old.f.next = f.next /\ old.f.prev = f.prev /\ old.f.first = f.first
      /\ old.f.vps \in Seq(Viewport(C)) /\ DOMAIN old.f.vps = DOMAIN f.vps
      /\ IsFlow(old.flow)
  <2>1. OnlyDrawn(old.f, cleared) /\ IsFlow(old.flow)
    BY <1>8 DEF Drawing
  <2>2. Drawable(old.f)
    BY <1>7, <2>1, DrawnIsDrawable
  <2>3. old.f.vps \in Seq(Viewport(Cells(old.f.forms))) /\ old.f.forms = forms
    BY <1>6, <2>1, <2>2 DEF Drawable, OnlyDrawn
  <2>4. DOMAIN old.f.vps = DOMAIN f.vps
    BY <1>5, <1>6, <2>1 DEF OnlyDrawn
  <2> QED BY <1>3, <1>6, <2>1, <2>3, <2>4 DEF OnlyDrawn
<1>10. shown \in Seq(D)
  <2> HIDE DEF on, D
  <2>1. shown \in Seq(Range(contents) \cap on)
    BY KeepInFacts DEF D
  <2>2. contents \in [1..Len(contents) -> D]
    BY LenProperties DEF D
  <2>3. Range(contents) \cap on \subseteq D
    BY <2>2 DEF Range
  <2> HIDE DEF shown
  <2> QED BY <2>1, <2>3, SeqOfSubset
<1> HIDE DEF shown
<1>11. kept \subseteq ids
  BY <1>2 DEF kept, Focused
<1>12. /\ IsForms(all) /\ DOMAIN all = kept \cup DOMAIN table
       /\ Idle(all) = Idle(f.forms) /\ Cells(all) = C /\ DOMAIN table \cap kept = {}
       /\ \A el \in kept : all[el] = f.forms[el]
       /\ \A el \in DOMAIN table : all[el].kind \in {"Text", "Print"}
  <2> DEFINE every == [el \in DOMAIN forms \cup DOMAIN table |->
                          IF el \in DOMAIN table THEN table[el] ELSE forms[el]]
  <2>1. /\ IsForms(every) /\ DOMAIN every = DOMAIN forms \cup DOMAIN table
        /\ Idle(every) = Idle(forms) /\ Cells(every) = Cells(forms)
        /\ DOMAIN table \cap DOMAIN forms = {}
        /\ \A el \in DOMAIN forms : every[el] = forms[el]
        /\ \A el \in DOMAIN table : every[el].kind \in {"Text", "Print"}
    BY <1>3, <1>10, <1>11, AddedForms
  <2> HIDE DEF table
  <2>2. all = every
    BY <1>3
  <2> HIDE DEF all, every
  <2> QED BY <1>3, <2>1, <2>2
<1> DEFINE T == DOMAIN table
<1>13. names \in Seq(T)
  <2>1. shown \in Seq(NewForm)
    <3>1. D \subseteq NewForm
      BY DEF Fresh
    <3> HIDE DEF D
    <3> QED BY <1>10, <3>1, SeqOfSubset
  <2>2. Len(shown) \in Nat /\ DOMAIN shown = 1..Len(shown)
    BY <2>1, LenProperties
  <2>3. T = {form.id : form \in Range(shown)}
    BY <2>1, ByIdFacts
  <2>4. \A i \in DOMAIN shown : shown[i] \in Range(shown)
    BY DEF Range
  <2> HIDE DEF T
  <2>5. names \in [1..Len(shown) -> T]
    BY <2>2, <2>3, <2>4
  <2> HIDE DEF names
  <2> QED BY <2>2, <2>5, FcnIsSeq
<1> HIDE DEF table, all, names
<1>14. /\ Shape(added) /\ added.vps = old.f.vps /\ added.at = f.at /\ added.zbuff = f.zbuff
       /\ added.forms = all /\ added.dynamic = T /\ added.focused = f.focused
       /\ added.next = f.next /\ added.prev = f.prev /\ added.first = f.first
  <2>1. added = [old.f EXCEPT !.forms = all, !.dynamic = T]
    OBVIOUS
  <2> HIDE DEF added, T
  <2> QED BY <1>9, <2>1 DEF Shape
<1> HIDE DEF added
<1>15. Drawable(added)
  BY <1>4, <1>9, <1>12, <1>14 DEF Drawable
<1>16. Reachable(added) = Reachable(f)
  BY <1>2, <1>12, <1>14 DEF Reachable, kept
<1>17. Focused(added, ids)
  <2>1. T \subseteq DOMAIN all /\ DOMAIN all \ T \subseteq ids
    BY <1>11, <1>12
  <2> QED BY <1>12, <1>14, <1>16, <2>1 DEF Focused
<1>18. OnlyDrawn(new.f, added)
  <2>1. names \in Seq(DOMAIN added.forms)
    <3>1. T \subseteq DOMAIN added.forms
      BY <1>12, <1>14
    <3> HIDE DEF T
    <3> QED BY <1>13, <3>1, SeqOfSubset
  <2>2. Drawing(new, added)
    BY <1>9, <1>15, <2>1, DrawAllKeeps
  <2> HIDE DEF new
  <2> QED BY <2>2 DEF Drawing
<1> HIDE DEF new
<1>19. Drawable(new.f) /\ Focused(new.f, ids) /\ new.f.forms = all /\ Shape(new.f)
  BY <1>14, <1>15, <1>17, <1>18, DrawnIsDrawable, DrawnIsFocused DEF OnlyDrawn
<1>20. focused \in {None} \cup Reachable(new.f)
  BY <1>19 DEF Focused
<1>21. /\ Shape(last) /\ last.vps = new.f.vps /\ last.at = new.f.at /\ last.zbuff = new.f.zbuff
       /\ last.forms = new.f.forms /\ last.dynamic = new.f.dynamic /\ last.focused = focused
       /\ last.next = new.f.next /\ last.prev = new.f.prev /\ last.first = new.f.first
  <2>1. last = [new.f EXCEPT !.focused = focused]
    OBVIOUS
  <2> HIDE DEF last, focused
  <2> QED BY <1>19, <2>1 DEF Shape
<1> HIDE DEF last, focused
<1>22. Drawable(last)
  BY <1>19, <1>21 DEF Drawable
<1>23. Focused(last, ids)
  <2>1. Reachable(last) = Reachable(new.f)
    BY <1>21 DEF Reachable
  <2> QED BY <1>19, <1>20, <1>21, <2>1 DEF Focused
<1>24. \A el \in DOMAIN f.forms \ f.dynamic : el \in DOMAIN last.forms /\ last.forms[el] = f.forms[el]
  BY <1>2, <1>12, <1>19, <1>21 DEF kept
<1> QED BY <1>1, <1>22, <1>23, <1>24 DEF Replaced

-----------------------------------------------------------------------------
(* The inductive invariant: the frame can be drawn, its focus is nowhere   *)
(* or on a form of the page with something to draw, and its focus order is *)
(* the one of the forms on the screen.                                     *)
FormsInv ==
    /\ PageOK(page)
    /\ frame # NoFrame => /\ Drawable(frame) /\ Focused(frame, StaticIds(page))
                          /\ InOrder(frame)

(* A rendered frame is a frame.                                            *)
LEMMA ShownIsFrame ==
    ASSUME NEW g, NEW f, NEW ids, Shown(g, f, ids)
    PROVE  g # NoFrame
<1>1. Shape(g)
  BY DEF Shown, Drawable
<1> QED BY <1>1 DEF Shape, NoFrame

(* The invariant holds of the first frame.                                 *)
LEMMA FormsInvInit == Init => FormsInv
<1> SUFFICES ASSUME Init PROVE FormsInv
  OBVIOUS
<1>1. page \in Page /\ (frame # NoFrame => frame = render(make_root(page)))
  BY DEF Init
<1>2. PageOK(page) /\ Shown(render(make_root(page)), make_root(page), StaticIds(page))
  BY <1>1, FirstFrame
<1> QED BY <1>1, <1>2 DEF FormsInv, Shown

(* A key press.                                                            *)
Pressed(k) ==
    /\ frame # NoFrame /\ Drawable(frame) /\ Focused(frame, StaticIds(page))
    /\ page' = page /\ nupdates' = nupdates /\ typed' = k.chr
    /\ Shown(frame', dispatch_keyboard_event(k).frame, StaticIds(page))

(* A key leaves a frame with the forms the dispatch left.                  *)
LEMMA PressFacts ==
    ASSUME FormsInv, NEW k \in Key, Press(k)
    PROVE  Pressed(k)
<1> DEFINE d == dispatch_keyboard_event(k)
           ids == StaticIds(page)
<1>1. frame # NoFrame /\ Drawable(frame) /\ Focused(frame, ids)
  BY DEF Press, FormsInv
<1>2. Keyed(d.frame, frame)
  BY <1>1, DispatchKeeps
<1>3. Drawable(d.frame) /\ Focused(d.frame, ids)
  BY <1>1, <1>2, KeyedIsGood
<1>4. PICK order \in Orders(DOMAIN d.frame.forms) :
          frame' = [render(DrawAll(d.frame, NoFlow, order, AnyViewport).f) EXCEPT !.events = <<>>]
  BY DEF Press
<1> HIDE DEF d, ids
<1>5. Shown(frame', d.frame, ids)
  BY <1>3, <1>4, RedrawShows
<1> QED BY <1>1, <1>5 DEF Pressed, Press, d, ids

(* The page after it changed its viewports.                                *)
LEMMA PageUpdated ==
    ASSUME FormsInv, NEW toggled \in SUBSET {v.id : v \in Range(page.viewports)},
           NEW contents \in page.contents, Update(toggled, contents)
    PROVE  /\ PageOK(page') /\ StaticIds(page') = StaticIds(page)
           /\ LET changed == get_updated_viewports(page', toggled)
              IN  \A x \in DOMAIN changed : changed[x] \in NewViewport
<1> DEFINE w == page.viewports
           n == Len(w)
           x == [i \in DOMAIN w |-> [w[i] EXCEPT !.visible = (w[i].visible # (w[i].id \in toggled))]]
<1>1. page \in Tables /\ page' = [page EXCEPT !.viewports = x]
  BY DEF Update, FormsInv, PageOK
<1>2. w \in Seq(NewViewport)
  BY <1>1 DEF Tables
<1>3. n \in Nat /\ DOMAIN w = 1..n /\ w \in [1..n -> NewViewport]
  BY <1>2, LenProperties
<1>4. \A v \in NewViewport : /\ [v EXCEPT !.visible = (v.visible # (v.id \in toggled))] \in NewViewport
                             /\ [v EXCEPT !.visible = (v.visible # (v.id \in toggled))].id = v.id
  BY DEF NewViewport
<1>5. x \in [1..n -> NewViewport] /\ \A i \in 1..n : x[i].id = w[i].id
  <2> HIDE DEF w, n
  <2> QED BY <1>3, <1>4
<1> HIDE DEF x, n
<1>6. x \in Seq(NewViewport) /\ DOMAIN x = 1..n
  BY <1>3, <1>5, FcnIsSeq
<1>7. /\ page' \in Tables /\ page'.viewports = x /\ page'.static = page.static
      /\ page'.dynamic = page.dynamic /\ page'.contents = page.contents
  BY <1>1, <1>6 DEF Tables
<1>8. PageOK(page') /\ StaticIds(page') = StaticIds(page)
  BY <1>7 DEF FormsInv, PageOK, StaticIds
<1>9. ASSUME NEW id \in toggled
      PROVE  x[CHOOSE i \in Index(x, id) : TRUE] \in NewViewport
  <2>1. \E i \in 1..n : w[i].id = id
    BY <1>3 DEF Range
  <2>2. Index(x, id) # {} /\ Index(x, id) \subseteq 1..n
    BY <1>5, <1>6, <2>1 DEF Index
  <2> QED BY <1>5, <2>2
<1>10. LET changed == get_updated_viewports(page', toggled)
       IN  \A id \in DOMAIN changed : changed[id] \in NewViewport
  BY <1>7, <1>9 DEF get_updated_viewports
<1> QED BY <1>8, <1>10

(* A frame update.                                                         *)
Updated ==
    /\ frame # NoFrame
    /\ PageOK(page') /\ StaticIds(page') = StaticIds(page) /\ typed' = ""
    /\ \/ frame' = frame
       \/ \E f : Shown(frame', f, StaticIds(page')) /\ Replaced(f, frame, StaticIds(page))

(* An update leaves a frame with all forms of the page.                    *)
LEMMA UpdateFacts ==
    ASSUME FormsInv, NEW toggled \in SUBSET {v.id : v \in Range(page.viewports)},
           NEW contents \in page.contents, Update(toggled, contents)
    PROVE  Updated
<1> DEFINE ids == StaticIds(page)
           changed == get_updated_viewports(page', toggled)
           new == get_dynamic_ui_contents(contents)
<1>1. frame # NoFrame /\ Drawable(frame) /\ Focused(frame, ids) /\ PageOK(page) /\ typed' = ""
  BY DEF Update, FormsInv
<1>2. /\ PageOK(page') /\ StaticIds(page') = ids
      /\ \A x \in DOMAIN changed : changed[x] \in NewViewport
  BY PageUpdated
<1>3. new \in Seq(Fresh({"Text", "Print"}, ids))
  <2>1. contents \in Seq(NewForm)
    BY <1>1 DEF PageOK, Tables
  <2>2. \A form \in Range(contents) : form.id \notin ids
    BY <1>1 DEF PageOK, StaticIds
  <2> HIDE DEF ids
  <2> QED BY <2>1, <2>2, DynamicContents
<1>4. CASE frame' = frame
  BY <1>1, <1>2, <1>4 DEF Updated
<1>5. CASE frame' # frame
  <2>1. \E order \in Orders(DOMAIN frame.forms \ OldForms(frame)) :
            frame' = render(update_forms(frame, changed, new, order))
    BY <1>5 DEF Update
  <2> HIDE DEF changed, new, ids
  <2>2. PICK order \in Orders(DOMAIN frame.forms \ OldForms(frame)) :
            frame' = render(update_forms(frame, changed, new, order))
    BY <2>1
  <2> DEFINE f == update_forms(frame, changed, new, order)
  <2>3. Replaced(f, frame, ids)
    BY <1>1, <1>2, <1>3, UpdateKeeps
  <2> HIDE DEF f
  <2>4. Shown(render(f), f, ids)
    BY <2>3, RenderShows DEF Replaced
  <2>5. Shown(frame', f, StaticIds(page'))
    BY <1>2, <2>2, <2>4 DEF f
  <2> QED BY <1>1, <1>2, <2>3, <2>5 DEF Updated, ids
<1> QED BY <1>4, <1>5

(* Every step keeps the invariant.                                         *)
LEMMA FormsInvNext == FormsInv /\ [Next]_vars => FormsInv'
<1> SUFFICES ASSUME FormsInv, [Next]_vars PROVE FormsInv'
  OBVIOUS
<1>1. ASSUME NEW k \in Key, Press(k) PROVE FormsInv'
  <2>1. Pressed(k)
    BY <1>1, PressFacts
  <2> QED BY <2>1 DEF Pressed, FormsInv, Shown
<1>2. ASSUME NEW toggled \in SUBSET {v.id : v \in Range(page.viewports)},
             NEW contents \in page.contents, Update(toggled, contents)
      PROVE  FormsInv'
  <2>1. Updated
    BY <1>2, UpdateFacts
  <2>2. CASE frame' = frame
    BY <2>1, <2>2 DEF Updated, FormsInv
  <2>3. CASE frame' # frame
    <3>1. PICK f : Shown(frame', f, StaticIds(page'))
      BY <2>1, <2>3 DEF Updated
    <3> QED BY <2>1, <3>1 DEF Updated, FormsInv, Shown
  <2> QED BY <2>2, <2>3
<1>3. CASE UNCHANGED vars
  BY <1>3 DEF vars, FormsInv
<1> QED BY <1>1, <1>2, <1>3 DEF Next

(***************************************************************************)
(* In every frame there is, drawing finds what it needs, the focus is on a *)
(* form that can have it, and the focus order is that of the screen.       *)
(***************************************************************************)
THEOREM FrameIsGood == Spec => []FormsInv
BY FormsInvInit, FormsInvNext, PTL DEF Spec

(* OnScreen is the set the focus order is made of.                         *)
LEMMA OnScreenIsSeen == OnScreen = Seen(frame, frame.screen)
BY DEF OnScreen, Seen

(***************************************************************************)
(* Tab and BackTab lead only to forms with a cell on the screen.           *)
(***************************************************************************)
THEOREM FocusStaysOnScreen == Spec => []FocusOnScreen
<1>1. FormsInv => FocusOnScreen
  <2> SUFFICES ASSUME FormsInv, frame # NoFrame
               PROVE  /\ Range(frame.next) \cup ({frame.first} \ {None}) \subseteq OnScreen
                      /\ frame.first # None => Range(frame.prev) \subseteq OnScreen
    BY DEF FocusOnScreen
  <2> DEFINE seen == Seen(frame, frame.screen)
  <2>1. OrderOf(frame, seen)
    BY DEF FormsInv, InOrder
  <2>2. OnScreen = seen
    BY OnScreenIsSeen
  <2> HIDE DEF seen
  <2>3. CASE seen = {}
    BY <2>1, <2>3 DEF OrderOf, Range
  <2>4. CASE seen # {}
    BY <2>1, <2>2, <2>4 DEF OrderOf, Range
  <2> QED BY <2>3, <2>4
<1> QED BY <1>1, FrameIsGood, PTL

(***************************************************************************)
(* Tab goes round all the forms on the screen, and BackTab the other way,  *)
(* when no form's cells are interrupted by another's.                      *)
(***************************************************************************)
THEOREM TabVisitsAll == Spec => []TabGoesRound
<1>1. FormsInv => TabGoesRound
  <2> SUFFICES ASSUME FormsInv, frame # NoFrame,
                      Len(ElementIds(frame, frame.screen)) = Cardinality(OnScreen)
               PROVE  GoesRound(frame.next, frame.prev, OnScreen)
    BY DEF TabGoesRound, GoesRound
  <2> QED BY OnScreenIsSeen DEF FormsInv, InOrder
<1> QED BY <1>1, FrameIsGood, PTL

(***************************************************************************)
(* The form that has the focus is never a checkbox whose selector is       *)
(* outside its options, so handle_event does not index past them.          *)
(***************************************************************************)
THEOREM SelectorStaysInside == Spec => []SelectorInside
<1>1. FormsInv => SelectorInside
  <2> SUFFICES ASSUME FormsInv, frame # NoFrame, frame.focused # None,
                      frame.forms[frame.focused].kind = "Checkbox"
               PROVE  frame.forms[frame.focused].selector < Len(frame.forms[frame.focused].options)
    BY DEF SelectorInside
  <2>1. frame.focused \in Reachable(frame) /\ IsForms(frame.forms)
    BY DEF FormsInv, Focused, Drawable
  <2>2. /\ frame.focused \in DOMAIN frame.forms /\ frame.forms[frame.focused].options # <<>>
    BY <2>1 DEF Reachable, Idle
  <2> QED BY <2>1, <2>2 DEF IsForms, GoodForm
<1> QED BY <1>1, FrameIsGood, PTL

(***************************************************************************)
(* A form of the page changes only by a key pressed while it has the       *)
(* focus, and neither a redraw nor an update loses one.                    *)
(***************************************************************************)
THEOREM InputIsKept == Spec => InputKept
<1> DEFINE Keeps == frame # NoFrame =>
               \A el \in DOMAIN frame.forms \ frame.dynamic :
                  /\ el \in DOMAIN frame'.forms
                  /\ frame'.forms[el] # frame.forms[el] =>
                       nupdates' = nupdates /\ frame.focused = el /\ focus = "Root"
<1>1. FormsInv /\ [Next]_vars => [Keeps]_vars
  <2> SUFFICES ASSUME FormsInv, [Next]_vars, frame # NoFrame, vars' # vars PROVE Keeps
    BY DEF vars
  <2>1. ASSUME NEW k \in Key, Press(k) PROVE Keeps
    <3>1. Pressed(k)
      BY <2>1, PressFacts
    <3> DEFINE d == dispatch_keyboard_event(k)
    <3>2. /\ Keyed(d.frame, frame)
          /\ \A el \in DOMAIN frame.forms : d.frame.forms[el] # frame.forms[el] =>
                focus = "Root" /\ frame.focused = el
      BY <3>1, DispatchKeeps DEF Pressed
    <3>3. frame'.forms = d.frame.forms /\ nupdates' = nupdates
      BY <3>1 DEF Pressed, Shown
    <3> HIDE DEF d
    <3> QED BY <3>2, <3>3 DEF Keyed
  <2>2. ASSUME NEW toggled \in SUBSET {v.id : v \in Range(page.viewports)},
               NEW contents \in page.contents, Update(toggled, contents)
        PROVE  Keeps
    <3>1. Updated
      BY <2>2, UpdateFacts
    <3>2. CASE frame' = frame
      BY <3>2
    <3>3. CASE frame' # frame
      <4>1. PICK f : Shown(frame', f, StaticIds(page')) /\ Replaced(f, frame, StaticIds(page))
        BY <3>1, <3>3 DEF Updated
      <4> QED BY <4>1 DEF Shown, Replaced
    <3> QED BY <3>2, <3>3
  <2> QED BY <2>1, <2>2 DEF Next
<1>2. InputKept <=> [][Keeps]_vars
  BY DEF InputKept
<1> HIDE DEF Keeps
<1> QED BY <1>1, <1>2, FrameIsGood, PTL DEF Spec

(* What is typed into a line of plain characters that has room.            *)
LEMMA TypedText ==
    ASSUME NEW form, GoodForm(form), form.kind = "TextLine", NEW c \in Glyph,
           Bytes(form.text) = Len(form.text), Len(form.text) < form.max_len
    PROVE  LET now == TypeChar(form, c)
           IN  /\ now.cursor = form.cursor + 1
               /\ now.text = SubSeq(form.text, 1, form.cursor) \o <<c>> \o
                    SubSeq(form.text, IF form.insert THEN form.cursor + 1 ELSE form.cursor + 2,
                           Len(form.text))
<1> DEFINE t == form.text
           n == Len(form.text)
           p == form.cursor
           from == IF form.insert THEN p + 1 ELSE p + 2
           a == SubSeq(t, 1, p)
           b == SubSeq(t, from, n)
           one == <<c>>
           now == TypeChar(form, c)
           new == IF p = n THEN Append(t, c)
                  ELSE IF form.insert THEN InsertAt(t, p + 1, c)
                  ELSE ReplaceAt(t, p + 1, c)
<1>1. /\ form \in FormRecord /\ t \in Seq(Glyph) /\ p \in Nat /\ n \in Nat
      /\ form.max_len \in Nat /\ p <= n /\ form.insert \in BOOLEAN
  BY LenProperties DEF GoodForm, FormRecord
<1>2. now.cursor = p + 1 /\ now.text = new
  <2>1. ~(Bytes(t) >= form.max_len) /\ (p = Bytes(t) <=> p = n) /\ (p # n => ~(p >= n))
    BY <1>1
  <2>2. now = [form EXCEPT !.cursor = p + 1, !.text = new]
    BY <1>1, <2>1 DEF TypeChar
  <2> HIDE DEF now, new
  <2> QED BY <1>1, <2>2 DEF FormRecord
<1> HIDE DEF now, t, n, p
<1>3. /\ a \in Seq(Glyph) /\ Len(a) = p /\ \A i \in 1..p : a[i] = t[i]
  <2>1. 1 \in Nat \ {0} /\ p \in 0..Len(t)
    BY <1>1 DEF n, t
  <2>2. /\ a \in Seq(Glyph) /\ Len(a) = IF 1 <= p THEN p - 1 + 1 ELSE 0
        /\ \A i \in 1..(p - 1 + 1) : a[i] = t[1 + i - 1]
    BY <1>1, <2>1, SubSeqOf
  <2>3. p - 1 + 1 = p /\ (~(1 <= p) => p = 0) /\ \A i \in 1..p : 1 + i - 1 = i
    BY <1>1
  <2> HIDE DEF a
  <2> QED BY <2>2, <2>3
<1>4. /\ b \in Seq(Glyph) /\ Len(b) = IF from <= n THEN n - from + 1 ELSE 0
      /\ \A i \in 1..(n - from + 1) : b[i] = t[from + i - 1]
  <2>1. from \in Nat \ {0} /\ n \in 0..Len(t)
    BY <1>1 DEF n, t
  <2> HIDE DEF from
  <2> QED BY <1>1, <2>1, SubSeqOf
<1>5. one \in Seq(Glyph) /\ Len(one) = 1 /\ one[1] = c
  OBVIOUS
<1> DEFINE ao == a \o one
<1> HIDE DEF a, b, one, from
<1>6. /\ ao \in Seq(Glyph) /\ Len(ao) = p + 1 /\ ao[p + 1] = c /\ \A i \in 1..p : ao[i] = t[i]
  <2>1. /\ ao \in Seq(Glyph) /\ Len(ao) = Len(a) + Len(one)
        /\ \A i \in 1..(Len(a) + Len(one)) : ao[i] = IF i <= Len(a) THEN a[i] ELSE one[i - Len(a)]
    <3>1. a \in Seq(Glyph) /\ one \in Seq(Glyph)
      BY <1>3, <1>5
    <3> QED BY <3>1, ConcatProperties, Zenon
  <2>2. p + 1 \in 1..(p + 1) /\ ~(p + 1 <= p) /\ (p + 1) - p = 1 /\ \A i \in 1..p : i \in 1..(p + 1) /\ i <= p
    BY <1>1
  <2> HIDE DEF ao
  <2> QED BY <1>3, <1>5, <2>1, <2>2
<1> HIDE DEF ao
<1>7. new = ao \o b
  <2>1. CASE p = n
    <3>1. b = <<>>
      <4>1. Len(b) = 0
        BY <1>1, <1>4, <2>1 DEF from
      <4> QED BY <1>4, <4>1, EmptySeq
    <3>2. ao \o b = ao
      BY <1>6, <3>1, ConcatEmptySeq
    <3>3. /\ Append(t, c) \in Seq(Glyph) /\ Len(Append(t, c)) = n + 1
          /\ \A i \in 1..n : Append(t, c)[i] = t[i]
          /\ Append(t, c)[n + 1] = c
      BY <1>1, AppendProperties DEF n, t
    <3>4. \A i \in 1..(n + 1) : i \in 1..n \/ i = n + 1
      BY <1>1
    <3>5. \A i \in 1..(n + 1) : Append(t, c)[i] = ao[i]
      BY <1>6, <2>1, <3>3, <3>4
    <3>6. Append(t, c) = ao
      BY <1>6, <2>1, <3>3, <3>5, SeqEqual
    <3> QED BY <2>1, <3>2, <3>6
  <2>2. CASE p # n /\ form.insert
    <3>1. p \in 0..Len(t) /\ from = p + 1
      BY <1>1, <2>2 DEF n, t, from
    <3>2. InsertAt(t, p + 1, c) = SubSeq(t, 1, p) \o <<c>> \o SubSeq(t, p + 1, Len(t))
      BY <1>1, <3>1, InsertedText
    <3>3. ao \o b = SubSeq(t, 1, p) \o <<c>> \o SubSeq(t, p + 1, Len(t))
      BY <3>1, Zenon DEF ao, a, b, one, n, t
    <3> QED BY <2>2, <3>2, <3>3
  <2>3. CASE p # n /\ ~form.insert
    <3> DEFINE r == [t EXCEPT ![p + 1] = c]
    <3>1. new = r
      BY <2>3 DEF ReplaceAt
    <3>2. t \in [1..n -> Glyph]
      BY <1>1, LenProperties DEF n, t
    <3>3. r \in [1..n -> Glyph] /\ r[p + 1] = c /\ \A i \in 1..n : i # p + 1 => r[i] = t[i]
      BY <1>1, <2>3, <3>2
    <3> HIDE DEF r
    <3>4. r \in Seq(Glyph) /\ Len(r) = n
      BY <1>1, <3>3, FcnIsSeq
    <3>5. from = p + 2 /\ Len(b) = n - (p + 1) /\ p + 1 <= n
      BY <1>1, <1>4, <2>3 DEF from
    <3>6. /\ ao \o b \in Seq(Glyph) /\ Len(ao \o b) = Len(ao) + Len(b)
          /\ \A i \in 1..(Len(ao) + Len(b)) : (ao \o b)[i] = IF i <= Len(ao) THEN ao[i] ELSE b[i - Len(ao)]
      <4>1. ao \in Seq(Glyph) /\ b \in Seq(Glyph)
        BY <1>4, <1>6
      <4> QED BY <4>1, ConcatProperties, Zenon
    <3> DEFINE s == ao \o b
    <3>7. /\ s \in Seq(Glyph) /\ Len(s) = n
          /\ \A i \in 1..n : s[i] = IF i <= p + 1 THEN ao[i] ELSE b[i - (p + 1)]
      <4>1. Len(ao) + Len(b) = n
        BY <1>1, <1>6, <3>5
      <4> QED BY <1>6, <3>6, <4>1
    <3> HIDE DEF s
    <3>8. ASSUME NEW i \in 1..n PROVE r[i] = s[i]
      <4>1. CASE i <= p
        <5>1. i \in 1..p /\ i # p + 1 /\ i <= p + 1
          BY <1>1, <4>1
        <5> QED BY <1>6, <3>3, <3>7, <5>1
      <4>2. CASE i = p + 1
        <5>1. i <= p + 1
          BY <1>1, <4>2
        <5> QED BY <1>6, <3>3, <3>7, <4>2, <5>1
      <4>3. CASE i > p + 1
        <5> DEFINE j == i - (p + 1)
        <5>1. /\ j \in 1..(n - from + 1) /\ from + j - 1 = i
              /\ i # p + 1 /\ ~(i <= p + 1)
          BY <1>1, <3>5, <4>3
        <5>2. s[i] = b[j]
          BY <3>7, <5>1
        <5> HIDE DEF j
        <5>3. b[j] = t[i]
          BY <1>4, <5>1
        <5> QED BY <3>3, <5>1, <5>2, <5>3
      <4> QED BY <1>1, <4>1, <4>2, <4>3
    <3>9. r = s
      BY <3>4, <3>7, <3>8, SeqEqual
    <3> QED BY <3>1, <3>9 DEF s
  <2> QED BY <2>1, <2>2, <2>3
<1> HIDE DEF new
<1> QED BY <1>2, <1>7, Zenon DEF ao, a, b, one, from, n, t, p, now

(***************************************************************************)
(* A character typed into a text line of plain characters that has room    *)
(* appears at the cursor, and the others stay where they belong.           *)
(***************************************************************************)
THEOREM TypingAppears == Spec => TypedAppears
<1> DEFINE Appears == (frame # NoFrame /\ focus = "Root" /\ typed' # "" /\ nkeys' # nkeys) =>
          \A el \in {frame.focused} \cap DOMAIN frame.forms :
            LET form == frame.forms[el]
                now == frame'.forms[el]
            IN  (form.kind = "TextLine" /\ Bytes(form.text) = Len(form.text)
                 /\ Len(form.text) < form.max_len) =>
                  /\ now.cursor = form.cursor + 1
                  /\ now.text = SubSeq(form.text, 1, form.cursor) \o <<typed'>> \o
                       SubSeq(form.text, IF form.insert THEN form.cursor + 1 ELSE form.cursor + 2,
                              Len(form.text))
<1>1. FormsInv /\ [Next]_vars => [Appears]_vars
  <2> SUFFICES ASSUME FormsInv, [Next]_vars, vars' # vars,
                      frame # NoFrame, focus = "Root", typed' # "",
                      NEW el \in {frame.focused} \cap DOMAIN frame.forms,
                      frame.forms[el].kind = "TextLine",
                      Bytes(frame.forms[el].text) = Len(frame.forms[el].text),
                      Len(frame.forms[el].text) < frame.forms[el].max_len
               PROVE  LET form == frame.forms[el]
                          now == frame'.forms[el]
                      IN  /\ now.cursor = form.cursor + 1
                          /\ now.text = SubSeq(form.text, 1, form.cursor) \o <<typed'>> \o
                               SubSeq(form.text,
                                      IF form.insert THEN form.cursor + 1 ELSE form.cursor + 2,
                                      Len(form.text))
    BY Zenon DEF vars
  <2>1. PICK k \in Key : Press(k)
    <3>1. ASSUME NEW toggled \in SUBSET {v.id : v \in Range(page.viewports)},
                 NEW contents \in page.contents, Update(toggled, contents)
          PROVE  FALSE
      BY <3>1 DEF Update
    <3> QED BY <3>1 DEF Next
  <2>2. Pressed(k)
    BY <2>1, PressFacts
  <2>3. k.key = "Char" /\ k.chr \in Glyph /\ typed' = k.chr
    BY <2>2, KeyFacts DEF Pressed
  <2> DEFINE d == dispatch_keyboard_event(k)
             form == frame.forms[el]
  <2>4. d.frame = handle_event(frame, k) /\ frame'.forms = d.frame.forms
    BY <2>2, <2>3, DispatchKeeps DEF Pressed, Shown
  <2>5. Drawable(frame) /\ Shape(frame) /\ IsForms(frame.forms) /\ GoodForm(form)
    BY DEF FormsInv, Drawable, IsForms
  <2>6. FormEvent(form, k).form = TypeChar(form, k.chr)
    BY <2>3 DEF FormEvent, TextLine_handle_event
  <2>7. frame'.forms[el] = TypeChar(form, typed')
    <3> DEFINE e == FormEvent(form, k)
               cursor == IF focusable(e.form) THEN set_form_cursor(frame, e.form) ELSE frame.cursor
               events == IF e.event THEN Append(frame.events, el) ELSE frame.events
               g == handle_event(frame, k)
    <3>1. g = [frame EXCEPT !.forms[el] = e.form, !.cursor = cursor, !.events = events]
      BY <2>5 DEF handle_event, Shape
    <3> HIDE DEF e, cursor, events, g
    <3>2. g.forms = [frame.forms EXCEPT ![el] = e.form]
      BY <2>5, <3>1 DEF Shape
    <3>3. g.forms[el] = e.form
      BY <3>2
    <3> QED BY <2>3, <2>4, <2>6, <3>3 DEF g, e
  <2>8. typed' \in Glyph
    BY <2>3
  <2> HIDE DEF form
  <2>9. LET now == TypeChar(form, typed')
        IN  /\ now.cursor = form.cursor + 1
            /\ now.text = SubSeq(form.text, 1, form.cursor) \o <<typed'>> \o
                 SubSeq(form.text, IF form.insert THEN form.cursor + 1 ELSE form.cursor + 2,
                        Len(form.text))
    BY <2>5, <2>8, TypedText, Zenon DEF form
  <2> QED BY <2>7, <2>9, Zenon DEF form
<1>2. TypedAppears <=> [][Appears]_vars
  BY DEF TypedAppears
<1> HIDE DEF Appears
<1> QED BY <1>1, <1>2, FrameIsGood, PTL DEF Spec

==============================================================================

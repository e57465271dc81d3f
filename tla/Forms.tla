------------------------------- MODULE Forms -------------------------------
(***************************************************************************)
(* The frame the viewer shows (ui/root.rs, ui/viewport.rs, ui/charbuff.rs) *)
(* and its forms (ui/forms): how a page's UI tables become a Root          *)
(* (ui/render.rs), how forms are drawn into viewports and viewports onto   *)
(* the screen, how focus moves, what a key does, and what a frame update   *)
(* replaces.  One step is one turn of the viewer's loop (viewer/mod.rs):   *)
(* a key is dispatched, the forms redrawn and the frame rendered; an       *)
(* update changes the forms and the frame is rendered.                     *)
(*                                                                         *)
(* Texts are short sequences of characters, colours are left out, and the  *)
(* decorations of a form are cut to the characters that change.  The text  *)
(* area is module TextArea.                                                *)
(***************************************************************************)
EXTENDS Naturals, SequencesExt

CONSTANTS Page,       \* the UI tables of the pages the viewer may show
          Rows, Cols, \* size of the root pane
          Char,       \* characters the user types
          Wide,       \* those that take two bytes
          Handle,     \* handles of the large strings the store holds
          U64,        \* one more than the largest row or column
          CHECKBOX_MAX_LEN,
          MaxKeys,    \* bound: keys pressed
          MaxUpdates  \* bound: frame updates

(* What a cell can show: any string, and these by name.                    *)
Glyph == STRING \cup {" ", "<", "[", "*", "o", "g", "q"}

ASSUME FormsAssumption ==
    /\ Rows \in Nat \ {0} /\ Cols \in Nat \ {0}
    /\ U64 \in Nat /\ U64 > Rows /\ U64 > Cols
    /\ Char \subseteq Glyph /\ Wide \subseteq Char /\ " " \notin Char
    /\ MaxKeys \in Nat /\ MaxUpdates \in Nat

(* What a page's tables hold: forms nobody has used, and viewports nothing *)
(* is drawn in.  A form record has the fields of every kind.               *)
NewForm == [id : Nat \ {0}, kind : STRING, vp : Nat, row : Nat, col : Nat, text : Seq(Glyph),
            handle : Nat, flow : BOOLEAN, newline : BOOLEAN, options : Seq(BOOLEAN),
            selector : {0}, cursor : {0}, insert : BOOLEAN, max_len : Nat]

NewViewport == [id : Nat \ {0}, parent : Nat, row : Nat, col : Nat, rows : Nat,
                cols : Nat \ {0}, visible : BOOLEAN, buff : {<<>>}]

Tables == [viewports : Seq(NewViewport), static : Seq(NewForm), dynamic : Seq(NewForm),
           contents : SUBSET Seq(NewForm)]

(* The elements of the page and those added later count up from different  *)
(* numbers.  A new viewport has an ID of its own and a parent that exists; *)
(* the tables list the newest first.                                       *)
ASSUME PageAssumption ==
    /\ Page \subseteq Tables
    /\ \A p \in Page :
         /\ \A form \in Range(p.static), new \in {p.dynamic} \cup p.contents :
               \A other \in Range(new) : form.id # other.id
         /\ \A form \in Range(p.static) :
               form.kind = "Checkbox" => Len(form.options) = Len(form.text)
         /\ \A i, j \in DOMAIN p.viewports : p.viewports[i].id = p.viewports[j].id => i = j
         /\ \A i \in DOMAIN p.viewports : p.viewports[i].parent # 0 =>
               \E j \in DOMAIN p.viewports : j > i /\ p.viewports[j].id = p.viewports[i].parent

VARIABLES page,    \* the tables of the page that is shown
          frame,   \* the viewer's last_frame, None before the first
          focus,   \* the viewer's focus: "NoFocus", "Status" or "Root"
          over,    \* the page's thread has failed
          sent,    \* events sent to the page
          typed,   \* history: the character the step typed, or ""
          nkeys, nupdates

vars == <<page, frame, focus, over, sent, typed, nkeys, nupdates>>

(* A fold from the left, as a recursive function that can be reasoned      *)
(* about.  The accumulator is a value before it is used again.             *)
Fold(op(_, _), base, seq) ==
    LET walk[k \in 0..Len(seq)] ==
            IF k = 0 THEN base ELSE CHOOSE r \in {op(a, seq[k]) : a \in {walk[k - 1]}} : TRUE
    IN  walk[Len(seq)]

(* The elements of seq that are in S, in their order.                      *)
KeepIn(seq, S) == Fold(LAMBDA acc, x : IF x \in S THEN Append(acc, x) ELSE acc, <<>>, seq)

SatSub(a, b) == IF a > b THEN a - b ELSE 0
Least(a, b) == IF a < b THEN a ELSE b

None == 0   \* no element, no viewport: IDs start at 1
NoFrame == [forms |-> <<>>]

KeyOf(k) == [key |-> k, chr |-> ""]
Typed(c) == [key |-> "Char", chr |-> c]
Key == {KeyOf(k) : k \in {"Tab", "BackTab", "Esc", "Enter", "Space", "Up", "Down", "Left", "Right",
                          "Backspace", "Delete", "Insert", "Home", "End", "g", "q"}}
       \cup {Typed(c) : c \in Char}

-----------------------------------------------------------------------------
(* The scene graph.  ids holds the viewports in the order of creation, in  *)
(* which wrb.clar lets a parent come before its children.                  *)

(* wrb-get-viewports walks from the newest; get_viewports turns it round.  *)
get_viewports(p) == Reverse(p.viewports)

(* SceneGraph::new: offset and depth of each viewport.                     *)
SceneGraph(vps) ==
    LET at[i \in DOMAIN vps] ==
            IF vps[i].parent = None THEN [row |-> vps[i].row, col |-> vps[i].col, depth |-> 0]
            ELSE LET up == at[CHOOSE j \in DOMAIN vps : vps[j].id = vps[i].parent]
                 IN  [row |-> vps[i].row + up.row, col |-> vps[i].col + up.col,
                      depth |-> up.depth + 1]
    IN  at

Index(vps, id) == {i \in DOMAIN vps : vps[i].id = id}

Covers(at, v, r, c) == /\ at.row <= r /\ r < at.row + v.rows
                       /\ at.col <= c /\ c < at.col + v.cols

(* The deepest and then the newest visible viewport, by its index.         *)
viewport_at(f, r, c) ==
    LET here == {i \in DOMAIN f.vps : f.vps[i].visible /\ Covers(f.at[i], f.vps[i], r, c)}
        top == {i \in here : \A j \in here : f.at[j].depth < f.at[i].depth
                                             \/ (f.at[j].depth = f.at[i].depth /\ j <= i)}
    IN  IF top = {} THEN None ELSE CHOOSE i \in top : TRUE

Pixels == (0..(Rows - 1)) \X (0..(Cols - 1))

make_zbuff(f) == [px \in Pixels |-> viewport_at(f, px[1], px[2])]

-----------------------------------------------------------------------------
(* Drawing into a viewport's character buffer.                             *)

Blank == <<None, " ">>

(* print_at_iter: pads up to the offset, then overwrites or appends.       *)
print_at(v, el, row, col, text) ==
    LET off == v.cols * row + col
        end == off + Len(text)
        padded == v.buff \o [i \in 1..SatSub(off, Len(v.buff)) |-> Blank]
    IN  [v |-> [v EXCEPT !.buff = SubSeq(padded, 1, off) \o [i \in DOMAIN text |-> <<el, text[i]>>]
                                  \o SubSeq(padded, end + 1, Len(padded))],
         cursor |-> <<end \div v.cols, end % v.cols>>]

(* inner_print: word by word (a word "\n" is a newline), wrapping a word   *)
(* that would reach the last column.                                       *)
PrintWord(cols, el, acc, w) ==
    IF w = "\n" THEN [acc EXCEPT !.row = @ + 1, !.idx = 0]
    ELSE LET wrap == acc.idx + 1 >= cols
             r == IF wrap THEN acc.row + 1 ELSE acc.row
             d == print_at(acc.v, el, r, IF wrap THEN 0 ELSE acc.idx, <<w>>)
         IN  [v |-> d.v, cursor |-> d.cursor,
              row |-> r + (1 \div cols),
              idx |-> IF wrap THEN 1 % cols ELSE acc.idx + 1]

inner_print(v, el, row, col, words, newline) ==
    LET end == Fold(LAMBDA acc, w : PrintWord(v.cols, el, acc, w),
                    [v |-> v, row |-> row, idx |-> col, cursor |-> <<row, col>>], words)
    IN  [v |-> end.v, cursor |-> IF newline THEN <<end.cursor[1] + 1, 0>> ELSE end.cursor]

-----------------------------------------------------------------------------
(* The forms.                                                              *)

FormTypes == {"Text", "Print", "Button", "Checkbox", "TextLine"}

focusable(form) == form.kind \in {"Button", "Checkbox", "TextLine"}

Bytes(text) == Len(text) + Cardinality({i \in DOMAIN text : text[i] \in Wide})

(* Where a focused form puts the cursor: one in from a button's or a box's *)
(* left edge, on the selected option, or after cursor characters.          *)
FormCursor(form) ==
    CASE form.kind = "Button" -> <<form.row, form.col + 1>>
      [] form.kind = "Checkbox" -> <<form.row + form.selector, form.col + 1>>
      [] OTHER -> <<form.row, form.col + form.cursor>>

set_form_cursor(f, form) ==
    IF Index(f.vps, form.vp) = {} THEN <<>>
    ELSE LET at == f.at[CHOOSE i \in Index(f.vps, form.vp) : TRUE]
         IN  <<at.row + FormCursor(form)[1], at.col + FormCursor(form)[2]>>

(* Variant with a bug: the line is not padded to its width.                *)
padded_text_Bare(v, form) == form.text

(* format!("{:width$}"): the text, filled up with spaces.                  *)
padded_text(v, form) ==
    LET width == Least(SatSub(v.cols, form.col), form.max_len)
    IN  form.text \o [i \in 1..SatSub(width, Len(form.text)) |-> " "]

RawText_render(v, el, form) == print_at(v, el, form.row, form.col, form.text)

(* A print without a place of its own goes where the last form ended.      *)
PrintText_render(v, el, form, cursor) ==
    LET at == IF form.flow THEN cursor ELSE <<form.row, form.col>>
    IN  inner_print(v, el, at[1], at[2], form.text, form.newline)

Button_render(v, el, form, focused) ==
    print_at(v, el, form.row, form.col, <<IF focused THEN "<" ELSE "[">> \o form.text)

(* A row for each option; without options nothing is drawn.                *)
PrintOption(el, form, acc, i) ==
    print_at(acc.v, el, form.row + i - 1, form.col,
             <<IF form.options[i] THEN "*" ELSE "o", form.text[i]>>)

Checkbox_render(v, el, form, cursor) ==
    Fold(LAMBDA acc, i : PrintOption(el, form, acc, i),
         [v |-> v, cursor |-> cursor], [i \in DOMAIN form.options |-> i])

TextLine_render(v, el, form) == print_at(v, el, form.row, form.col, padded_text(v, form))

(* WrbForm::render: what el draws, starting from the viewport's cursor.    *)
DrawForm(v, el, form, focused, cursor) ==
    CASE form.kind = "Text" -> RawText_render(v, el, form)
      [] form.kind = "Print" -> PrintText_render(v, el, form, cursor)
      [] form.kind = "Button" -> Button_render(v, el, form, focused)
      [] form.kind = "Checkbox" -> Checkbox_render(v, el, form, cursor)
      [] form.kind = "TextLine" -> TextLine_render(v, el, form)

(* The forms of f.forms drawn in the given order, each viewport's cursor   *)
(* passed from a form to the next one in it.  Forms of viewports whose     *)
(* visibility is not in which are passed over.                             *)
DrawNext(f, which, acc, el) ==
    LET form == f.forms[el]
        is == Index(f.vps, form.vp)
        i == CHOOSE x \in is : TRUE
        v == acc.f.vps[i]
        d == DrawForm(v, el, form, f.focused = el,
                      IF form.vp \in DOMAIN acc.flow THEN acc.flow[form.vp] ELSE <<0, 0>>)
    IN  IF is = {} \/ v.visible \notin which THEN acc
        ELSE [f |-> [acc.f EXCEPT !.vps[i] = d.v,
                                  !.cursor = IF f.focused = el THEN set_form_cursor(f, form) ELSE @],
              flow |-> [x \in DOMAIN acc.flow \cup {form.vp} |->
                           IF x = form.vp THEN d.cursor ELSE acc.flow[x]]]

DrawAll(f, flow, ids, which) ==
    Fold(LAMBDA acc, el : DrawNext(f, which, acc, el), [f |-> f, flow |-> flow], ids)

NoFlow == [x \in {} |-> <<0, 0>>]
AnyViewport == BOOLEAN
VisibleOnly == {TRUE}

(* The orders in which a HashMap may be walked.                            *)
Orders(S) == {s \in [1..Cardinality(S) -> S] : IsInjective(s)}

-----------------------------------------------------------------------------
(* Rendering a frame.                                                      *)

(* Where the viewport at has the pixel, if it covers it.                   *)
translate_coordinate(at, v, px) ==
    IF Covers(at, v, px[1], px[2]) THEN <<px[1] - at.row, px[2] - at.col>> ELSE <<>>

(* What the viewport holds there; nothing below its last row.              *)
charcell_at(v, rel) ==
    LET i == v.cols * rel[1] + rel[2] + 1
    IN  IF rel[1] < v.rows /\ i <= Len(v.buff) THEN v.buff[i] ELSE Blank

(* make_charbuff, with the z-buffer z: the screen, pixel by pixel.         *)
charbuff(f, z) ==
    [px \in Pixels |->
        LET rel == translate_coordinate(f.at[z[px]], f.vps[z[px]], px)
        IN  IF z[px] = None \/ rel = <<>> THEN Blank ELSE charcell_at(f.vps[z[px]], rel)]

element_at(cb, r, c) == cb[<<r, c>>][1]

Focusable(f) == {el \in DOMAIN f.forms : focusable(f.forms[el])}

(* The focusable forms met reading the screen, each run of cells once.     *)
ElementIds(f, cb) ==
    LET cells == [i \in 1..(Rows * Cols) |-> element_at(cb, (i - 1) \div Cols, (i - 1) % Cols)]
        met == {i \in DOMAIN cells : cells[i] \in DOMAIN f.forms /\ focusable(f.forms[cells[i]])}
        new == {i \in met : LET before == {j \in met : j < i}
                            IN  before = {} \/ cells[Max(before)] # cells[i]}
    IN  [k \in 1..Cardinality(new) |->
            cells[CHOOSE i \in new : Cardinality({j \in new : j <= i}) = k]]

(* The last of the pairs inserted under a key is the one that stays.       *)
Pairs(ids, from, to) ==
    [el \in Range(ids) |->
        to[CHOOSE k \in DOMAIN from : from[k] = el /\ \A j \in DOMAIN from : from[j] = el => j <= k]]

(* Variant with a bug: an empty screen leaves the order of the last one.   *)
make_focus_order_Keeps(f, cb) ==
    LET ids == ElementIds(f, cb)
        turned == Tail(ids) \o <<ids[1]>>
    IN  IF ids = <<>> THEN [f EXCEPT !.first = None]
        ELSE [f EXCEPT !.next = Pairs(ids, ids, turned), !.prev = Pairs(ids, turned, ids),
                       !.first = ids[1]]

(* Variant with a bug: the last form does not lead back to the first.      *)
make_focus_order_NoWrap(f, cb) ==
    LET ids == ElementIds(f, cb)
    IN  IF ids = <<>> THEN [f EXCEPT !.next = <<>>, !.first = None]
        ELSE [f EXCEPT !.next = Pairs(ids, ids, Tail(ids) \o <<Last(ids)>>),
                       !.prev = Pairs(ids, Tail(ids) \o <<ids[1]>>, ids), !.first = ids[1]]

(* Variant with a bug: every form is in the order, drawn or not.           *)
make_focus_order_Undrawn(f, cb) ==
    LET ids == SetToSeq(Focusable(f))
        turned == Tail(ids) \o <<ids[1]>>
    IN  IF ids = <<>> THEN [f EXCEPT !.next = <<>>, !.first = None]
        ELSE [f EXCEPT !.next = Pairs(ids, ids, turned), !.prev = Pairs(ids, turned, ids),
                       !.first = ids[1]]

(* make_focus_order; with nothing to focus it leaves the reverse order.    *)
make_focus_order(f, cb) ==
    LET ids == ElementIds(f, cb)
        turned == Tail(ids) \o <<ids[1]>>
    IN  IF ids = <<>> THEN [f EXCEPT !.next = <<>>, !.first = None]
        ELSE [f EXCEPT !.next = Pairs(ids, ids, turned), !.prev = Pairs(ids, turned, ids),
                       !.first = ids[1]]

(* Root::render: the z-buffer is made once and then kept.                  *)
render(f) ==
    LET z == IF f.zbuff = {} THEN make_zbuff(f) ELSE CHOOSE x \in f.zbuff : TRUE
        cb == charbuff(f, z)
    IN  make_focus_order([f EXCEPT !.zbuff = {z}, !.screen = cb], cb)

-----------------------------------------------------------------------------
(* Making a frame from the page's tables.                                  *)

(* The from_clarity_value of each form and of a viewport: whether it gives *)
(* one.  Rows, columns and lengths must fit their integers (a viewport's   *)
(* panic otherwise), and a text must be found.                             *)
Fits(form) == form.row < U64 /\ form.col < U64

(* A text's large string is loaded into the cache if it is stored at all.  *)
load_and_cache_large_string(form) == form.handle \in Handle

RawText_from_clarity_value(form) == load_and_cache_large_string(form) /\ Fits(form)

PrintText_from_clarity_value(form) ==
    load_and_cache_large_string(form) /\ (form.flow \/ Fits(form))

Button_from_clarity_value(form) == Fits(form)

Checkbox_from_clarity_value(form) == Fits(form) /\ Len(form.options) <= CHECKBOX_MAX_LEN

TextLine_from_clarity_value(form) == Fits(form) /\ form.max_len < U64

Viewport_from_clarity_value(v) == Fits(v) /\ v.rows < U64 /\ v.cols < U64

from_clarity_value(form) ==
    CASE form.kind = "Text" -> RawText_from_clarity_value(form)
      [] form.kind = "Print" -> PrintText_from_clarity_value(form)
      [] form.kind = "Button" -> Button_from_clarity_value(form)
      [] form.kind = "Checkbox" -> Checkbox_from_clarity_value(form)
      [] form.kind = "TextLine" -> TextLine_from_clarity_value(form)

(* Elements of a type the viewer does not know are passed over.            *)
OfKinds(forms, kinds) == KeepIn(forms, {form \in Range(forms) : form.kind \in kinds})

get_static_ui_contents(p) == OfKinds(p.static, FormTypes)

(* The dynamic texts come before the dynamic prints.                       *)
get_dynamic_ui_contents(contents) ==
    OfKinds(contents, {"Text"}) \o OfKinds(contents, {"Print"})

(* wrb-take-viewport-updates, and the settings those viewports now have.   *)
get_updated_viewports(p, taken) ==
    [id \in taken |-> p.viewports[CHOOSE i \in Index(p.viewports, id) : TRUE]]

NewRoot(p) ==
    LET vps == get_viewports(p)
    IN  [vps |-> vps, at |-> SceneGraph(vps), zbuff |-> {}, screen |-> <<>>,
         forms |-> <<>>, dynamic |-> {}, focused |-> None, next |-> <<>>, prev |-> <<>>,
         first |-> None, cursor |-> <<>>, events |-> <<>>]

ById(forms) == [el \in {form.id : form \in Range(forms)} |->
                    CHOOSE form \in Range(forms) : form.id = el]

(* make_root fails when a viewport or a form is malformed, or a form names *)
(* no viewport.                                                            *)
MakeRootFails(p) ==
    \/ \E v \in Range(p.viewports) : ~Viewport_from_clarity_value(v)
    \/ \E form \in Range(get_static_ui_contents(p) \o get_dynamic_ui_contents(p.dynamic)) :
          ~from_clarity_value(form) \/ Index(p.viewports, form.vp) = {}

(* set_all_forms draws the static forms and then the dynamic ones, in the  *)
(* page's order.                                                           *)
set_all_forms(f, static, dynamic) ==
    LET all == static \o dynamic
        g == [f EXCEPT !.forms = ById(all), !.dynamic = {form.id : form \in Range(dynamic)}]
    IN  DrawAll(g, NoFlow, [i \in DOMAIN all |-> all[i].id], AnyViewport).f

make_root(p) ==
    set_all_forms(NewRoot(p), get_static_ui_contents(p), get_dynamic_ui_contents(p.dynamic))

Init ==
    /\ page \in Page
    /\ over = MakeRootFails(page)
    /\ frame = IF over THEN NoFrame ELSE render(make_root(page))
    /\ focus = "NoFocus"
    /\ sent = <<>> /\ typed = ""
    /\ nkeys = 0 /\ nupdates = 0

-----------------------------------------------------------------------------
(* Focus.                                                                  *)

At(order, el) == IF el \in DOMAIN order THEN order[el] ELSE None

(* inner_next_focus: the form that gains focus moves the cursor.           *)
inner_next_focus(f, reverse) ==
    LET to == IF f.focused = None THEN f.first
              ELSE At(IF reverse THEN f.prev ELSE f.next, f.focused)
    IN  [f EXCEPT !.focused = to,
                  !.cursor = IF to \in DOMAIN f.forms THEN set_form_cursor(f, f.forms[to]) ELSE @]

clear_focus(f) == [f EXCEPT !.focused = None]

-----------------------------------------------------------------------------
(* Keys.                                                                   *)

Button_handle_event(form, k) == [form |-> form, event |-> k.key = "Enter"]

Checkbox_handle_event(form, k) ==
    [event |-> FALSE,
     form |-> CASE k.key = "Up" -> [form EXCEPT !.selector = SatSub(@, 1)]
                [] k.key = "Down" -> [form EXCEPT !.selector =
                                         Least(@ + 1, SatSub(Len(form.options), 1))]
                [] k.key \in {"Enter", "Space"} -> [form EXCEPT !.options[form.selector + 1] = ~@]
                [] OTHER -> form]

(* Variant with a bug: inserts after the cursor's character.               *)
TypeChar_After(form, c) ==
    IF Bytes(form.text) >= form.max_len THEN form
    ELSE [form EXCEPT !.cursor = @ + 1,
             !.text = IF form.cursor = Bytes(@) \/ form.cursor + 1 > Len(@) THEN Append(@, c)
                      ELSE InsertAt(@, form.cursor + 2, c)]

(* Key::Char of a text line: lengths and the cursor's limit are in bytes,  *)
(* the position that is written to counts characters.                      *)
TypeChar(form, c) ==
    IF Bytes(form.text) >= form.max_len THEN form
    ELSE [form EXCEPT !.cursor = @ + 1,
             !.text = IF form.cursor = Bytes(@) THEN Append(@, c)
                      ELSE IF form.cursor >= Len(@) THEN @
                      ELSE IF form.insert THEN InsertAt(@, form.cursor + 1, c)
                      ELSE ReplaceAt(@, form.cursor + 1, c)]

Without(text, i) == IF i \in DOMAIN text THEN RemoveAt(text, i) ELSE text

TextLine_handle_event(form, k) ==
    [event |-> FALSE,
     form |->
       CASE k.key = "Left" -> [form EXCEPT !.cursor = SatSub(@, 1)]
         [] k.key = "Right" -> [form EXCEPT !.cursor =
                                   Least(@ + 1, Least(Bytes(form.text), form.max_len))]
         [] k.key = "Backspace" /\ form.cursor > 0 ->
              [form EXCEPT !.text = Without(@, form.cursor), !.cursor = @ - 1]
         [] k.key = "Delete" /\ form.cursor < Bytes(form.text) ->
              [form EXCEPT !.text = Without(@, form.cursor + 1)]
         [] k.key = "Insert" -> [form EXCEPT !.insert = ~@]
         [] k.key = "Home" -> [form EXCEPT !.cursor = 0]
         [] k.key = "End" -> [form EXCEPT !.cursor = Bytes(form.text)]
         [] k.key = "Char" -> TypeChar(form, k.chr)
         [] k.key = "Space" -> TypeChar(form, " ")
         [] k.key \in {"g", "q"} -> TypeChar(form, k.key)
         [] OTHER -> form]

FormEvent(form, k) ==
    CASE form.kind = "Button" -> Button_handle_event(form, k)
      [] form.kind = "Checkbox" -> Checkbox_handle_event(form, k)
      [] form.kind = "TextLine" -> TextLine_handle_event(form, k)
      [] OTHER -> [form |-> form, event |-> FALSE]

(* Root::handle_event: only the focused form sees the key.                 *)
handle_event(f, k) ==
    IF f.focused \notin DOMAIN f.forms THEN f
    ELSE LET e == FormEvent(f.forms[f.focused], k)
         IN  [f EXCEPT !.forms[f.focused] = e.form,
                       !.cursor = IF focusable(e.form) THEN set_form_cursor(f, e.form) ELSE @,
                       !.events = IF e.event THEN Append(@, f.focused) ELSE @]

(* dispatch_keyboard_event of the viewer, when there is a frame.           *)
dispatch_keyboard_event(k) ==
    CASE k.key = "Tab" -> [focus |-> "Root", frame |-> inner_next_focus(frame, FALSE)]
      [] k.key = "BackTab" -> [focus |-> "Root", frame |-> inner_next_focus(frame, TRUE)]
      [] k.key = "Esc" /\ focus = "Status" -> [focus |-> "NoFocus", frame |-> frame]
      [] k.key = "Esc" /\ focus = "Root" -> [focus |-> "NoFocus", frame |-> clear_focus(frame)]
      [] k.key = "g" /\ focus = "NoFocus" -> [focus |-> "Status", frame |-> frame]
      [] k.key = "Enter" /\ focus = "NoFocus" -> [focus |-> "Root", frame |-> frame]
      [] k.key \notin {"Tab", "BackTab", "Esc"} /\ focus = "Root" ->
            [focus |-> focus, frame |-> handle_event(frame, k)]
      [] OTHER -> [focus |-> focus, frame |-> frame]

(* A turn of the viewer's loop with a key: the forms are redrawn in any    *)
(* order, over what the viewports hold, and the forms' events go out.      *)
(* "q" without focus ends the viewer (module Viewer).                      *)
Press(k) ==
    /\ frame # NoFrame
    /\ nkeys < MaxKeys /\ nkeys' = nkeys + 1
    /\ ~(k.key = "q" /\ focus = "NoFocus")
    /\ LET d == dispatch_keyboard_event(k)
       IN  /\ focus' = d.focus
           /\ \E drawn \in {DrawAll(d.frame, NoFlow, order, AnyViewport).f :
                              order \in Orders(DOMAIN d.frame.forms)} :
                   frame' = [render(drawn) EXCEPT !.events = <<>>]
           /\ sent' = sent \o d.frame.events
    /\ typed' = k.chr
    /\ UNCHANGED <<page, over, nupdates>>

-----------------------------------------------------------------------------
(* Frame updates.                                                          *)

(* Variant with a bug: the forms of the page are replaced as well.         *)
OldForms_All(f) == DOMAIN f.forms

(* The forms an update removes: the dynamic ones of the last.              *)
OldForms(f) == f.dynamic

(* A changed viewport takes the page's settings and an empty buffer.       *)
merge_update(v, vp) ==
    [v EXCEPT !.row = vp.row, !.col = vp.col, !.rows = vp.rows, !.cols = vp.cols,
              !.visible = vp.visible, !.buff = <<>>]

(* update_forms: the changed viewports are merged, the viewports of all    *)
(* forms are cleared, and the forms of visible viewports drawn again: the  *)
(* old ones in any order, then the new ones.  The z-buffer stays.          *)
update_forms(f, changed, contents, order) ==
    LET kept == DOMAIN f.forms \ OldForms(f)
        dirty == {f.forms[el].vp : el \in kept} \cup {form.vp : form \in Range(contents)}
        vps == [i \in DOMAIN f.vps |->
                   LET v == f.vps[i]
                   IN  IF v.id \in DOMAIN changed THEN merge_update(v, changed[v.id])
                       ELSE IF v.id \in dirty THEN [v EXCEPT !.buff = <<>>] ELSE v]
        cleared == [f EXCEPT !.vps = vps, !.forms = [el \in kept |-> f.forms[el]], !.dynamic = {}]
        old == DrawAll(cleared, NoFlow, order, VisibleOnly)
        shown == KeepIn(contents, {form \in Range(contents) :
                                      \E i \in Index(vps, form.vp) : vps[i].visible})
        added == [old.f EXCEPT !.forms = [el \in kept \cup DOMAIN ById(shown) |->
                                             IF el \in DOMAIN ById(shown) THEN ById(shown)[el]
                                             ELSE f.forms[el]],
                               !.dynamic = DOMAIN ById(shown)]
        new == DrawAll(added, old.flow, [i \in DOMAIN shown |-> shown[i].id], VisibleOnly).f
    IN  [new EXCEPT !.focused = IF @ \in DOMAIN new.forms THEN @ ELSE None]

(* The page changes its tables (wrb-viewport-set-visible and the dynamic   *)
(* text), and make_root_update sends what changed; a malformed element     *)
(* ends the page's thread.                                                 *)
Update(toggled, contents) ==
    /\ frame # NoFrame /\ ~over
    /\ nupdates < MaxUpdates /\ nupdates' = nupdates + 1
    /\ page' = [page EXCEPT !.viewports = [i \in DOMAIN page.viewports |->
                   LET v == page.viewports[i]
                   IN  [v EXCEPT !.visible = (v.visible # (v.id \in toggled))]]]
    /\ IF \E form \in Range(contents) : ~from_clarity_value(form)
       THEN over' = TRUE /\ frame' = frame
       ELSE /\ over' = over
            /\ LET changed == get_updated_viewports(page', toggled)
                   new == get_dynamic_ui_contents(contents)
               IN  \E f \in {update_forms(frame, changed, new, order) :
                              order \in Orders(DOMAIN frame.forms \ OldForms(frame))} :
                     frame' = render(f)
    /\ typed' = ""
    /\ UNCHANGED <<focus, sent, nkeys>>

Next ==
    \/ \E k \in Key : Press(k)
    \/ \E toggled \in SUBSET {v.id : v \in Range(page.viewports)} :
         \E contents \in page.contents : Update(toggled, contents)

Spec == Init /\ [][Next]_vars

-----------------------------------------------------------------------------
OnScreen == {frame.screen[px][1] : px \in Pixels} \cap Focusable(frame)

(***************************************************************************)
(* Focus leads to forms the user can see: Tab, and BackTab while any form  *)
(* can be focused, goes only to forms with a cell on the screen, also      *)
(* after updates that hid viewports or removed forms.                      *)
(***************************************************************************)
FocusOnScreen ==
    frame # NoFrame =>
        /\ Range(frame.next) \cup ({frame.first} \ {None}) \subseteq OnScreen
        /\ frame.first # None => Range(frame.prev) \subseteq OnScreen

(***************************************************************************)
(* When no form's cells are interrupted by another form's, Tab goes round  *)
(* all the forms on the screen, one by one, and BackTab the other way.     *)
(***************************************************************************)
TabGoesRound ==
    (frame # NoFrame /\ Len(ElementIds(frame, frame.screen)) = Cardinality(OnScreen)) =>
        /\ DOMAIN frame.next = OnScreen /\ Range(frame.next) = OnScreen
        /\ OnScreen # {} => \A el \in OnScreen : frame.prev[frame.next[el]] = el
        /\ \A S \in SUBSET OnScreen :
             (S # {} /\ \A el \in S : frame.next[el] \in S) => S = OnScreen

(***************************************************************************)
(* Entering a box never indexes past its options (handle_event would       *)
(* panic): a checkbox without options cannot be focused, and the selector  *)
(* stays inside.                                                           *)
(***************************************************************************)
SelectorInside ==
    (frame # NoFrame /\ frame.focused # None) =>
        LET form == frame.forms[frame.focused]
        IN  form.kind = "Checkbox" => form.selector < Len(form.options)

(***************************************************************************)
(* What the user entered is kept: a form of the page changes only by a key *)
(* pressed while it has the focus, and no step loses one, neither the      *)
(* redraw after each key nor an update, which rebuild the table of forms.  *)
(***************************************************************************)
InputKept ==
    [][ frame # NoFrame =>
          \A el \in DOMAIN frame.forms \ frame.dynamic :
             /\ el \in DOMAIN frame'.forms
             /\ frame'.forms[el] # frame.forms[el] =>
                  nupdates' = nupdates /\ frame.focused = el /\ focus = "Root" ]_vars

(***************************************************************************)
(* A character typed into a text line that has room appears before the     *)
(* cursor, and every other character stays (or, when overwriting, all but  *)
(* the one it replaces), as long as the line holds no wide character.      *)
(***************************************************************************)
TypedAppears ==
    [][ (frame # NoFrame /\ focus = "Root" /\ typed' # "" /\ nkeys' # nkeys) =>
          \A el \in {frame.focused} \cap DOMAIN frame.forms :
            LET form == frame.forms[el]
                now == frame'.forms[el]
            IN  (form.kind = "TextLine" /\ Bytes(form.text) = Len(form.text)
                 /\ Len(form.text) < form.max_len) =>
                  /\ now.cursor = form.cursor + 1
                  /\ now.text = SubSeq(form.text, 1, form.cursor) \o <<typed'>> \o
                       SubSeq(form.text, IF form.insert THEN form.cursor + 1 ELSE form.cursor + 2,
                              Len(form.text)) ]_vars

(* No text of the line reaches past its width, where nothing pads it.      *)
KeepsToRow(line) ==
    /\ Len(line.text) <= line.max_len
    /\ \A v \in Range(page.viewports) : v.id = line.vp => line.col + line.max_len <= v.cols

(***************************************************************************)
(* The screen shows the forms as they are: redrawing all of them over the  *)
(* old cells, in an order that changes from one key to the next, gives the *)
(* picture that a redraw of empty viewports gives in some order.           *)
(*                                                                         *)
(* It is claimed where the kept z-buffer has the viewport that is on top   *)
(* now (the z-buffer is made once: a viewport that an update shows or      *)
(* hides keeps the place it had) and in viewports that have a form (one    *)
(* whose only texts wrb-viewport-clear removed keeps showing them).  It is *)
(* claimed of pages whose texts do not flow from one form to the next, for *)
(* such texts depend on the order, and whose text lines keep to their row, *)
(* for a longer text leaves cells behind when it gets shorter.             *)
(***************************************************************************)
ScreenIsCurrent ==
    (/\ frame # NoFrame
     /\ \A el \in DOMAIN frame.forms : ~frame.forms[el].flow
     /\ \A form \in Range(page.static) : form.kind = "TextLine" => KeepsToRow(form)) =>
        LET blank == [frame EXCEPT !.vps = [i \in DOMAIN @ |-> [@[i] EXCEPT !.buff = <<>>]]]
            z == CHOOSE x \in frame.zbuff : TRUE
            used == {form.vp : form \in Range(frame.forms)}
            claimed == {px \in Pixels : /\ z[px] = make_zbuff(frame)[px] /\ z[px] # None
                                        /\ frame.vps[z[px]].id \in used}
        IN  \E order \in Orders(DOMAIN frame.forms) :
                LET clean == charbuff(DrawAll(blank, NoFlow, order, VisibleOnly).f, z)
                IN  \A px \in claimed : frame.screen[px] = clean[px]
=============================================================================

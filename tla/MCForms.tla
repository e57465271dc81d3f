------------------------------ MODULE MCForms ------------------------------
(* Instances of Forms: pages on a root pane of three rows and four columns. *)
EXTENDS Forms

VP(id, parent, row, col, rows, cols, visible) ==
    [id |-> id, parent |-> parent, row |-> row, col |-> col, rows |-> rows, cols |-> cols,
     visible |-> visible, buff |-> <<>>]

Form(id, kind, vp, row, col, text) ==
    [id |-> id, kind |-> kind, vp |-> vp, row |-> row, col |-> col, text |-> text,
     handle |-> 1, flow |-> FALSE, newline |-> FALSE, options |-> <<>>, selector |-> 0,
     cursor |-> 0, insert |-> TRUE, max_len |-> 2]

DynText(vp, row, col) == Form(11, "Text", vp, row, col, <<"t">>)
DynPrint(vp) == [Form(12, "Print", vp, 0, 0, <<"x", "\n", "y">>) EXCEPT !.row = 2, !.col = 2]
Lost(form) == [form EXCEPT !.handle = 2]
Full == VP(1, None, 0, 0, 3, 4, TRUE)

(* A text line and a checkbox.                                             *)
Plain == [viewports |-> <<Full>>,
          static |-> <<Form(1, "TextLine", 1, 0, 0, <<"a">>),
                       [Form(2, "Checkbox", 1, 1, 0, <<"c", "d">>) EXCEPT !.options = <<FALSE, TRUE>>]>>,
          dynamic |-> <<DynText(1, 2, 3)>>,
          contents |-> {<<>>, <<DynText(1, 2, 3)>>, <<DynPrint(1)>>, <<Lost(DynText(1, 2, 3))>>}]

(* A viewport with a child over it, and a hidden one beside the child.     *)
Nested == [viewports |-> <<VP(3, None, 0, 2, 1, 2, FALSE), VP(2, 1, 1, 1, 2, 2, TRUE), Full>>,
           static |-> <<Form(1, "Button", 1, 0, 0, <<"b">>), Form(2, "Button", 2, 0, 0, <<"c">>),
                        Form(3, "Button", 3, 0, 0, <<"d">>)>>,
           dynamic |-> <<>>,
           contents |-> {<<>>, <<DynText(2, 1, 0)>>, <<DynText(9, 0, 0)>>}]

(* A checkbox without options above a button, a viewport that holds only   *)
(* dynamic text, and an element of a type that is not known.               *)
Empty == [viewports |-> <<VP(2, None, 2, 0, 1, 4, TRUE), VP(1, None, 0, 0, 2, 4, TRUE)>>,
          static |-> <<Form(1, "Checkbox", 1, 0, 0, <<>>), Form(2, "Button", 1, 1, 0, <<"b">>),
                       Form(3, "Slider", 1, 0, 0, <<>>)>>,
          dynamic |-> <<DynText(2, 0, 0)>>,
          contents |-> {<<>>, <<DynPrint(1), DynText(2, 0, 0)>>}]

(* A checkbox of two rows with a button beside each.                       *)
Beside == [viewports |-> <<Full>>,
           static |-> <<[Form(1, "Checkbox", 1, 0, 0, <<"c", "d">>) EXCEPT !.options = <<FALSE, FALSE>>],
                        Form(2, "Button", 1, 0, 2, <<"b">>), Form(3, "Button", 1, 1, 2, <<"e">>)>>,
           dynamic |-> <<>>,
           contents |-> {<<>>}]

(* A text line under a button that covers its first cell, and a dynamic    *)
(* text on the line's second cell.                                         *)
Overlaid == [viewports |-> <<Full>>,
             static |-> <<Form(1, "TextLine", 1, 0, 1, <<"a">>), Form(2, "Button", 1, 0, 0, <<"b">>)>>,
             dynamic |-> <<DynText(1, 0, 2)>>,
             contents |-> {<<>>, <<DynText(1, 0, 2), DynPrint(1)>>}]

(* A text line that reaches past the end of its row.                       *)
Ragged == [viewports |-> <<Full>>,
           static |-> <<Form(1, "TextLine", 1, 0, 3, <<"a">>)>>,
           dynamic |-> <<>>,
           contents |-> {<<>>}]

(* Prints that flow, and wrap, above a button.                             *)
Flowing == [viewports |-> <<Full>>,
            static |-> <<[Form(1, "Print", 1, 0, 0, <<"p", "q">>) EXCEPT !.flow = TRUE, !.newline = TRUE],
                         [Form(2, "Print", 1, 0, 0, <<"r", "s", "t">>) EXCEPT !.flow = TRUE],
                         Form(3, "Button", 1, 2, 1, <<"b">>)>>,
            dynamic |-> <<>>,
            contents |-> {<<>>}]

(* A page whose first frame cannot be made.                                *)
TooFar == [Beside EXCEPT !.static[2].row = 9]

Pages == {Plain, Nested, Empty, Beside, Overlaid, Ragged, Flowing, TooFar}
=============================================================================

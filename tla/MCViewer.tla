------------------------------ MODULE MCViewer ------------------------------
(* Pages of every kind: without an event loop (one of them asks for a      *)
(* timer in vain), with code that fails, naming an event loop they do not  *)
(* have, with an event loop for every event and no timer, and with one     *)
(* that subscribes to the timer twice.                                     *)
EXTENDS Viewer

Page(loads, event_loop, subscriptions) ==
    [loads |-> loads, event_loop |-> event_loop, subscriptions |-> subscriptions]

MCPages == {Page(TRUE, "unset", << >>),
            Page(TRUE, "unset", <<"Timer">>),
            Page(FALSE, "unset", << >>),
            Page(TRUE, "undefined", << >>),
            Page(TRUE, "proper", << >>),
            Page(TRUE, "proper", <<"Timer", "UI", "Timer">>)}
=============================================================================

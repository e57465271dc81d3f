------------------------------- MODULE Viewer -------------------------------
(***************************************************************************)
(* The threads behind an open page: the viewer's main loop (viewer/mod.rs, *)
(* Viewer::main, then the end of main.rs), its keyboard, frame and timer   *)
(* threads, and the thread that runs the page (ui/events.rs,               *)
(* Renderer::run_page).  They share three channels and the quit flag.      *)
(*                                                                         *)
(* events and frames are sync_channels: a send waits while the queue is    *)
(* full and fails once the receiver is dropped.  inbox is an unbounded     *)
(* channel.  A step is one send or receive with the local code around it.  *)
(* Frames are numbered: 1 is the Root, the others are Updates of it.       *)
(***************************************************************************)
EXTENDS Integers, Sequences
LOCAL INSTANCE Functions

CONSTANTS Cap,        \* room in a sync_channel, 1024 in the code
          Pages,      \* pages that may be opened
          Keys,       \* keys that may be typed
          MaxKeys,    \* bound: keys typed
          MaxResizes, \* bound: changes of the terminal's size
          MaxTicks,   \* bound: timer events
          MaxFailures \* bound: failed passes, frames and terminal writes

(***************************************************************************)
(* A page is what running its code sets up: whether the code runs at all,  *)
(* the event loop function it names (none, one it does not define, one     *)
(* with the wrong arguments, or a proper one) and, in the order they were  *)
(* made, its subscriptions to kinds of events.                             *)
(***************************************************************************)
EventKinds == {"Close", "Timer", "Resize", "UI"}

ASSUME ViewerAssumption ==
    /\ Cap \in Nat \ {0}
    /\ \A p \in Pages :
          /\ p.loads \in BOOLEAN
          /\ p.event_loop \in {"unset", "undefined", "misfit", "proper"}
          /\ p.subscriptions \in Seq(EventKinds)
    /\ Keys \subseteq {"q", "g", "tab", "enter", "esc", "other"}
    /\ {MaxKeys, MaxResizes, MaxTicks, MaxFailures} \subseteq Nat

VARIABLES page,           \* the page that is open
          main,           \* where the main thread is
          render,         \* where the thread that runs the page is
          frame_thread,   \* where the frame thread is
          keyboard,       \* where the keyboard thread is
          timer,          \* where the timer thread is
          events, frames, inbox,   \* the channels
          quit,           \* the flag shared by the viewer's threads
          resized,        \* the terminal's size is not the one in Viewer.size
          last_frame,     \* number of the frame on the screen, 0 for none
          focus,          \* ViewerFocus
          runtime_events, \* events of the forms not sent yet
          made,           \* frames made so far
          will_close,     \* run_page has seen Close
          counts          \* keys, resizes, ticks and failures so far

ui == <<last_frame, focus, runtime_events>>
vars == <<page, main, render, frame_thread, keyboard, timer, events, frames, inbox,
          quit, resized, ui, made, will_close, counts>>

Init ==
    /\ page \in Pages
    /\ main = "start" /\ render = "init" /\ frame_thread = "none"
    /\ keyboard = "none" /\ timer = "none"
    /\ events = << >> /\ frames = << >> /\ inbox = << >>
    /\ quit = FALSE /\ resized = FALSE
    /\ last_frame = 0 /\ focus = "NoFocus" /\ runtime_events = 0
    /\ made = 0 /\ will_close = FALSE
    /\ counts = [key |-> 0, resize |-> 0, tick |-> 0, failure |-> 0]

-----------------------------------------------------------------------------
(* What run_page asks the page before its first pass.                      *)

(* No event loop, an event loop, or an error: the function it names is not *)
(* there or does not take an event.                                        *)
find_event_loop_function(p) ==
    CASE p.event_loop = "unset" -> "None"
      [] p.event_loop = "proper" -> "Some"
      [] OTHER -> "Err"

find_event_subscriptions(p) == Range(p.subscriptions)

(* The Root carries a delay for the timer only in an event loop.           *)
HasTimer(p) ==
    find_event_loop_function(p) = "Some" /\ "Timer" \in find_event_subscriptions(p)

-----------------------------------------------------------------------------
(* Channels.                                                               *)

(* What travels in inbox: ViewerEvent.                                     *)
Stdin(key) == [kind |-> "Stdin", key |-> key, frame |-> 0]
Frame(n) == [kind |-> "Frame", key |-> "none", frame |-> n]
Quit == [kind |-> "Quit", key |-> "none", frame |-> 0]

(* run_page owns the receiver of events and the sender of frames.          *)
PageOver == render \in {"committed", "aborted"}
(* Viewer::main owns the receiver of inbox.                                *)
ViewerOver == main \in {"final_close", "join_render", "exited"}

SendEvent(e) == ~PageOver /\ Len(events) < Cap /\ events' = Append(events, e)

(* A send whose failure makes the viewer quit, and one whose failure is    *)
(* only logged.                                                            *)
SendOrQuit(e) ==
    \/ SendEvent(e) /\ UNCHANGED <<quit, inbox>>
    \/ PageOver /\ quit' = TRUE /\ inbox' = Append(inbox, Quit) /\ UNCHANGED events
SendOrWarn(e) == SendEvent(e) \/ (PageOver /\ UNCHANGED events)

Count(what, bound) ==
    counts[what] < bound /\ counts' = [counts EXCEPT ![what] = @ + 1]

-----------------------------------------------------------------------------
(* The main thread.                                                        *)

(* Start the keyboard and the frame thread.                                *)
main_start ==
    /\ main = "start"
    /\ main' = "send_open" /\ frame_thread' = "top" /\ keyboard' = "read"
    /\ UNCHANGED <<page, render, timer, events, frames, inbox, quit, resized, ui, made,
                   will_close, counts>>

(* Ask for the page, then look at the terminal's size.                     *)
main_open ==
    /\ main = "send_open"
    /\ SendOrQuit("Open")
    /\ resized' = FALSE
    /\ main' = "send_resize"
    /\ UNCHANGED <<page, render, frame_thread, keyboard, timer, frames, ui, made,
                   will_close, counts>>

main_first_resize ==
    /\ main = "send_resize"
    /\ SendOrQuit("Resize")
    /\ main' = "loop"
    /\ UNCHANGED <<page, render, frame_thread, keyboard, timer, frames, resized, ui, made,
                   will_close, counts>>

(* The head of the loop looks at the flag, then at the terminal's size.    *)
main_loop ==
    /\ main = "loop"
    /\ main' = IF quit THEN "send_close" ELSE IF resized THEN "loop_resize" ELSE "recv"
    /\ resized' = (resized /\ quit)
    /\ UNCHANGED <<page, render, frame_thread, keyboard, timer, events, frames, inbox, quit,
                   ui, made, will_close, counts>>

main_loop_resize ==
    /\ main = "loop_resize"
    /\ SendOrQuit("Resize")
    /\ main' = "recv"
    /\ UNCHANGED <<page, render, frame_thread, keyboard, timer, frames, resized, ui, made,
                   will_close, counts>>

(***************************************************************************)
(* Where a key takes the focus from f.  Without a frame the focus goes to  *)
(* the status widget before the key is looked at.                          *)
(***************************************************************************)
FocusAfter(f, key) ==
    CASE key = "esc" /\ f # "NoFocus" -> "NoFocus"
      [] key = "tab" \/ (key = "enter" /\ f = "NoFocus") -> "Root"
      [] key = "g" /\ f = "NoFocus" -> "Status"
      [] OTHER -> f

(* Variant with a bug: the frame taken for a key press is not put back.    *)
dispatch_keyboard_event_LosesFrame(key) ==
    /\ focus' = FocusAfter(focus, key)
    /\ inbox' = Tail(inbox)
    /\ last_frame' = 0
    /\ UNCHANGED <<quit, runtime_events, timer>>

dispatch_keyboard_event(key) ==
    LET f == IF last_frame = 0 THEN "Status" ELSE focus
        rest == Tail(inbox)
    IN  /\ focus' = FocusAfter(f, key)
        /\ \/ f = "NoFocus" /\ key = "q"
              /\ quit' = TRUE /\ inbox' = Append(rest, Quit)
              /\ UNCHANGED runtime_events
           \/ ~(f = "NoFocus" /\ key = "q")
              /\ inbox' = rest /\ UNCHANGED quit
              /\ \/ UNCHANGED runtime_events
                 \/ f = "Root" /\ key \notin {"esc", "tab"} /\ last_frame > 0
                    /\ runtime_events' = runtime_events + 1
        /\ UNCHANGED <<last_frame, timer>>

(* A Root is shown and starts the timer, once; an Update is shown only if  *)
(* there is a frame to update.                                             *)
show_frame(n) ==
    /\ last_frame' = IF n = 1 \/ last_frame > 0 THEN n ELSE last_frame
    /\ timer' = IF n = 1 /\ timer = "none" /\ HasTimer(page) THEN "send" ELSE timer
    /\ inbox' = Tail(inbox)
    /\ UNCHANGED <<quit, focus, runtime_events>>

main_recv ==
    /\ main = "recv"
    /\ inbox # << >>
    /\ \/ /\ Head(inbox).kind = "Quit"
          /\ inbox' = Tail(inbox)
          /\ main' = "send_close"
          /\ UNCHANGED <<quit, timer, ui>>
       \/ /\ \/ Head(inbox).kind = "Stdin" /\ dispatch_keyboard_event(Head(inbox).key)
             \/ Head(inbox).kind = "Frame" /\ show_frame(Head(inbox).frame)
          /\ main' = IF runtime_events' > 0 THEN "send_runtime" ELSE "loop"
    /\ UNCHANGED <<page, render, frame_thread, keyboard, events, frames, resized, made,
                   will_close, counts>>

main_send_runtime ==
    /\ main = "send_runtime"
    /\ SendOrWarn("UI")
    /\ runtime_events' = runtime_events - 1
    /\ main' = IF runtime_events' > 0 THEN "send_runtime" ELSE "loop"
    /\ UNCHANGED <<page, render, frame_thread, keyboard, timer, frames, inbox, quit, resized,
                   last_frame, focus, made, will_close, counts>>

(* Variant with a bug: the threads are joined before the page is told.     *)
main_close_NoClose ==
    /\ main = "send_close"
    /\ main' = "join_timer"
    /\ UNCHANGED <<page, render, frame_thread, keyboard, timer, events, frames, inbox, quit,
                   resized, ui, made, will_close, counts>>

main_close ==
    /\ main = "send_close"
    /\ SendOrWarn("Close")
    /\ main' = "join_timer"
    /\ UNCHANGED <<page, render, frame_thread, keyboard, timer, frames, inbox, quit, resized,
                   ui, made, will_close, counts>>

(* Viewer::main returns once the timer and the frame thread have ended.    *)
main_join_timer ==
    /\ main = "join_timer" /\ timer \in {"none", "done"}
    /\ main' = "join_frame"
    /\ UNCHANGED <<page, render, frame_thread, keyboard, timer, events, frames, inbox, quit,
                   resized, ui, made, will_close, counts>>

main_join_frame ==
    /\ main = "join_frame" /\ frame_thread = "done"
    /\ main' = "final_close" /\ inbox' = << >>
    /\ UNCHANGED <<page, render, frame_thread, keyboard, timer, events, frames, quit,
                   resized, ui, made, will_close, counts>>

(***************************************************************************)
(* The terminal fails and Viewer::main returns the error: before it starts *)
(* its threads, when it asks for the size, or while it draws what a        *)
(* message changed.  It joins no thread and leaves quit alone.             *)
(***************************************************************************)
main_error ==
    /\ \/ main \in {"start", "send_resize"}
       \/ main = "loop" /\ ~quit
       \/ main = "recv" /\ inbox # << >> /\ Head(inbox).kind # "Quit"
    /\ Count("failure", MaxFailures)
    /\ main' = "final_close" /\ inbox' = << >>
    /\ frame_thread' = IF main = "start" THEN "done" ELSE frame_thread
    /\ UNCHANGED <<page, render, keyboard, timer, events, frames, quit, resized, ui, made,
                   will_close>>

(* The end of main.rs: Close once more, wait for the page, exit.           *)
main_final_close ==
    /\ main = "final_close"
    /\ SendOrWarn("Close")
    /\ main' = "join_render"
    /\ UNCHANGED <<page, render, frame_thread, keyboard, timer, frames, inbox, quit, resized,
                   ui, made, will_close, counts>>

(* Variant with a bug: the process does not wait for the page.             *)
main_exit_NoJoin ==
    /\ main = "join_render"
    /\ main' = "exited"
    /\ UNCHANGED <<page, render, frame_thread, keyboard, timer, events, frames, inbox, quit,
                   resized, ui, made, will_close, counts>>

main_exit ==
    /\ main = "join_render" /\ PageOver
    /\ main' = "exited"
    /\ UNCHANGED <<page, render, frame_thread, keyboard, timer, events, frames, inbox, quit,
                   resized, ui, made, will_close, counts>>

-----------------------------------------------------------------------------
(* The thread that runs the page.                                          *)

(* Load the page and look for its event loop.  Without one the page makes  *)
(* its only frame at once, or fails to.                                    *)
render_init ==
    LET event_loop == IF page.loads THEN find_event_loop_function(page) ELSE "Err"
    IN  /\ render = "init"
        /\ \/ event_loop = "Err" /\ render' = "aborted" /\ UNCHANGED <<made, counts>>
           \/ event_loop = "Some" /\ render' = "recv" /\ UNCHANGED <<made, counts>>
           \/ event_loop = "None" /\ render' = "send_frame" /\ made' = 1 /\ UNCHANGED counts
           \/ event_loop = "None" /\ render' = "aborted"
                 /\ Count("failure", MaxFailures) /\ UNCHANGED made
        /\ events' = IF render' = "aborted" THEN << >> ELSE events
        /\ UNCHANGED <<page, main, frame_thread, keyboard, timer, frames, inbox, quit,
                       resized, ui, will_close>>

(* What ends run_page: after Close nothing more is received.               *)
render_next ==
    IF will_close' \/ find_event_loop_function(page) = "None" THEN "commit" ELSE "recv"

(***************************************************************************)
(* Take the next event.  Events the page has not subscribed to are         *)
(* skipped, except Open.  A failed pass leaves the loop, and the page is   *)
(* committed; a frame that cannot be made is an error, and it is not.      *)
(***************************************************************************)
render_recv ==
    LET e == Head(events)
        subscriptions == find_event_subscriptions(page)
        skipped == subscriptions # {} /\ e \notin subscriptions \cup {"Open"}
    IN  /\ render = "recv"
        /\ events # << >>
        /\ will_close' = (e = "Close")
        /\ \/ skipped /\ render' = render_next /\ UNCHANGED <<made, counts>>
           \/ ~skipped /\ render' = "send_frame" /\ made' = made + 1 /\ UNCHANGED counts
           \/ ~skipped /\ render' \in {"commit", "aborted"}
                 /\ Count("failure", MaxFailures) /\ UNCHANGED made
        /\ events' = IF render' = "aborted" THEN << >> ELSE Tail(events)
        /\ UNCHANGED <<page, main, frame_thread, keyboard, timer, frames, inbox, quit,
                       resized, ui>>

(* Send the frame, or leave the loop when nobody receives frames any more. *)
render_send_frame ==
    /\ render = "send_frame"
    /\ \/ /\ frame_thread = "done"
          /\ render' = "commit"
          /\ UNCHANGED <<frames, will_close>>
       \/ /\ frame_thread # "done" /\ Len(frames) < Cap
          /\ frames' = Append(frames, made)
          /\ UNCHANGED will_close
          /\ render' = render_next
    /\ UNCHANGED <<page, main, frame_thread, keyboard, timer, events, inbox, quit, resized,
                   ui, made, counts>>

(* Commit what the page did; either way the channels are dropped.          *)
render_commit ==
    /\ render = "commit"
    /\ \/ render' = "committed" /\ UNCHANGED counts
       \/ render' = "aborted" /\ Count("failure", MaxFailures)
    /\ events' = << >>
    /\ UNCHANGED <<page, main, frame_thread, keyboard, timer, frames, inbox, quit, resized,
                   ui, made, will_close>>

-----------------------------------------------------------------------------
(* The viewer's other threads.                                             *)

frame_top ==
    /\ frame_thread = "top"
    /\ frame_thread' = IF quit THEN "done" ELSE "recv"
    /\ frames' = IF quit THEN << >> ELSE frames
    /\ UNCHANGED <<page, main, render, keyboard, timer, events, inbox, quit, resized, ui,
                   made, will_close, counts>>

(* Variant with a bug: the viewer's channel has room for one message.      *)
frame_recv_Bounded ==
    /\ frame_thread = "recv"
    /\ \/ /\ frames # << >> /\ inbox = << >>
          /\ frames' = Tail(frames) /\ inbox' = Append(inbox, Frame(Head(frames)))
          /\ frame_thread' = "top"
       \/ /\ frames = << >> /\ PageOver
          /\ frame_thread' = "done"
          /\ UNCHANGED <<frames, inbox>>
    /\ UNCHANGED <<page, main, render, keyboard, timer, events, quit, resized, ui, made,
                   will_close, counts>>

frame_recv ==
    /\ frame_thread = "recv"
    /\ \/ /\ frames # << >> /\ ~ViewerOver
          /\ frames' = Tail(frames) /\ inbox' = Append(inbox, Frame(Head(frames)))
          /\ frame_thread' = "top"
       \/ /\ IF frames = << >> THEN PageOver ELSE ViewerOver
          /\ frame_thread' = "done" /\ frames' = << >>
          /\ UNCHANGED inbox
    /\ UNCHANGED <<page, main, render, keyboard, timer, events, quit, resized, ui, made,
                   will_close, counts>>

keyboard_read ==
    /\ keyboard = "read"
    /\ Count("key", MaxKeys)
    /\ \/ /\ ~ViewerOver
          /\ \E key \in Keys : inbox' = Append(inbox, Stdin(key))
          /\ keyboard' = "check"
       \/ ViewerOver /\ keyboard' = "done" /\ UNCHANGED inbox
    /\ UNCHANGED <<page, main, render, frame_thread, timer, events, frames, quit, resized, ui,
                   made, will_close>>

keyboard_check ==
    /\ keyboard = "check"
    /\ keyboard' = IF quit THEN "done" ELSE "read"
    /\ UNCHANGED <<page, main, render, frame_thread, timer, events, frames, inbox, quit,
                   resized, ui, made, will_close, counts>>

timer_send ==
    /\ timer = "send"
    /\ \/ PageOver /\ timer' = "done" /\ UNCHANGED <<events, counts>>
       \/ SendEvent("Timer") /\ Count("tick", MaxTicks) /\ UNCHANGED timer
    /\ UNCHANGED <<page, main, render, frame_thread, keyboard, frames, inbox, quit, resized,
                   ui, made, will_close>>

(* The user changes the size of the terminal.                              *)
Resize ==
    /\ Count("resize", MaxResizes)
    /\ resized' = TRUE
    /\ UNCHANGED <<page, main, render, frame_thread, keyboard, timer, events, frames, inbox,
                   quit, ui, made, will_close>>

-----------------------------------------------------------------------------
Main == \/ main_start \/ main_open \/ main_first_resize \/ main_loop \/ main_loop_resize
        \/ main_recv \/ main_send_runtime \/ main_close \/ main_join_timer
        \/ main_join_frame \/ main_final_close \/ main_exit
Render == render_init \/ render_recv \/ render_send_frame \/ render_commit
FrameThread == frame_top \/ frame_recv
Environment == keyboard_read \/ keyboard_check \/ Resize \/ main_error

(* The exit of the process ends every thread.                              *)
Next == /\ main # "exited"
        /\ Main \/ Render \/ FrameThread \/ timer_send \/ Environment

(* Every thread is scheduled; nobody has to type or resize anything.       *)
Spec == /\ Init /\ [][Next]_vars
        /\ WF_vars(Main) /\ WF_vars(main # "exited" /\ Render)
        /\ WF_vars(main # "exited" /\ FrameThread) /\ WF_vars(main # "exited" /\ timer_send)

-----------------------------------------------------------------------------
(***************************************************************************)
(* Until the viewer quits no frame is lost, repeated or overtaken, and no  *)
(* Update is shown before its Root: the frames after the one on the screen *)
(* are in the viewer's channel and then in the page's, each once and in    *)
(* order, up to the last one sent.                                         *)
(***************************************************************************)
sent == IF render = "send_frame" THEN made - 1 ELSE made
passed_on == sent - Len(frames)
Arrived == {i \in DOMAIN inbox : inbox[i].kind = "Frame"}

FramesInOrder ==
    ~quit /\ ~ViewerOver =>
        /\ last_frame <= passed_on
        /\ {inbox[i].frame : i \in Arrived} = (last_frame + 1)..passed_on
        /\ \A i, j \in Arrived : i < j => inbox[i].frame < inbox[j].frame
        /\ \A i \in DOMAIN frames : frames[i] = passed_on + i

(* The process exits only when run_page has ended: what a page that met no *)
(* error did is committed, whoever asked for the exit and whenever.        *)
SavedOnExit ==
    main = "exited" =>
        \/ render = "committed"
        \/ render = "aborted" /\ (~page.loads \/ counts.failure > 0
                                    \/ find_event_loop_function(page) = "Err")

(***************************************************************************)
(* Once it is to quit, or its terminal fails, the process ends: no thread  *)
(* waits for ever in a full channel or for another thread.                 *)
(***************************************************************************)
ShutsDown == quit \/ ViewerOver ~> main = "exited"

(* The viewer never gets stuck behind a page that is busy, has ended or    *)
(* fills its channels: the messages in inbox are dealt with.               *)
KeysHandled == inbox # << >> ~> inbox = << >>
=============================================================================

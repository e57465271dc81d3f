---------------------------- MODULE ViewerProofs ----------------------------
(***************************************************************************)
(* The threads behind an open page, for every page, every capacity of the  *)
(* channels and every number of keys, resizes, ticks and failures: frames  *)
(* reach the screen in order, and the process exits only after run_page.   *)
(***************************************************************************)
EXTENDS Viewer, TLAPS

Message == [kind : {"Stdin", "Frame", "Quit"},
            key : {"q", "g", "tab", "enter", "esc", "other", "none"}, frame : Nat]

(* What the proofs need of the types.                                      *)
ChannelsOK == /\ inbox \in Seq(Message)
              /\ frames \in Seq(Nat)
              /\ last_frame \in Nat /\ made \in Nat
              /\ quit \in BOOLEAN
              /\ counts \in [{"key", "resize", "tick", "failure"} -> Nat]

(* run_page makes its first frame after it has found the event loop.       *)
NoneMadeYet == render = "init" => made = 0

(* The frame thread ends only when somebody no longer needs it; a page     *)
(* that is about to send a frame is not the one.                           *)
FrameThreadNeeded == frame_thread = "done" => quit \/ ViewerOver \/ PageOver

(* run_page gives up only on an error.                                     *)
AbortedOnError ==
    render = "aborted" => \/ ~page.loads \/ counts["failure"] > 0
                          \/ find_event_loop_function(page) = "Err"

ExitAfterPage == main = "exited" => PageOver

IInv == /\ ChannelsOK /\ NoneMadeYet /\ FrameThreadNeeded /\ FramesInOrder
        /\ AbortedOnError /\ ExitAfterPage

-----------------------------------------------------------------------------
(* Channels: what taking the first message and adding one do.              *)

LEMMA TailFacts ==
    ASSUME NEW S, NEW q \in Seq(S), q # << >>
    PROVE  /\ Head(q) \in S /\ Head(q) = q[1] /\ 1 \in DOMAIN q
           /\ Tail(q) \in Seq(S) /\ Len(Tail(q)) = Len(q) - 1
           /\ \A i \in DOMAIN Tail(q) : i + 1 \in DOMAIN q /\ Tail(q)[i] = q[i + 1]
           /\ \A i \in DOMAIN q : i # 1 => i - 1 \in DOMAIN Tail(q) /\ i = (i - 1) + 1
           /\ DOMAIN q \subseteq Nat \ {0} /\ DOMAIN Tail(q) \subseteq Nat \ {0}
           /\ \A i \in DOMAIN q : q[i] \in S
OBVIOUS

LEMMA AppendFacts ==
    ASSUME NEW S, NEW q \in Seq(S), NEW x \in S
    PROVE  /\ Append(q, x) \in Seq(S) /\ Len(Append(q, x)) = Len(q) + 1
           /\ DOMAIN Append(q, x) = DOMAIN q \cup {Len(q) + 1}
           /\ \A i \in DOMAIN q : Append(q, x)[i] = q[i] /\ i < Len(q) + 1
           /\ Append(q, x)[Len(q) + 1] = x
           /\ DOMAIN q \subseteq Nat \ {0} /\ Len(q) \in Nat
OBVIOUS

LEMMA MessageFacts ==
    /\ Quit \in Message /\ Quit.kind = "Quit"
    /\ \A n \in Nat : Frame(n) \in Message /\ Frame(n).kind = "Frame" /\ Frame(n).frame = n
    /\ \A key \in Keys : Stdin(key) \in Message /\ Stdin(key).kind = "Stdin"
BY ViewerAssumption DEF Quit, Frame, Stdin, Message

-----------------------------------------------------------------------------
(* The frames in a channel q are those after last, up to passed, in order. *)
ArrivedIn(q) == {i \in DOMAIN q : q[i].kind = "Frame"}
InOrder(q, last, passed) ==
    /\ last <= passed
    /\ {q[i].frame : i \in ArrivedIn(q)} = (last + 1)..passed
    /\ \A i, j \in ArrivedIn(q) : i < j => q[i].frame < q[j].frame

LEMMA TakeOther ==
    ASSUME NEW q \in Seq(Message), q # << >>, Head(q).kind # "Frame",
           NEW last, NEW passed, InOrder(q, last, passed)
    PROVE  InOrder(Tail(q), last, passed)
<1> DEFINE r == Tail(q)
<1>1. \A i \in ArrivedIn(r) : i + 1 \in ArrivedIn(q) /\ r[i].frame = q[i + 1].frame /\ i \in Nat
  BY TailFacts DEF ArrivedIn
<1>2. \A i \in ArrivedIn(q) : i - 1 \in ArrivedIn(r) /\ r[i - 1].frame = q[i].frame
  <2>1. \A i \in ArrivedIn(q) : i # 1 /\ i \in DOMAIN q /\ q[i].kind = "Frame"
    BY TailFacts DEF ArrivedIn
  <2>2. \A i \in DOMAIN q : i # 1 => i - 1 \in DOMAIN r /\ r[i - 1] = q[i]
    BY TailFacts
  <2> QED BY <2>1, <2>2 DEF ArrivedIn
<1>3. {r[i].frame : i \in ArrivedIn(r)} = {q[i].frame : i \in ArrivedIn(q)}
  <2>1. ASSUME NEW i \in ArrivedIn(r) PROVE r[i].frame \in {q[k].frame : k \in ArrivedIn(q)}
    BY <1>1
  <2>2. ASSUME NEW i \in ArrivedIn(q) PROVE q[i].frame \in {r[k].frame : k \in ArrivedIn(r)}
    BY <1>2
  <2> QED BY <2>1, <2>2
<1>4. ASSUME NEW i \in ArrivedIn(r), NEW j \in ArrivedIn(r), i < j
      PROVE  r[i].frame < r[j].frame
  <2>1. i + 1 < j + 1
    BY <1>1, <1>4
  <2> QED BY <1>1, <2>1 DEF InOrder
<1> QED BY <1>3, <1>4 DEF InOrder

LEMMA TakeFrame ==
    ASSUME NEW q \in Seq(Message), q # << >>, Head(q).kind = "Frame",
           NEW last \in Nat, NEW passed \in Int, InOrder(q, last, passed)
    PROVE  Head(q).frame = last + 1 /\ InOrder(Tail(q), last + 1, passed)
<1> DEFINE r == Tail(q)
<1>1. 1 \in ArrivedIn(q) /\ Head(q) = q[1]
  BY TailFacts DEF ArrivedIn
<1>2. \A i \in ArrivedIn(q) : i \in Nat /\ i >= 1 /\ q[i].frame \in Nat
  <2>1. \A i \in ArrivedIn(q) : i \in Nat \ {0} /\ q[i] \in Message
    BY TailFacts DEF ArrivedIn
  <2>2. \A m \in Message : m.frame \in Nat
    BY DEF Message
  <2> QED BY <2>1, <2>2
<1>3. \A i \in ArrivedIn(q) : i # 1 => q[1].frame < q[i].frame
  BY <1>1, <1>2 DEF InOrder
<1>4. q[1].frame \in (last + 1)..passed
  BY <1>1 DEF InOrder
<1>5. last + 1 \in (last + 1)..passed
  BY <1>4
<1>6. PICK i \in ArrivedIn(q) : q[i].frame = last + 1
  BY <1>5 DEF InOrder
<1>7. q[1].frame = last + 1
  BY <1>1, <1>2, <1>3, <1>4, <1>6
<1>8. \A k \in ArrivedIn(r) : k + 1 \in ArrivedIn(q) /\ r[k].frame = q[k + 1].frame /\ k \in Nat \ {0}
  BY TailFacts DEF ArrivedIn
<1>9. \A k \in ArrivedIn(q) : k # 1 => k - 1 \in ArrivedIn(r) /\ r[k - 1].frame = q[k].frame
  <2>1. \A k \in DOMAIN q : k # 1 => k - 1 \in DOMAIN r /\ r[k - 1] = q[k]
    BY TailFacts
  <2> QED BY <2>1 DEF ArrivedIn
<1>10. {r[k].frame : k \in ArrivedIn(r)} = (last + 2)..passed
  <2>1. ASSUME NEW k \in ArrivedIn(r) PROVE r[k].frame \in (last + 2)..passed
    <3>1. q[k + 1].frame \in (last + 1)..passed
      BY <1>8 DEF InOrder
    <3>2. q[1].frame < q[k + 1].frame
      BY <1>3, <1>8
    <3>3. r[k].frame = q[k + 1].frame
      BY <1>8
    <3> HIDE DEF r
    <3> QED BY <1>7, <3>1, <3>2, <3>3
  <2>2. ASSUME NEW n \in (last + 2)..passed PROVE \E k \in ArrivedIn(r) : r[k].frame = n
    <3>1. n \in (last + 1)..passed
      OBVIOUS
    <3>2. PICK m \in ArrivedIn(q) : q[m].frame = n
      BY <3>1 DEF InOrder
    <3>3. m # 1
      BY <1>7, <3>2
    <3> QED BY <1>9, <3>2, <3>3
  <2> QED BY <2>1, <2>2
<1>11. ASSUME NEW i1 \in ArrivedIn(r), NEW j1 \in ArrivedIn(r), i1 < j1
      PROVE  r[i1].frame < r[j1].frame
  <2>1. i1 + 1 < j1 + 1
    BY <1>8, <1>11
  <2> QED BY <1>8, <2>1 DEF InOrder
<1>12. last + 1 <= passed /\ (last + 1) + 1 = last + 2
  BY <1>4
<1> QED BY <1>1, <1>7, <1>10, <1>11, <1>12 DEF InOrder

LEMMA AddOther ==
    ASSUME NEW q \in Seq(Message), NEW x \in Message, x.kind # "Frame",
           NEW last, NEW passed, InOrder(q, last, passed)
    PROVE  InOrder(Append(q, x), last, passed)
<1> DEFINE r == Append(q, x)
<1>1. DOMAIN r = DOMAIN q \cup {Len(q) + 1} /\ r[Len(q) + 1] = x
  BY AppendFacts
<1>2. \A i \in DOMAIN q : r[i] = q[i]
  BY AppendFacts
<1> HIDE DEF r
<1>3. ArrivedIn(r) = ArrivedIn(q)
  BY <1>1, <1>2 DEF ArrivedIn
<1>4. \A i \in ArrivedIn(q) : r[i] = q[i]
  BY <1>2 DEF ArrivedIn
<1>5. {r[i].frame : i \in ArrivedIn(r)} = {q[i].frame : i \in ArrivedIn(q)}
  BY <1>3, <1>4
<1>6. InOrder(r, last, passed)
  BY <1>3, <1>4, <1>5 DEF InOrder
<1> QED BY <1>6 DEF r

LEMMA AddFrame ==
    ASSUME NEW q \in Seq(Message), NEW last \in Nat, NEW passed \in Int,
           InOrder(q, last, passed)
    PROVE  InOrder(Append(q, Frame(passed + 1)), last, passed + 1)
<1> DEFINE x == Frame(passed + 1)
           r == Append(q, x)
           n == Len(q) + 1
<1>1. passed + 1 \in Nat /\ last <= passed /\ last <= passed + 1
  BY DEF InOrder
<1>2. x \in Message /\ x.kind = "Frame" /\ x.frame = passed + 1
  BY <1>1, MessageFacts
<1> HIDE DEF x
<1>3. /\ DOMAIN r = DOMAIN q \cup {n} /\ r[n] = x
      /\ \A i \in DOMAIN q : r[i] = q[i] /\ i < n
      /\ DOMAIN q \subseteq Nat /\ n \in Nat
  BY <1>2, AppendFacts
<1> HIDE DEF r, n
<1>4. ArrivedIn(r) = ArrivedIn(q) \cup {n}
  BY <1>2, <1>3 DEF ArrivedIn
<1>5. \A i \in ArrivedIn(q) : r[i] = q[i] /\ i < n /\ i \in Nat
  BY <1>3 DEF ArrivedIn
<1>6. {r[i].frame : i \in ArrivedIn(r)} = {q[i].frame : i \in ArrivedIn(q)} \cup {passed + 1}
  BY <1>2, <1>3, <1>4, <1>5
<1>7. {r[i].frame : i \in ArrivedIn(r)} = (last + 1)..(passed + 1)
  <2>1. (last + 1)..(passed + 1) = (last + 1)..passed \cup {passed + 1}
    BY <1>1
  <2> QED BY <1>6, <2>1 DEF InOrder
<1>8. ASSUME NEW i \in ArrivedIn(r), NEW j \in ArrivedIn(r), i < j
      PROVE  r[i].frame < r[j].frame
  <2>1. i \in ArrivedIn(q)
    BY <1>3, <1>4, <1>5, <1>8
  <2>2. CASE j = n
    <3>1. q[i].frame \in (last + 1)..passed
      BY <2>1 DEF InOrder
    <3>2. r[i].frame = q[i].frame /\ r[j].frame = passed + 1
      BY <1>2, <1>3, <1>5, <2>1, <2>2
    <3> QED BY <3>1, <3>2
  <2>3. CASE j \in ArrivedIn(q)
    BY <1>5, <1>8, <2>1, <2>3 DEF InOrder
  <2> QED BY <1>4, <2>2, <2>3
<1>9. InOrder(r, last, passed + 1)
  BY <1>1, <1>7, <1>8 DEF InOrder
<1> QED BY <1>9 DEF r, x

-----------------------------------------------------------------------------
LEMMA OrderDef ==
    FramesInOrder <=> (~quit /\ ~ViewerOver =>
        /\ InOrder(inbox, last_frame, passed_on)
        /\ \A i \in DOMAIN frames : frames[i] = passed_on + i)
BY DEF FramesInOrder, InOrder, ArrivedIn, Arrived

LEMMA SentFacts == ASSUME IInv PROVE sent \in Int /\ passed_on \in Int /\ last_frame \in Nat
BY DEF IInv, ChannelsOK, sent, passed_on

(***************************************************************************)
(* A step of any thread but the page's.  Such a step never takes back quit *)
(* or the end of the viewer, and ends the frame thread or the process only *)
(* where the invariant allows it.                                          *)
(***************************************************************************)
OtherThread ==
    /\ UNCHANGED <<page, render, made>>
    /\ counts' \in [{"key", "resize", "tick", "failure"} -> Nat]
    /\ counts'["failure"] >= counts["failure"]
    /\ quit => quit'
    /\ ViewerOver => ViewerOver'
    /\ frame_thread' = "done" => frame_thread = "done" \/ quit' \/ ViewerOver' \/ PageOver
    /\ main' = "exited" => main = "exited" \/ PageOver

LEMMA OtherThreadStep ==
    ASSUME IInv, OtherThread
    PROVE  NoneMadeYet' /\ FrameThreadNeeded' /\ AbortedOnError' /\ ExitAfterPage'
<1>1. PageOver' <=> PageOver
  BY DEF OtherThread, PageOver
<1>2. NoneMadeYet' /\ FrameThreadNeeded' /\ ExitAfterPage'
  BY <1>1 DEF IInv, OtherThread, NoneMadeYet, FrameThreadNeeded, ExitAfterPage
<1>3. AbortedOnError'
  BY DEF IInv, ChannelsOK, OtherThread, AbortedOnError, find_event_loop_function
<1> QED BY <1>2, <1>3

LEMMA CountFacts ==
    ASSUME IInv, NEW what \in {"key", "resize", "tick", "failure"}, NEW bound,
           Count(what, bound)
    PROVE  /\ counts' \in [{"key", "resize", "tick", "failure"} -> Nat]
           /\ counts'["failure"] >= counts["failure"]
           /\ what = "failure" => counts'["failure"] > 0
<1>1. counts \in [{"key", "resize", "tick", "failure"} -> Nat]
  BY DEF IInv, ChannelsOK
<1>2. counts' = [counts EXCEPT ![what] = counts[what] + 1]
  BY DEF Count
<1> QED BY <1>1, <1>2

LEMMA CountsSame ==
    ASSUME IInv, counts' = counts
    PROVE  /\ counts' \in [{"key", "resize", "tick", "failure"} -> Nat]
           /\ counts'["failure"] >= counts["failure"]
BY DEF IInv, ChannelsOK

(* Steps that leave the frames alone.                                      *)
LEMMA QuietStep ==
    ASSUME IInv, OtherThread, UNCHANGED <<inbox, frames, last_frame, quit>>
    PROVE  IInv'
<1>1. ChannelsOK'
  BY DEF IInv, ChannelsOK, OtherThread
<1>2. sent' = sent /\ passed_on' = passed_on
  BY DEF OtherThread, sent, passed_on
<1>3. FramesInOrder'
  <2> SUFFICES ASSUME ~quit', ~ViewerOver'
               PROVE  /\ InOrder(inbox, last_frame, passed_on)
                      /\ \A i \in DOMAIN frames : frames[i] = passed_on + i
    BY <1>2, OrderDef DEF FramesInOrder, InOrder, ArrivedIn, Arrived
  <2> QED BY OrderDef DEF IInv, OtherThread
<1> QED BY <1>1, <1>3, OtherThreadStep DEF IInv

(* Steps after which the viewer is to end.                                 *)
LEMMA EndingStep ==
    ASSUME IInv, OtherThread, inbox' \in Seq(Message), frames' \in Seq(Nat),
           last_frame' \in Nat, quit' \in BOOLEAN, quit' \/ ViewerOver'
    PROVE  IInv'
<1>1. ChannelsOK'
  BY DEF IInv, ChannelsOK, OtherThread
<1>2. FramesInOrder'
  BY DEF FramesInOrder
<1> QED BY <1>1, <1>2, OtherThreadStep DEF IInv

(* Steps that change the viewer's channel and the screen.                  *)
LEMMA InboxStep ==
    ASSUME IInv, OtherThread, UNCHANGED <<frames, quit>>, inbox' \in Seq(Message),
           last_frame' \in Nat,
           ~quit /\ ~ViewerOver => InOrder(inbox', last_frame', passed_on)
    PROVE  IInv'
<1>1. ChannelsOK'
  BY DEF IInv, ChannelsOK, OtherThread
<1>2. passed_on' = passed_on
  BY DEF OtherThread, sent, passed_on
<1>3. FramesInOrder'
  <2> SUFFICES ASSUME ~quit', ~ViewerOver'
               PROVE  /\ InOrder(inbox', last_frame', passed_on)
                      /\ \A i \in DOMAIN frames : frames[i] = passed_on + i
    BY <1>2 DEF FramesInOrder, InOrder, ArrivedIn, Arrived
  <2> QED BY OrderDef DEF IInv, OtherThread
<1> QED BY <1>1, <1>3, OtherThreadStep DEF IInv

LEMMA AppendQuit == ASSUME NEW q \in Seq(Message) PROVE Append(q, Quit) \in Seq(Message)
BY MessageFacts, AppendFacts

(* The steps of the main thread that send an event.                        *)
LEMMA SendStep ==
    ASSUME IInv, NEW e, SendOrQuit(e), OtherThread, UNCHANGED <<frames, last_frame>>
    PROVE  IInv'
<1>1. CASE UNCHANGED <<quit, inbox>>
  BY <1>1, QuietStep
<1>2. CASE quit' = TRUE /\ inbox' = Append(inbox, Quit)
  BY <1>2, EndingStep, AppendQuit DEF IInv, ChannelsOK
<1> QED BY <1>1, <1>2 DEF SendOrQuit

(* The main thread takes a message.                                        *)
LEMMA RecvStep == ASSUME IInv, main_recv PROVE IInv'
<1>1. inbox # << >> /\ inbox \in Seq(Message) /\ frames' = frames
  BY DEF IInv, ChannelsOK, main_recv
<1>2. OtherThread
  <2>1. quit => quit'
    BY DEF main_recv, dispatch_keyboard_event, show_frame
  <2>2. UNCHANGED <<page, render, made, counts, frame_thread>>
        /\ ~ViewerOver /\ main' # "exited"
    BY DEF main_recv, ViewerOver
  <2> QED BY <2>1, <2>2, CountsSame DEF OtherThread
<1>3. /\ Tail(inbox) \in Seq(Message) /\ Head(inbox) \in Message
  BY <1>1, TailFacts
<1>4. ~quit /\ ~ViewerOver => InOrder(inbox, last_frame, passed_on)
  BY OrderDef DEF IInv
<1>5. last_frame \in Nat /\ passed_on \in Int /\ quit \in BOOLEAN
  BY SentFacts DEF IInv, ChannelsOK
<1>6. CASE Head(inbox).kind # "Frame" /\ inbox' = Tail(inbox) /\ UNCHANGED <<quit, last_frame>>
  BY <1>1, <1>2, <1>3, <1>4, <1>5, <1>6, TakeOther, InboxStep
<1>7. CASE quit' = TRUE /\ inbox' = Append(Tail(inbox), Quit) /\ last_frame' = last_frame
  BY <1>1, <1>2, <1>3, <1>5, <1>7, EndingStep, AppendQuit DEF IInv, ChannelsOK
<1>8. CASE Head(inbox).kind = "Frame" /\ show_frame(Head(inbox).frame)
  <2> DEFINE n == Head(inbox).frame
  <2>1. n \in Nat
    BY <1>3 DEF Message
  <2>2. /\ inbox' = Tail(inbox) /\ quit' = quit
        /\ last_frame' = IF n = 1 \/ last_frame > 0 THEN n ELSE last_frame
    BY <1>8 DEF show_frame
  <2>3. last_frame' \in Nat
    BY <1>5, <2>1, <2>2
  <2>4. ASSUME ~quit, ~ViewerOver
        PROVE  InOrder(inbox', last_frame', passed_on)
    <3>1. n = last_frame + 1 /\ InOrder(Tail(inbox), last_frame + 1, passed_on)
      BY <1>1, <1>4, <1>5, <1>8, <2>4, TakeFrame
    <3>2. last_frame' = last_frame + 1
      BY <1>5, <2>2, <3>1
    <3> QED BY <2>2, <3>1, <3>2
  <2> QED BY <1>1, <1>2, <1>3, <2>2, <2>3, <2>4, InboxStep
<1> QED
  <2>1. CASE Head(inbox).kind = "Quit" /\ inbox' = Tail(inbox) /\ UNCHANGED <<quit, timer, ui>>
    BY <1>6, <2>1 DEF ui
  <2>2. CASE Head(inbox).kind = "Stdin" /\ dispatch_keyboard_event(Head(inbox).key)
    <3>1. last_frame' = last_frame
      BY <2>2 DEF dispatch_keyboard_event
    <3>2. \/ quit' = TRUE /\ inbox' = Append(Tail(inbox), Quit)
          \/ inbox' = Tail(inbox) /\ quit' = quit
      BY <2>2 DEF dispatch_keyboard_event
    <3> QED BY <1>6, <1>7, <2>2, <3>1, <3>2
  <2> QED BY <1>8, <2>1, <2>2 DEF main_recv

LEMMA MainStep == ASSUME IInv, Main PROVE IInv'
<1> USE DEF ViewerOver, PageOver, ui
<1>1. CASE main_start
  BY <1>1, CountsSame, QuietStep DEF main_start, OtherThread
<1>2. CASE main_open
  <2>1. OtherThread
    BY <1>2, CountsSame DEF main_open, OtherThread, SendOrQuit
  <2>2. SendOrQuit("Open") /\ UNCHANGED <<frames, last_frame>>
    BY <1>2 DEF main_open
  <2> QED BY <2>1, <2>2, SendStep
<1>3. CASE main_first_resize
  <2>1. OtherThread
    BY <1>3, CountsSame DEF main_first_resize, OtherThread, SendOrQuit
  <2>2. SendOrQuit("Resize") /\ UNCHANGED <<frames, last_frame>>
    BY <1>3 DEF main_first_resize
  <2> QED BY <2>1, <2>2, SendStep
<1>4. CASE main_loop
  BY <1>4, CountsSame, QuietStep DEF main_loop, OtherThread
<1>5. CASE main_loop_resize
  <2>1. OtherThread
    BY <1>5, CountsSame DEF main_loop_resize, OtherThread, SendOrQuit
  <2>2. SendOrQuit("Resize") /\ UNCHANGED <<frames, last_frame>>
    BY <1>5 DEF main_loop_resize
  <2> QED BY <2>1, <2>2, SendStep
<1>6. CASE main_recv
  BY <1>6, RecvStep
<1>7. CASE main_send_runtime
  BY <1>7, CountsSame, QuietStep DEF main_send_runtime, OtherThread
<1>8. CASE main_close
  BY <1>8, CountsSame, QuietStep DEF main_close, OtherThread
<1>9. CASE main_join_timer
  BY <1>9, CountsSame, QuietStep DEF main_join_timer, OtherThread
<1>10. CASE main_join_frame
  <2>1. OtherThread
    BY <1>10, CountsSame DEF main_join_frame, OtherThread
  <2>2. inbox' \in Seq(Message) /\ frames' \in Seq(Nat) /\ last_frame' \in Nat /\ quit' \in BOOLEAN
    BY <1>10 DEF main_join_frame, IInv, ChannelsOK
  <2> QED BY <1>10, <2>1, <2>2, EndingStep DEF main_join_frame
<1>11. CASE main_final_close
  BY <1>11, CountsSame, QuietStep DEF main_final_close, OtherThread
<1>12. CASE main_exit
  BY <1>12, CountsSame, QuietStep DEF main_exit, OtherThread
<1> QED BY <1>1, <1>2, <1>3, <1>4, <1>5, <1>6, <1>7, <1>8, <1>9, <1>10, <1>11, <1>12 DEF Main

(* The viewer's other threads, the user and the terminal.                  *)
LEMMA OthersStep ==
    ASSUME IInv, FrameThread \/ timer_send \/ Environment
    PROVE  IInv'
<1> USE DEF ui
<1>1. CASE frame_top
  <2>1. OtherThread
    BY <1>1, CountsSame DEF frame_top, OtherThread, ViewerOver
  <2>2. CASE quit
    BY <1>1, <2>1, <2>2, EndingStep DEF frame_top, IInv, ChannelsOK
  <2>3. CASE ~quit
    BY <1>1, <2>1, <2>3, QuietStep DEF frame_top
  <2> QED BY <2>2, <2>3
<1>2. CASE frame_recv
  <2>1. OtherThread
    BY <1>2, CountsSame DEF frame_recv, OtherThread, ViewerOver
  <2>2. inbox \in Seq(Message) /\ frames \in Seq(Nat) /\ quit \in BOOLEAN /\ quit' = quit
        /\ last_frame' = last_frame
    BY <1>2 DEF frame_recv, IInv, ChannelsOK
  <2>3. CASE /\ frames # << >> /\ ~ViewerOver /\ frames' = Tail(frames)
             /\ inbox' = Append(inbox, Frame(Head(frames)))
    <3>1. Head(frames) \in Nat /\ Tail(frames) \in Seq(Nat)
      BY <2>2, <2>3, TailFacts
    <3>2. Append(inbox, Frame(Head(frames))) \in Seq(Message)
      BY <2>2, <3>1, MessageFacts, AppendFacts
    <3>3. ChannelsOK'
      BY <2>1, <2>2, <2>3, <3>1, <3>2 DEF IInv, ChannelsOK, OtherThread
    <3>4. passed_on' = passed_on + 1 /\ passed_on \in Int /\ last_frame \in Nat
      <4>1. sent' = sent
        BY <2>1 DEF sent, OtherThread
      <4>2. Len(frames') = Len(frames) - 1 /\ Len(frames) \in Nat
        BY <2>2, <2>3, TailFacts
      <4> QED BY <4>1, <4>2, SentFacts DEF passed_on
    <3>5. ASSUME ~quit', ~ViewerOver'
          PROVE  /\ InOrder(inbox', last_frame', passed_on')
                 /\ \A i \in DOMAIN frames' : frames'[i] = passed_on' + i
      <4>1. ~quit /\ ~ViewerOver
        BY <2>1, <2>2, <3>5 DEF OtherThread
      <4>2. /\ InOrder(inbox, last_frame, passed_on)
            /\ \A i \in DOMAIN frames : frames[i] = passed_on + i
        BY <4>1, OrderDef DEF IInv
      <4>3. Head(frames) = passed_on + 1
        BY <2>2, <2>3, <4>2, TailFacts
      <4>4. InOrder(inbox', last_frame', passed_on')
        BY <2>2, <2>3, <3>4, <4>2, <4>3, AddFrame
      <4>5. ASSUME NEW i \in DOMAIN Tail(frames)
            PROVE  Tail(frames)[i] = (passed_on + 1) + i
        <5>1. i + 1 \in DOMAIN frames /\ Tail(frames)[i] = frames[i + 1] /\ i \in Nat
          BY <2>2, <2>3, TailFacts
        <5>2. frames[i + 1] = passed_on + (i + 1)
          BY <4>2, <5>1
        <5> QED BY <3>4, <5>1, <5>2
      <4> QED BY <2>3, <3>4, <4>4, <4>5
    <3>6. FramesInOrder'
      BY <3>5 DEF FramesInOrder, InOrder, ArrivedIn, Arrived
    <3> QED BY <2>1, <3>3, <3>6, OtherThreadStep DEF IInv
  <2>4. CASE inbox' = inbox /\ frames' = << >> /\ IF frames = << >> THEN PageOver ELSE ViewerOver
    <3>1. CASE frames = << >>
      BY <2>1, <2>2, <2>4, <3>1, QuietStep
    <3>2. CASE ViewerOver
      BY <2>1, <2>2, <2>4, <3>2, EndingStep DEF IInv, ChannelsOK, OtherThread
    <3> QED BY <2>4, <3>1, <3>2
  <2> QED BY <1>2, <2>3, <2>4 DEF frame_recv
<1>3. CASE timer_send
  <2>1. OtherThread
    BY <1>3, CountsSame, CountFacts DEF timer_send, OtherThread, ViewerOver
  <2> QED BY <1>3, <2>1, QuietStep DEF timer_send
<1>4. CASE keyboard_read
  <2>1. OtherThread
    BY <1>4, CountFacts DEF keyboard_read, OtherThread, ViewerOver
  <2>2. UNCHANGED <<frames, quit, last_frame>>
    BY <1>4 DEF keyboard_read
  <2>3. CASE inbox' = inbox
    BY <2>1, <2>2, <2>3, QuietStep
  <2>4. ASSUME NEW key \in Keys, inbox' = Append(inbox, Stdin(key)) PROVE IInv'
    <3>1. inbox \in Seq(Message) /\ Stdin(key) \in Message /\ Stdin(key).kind # "Frame"
      BY MessageFacts DEF IInv, ChannelsOK
    <3>2. ~quit /\ ~ViewerOver => InOrder(inbox, last_frame, passed_on)
      BY OrderDef DEF IInv
    <3>3. ~quit /\ ~ViewerOver => InOrder(inbox', last_frame, passed_on)
      BY <2>4, <3>1, <3>2, AddOther
    <3>4. inbox' \in Seq(Message)
      BY <2>4, <3>1, AppendFacts
    <3> QED BY <2>1, <2>2, <3>3, <3>4, SentFacts, InboxStep
  <2> QED BY <1>4, <2>3, <2>4 DEF keyboard_read
<1>5. CASE keyboard_check
  BY <1>5, CountsSame, QuietStep DEF keyboard_check, OtherThread, ViewerOver
<1>6. CASE Resize
  <2>1. OtherThread
    BY <1>6, CountFacts DEF Resize, OtherThread, ViewerOver
  <2> QED BY <1>6, <2>1, QuietStep DEF Resize
<1>7. CASE main_error
  <2>1. OtherThread
    BY <1>7, CountFacts DEF main_error, OtherThread, ViewerOver
  <2>2. inbox' \in Seq(Message) /\ frames' \in Seq(Nat) /\ last_frame' \in Nat /\ quit' \in BOOLEAN
    BY <1>7 DEF main_error, IInv, ChannelsOK
  <2> QED BY <1>7, <2>1, <2>2, EndingStep DEF main_error, ViewerOver
<1> QED BY <1>1, <1>2, <1>3, <1>4, <1>5, <1>6, <1>7 DEF FrameThread, Environment

(* The thread that runs the page.                                          *)
LEMMA RenderStep == ASSUME IInv, Render PROVE IInv'
<1> USE DEF ui
<1>1. /\ UNCHANGED <<page, main, frame_thread, inbox, quit, last_frame>>
      /\ ~PageOver
  BY DEF Render, render_init, render_recv, render_send_frame, render_commit, PageOver
<1>2. (ViewerOver' <=> ViewerOver) /\ ExitAfterPage'
  BY <1>1 DEF IInv, ViewerOver, ExitAfterPage
<1>3. FrameThreadNeeded'
  BY <1>1, <1>2 DEF IInv, FrameThreadNeeded
<1>4. /\ inbox \in Seq(Message) /\ frames \in Seq(Nat) /\ last_frame \in Nat /\ made \in Nat
      /\ quit \in BOOLEAN
  BY DEF IInv, ChannelsOK
<1>5. NoneMadeYet'
  BY DEF Render, render_init, render_recv, render_send_frame, render_commit, render_next,
         NoneMadeYet
<1>6. /\ counts' \in [{"key", "resize", "tick", "failure"} -> Nat] /\ made' \in Nat
      /\ AbortedOnError'
  <2>1. counts' = counts \/ Count("failure", MaxFailures)
    BY DEF Render, render_init, render_recv, render_send_frame, render_commit
  <2>2. made' \in Nat
    BY <1>4 DEF Render, render_init, render_recv, render_send_frame, render_commit
  <2>3. CASE Count("failure", MaxFailures)
    BY <2>2, <2>3, CountFacts DEF AbortedOnError
  <2>4. CASE counts' = counts
    <3>1. \/ render' # "aborted"
          \/ ~page.loads \/ find_event_loop_function(page) = "Err"
          \/ Count("failure", MaxFailures)
      BY DEF Render, render_init, render_recv, render_send_frame, render_commit, render_next
    <3>2. find_event_loop_function(page') = find_event_loop_function(page)
      BY <1>1
    <3> QED BY <1>1, <2>2, <2>3, <2>4, <3>1, <3>2, CountsSame DEF AbortedOnError
  <2> QED BY <2>1, <2>3, <2>4
<1>7. CASE frames' = frames /\ sent' = sent
  <2>1. passed_on' = passed_on
    BY <1>7 DEF passed_on
  <2>2. FramesInOrder'
    BY <1>1, <1>2, <1>7, <2>1 DEF IInv, FramesInOrder, Arrived
  <2> QED BY <1>1, <1>2, <1>3, <1>4, <1>5, <1>6, <1>7, <2>2 DEF IInv, ChannelsOK
<1>8. CASE render = "send_frame" /\ frame_thread = "done" /\ frames' = frames
  <2>1. quit \/ ViewerOver
    BY <1>1, <1>8 DEF IInv, FrameThreadNeeded
  <2>2. FramesInOrder'
    BY <1>1, <1>2, <2>1 DEF FramesInOrder
  <2> QED BY <1>1, <1>2, <1>3, <1>4, <1>5, <1>6, <1>8, <2>2 DEF IInv, ChannelsOK
<1>9. CASE /\ render = "send_frame" /\ render' # "send_frame" /\ made' = made
           /\ frames' = Append(frames, made)
  <2>1. frames' \in Seq(Nat) /\ Len(frames') = Len(frames) + 1
    BY <1>4, <1>9, AppendFacts
  <2>2. sent = made - 1 /\ sent' = made /\ passed_on' = passed_on /\ passed_on = made - 1 - Len(frames)
    BY <1>4, <1>9, <2>1 DEF sent, passed_on
  <2>3. ASSUME ~quit', ~ViewerOver'
        PROVE  /\ InOrder(inbox', last_frame', passed_on')
               /\ \A i \in DOMAIN frames' : frames'[i] = passed_on' + i
    <3>1. /\ InOrder(inbox, last_frame, passed_on)
          /\ \A i \in DOMAIN frames : frames[i] = passed_on + i
      BY <1>1, <1>2, <2>3, OrderDef DEF IInv
    <3>2. made = passed_on + (Len(frames) + 1)
      BY <1>4, <2>2
    <3>3. /\ DOMAIN frames' = DOMAIN frames \cup {Len(frames) + 1}
          /\ \A i \in DOMAIN frames : frames'[i] = frames[i]
          /\ frames'[Len(frames) + 1] = made
      BY <1>4, <1>9, AppendFacts
    <3> QED BY <1>1, <2>2, <3>1, <3>2, <3>3
  <2>4. FramesInOrder'
    BY <2>3 DEF FramesInOrder, InOrder, ArrivedIn, Arrived
  <2> QED BY <1>1, <1>2, <1>3, <1>4, <1>5, <1>6, <2>1, <2>4 DEF IInv, ChannelsOK
<1> QED
  <2>1. CASE render_init
    <3>1. made = 0 /\ sent' = sent
      BY <1>4, <2>1 DEF IInv, NoneMadeYet, render_init, sent
    <3> QED BY <1>7, <2>1, <3>1 DEF render_init
  <2>2. CASE render_recv
    <3>1. sent' = sent
      BY <1>4, <2>2 DEF render_recv, render_next, sent
    <3> QED BY <1>7, <2>2, <3>1 DEF render_recv
  <2>3. CASE render_send_frame
    BY <1>8, <1>9, <2>3 DEF render_send_frame, render_next
  <2>4. CASE render_commit
    <3>1. sent' = sent
      BY <2>4 DEF render_commit, sent
    <3> QED BY <1>7, <2>4, <3>1 DEF render_commit
  <2> QED BY <2>1, <2>2, <2>3, <2>4 DEF Render

-----------------------------------------------------------------------------
LEMMA InitInv == Init => IInv
<1> SUFFICES ASSUME Init PROVE IInv
  OBVIOUS
<1>1. ChannelsOK
  <2>1. inbox \in Seq(Message) /\ frames \in Seq(Nat)
    BY DEF Init
  <2>2. counts \in [{"key", "resize", "tick", "failure"} -> Nat]
    BY DEF Init
  <2>3. last_frame \in Nat /\ made \in Nat /\ quit \in BOOLEAN
    BY DEF Init
  <2> QED BY <2>1, <2>2, <2>3 DEF ChannelsOK
<1>2. NoneMadeYet /\ FrameThreadNeeded /\ AbortedOnError /\ ExitAfterPage
  BY DEF Init, NoneMadeYet, FrameThreadNeeded, AbortedOnError, ExitAfterPage
<1>3. FramesInOrder
  <2>1. sent = 0 /\ passed_on = 0 /\ Arrived = {} /\ DOMAIN frames = {} /\ last_frame = 0
    <3>1. inbox = << >> /\ frames = << >> /\ last_frame = 0 /\ made = 0 /\ render = "init"
      BY DEF Init
    <3>2. DOMAIN inbox = {} /\ DOMAIN frames = {} /\ Len(frames) = 0
      BY <3>1
    <3>3. Arrived = {}
      BY <3>2 DEF Arrived
    <3>4. sent = 0
      BY <3>1 DEF sent
    <3>5. passed_on = 0
      BY <3>2, <3>4 DEF passed_on
    <3> QED BY <3>1, <3>2, <3>3, <3>4, <3>5
  <2> QED BY <2>1 DEF FramesInOrder
<1> QED BY <1>1, <1>2, <1>3 DEF IInv

LEMMA StepInv == IInv /\ [Next]_vars => IInv'
<1> SUFFICES ASSUME IInv, [Next]_vars PROVE IInv'
  OBVIOUS
<1>1. CASE UNCHANGED vars
  BY <1>1, CountsSame, QuietStep DEF vars, ui, OtherThread, ViewerOver
<1>2. CASE Next
  BY <1>2, MainStep, RenderStep, OthersStep DEF Next
<1> QED BY <1>1, <1>2

LEMMA Invariance == Spec => []IInv
<1> QED BY InitInv, StepInv, PTL DEF Spec

(* For every page, channel capacity and schedule of the threads: until the *)
(* viewer quits, every frame run_page sends is shown once and in order.    *)
THEOREM SpecFramesInOrder == Spec => []FramesInOrder
<1>1. IInv => FramesInOrder
  BY DEF IInv
<1> QED BY <1>1, Invariance, PTL

(* For every page and schedule, whoever asks for the exit: the process     *)
(* ends only after run_page, which saved the page unless it met an error.  *)
THEOREM SpecSavedOnExit == Spec => []SavedOnExit
<1>1. IInv => SavedOnExit
  BY DEF IInv, ChannelsOK, ExitAfterPage, AbortedOnError, PageOver, SavedOnExit
<1> QED BY <1>1, Invariance, PTL
=============================================================================

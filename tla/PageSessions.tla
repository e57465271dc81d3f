---------------------------- MODULE PageSessions ----------------------------
(***************************************************************************)
(* The wrbpod sessions and large strings of a page: the native handlers    *)
(* behind the contract wrb-ll (vm/special.rs), the process-wide tables     *)
(* they use (core/globals.rs), and wrb-ll's own maps and variables         *)
(* (vm/contracts/wrb-ll.clar), which live in the page's database.          *)
(*                                                                         *)
(* The two halves have different lives.  A page's changes to wrb-ll are    *)
(* undone when its event handler returns an error or fails, and are kept   *)
(* across processes once run_page commits; the tables of the process are   *)
(* never undone and are gone when it exits.  The handlers run after the    *)
(* wrb-ll function they intercept, whatever that function returned.        *)
(*                                                                         *)
(* The calls of Wrbpod itself are module Wrbpod; here they return any of   *)
(* their results.  An answer is Ok or Err with a number: a Boolean is 0 or *)
(* 1, a session its ID, and an error its WRB_ERR code.                     *)
(***************************************************************************)
EXTENDS Naturals

CONSTANTS Addr,        \* wrbpod addresses a page or a command opens
          BigAddr,     \* addresses whose slot does not fit 32 bits
          NoAddr,
          AppSlot,     \* app slot numbers
          BigSlot,     \* an app slot number, or a count, beyond 32 bits
          SliceId,
          Handle,      \* handles of large strings
          Text, NoText,
          Version,     \* versions of the page's code
          MaxSessions, \* bound: sessions opened in one process
          MaxCalls,    \* bound: calls the pages make in all
          MaxRuns      \* bound: processes started

ASSUME PageSessionsAssumption ==
    /\ NoAddr \notin Addr \cup BigAddr /\ Addr \cap BigAddr = {}
    /\ NoText \notin Text
    /\ BigSlot \notin AppSlot \cup {1}
    /\ Version \subseteq Nat \ {0}
    /\ MaxSessions \in Nat \ {0} /\ MaxCalls \in Nat /\ MaxRuns \in Nat

VARIABLES proc,      \* what runs: "none", "idle" or "pass" of a page, "command"
          version,   \* the version of the code that runs
          page,      \* wrb-ll's state in the page's transaction
          mark,      \* wrb-ll's state when the current pass began
          committed, \* wrb-ll's state in the database file
          globals,   \* the tables of the process (struct Globals)
          call,      \* what the last call was asked, answered and really did
          undone,    \* history: sessions and handles whose record was undone
          ncalls, nruns

vars == <<proc, version, page, mark, committed, globals, call, undone, ncalls, nruns>>

-----------------------------------------------------------------------------
Sid == 0..(MaxSessions - 1)
NoSid == MaxSessions

Ok(v) == [ok |-> TRUE, val |-> v]
Err(code) == [ok |-> FALSE, val |-> code]

WRB_ERR_INVALID == 1
WRB_ERR_WRBPOD_NOT_OPEN == 1000
WRB_ERR_WRBPOD_NO_SLOT == 1001
WRB_ERR_WRBPOD_NO_SLICE == 1002
WRB_ERR_WRBPOD_OPEN_FAILURE == 1003
WRB_ERR_WRBPOD_SLOT_ALLOC_FAILURE == 1004
WRB_ERR_WRBPOD_FETCH_SLOT_FAILURE == 1005
WRB_ERR_WRBPOD_PUT_SLICE_FAILURE == 1006
WRB_ERR_WRBPOD_SYNC_SLOT_FAILURE == 1007
WRB_ERR_READONLY_FAILURE == 2000
WRB_ERR_BUFF_TO_UTF8_FAILURE == 3000
WRB_ERR_STRING_ASCII_TO_STRING_UTF8_FAILURE == 4000

(***************************************************************************)
(* wrb-ll's state: the map wrb-ll-wrbpod-sessions (whether a session is    *)
(* owned follows from its address), the persisted large strings, the code  *)
(* hash, here the version it was computed from, and the results of the     *)
(* last calls, by the variable or the map entry that holds them.           *)
(***************************************************************************)
NewPage(v) == [sessions |-> [s \in Sid |-> NoAddr],
               large |-> [h \in Handle |-> NoText],
               loaded |-> NoText,
               code_hash |-> v,
               results |-> <<>>]

(* What a getter of wrb-ll returns before any result was set.              *)
DefaultResult(fn) ==
    CASE fn = "open" -> Err(WRB_ERR_WRBPOD_NOT_OPEN)
      [] fn = "fetch" -> Err(WRB_ERR_WRBPOD_NO_SLOT)
      [] fn \in {"get_slice", "put_slice"} -> Err(WRB_ERR_WRBPOD_NO_SLICE)
      [] fn = "sync" -> Ok(1)
      [] OTHER -> Ok(0)

LastResult(p, key) ==
    IF key \in DOMAIN p.results THEN p.results[key] ELSE DefaultResult(key[1])

(* struct Globals: sessions, IDs by address, next ID, cached strings.      *)
NewGlobals == [sessions |-> [s \in Sid |-> NoAddr],
               ids |-> [a \in Addr |-> NoSid],
               next |-> 0,
               large |-> [h \in Handle |-> NoText]]

NoCall == [fn |-> "none", asked |-> NoAddr, sid |-> NoSid, answer |-> Ok(0),
           touched |-> NoAddr]
NoneUndone == [sessions |-> {}, handles |-> {}]

Init ==
    /\ proc = "none"
    /\ version = 0
    /\ page = NewPage(0)
    /\ mark = NewPage(0)
    /\ committed = NewPage(0)
    /\ globals = NewGlobals
    /\ call = NoCall
    /\ undone = NoneUndone
    /\ ncalls = 0
    /\ nruns = 0

-----------------------------------------------------------------------------
(* The functions of wrb-ll.                                                *)

(***************************************************************************)
(* Clarity keeps the changes of a function called as a transaction only    *)
(* when its response is ok; the handlers' execute_contract_allow_private   *)
(* is such a call.                                                         *)
(***************************************************************************)
handle_tx_result(before, after, res) == IF res.ok THEN after ELSE before

(* var-set and map-set on the results.                                     *)
map_set(map, key, val) ==
    [k \in DOMAIN map \cup {key} |-> IF k = key THEN val ELSE map[k]]

(* The private setters wrap what they do in (ok ...).                      *)
set_last(p, key, res) ==
    handle_tx_result(p, [p EXCEPT !.results = map_set(@, key, res)], Ok(1))

(* Variant with a bug: the session is not entered in wrb-ll's map.         *)
finish_wrbpod_open_NoMap(p, addr, sid, res) ==
    handle_tx_result(p, [p EXCEPT !.results = map_set(@, <<"open">>, Ok(sid))], res)

(* Variant with a bug: map-insert, which keeps an entry that is there.     *)
finish_wrbpod_open_Insert(p, addr, sid, res) ==
    handle_tx_result(p,
        IF res.ok
        THEN [p EXCEPT !.results = map_set(@, <<"open">>, Ok(sid)),
                       !.sessions[sid] = IF @ = NoAddr THEN addr ELSE @]
        ELSE [p EXCEPT !.results = map_set(@, <<"open">>, res)],
        res)

(* wrb-ll-finish-wrbpod-open returns the result it was given.              *)
finish_wrbpod_open(p, addr, sid, res) ==
    handle_tx_result(p,
        IF res.ok
        THEN [p EXCEPT !.results = map_set(@, <<"open">>, Ok(sid)), !.sessions[sid] = addr]
        ELSE [p EXCEPT !.results = map_set(@, <<"open">>, res)],
        res)

(* The asserts! of the public functions, before their handler runs.        *)
HasSession(sid) ==
    IF page.sessions[sid] # NoAddr THEN Ok(0) ELSE Err(WRB_ERR_WRBPOD_NOT_OPEN)

HasSlot(sid, slot) ==
    IF ~HasSession(sid).ok THEN HasSession(sid)
    ELSE LastResult(page, <<"fetch", sid, slot>>)

-----------------------------------------------------------------------------
(* Calls of wrb.clar: the wrb-ll function, its handler, and the getter.    *)

Calling ==
    /\ proc = "pass"
    /\ ncalls < MaxCalls
    /\ ncalls' = ncalls + 1
    /\ UNCHANGED <<proc, version, mark, committed, nruns>>

(* try! returns the function's error; otherwise the getter reads the       *)
(* result from the page p the handler left.                                *)
Answer(guard, p, key) == IF guard.ok THEN LastResult(p, key) ELSE guard

(***************************************************************************)
(* A call that takes a session: the handler finds no such session, refuses *)
(* an argument beyond 32 bits (big), or gets one of the results in natives *)
(* from the Wrbpod; it records its result under key in every case.         *)
(***************************************************************************)
Handled(fn, sid, key, guard, big, no_session, natives) ==
    LET live == globals.sessions[sid]
        outcomes == IF big THEN {Err(WRB_ERR_INVALID)}
                    ELSE IF live = NoAddr THEN {Err(no_session)} ELSE natives
    IN  /\ Calling
        /\ \E res \in outcomes :
              /\ page' = set_last(page, key, res)
              /\ call' = [NoCall EXCEPT
                            !.fn = fn, !.sid = sid,
                            !.answer = Answer(guard, page', key),
                            !.touched = IF big THEN NoAddr ELSE live]
        /\ UNCHANGED <<globals, undone>>

wrbpod_get_num_slots(sid) ==
    Handled("num_slots", sid, <<"num_slots">>, HasSession(sid), FALSE,
            WRB_ERR_WRBPOD_NOT_OPEN, {Ok(0), Ok(1)})

(* Variant with a bug: a failed allocation is not recorded.                *)
wrbpod_alloc_slots_Keeps(sid, n) ==
    IF n = BigSlot
    THEN /\ Calling
         /\ call' = [NoCall EXCEPT !.fn = "alloc", !.sid = sid,
                       !.answer = Answer(HasSession(sid), page, <<"alloc">>)]
         /\ UNCHANGED <<page, globals, undone>>
    ELSE Handled("alloc", sid, <<"alloc">>, HasSession(sid), FALSE,
                 WRB_ERR_WRBPOD_SLOT_ALLOC_FAILURE,
                 {Ok(0), Ok(1), Err(WRB_ERR_WRBPOD_SLOT_ALLOC_FAILURE)})

wrbpod_alloc_slots(sid, n) ==
    Handled("alloc", sid, <<"alloc">>, HasSession(sid), n = BigSlot,
            WRB_ERR_WRBPOD_SLOT_ALLOC_FAILURE,
            {Ok(0), Ok(1), Err(WRB_ERR_WRBPOD_SLOT_ALLOC_FAILURE)})

(* A slot that was never written is an ok answer of version 0.             *)
wrbpod_fetch_slot(sid, slot) ==
    Handled("fetch", sid, <<"fetch", sid, slot>>, HasSession(sid), slot = BigSlot,
            WRB_ERR_WRBPOD_FETCH_SLOT_FAILURE,
            {Ok(0), Ok(1), Err(WRB_ERR_WRBPOD_FETCH_SLOT_FAILURE)})

wrbpod_get_slice(sid, slot, slice) ==
    Handled("get_slice", sid, <<"get_slice", sid, slot, slice>>, HasSlot(sid, slot),
            slot = BigSlot, WRB_ERR_WRBPOD_NO_SLICE,
            {Ok(1), Err(WRB_ERR_WRBPOD_NO_SLICE)})

(* The one function without asserts!.                                      *)
wrbpod_put_slice(sid, slot, slice) ==
    Handled("put_slice", sid, <<"put_slice", sid, slot, slice>>, Ok(1),
            slot = BigSlot, WRB_ERR_WRBPOD_PUT_SLICE_FAILURE, {Ok(0), Ok(1)})

wrbpod_sync_slot(sid, slot) ==
    Handled("sync", sid, <<"sync", sid, slot>>, HasSlot(sid, slot),
            slot = BigSlot, WRB_ERR_WRBPOD_SYNC_SLOT_FAILURE,
            {Ok(1), Err(WRB_ERR_WRBPOD_SYNC_SLOT_FAILURE)})

(* The answer to an open of addr: the last open result, from the new page. *)
AnswerOpen(addr) ==
    call' = [NoCall EXCEPT !.fn = "open", !.asked = addr,
                           !.answer = LastResult(page', <<"open">>)]

(* handle_wrbpod_open when the superblock's slot is beyond 32 bits ...     *)
wrbpod_open_invalid(addr) ==
    /\ Calling
    /\ page' = finish_wrbpod_open(page, addr, 0, Err(WRB_ERR_WRBPOD_OPEN_FAILURE))
    /\ AnswerOpen(addr)
    /\ UNCHANGED <<globals, undone>>

(* ... and when a StackerDB client cannot be made or Wrbpod::open fails.   *)
wrbpod_open_fails(addr) ==
    /\ Calling
    /\ globals.ids[addr] = NoSid
    /\ page' = finish_wrbpod_open(page, addr, 0, Err(WRB_ERR_WRBPOD_OPEN_FAILURE))
    /\ AnswerOpen(addr)
    /\ UNCHANGED <<globals, undone>>

(* handle_wrbpod_open of a wrbpod that is open already.                    *)
wrbpod_open_again(addr) ==
    /\ Calling
    /\ globals.ids[addr] # NoSid
    /\ page' = finish_wrbpod_open(page, addr, globals.ids[addr], Ok(1))
    /\ AnswerOpen(addr)
    /\ undone' = [undone EXCEPT !.sessions = @ \ {globals.ids[addr]}]
    /\ UNCHANGED globals

next_wrbpod_session_id(g) == [g EXCEPT !.next = @ + 1]

(* Variant with a bug: the session's address is not remembered.            *)
add_wrbpod_session_NoId(g, sid, addr) == [g EXCEPT !.sessions[sid] = addr]

add_wrbpod_session(g, sid, addr) ==
    [g EXCEPT !.sessions[sid] = addr, !.ids[addr] = sid]

(* handle_wrbpod_open when Wrbpod::open succeeds.                          *)
wrbpod_open_new(addr) ==
    LET sid == globals.next
    IN  /\ Calling
        /\ globals.ids[addr] = NoSid
        /\ sid \in Sid
        /\ page' = finish_wrbpod_open(page, addr, sid, Ok(1))
        /\ globals' = add_wrbpod_session(next_wrbpod_session_id(globals), sid, addr)
        /\ AnswerOpen(addr)
        /\ undone' = [undone EXCEPT !.sessions = @ \ {sid}]

(* Variant with a bug: the string is kept in the cache only.               *)
store_large_string_utf8_CacheOnly(h, t) ==
    /\ Calling
    /\ globals' = [globals EXCEPT !.large[h] = t]
    /\ call' = [NoCall EXCEPT !.fn = "store"]
    /\ UNCHANGED <<page, undone>>

(* wrb-ll's map and the cache of the process are both written.             *)
store_large_string_utf8(h, t) ==
    /\ Calling
    /\ page' = [page EXCEPT !.large[h] = t]
    /\ globals' = [globals EXCEPT !.large[h] = t]
    /\ undone' = [undone EXCEPT !.handles = @ \ {h}]
    /\ call' = [NoCall EXCEPT !.fn = "store"]

(* A hit answers from the cache; a miss reads the map and fills the cache. *)
load_large_string_utf8(h) ==
    LET hit == globals.large[h] # NoText
        text == IF hit THEN globals.large[h] ELSE page.large[h]
    IN  /\ Calling
        /\ page' = [page EXCEPT !.loaded = text]
        /\ globals' = [globals EXCEPT !.large[h] = text]
        /\ call' = [NoCall EXCEPT !.fn = "load"]
        /\ UNCHANGED undone

(* The conversions and the read-only call: they record what they computed. *)
Converted(fn, code) ==
    /\ Calling
    /\ \E res \in {Ok(1), Err(code)} :
          /\ page' = set_last(page, <<fn>>, res)
          /\ call' = [NoCall EXCEPT !.fn = fn, !.answer = LastResult(page', <<fn>>)]
    /\ UNCHANGED <<globals, undone>>

wrb_call_readonly == Converted("readonly", WRB_ERR_READONLY_FAILURE)
buff_to_string_utf8 == Converted("buff", WRB_ERR_BUFF_TO_UTF8_FAILURE)
string_ascii_to_string_utf8 ==
    Converted("ascii", WRB_ERR_STRING_ASCII_TO_STRING_UTF8_FAILURE)

(* The configured wrbpod's address.                                        *)
wrbpod_default ==
    /\ Calling
    /\ page' = set_last(page, <<"default">>, Ok(1))
    /\ call' = [NoCall EXCEPT !.fn = "default"]
    /\ UNCHANGED <<globals, undone>>

-----------------------------------------------------------------------------
(* The life of a page.                                                     *)

(* main.rs and initialize_app: a process starts with empty tables, and     *)
(* wrb-ll is deployed, and told the code hash, only when it is missing.    *)
Start(v) ==
    /\ proc = "none"
    /\ nruns < MaxRuns
    /\ nruns' = nruns + 1
    /\ proc' = "idle"
    /\ version' = v
    /\ page' = IF committed.code_hash = 0 THEN NewPage(v) ELSE committed
    /\ mark' = page'
    /\ committed' = page'
    /\ globals' = NewGlobals
    /\ call' = NoCall
    /\ undone' = NoneUndone
    /\ UNCHANGED ncalls

(* An event reaches the page's event loop function.                        *)
EventPass ==
    /\ proc = "idle"
    /\ proc' = "pass"
    /\ mark' = page
    /\ call' = NoCall
    /\ UNCHANGED <<version, page, committed, globals, undone, ncalls, nruns>>

(* run_one_event_loop_pass returns Ok: the function's response was ok ...  *)
PassOk ==
    /\ proc = "pass"
    /\ proc' = "idle"
    /\ call' = NoCall
    /\ UNCHANGED <<version, page, mark, committed, globals, undone, ncalls, nruns>>

(* ... or err, and Clarity undoes what the function did to the page.       *)
PassErr ==
    /\ proc = "pass"
    /\ proc' = "idle"
    /\ page' = mark
    /\ undone' = [sessions |-> undone.sessions
                                 \cup {s \in Sid : page.sessions[s] # mark.sessions[s]},
                  handles |-> undone.handles
                                 \cup {h \in Handle : page.large[h] # mark.large[h]}]
    /\ call' = NoCall
    /\ UNCHANGED <<version, mark, committed, globals, ncalls, nruns>>

(* The process and its tables are gone.                                    *)
Exit(saved) ==
    /\ proc' = "none"
    /\ committed' = saved
    /\ page' = saved
    /\ mark' = saved
    /\ globals' = NewGlobals
    /\ call' = NoCall
    /\ undone' = NoneUndone
    /\ UNCHANGED <<version, ncalls, nruns>>

(* The event loop ends and run_page commits what the passes before left;   *)
(* a failed pass (a runtime error, or a handler's Err, as for an open of a *)
(* principal that is no contract) ends it as well.                         *)
Close == proc = "idle" /\ Exit(page)
PassFails == proc = "pass" /\ Exit(mark)

(* The process is killed, or a handler panics.                             *)
Crash == proc \in {"idle", "pass"} /\ Exit(committed)

-----------------------------------------------------------------------------
(* The wrbpod commands of the command line (cli/wrbpod.rs).                *)

(* A command is a process of its own and has no page.                      *)
StartCommand ==
    /\ proc = "none"
    /\ nruns < MaxRuns
    /\ nruns' = nruns + 1
    /\ proc' = "command"
    /\ UNCHANGED <<version, page, mark, committed, globals, call, undone, ncalls>>

(* wrbpod_open_session and wrbpod_format_session; a command calls one of   *)
(* them, once.                                                             *)
CommandSession(addr) ==
    /\ proc = "command"
    /\ globals.next = 0
    /\ globals.ids[addr] = NoSid
    /\ \/ /\ globals' = add_wrbpod_session(next_wrbpod_session_id(globals),
                                           globals.next, addr)
          /\ call' = [NoCall EXCEPT !.fn = "session", !.asked = addr]
          /\ UNCHANGED <<proc, version, page, mark, committed, undone, ncalls, nruns>>
       \/ Exit(committed)

(* get_wrbpod_session_by_address                                           *)
session_by_address(addr) == globals.sessions[globals.ids[addr]]

(* One call on the session, and the command is over.                       *)
CommandCall(fn, addr) ==
    /\ proc = "command"
    /\ globals.ids[addr] # NoSid
    /\ proc' = "none"
    /\ call' = [NoCall EXCEPT !.fn = fn, !.asked = addr,
                              !.touched = session_by_address(addr)]
    /\ globals' = NewGlobals
    /\ UNCHANGED <<version, page, mark, committed, undone, ncalls, nruns>>

command_format(addr) == CommandCall("format", addr)
command_get_superblock(addr) == CommandCall("get-superblock", addr)
command_alloc_slots(addr) == CommandCall("alloc-slots", addr)
command_put_slot(addr) == CommandCall("put-slot", addr)
command_clear_slot(addr) == CommandCall("clear-slot", addr)
command_get_chunk(addr) == CommandCall("get-chunk", addr)
command_get_slot(addr) == CommandCall("get-slot", addr)
command_get_slice(addr) == CommandCall("get-slice", addr)
command_put_slice(addr) == CommandCall("put-slice", addr)

-----------------------------------------------------------------------------
Next ==
    \/ \E v \in Version : Start(v)
    \/ EventPass \/ PassOk \/ PassErr \/ Close \/ PassFails \/ Crash
    \/ StartCommand
    \/ \E addr \in Addr :
          \/ CommandSession(addr)
          \/ command_format(addr) \/ command_get_superblock(addr) \/ command_alloc_slots(addr)
          \/ command_put_slot(addr) \/ command_clear_slot(addr) \/ command_get_chunk(addr)
          \/ command_get_slot(addr) \/ command_get_slice(addr) \/ command_put_slice(addr)
    \/ \E addr \in BigAddr : wrbpod_open_invalid(addr)
    \/ \E addr \in Addr : wrbpod_open_fails(addr) \/ wrbpod_open_again(addr) \/ wrbpod_open_new(addr)
    \/ \E sid \in Sid : wrbpod_get_num_slots(sid)
    \/ \E sid \in Sid, n \in {1, BigSlot} : wrbpod_alloc_slots(sid, n)
    \/ \E sid \in Sid, slot \in AppSlot \cup {BigSlot} :
          wrbpod_fetch_slot(sid, slot) \/ wrbpod_sync_slot(sid, slot)
    \/ \E sid \in Sid, slot \in AppSlot \cup {BigSlot}, slice \in SliceId :
          wrbpod_get_slice(sid, slot, slice) \/ wrbpod_put_slice(sid, slot, slice)
    \/ \E h \in Handle, t \in Text : store_large_string_utf8(h, t)
    \/ \E h \in Handle : load_large_string_utf8(h)
    \/ wrb_call_readonly \/ buff_to_string_utf8 \/ string_ascii_to_string_utf8
    \/ wrbpod_default

Spec == Init /\ [][Next]_vars

-----------------------------------------------------------------------------
SessionCalls == {"num_slots", "alloc", "fetch", "get_slice", "put_slice", "sync"}

(* Globals keeps one session per wrbpod, found by its address and by its   *)
(* ID alike: two Wrbpod structs on one wrbpod would overwrite each other's *)
(* slots (add_wrbpod_session, and the lookup that starts                   *)
(* handle_wrbpod_open and wrbpod_open_session).                            *)
OneSessionPerWrbpod ==
    /\ \A a \in Addr : globals.ids[a] # NoSid => globals.sessions[globals.ids[a]] = a
    /\ \A s \in Sid : globals.sessions[s] # NoAddr => globals.ids[globals.sessions[s]] = s

(* A session of this process is recorded in wrb-ll under the wrbpod it is  *)
(* on, also when wrb-ll still holds sessions of earlier processes with the *)
(* same IDs, unless the record was undone with the pass that opened it     *)
(* (handle_wrbpod_open, wrb-ll-finish-wrbpod-open).                        *)
RecordsAgree ==
    proc \in {"idle", "pass"} =>
        \A s \in Sid \ undone.sessions :
            globals.sessions[s] # NoAddr => page.sessions[s] = globals.sessions[s]

(* A cached large string is the persisted one, so that a page and a later  *)
(* process that has no cache show the same text, unless the store was      *)
(* undone (handle_store_large_string_utf8, handle_load_large_string_utf8). *)
CacheCoherent ==
    proc \in {"idle", "pass"} =>
        \A h \in Handle \ undone.handles :
            globals.large[h] # NoText => page.large[h] = globals.large[h]

(* An ok answer of a call on a session was computed by this very call, on  *)
(* the wrbpod wrb-ll records for the session: not an earlier call's result *)
(* that the getter still finds (the handlers of vm/special.rs).            *)
AnswersComeFromRecord ==
    (call.fn \in SessionCalls /\ call.answer.ok /\ call.sid \notin undone.sessions)
        => call.touched = page.sessions[call.sid] /\ call.touched # NoAddr

(***************************************************************************)
(* A call on a session runs its handler whatever wrb-ll answered           *)
(* (handle_wrb_contract_call_special_cases ignores the result): a sync or  *)
(* a get refused with NO_SLOT still reaches a wrbpod.  It is the one       *)
(* wrb-ll records for the session and no other, although the handler only  *)
(* looks in the tables of the process; and a page that is told that the    *)
(* session is not open has reached none.                                   *)
(***************************************************************************)
CallsReachRecorded ==
    (call.fn \in SessionCalls /\ call.sid \notin undone.sessions) =>
        /\ call.touched \in {NoAddr, page.sessions[call.sid]}
        /\ call.answer = Err(WRB_ERR_WRBPOD_NOT_OPEN) => call.touched = NoAddr

(* wrbpod-open answers with a session on the wrbpod that was asked for.    *)
OpenAnswersAsked ==
    (call.fn = "open" /\ call.answer.ok)
        => globals.sessions[call.answer.val] = call.asked
=============================================================================

------------------------- MODULE PageSessionsProofs -------------------------
(***************************************************************************)
(* The sessions and large strings of a page, for every number of wrbpods,  *)
(* handles, slots, calls and processes: the tables of the process and the  *)
(* records of wrb-ll agree, and answers come from the session they are     *)
(* about.                                                                  *)
(***************************************************************************)
EXTENDS PageSessions, TLAPS

AddrOrNone == Addr \cup {NoAddr}
TextOrNone == Text \cup {NoText}

(***************************************************************************)
(* A state of wrb-ll.  A fetch never records that the session is not open, *)
(* so that this error always is the answer of an asserts!.                 *)
(***************************************************************************)
PageOK(p) ==
    /\ p = [sessions |-> p.sessions, large |-> p.large, loaded |-> p.loaded,
            code_hash |-> p.code_hash, results |-> p.results]
    /\ p.sessions \in [Sid -> AddrOrNone]
    /\ p.large \in [Handle -> TextOrNone]
    /\ \A sid \in Sid, slot \in AppSlot \cup {BigSlot} :
          LastResult(p, <<"fetch", sid, slot>>) # Err(WRB_ERR_WRBPOD_NOT_OPEN)

PagesOK == PageOK(page) /\ PageOK(mark) /\ PageOK(committed)

GlobalsOK ==
    /\ globals \in [sessions : [Sid -> AddrOrNone], ids : [Addr -> Sid \cup {NoSid}],
                    next : Nat, large : [Handle -> TextOrNone]]
    /\ proc = "none" => globals = NewGlobals

(* The IDs that were not given yet name no session.                        *)
FreshIds == \A s \in Sid : globals.sessions[s] # NoAddr => s < globals.next

UndoneOK == undone = [sessions |-> undone.sessions, handles |-> undone.handles]

IInv == /\ PagesOK /\ GlobalsOK /\ FreshIds /\ UndoneOK
        /\ OneSessionPerWrbpod /\ RecordsAgree /\ CacheCoherent
        /\ AnswersComeFromRecord /\ CallsReachRecorded

-----------------------------------------------------------------------------
(* Facts about the constants and the values the model is built from.       *)

LEMMA SidFacts == 0 \in Sid /\ NoSid \notin Sid /\ NoSid \in Nat /\ Sid \subseteq Nat
BY PageSessionsAssumption DEF Sid, NoSid

LEMMA NewPageOK == ASSUME NEW v PROVE PageOK(NewPage(v))
BY DEF PageOK, NewPage, LastResult, DefaultResult, AddrOrNone, TextOrNone, Err,
       WRB_ERR_WRBPOD_NOT_OPEN, WRB_ERR_WRBPOD_NO_SLOT

LEMMA NewGlobalsOK ==
    /\ NewGlobals \in [sessions : [Sid -> AddrOrNone], ids : [Addr -> Sid \cup {NoSid}],
                       next : Nat, large : [Handle -> TextOrNone]]
    /\ \A s \in Sid : NewGlobals.sessions[s] = NoAddr
    /\ \A a \in Addr : NewGlobals.ids[a] = NoSid
    /\ \A h \in Handle : NewGlobals.large[h] = NoText
BY DEF NewGlobals, AddrOrNone, TextOrNone

(* Recording a result leaves sessions and strings alone; the getter of the *)
(* entry then returns it, and every other getter what it did before.       *)
LEMMA SetLast ==
    ASSUME NEW p, PageOK(p), NEW key, NEW res
    PROVE  /\ set_last(p, key, res).sessions = p.sessions
           /\ set_last(p, key, res).large = p.large
           /\ LastResult(set_last(p, key, res), key) = res
           /\ \A k : k # key => LastResult(set_last(p, key, res), k) = LastResult(p, k)
           /\ set_last(p, key, res)
                = [sessions |-> p.sessions, large |-> p.large, loaded |-> p.loaded,
                   code_hash |-> p.code_hash, results |-> map_set(p.results, key, res)]
<1>1. Ok(1).ok = TRUE
  BY DEF Ok
<1>2. set_last(p, key, res) = [p EXCEPT !.results = map_set(@, key, res)]
  BY <1>1 DEF set_last, handle_tx_result
<1>3. set_last(p, key, res)
        = [sessions |-> p.sessions, large |-> p.large, loaded |-> p.loaded,
           code_hash |-> p.code_hash, results |-> map_set(p.results, key, res)]
  BY <1>2 DEF PageOK
<1> DEFINE r == map_set(p.results, key, res)
<1>4. key \in DOMAIN r /\ r[key] = res
  BY DEF map_set
<1>5. \A k : k # key => (k \in DOMAIN r <=> k \in DOMAIN p.results)
                        /\ (k \in DOMAIN r => r[k] = p.results[k])
  BY DEF map_set
<1> HIDE DEF r
<1> QED BY <1>3, <1>4, <1>5 DEF LastResult, r

IsFetch(key) == \E sid \in Sid, slot \in AppSlot \cup {BigSlot} : key = <<"fetch", sid, slot>>

LEMMA SetLastOK ==
    ASSUME NEW p, PageOK(p), NEW key, NEW res,
           IsFetch(key) => res # Err(WRB_ERR_WRBPOD_NOT_OPEN)
    PROVE  PageOK(set_last(p, key, res))
<1> DEFINE q == set_last(p, key, res)
<1>1. /\ q.sessions \in [Sid -> AddrOrNone] /\ q.large \in [Handle -> TextOrNone]
      /\ q = [sessions |-> q.sessions, large |-> q.large, loaded |-> q.loaded,
              code_hash |-> q.code_hash, results |-> q.results]
  BY SetLast DEF PageOK
<1>2. ASSUME NEW sid \in Sid, NEW slot \in AppSlot \cup {BigSlot}
      PROVE  LastResult(q, <<"fetch", sid, slot>>) # Err(WRB_ERR_WRBPOD_NOT_OPEN)
  <2>1. CASE <<"fetch", sid, slot>> = key
    BY <2>1, SetLast DEF IsFetch
  <2>2. CASE <<"fetch", sid, slot>> # key
    BY <2>2, SetLast DEF PageOK
  <2> QED BY <2>1, <2>2
<1> HIDE DEF q
<1>3. PageOK(q)
  BY <1>1, <1>2 DEF PageOK
<1> QED BY <1>3 DEF q

(* The parts of the invariant about tables and records hold after a step   *)
(* of a pass that changes only the results of wrb-ll.                      *)
LEMMA ResultsOnly ==
    ASSUME IInv, Calling, PageOK(page'), page'.sessions = page.sessions,
           page'.large = page.large, UNCHANGED <<globals, undone>>
    PROVE  /\ PagesOK' /\ GlobalsOK' /\ FreshIds' /\ UndoneOK'
           /\ OneSessionPerWrbpod' /\ RecordsAgree' /\ CacheCoherent'
<1>1. PagesOK'
  BY DEF IInv, PagesOK, Calling
<1>2. GlobalsOK' /\ FreshIds' /\ UndoneOK' /\ OneSessionPerWrbpod'
  BY DEF IInv, GlobalsOK, FreshIds, UndoneOK, OneSessionPerWrbpod, Calling
<1>3. RecordsAgree' /\ CacheCoherent'
  BY DEF IInv, RecordsAgree, CacheCoherent, Calling
<1> QED BY <1>1, <1>2, <1>3

(***************************************************************************)
(* A call on a session.  What it records is NOT_OPEN only if there is no   *)
(* session, and wrb-ll answers so only if it has no record of one.         *)
(***************************************************************************)
LEMMA HandledStep ==
    ASSUME IInv, NEW fn, NEW sid \in Sid, NEW key, NEW guard, NEW big \in BOOLEAN,
           NEW no_session, NEW natives,
           Handled(fn, sid, key, guard, big, no_session, natives),
           guard = Err(WRB_ERR_WRBPOD_NOT_OPEN) => page.sessions[sid] = NoAddr,
           Err(WRB_ERR_WRBPOD_NOT_OPEN) \notin natives,
           IsFetch(key) => no_session # WRB_ERR_WRBPOD_NOT_OPEN
    PROVE  IInv'
<1> DEFINE live == globals.sessions[sid]
           outcomes == IF big THEN {Err(WRB_ERR_INVALID)}
                       ELSE IF live = NoAddr THEN {Err(no_session)} ELSE natives
<1>1. PICK res \in outcomes :
        /\ page' = set_last(page, key, res)
        /\ call' = [NoCall EXCEPT !.fn = fn, !.sid = sid,
                                  !.answer = Answer(guard, page', key),
                                  !.touched = IF big THEN NoAddr ELSE live]
  BY DEF Handled
<1>2. Calling /\ UNCHANGED <<globals, undone>>
  BY DEF Handled
<1>3. Err(WRB_ERR_INVALID) # Err(WRB_ERR_WRBPOD_NOT_OPEN)
  BY DEF Err, WRB_ERR_INVALID, WRB_ERR_WRBPOD_NOT_OPEN
<1>4. res = Err(WRB_ERR_WRBPOD_NOT_OPEN) => ~big /\ live = NoAddr /\ ~IsFetch(key)
  <2>1. IsFetch(key) => Err(no_session) # Err(WRB_ERR_WRBPOD_NOT_OPEN)
    BY DEF Err
  <2> QED BY <1>3, <2>1
<1>5. res.ok => ~big /\ live # NoAddr
  <2>1. ~Err(WRB_ERR_INVALID).ok /\ ~Err(no_session).ok
    BY DEF Err
  <2> QED BY <2>1
<1>6. PageOK(page)
  BY DEF IInv, PagesOK
<1>7. /\ PageOK(page') /\ page'.sessions = page.sessions /\ page'.large = page.large
      /\ LastResult(page', key) = res
  BY <1>1, <1>4, <1>6, SetLast, SetLastOK
<1>8. /\ call'.sid = sid /\ call'.touched = IF big THEN NoAddr ELSE live
      /\ call'.answer = IF guard.ok THEN res ELSE guard
  BY <1>1, <1>7 DEF NoCall, Answer
<1>9. sid \notin undone.sessions /\ live # NoAddr => page.sessions[sid] = live
  BY <1>2 DEF IInv, RecordsAgree, Calling
<1>10. AnswersComeFromRecord'
  BY <1>2, <1>5, <1>7, <1>8, <1>9 DEF AnswersComeFromRecord
<1>11. CallsReachRecorded'
  <2> SUFFICES ASSUME sid \notin undone.sessions
               PROVE  /\ call'.touched \in {NoAddr, page'.sessions[sid]}
                      /\ call'.answer = Err(WRB_ERR_WRBPOD_NOT_OPEN) => call'.touched = NoAddr
    BY <1>2, <1>8 DEF CallsReachRecorded
  <2>1. call'.touched \in {NoAddr, page'.sessions[sid]}
    BY <1>7, <1>8, <1>9
  <2>2. CASE guard.ok
    BY <2>1, <2>2, <1>4, <1>8
  <2>3. CASE ~guard.ok
    BY <2>1, <2>3, <1>8, <1>9
  <2> QED BY <2>2, <2>3
<1> QED BY <1>2, <1>7, <1>10, <1>11, ResultsOnly DEF IInv

(* The answers of the asserts!.                                            *)
LEMMA Guards ==
    ASSUME IInv, NEW sid \in Sid, NEW slot \in AppSlot \cup {BigSlot}
    PROVE  /\ HasSession(sid) = Err(WRB_ERR_WRBPOD_NOT_OPEN) => page.sessions[sid] = NoAddr
           /\ HasSlot(sid, slot) = Err(WRB_ERR_WRBPOD_NOT_OPEN) => page.sessions[sid] = NoAddr
<1>1. HasSession(sid) = Err(WRB_ERR_WRBPOD_NOT_OPEN) => page.sessions[sid] = NoAddr
  BY DEF HasSession, Ok, Err
<1>2. ~HasSession(sid).ok => page.sessions[sid] = NoAddr
  BY DEF HasSession, Ok
<1>3. LastResult(page, <<"fetch", sid, slot>>) # Err(WRB_ERR_WRBPOD_NOT_OPEN)
  BY DEF IInv, PagesOK, PageOK
<1> QED BY <1>1, <1>2, <1>3 DEF HasSlot

(* The natives of Wrbpod have errors of their own.                         *)
LEMMA Codes ==
    /\ \A n : Ok(n) # Err(WRB_ERR_WRBPOD_NOT_OPEN)
    /\ \A code \in {WRB_ERR_WRBPOD_SLOT_ALLOC_FAILURE, WRB_ERR_WRBPOD_FETCH_SLOT_FAILURE,
                    WRB_ERR_WRBPOD_NO_SLICE, WRB_ERR_WRBPOD_SYNC_SLOT_FAILURE} :
          Err(code) # Err(WRB_ERR_WRBPOD_NOT_OPEN)
BY DEF Ok, Err, WRB_ERR_WRBPOD_NOT_OPEN, WRB_ERR_WRBPOD_SLOT_ALLOC_FAILURE,
       WRB_ERR_WRBPOD_FETCH_SLOT_FAILURE, WRB_ERR_WRBPOD_NO_SLICE,
       WRB_ERR_WRBPOD_SYNC_SLOT_FAILURE

LEMMA SessionCallStep ==
    ASSUME IInv, NEW sid \in Sid, NEW n, NEW slot \in AppSlot \cup {BigSlot}, NEW slice,
           \/ wrbpod_get_num_slots(sid)
           \/ wrbpod_alloc_slots(sid, n)
           \/ wrbpod_fetch_slot(sid, slot)
           \/ wrbpod_sync_slot(sid, slot)
           \/ wrbpod_get_slice(sid, slot, slice)
           \/ wrbpod_put_slice(sid, slot, slice)
    PROVE  IInv'
<1>1. CASE wrbpod_get_num_slots(sid)
  <2>1. ~IsFetch(<<"num_slots">>)
    BY DEF IsFetch
  <2>2. Err(WRB_ERR_WRBPOD_NOT_OPEN) \notin {Ok(0), Ok(1)}
    BY Codes
  <2>3. Handled("num_slots", sid, <<"num_slots">>, HasSession(sid), FALSE,
                WRB_ERR_WRBPOD_NOT_OPEN, {Ok(0), Ok(1)})
    BY <1>1 DEF wrbpod_get_num_slots
  <2> QED BY <2>1, <2>2, <2>3, Guards, HandledStep
<1>2. CASE wrbpod_alloc_slots(sid, n)
  <2>1. ~IsFetch(<<"alloc">>)
    BY DEF IsFetch
  <2>2. Err(WRB_ERR_WRBPOD_NOT_OPEN)
          \notin {Ok(0), Ok(1), Err(WRB_ERR_WRBPOD_SLOT_ALLOC_FAILURE)}
    BY Codes
  <2>3. Handled("alloc", sid, <<"alloc">>, HasSession(sid), n = BigSlot,
                WRB_ERR_WRBPOD_SLOT_ALLOC_FAILURE,
                {Ok(0), Ok(1), Err(WRB_ERR_WRBPOD_SLOT_ALLOC_FAILURE)})
    BY <1>2 DEF wrbpod_alloc_slots
  <2> QED BY <2>1, <2>2, <2>3, Guards, HandledStep
<1>3. CASE wrbpod_fetch_slot(sid, slot)
  <2>1. WRB_ERR_WRBPOD_FETCH_SLOT_FAILURE # WRB_ERR_WRBPOD_NOT_OPEN
    BY DEF WRB_ERR_WRBPOD_FETCH_SLOT_FAILURE, WRB_ERR_WRBPOD_NOT_OPEN
  <2>2. Err(WRB_ERR_WRBPOD_NOT_OPEN)
          \notin {Ok(0), Ok(1), Err(WRB_ERR_WRBPOD_FETCH_SLOT_FAILURE)}
    BY Codes
  <2>3. Handled("fetch", sid, <<"fetch", sid, slot>>, HasSession(sid), slot = BigSlot,
                WRB_ERR_WRBPOD_FETCH_SLOT_FAILURE,
                {Ok(0), Ok(1), Err(WRB_ERR_WRBPOD_FETCH_SLOT_FAILURE)})
    BY <1>3 DEF wrbpod_fetch_slot
  <2>4. HasSession(sid) = Err(WRB_ERR_WRBPOD_NOT_OPEN) => page.sessions[sid] = NoAddr
    BY Guards
  <2> DEFINE key == <<"fetch", sid, slot>>
             big == slot = BigSlot
             natives == {Ok(0), Ok(1), Err(WRB_ERR_WRBPOD_FETCH_SLOT_FAILURE)}
  <2>5. big \in BOOLEAN
    OBVIOUS
  <2> HIDE DEF key, big, natives
  <2>6. Handled("fetch", sid, key, HasSession(sid), big,
                WRB_ERR_WRBPOD_FETCH_SLOT_FAILURE, natives)
    BY <2>3 DEF key, big, natives
  <2>7. Err(WRB_ERR_WRBPOD_NOT_OPEN) \notin natives
    BY <2>2 DEF natives
  <2> QED BY <2>1, <2>4, <2>5, <2>6, <2>7, HandledStep
<1>4. CASE wrbpod_sync_slot(sid, slot)
  <2>1. ~IsFetch(<<"sync", sid, slot>>)
    BY DEF IsFetch
  <2>2. Err(WRB_ERR_WRBPOD_NOT_OPEN) \notin {Ok(1), Err(WRB_ERR_WRBPOD_SYNC_SLOT_FAILURE)}
    BY Codes
  <2>3. Handled("sync", sid, <<"sync", sid, slot>>, HasSlot(sid, slot), slot = BigSlot,
                WRB_ERR_WRBPOD_SYNC_SLOT_FAILURE,
                {Ok(1), Err(WRB_ERR_WRBPOD_SYNC_SLOT_FAILURE)})
    BY <1>4 DEF wrbpod_sync_slot
  <2> QED BY <2>1, <2>2, <2>3, Guards, HandledStep
<1>5. CASE wrbpod_get_slice(sid, slot, slice)
  <2>1. ~IsFetch(<<"get_slice", sid, slot, slice>>)
    BY DEF IsFetch
  <2>2. Err(WRB_ERR_WRBPOD_NOT_OPEN) \notin {Ok(1), Err(WRB_ERR_WRBPOD_NO_SLICE)}
    BY Codes
  <2>3. Handled("get_slice", sid, <<"get_slice", sid, slot, slice>>, HasSlot(sid, slot),
                slot = BigSlot, WRB_ERR_WRBPOD_NO_SLICE,
                {Ok(1), Err(WRB_ERR_WRBPOD_NO_SLICE)})
    BY <1>5 DEF wrbpod_get_slice
  <2> QED BY <2>1, <2>2, <2>3, Guards, HandledStep
<1>6. CASE wrbpod_put_slice(sid, slot, slice)
  <2>1. ~IsFetch(<<"put_slice", sid, slot, slice>>)
    BY DEF IsFetch
  <2>2. Err(WRB_ERR_WRBPOD_NOT_OPEN) \notin {Ok(0), Ok(1)} /\ Ok(1) # Err(WRB_ERR_WRBPOD_NOT_OPEN)
    BY Codes
  <2>3. Handled("put_slice", sid, <<"put_slice", sid, slot, slice>>, Ok(1),
                slot = BigSlot, WRB_ERR_WRBPOD_PUT_SLICE_FAILURE, {Ok(0), Ok(1)})
    BY <1>6 DEF wrbpod_put_slice
  <2> QED BY <2>1, <2>2, <2>3, HandledStep
<1> QED BY <1>1, <1>2, <1>3, <1>4, <1>5, <1>6

-----------------------------------------------------------------------------
(* The other calls of a page and the life of a process.                    *)

(* Nothing is claimed of the answer of a call that is on no session.       *)
LEMMA OtherCall ==
    ASSUME call'.fn \notin SessionCalls PROVE AnswersComeFromRecord' /\ CallsReachRecorded'
BY DEF AnswersComeFromRecord, CallsReachRecorded

(* The conversions and the default wrbpod record a result and no more.     *)
LEMMA ConvertedStep ==
    ASSUME IInv,
           \/ wrb_call_readonly \/ buff_to_string_utf8 \/ string_ascii_to_string_utf8
           \/ wrbpod_default
    PROVE  IInv'
<1>1. PICK fn, res :
        /\ fn \in {"readonly", "buff", "ascii", "default"}
        /\ Calling
        /\ page' = set_last(page, <<fn>>, res)
        /\ call'.fn = fn
        /\ UNCHANGED <<globals, undone>>
  <2>1. ASSUME NEW fn, NEW code, fn \in {"readonly", "buff", "ascii"}, Converted(fn, code)
        PROVE  \E res : /\ Calling
                        /\ page' = set_last(page, <<fn>>, res)
                        /\ call'.fn = fn
                        /\ UNCHANGED <<globals, undone>>
    BY <2>1 DEF Converted, NoCall
  <2>2. ASSUME wrbpod_default
        PROVE  /\ Calling
               /\ page' = set_last(page, <<"default">>, Ok(1))
               /\ call'.fn = "default"
               /\ UNCHANGED <<globals, undone>>
    BY <2>2 DEF wrbpod_default, NoCall
  <2> QED BY <2>1, <2>2 DEF wrb_call_readonly, buff_to_string_utf8, string_ascii_to_string_utf8
<1>2. ~IsFetch(<<fn>>)
  BY DEF IsFetch
<1>3. PageOK(page') /\ page'.sessions = page.sessions /\ page'.large = page.large
  BY <1>1, <1>2, SetLast, SetLastOK DEF IInv, PagesOK
<1>4. call'.fn \notin SessionCalls
  BY <1>1 DEF SessionCalls
<1> QED BY <1>1, <1>3, <1>4, ResultsOnly, OtherCall DEF IInv

(* What wrb-ll-finish-wrbpod-open records.                                 *)
LEMMA FinishOpen ==
    ASSUME NEW p, PageOK(p), NEW addr, NEW sid \in Sid
    PROVE  /\ finish_wrbpod_open(p, addr, sid, Err(WRB_ERR_WRBPOD_OPEN_FAILURE)) = p
           /\ finish_wrbpod_open(p, addr, sid, Ok(1)).sessions
                = [p.sessions EXCEPT ![sid] = addr]
           /\ finish_wrbpod_open(p, addr, sid, Ok(1)).large = p.large
           /\ addr \in Addr => PageOK(finish_wrbpod_open(p, addr, sid, Ok(1)))
<1>1. finish_wrbpod_open(p, addr, sid, Err(WRB_ERR_WRBPOD_OPEN_FAILURE)) = p
  BY DEF finish_wrbpod_open, handle_tx_result, Err
<1> DEFINE q == finish_wrbpod_open(p, addr, sid, Ok(1))
<1>2. Ok(1).ok
  BY DEF Ok
<1>3. q = [p EXCEPT !.results = map_set(@, <<"open">>, Ok(sid)), !.sessions[sid] = addr]
  BY <1>2 DEF finish_wrbpod_open, handle_tx_result
<1>4. q = [sessions |-> [p.sessions EXCEPT ![sid] = addr], large |-> p.large,
           loaded |-> p.loaded, code_hash |-> p.code_hash,
           results |-> map_set(p.results, <<"open">>, Ok(sid))]
  BY <1>3 DEF PageOK
<1> DEFINE r == map_set(p.results, <<"open">>, Ok(sid))
<1>5. \A k : k # <<"open">> => (k \in DOMAIN r <=> k \in DOMAIN p.results)
                               /\ (k \in DOMAIN r => r[k] = p.results[k])
  BY DEF map_set
<1>6. q.results = r
  BY <1>4
<1> HIDE DEF q, r
<1>7. ASSUME NEW s \in Sid, NEW slot \in AppSlot \cup {BigSlot}
      PROVE  LastResult(q, <<"fetch", s, slot>>) = LastResult(p, <<"fetch", s, slot>>)
  <2>1. <<"fetch", s, slot>> # <<"open">>
    OBVIOUS
  <2> QED BY <1>5, <1>6, <2>1 DEF LastResult
<1>8. ASSUME addr \in Addr PROVE PageOK(q)
  <2>1. q.sessions \in [Sid -> AddrOrNone]
    BY <1>4, <1>8 DEF PageOK, AddrOrNone
  <2>2. /\ q = [sessions |-> q.sessions, large |-> q.large, loaded |-> q.loaded,
                code_hash |-> q.code_hash, results |-> q.results]
        /\ q.large = p.large
    BY <1>4
  <2> QED BY <1>7, <2>1, <2>2 DEF PageOK
<1>9. q.sessions = [p.sessions EXCEPT ![sid] = addr] /\ q.large = p.large
  BY <1>4
<1> QED BY <1>1, <1>8, <1>9 DEF q

LEMMA OpenStep ==
    ASSUME IInv, NEW addr,
           \/ wrbpod_open_invalid(addr)
           \/ addr \in Addr /\ (\/ wrbpod_open_fails(addr) \/ wrbpod_open_again(addr)
                                \/ wrbpod_open_new(addr))
    PROVE  IInv'
<1>1. PageOK(page)
  BY DEF IInv, PagesOK
<1>2. call'.fn = "open" /\ call'.fn \notin SessionCalls
  <2>1. AnswerOpen(addr)
    BY DEF wrbpod_open_invalid, wrbpod_open_fails, wrbpod_open_again, wrbpod_open_new
  <2>2. call'.fn = "open"
    BY <2>1 DEF AnswerOpen, NoCall
  <2> QED BY <2>2 DEF SessionCalls
<1>3. AnswersComeFromRecord' /\ CallsReachRecorded'
  BY <1>2, OtherCall
<1>4. CASE wrbpod_open_invalid(addr) \/ wrbpod_open_fails(addr)
  <2>1. page' = page
    BY <1>1, <1>4, FinishOpen, SidFacts DEF wrbpod_open_invalid, wrbpod_open_fails
  <2> QED BY <1>1, <1>3, <1>4, <2>1, ResultsOnly
          DEF IInv, wrbpod_open_invalid, wrbpod_open_fails
<1>5. CASE addr \in Addr /\ wrbpod_open_again(addr)
  <2> DEFINE sid == globals.ids[addr]
  <2>1. sid \in Sid /\ globals.sessions[sid] = addr
    BY <1>5 DEF wrbpod_open_again, IInv, GlobalsOK, OneSessionPerWrbpod
  <2>2. /\ PageOK(page') /\ page'.large = page.large
        /\ page'.sessions = [page.sessions EXCEPT ![sid] = addr]
    BY <1>1, <1>5, <2>1, FinishOpen DEF wrbpod_open_again
  <2>3. Calling /\ globals' = globals /\ undone' = [undone EXCEPT !.sessions = @ \ {sid}]
    BY <1>5 DEF wrbpod_open_again
  <2>4. /\ undone'.sessions = undone.sessions \ {sid} /\ undone'.handles = undone.handles
        /\ UndoneOK'
    BY <2>3 DEF IInv, UndoneOK
  <2> HIDE DEF sid
  <2>5. PagesOK' /\ GlobalsOK' /\ FreshIds' /\ OneSessionPerWrbpod'
    BY <2>2, <2>3
       DEF Calling, IInv, PagesOK, GlobalsOK, FreshIds, OneSessionPerWrbpod
  <2>6. RecordsAgree'
    BY <1>1, <2>1, <2>2, <2>3, <2>4 DEF Calling, IInv, RecordsAgree, PageOK
  <2>7. CacheCoherent'
    BY <2>2, <2>3, <2>4 DEF Calling, IInv, CacheCoherent
  <2> QED BY <1>3, <2>4, <2>5, <2>6, <2>7 DEF IInv
<1>6. CASE addr \in Addr /\ wrbpod_open_new(addr)
  <2> DEFINE sid == globals.next
  <2>1. /\ Calling /\ sid \in Sid /\ globals.ids[addr] = NoSid
        /\ globals' = add_wrbpod_session(next_wrbpod_session_id(globals), sid, addr)
        /\ page' = finish_wrbpod_open(page, addr, sid, Ok(1))
        /\ undone' = [undone EXCEPT !.sessions = @ \ {sid}]
    BY <1>6 DEF wrbpod_open_new
  <2>2. /\ PageOK(page') /\ page'.large = page.large
        /\ page'.sessions = [page.sessions EXCEPT ![sid] = addr]
    BY <1>1, <1>6, <2>1, FinishOpen
  <2>3. /\ undone'.sessions = undone.sessions \ {sid} /\ undone'.handles = undone.handles
        /\ UndoneOK'
    BY <2>1 DEF IInv, UndoneOK
  <2>4. globals' = [sessions |-> [globals.sessions EXCEPT ![sid] = addr],
                    ids |-> [globals.ids EXCEPT ![addr] = sid],
                    next |-> sid + 1, large |-> globals.large]
    BY <2>1 DEF add_wrbpod_session, next_wrbpod_session_id, IInv, GlobalsOK
  <2>5. globals.sessions[sid] = NoAddr
    BY <2>1, SidFacts DEF IInv, FreshIds
  <2>6. \A a \in Addr : globals.ids[a] # sid
    BY <2>1, <2>5, SidFacts, PageSessionsAssumption DEF IInv, OneSessionPerWrbpod
  <2>7. sid \in Nat /\ Sid \subseteq Nat /\ NoSid \notin Sid /\ addr \in Addr /\ addr # NoAddr
    BY <1>6, <2>1, SidFacts, PageSessionsAssumption
  <2>8. /\ globals.sessions \in [Sid -> AddrOrNone] /\ globals.ids \in [Addr -> Sid \cup {NoSid}]
        /\ globals.large \in [Handle -> TextOrNone]
    BY DEF IInv, GlobalsOK
  <2> HIDE DEF sid
  <2>9. GlobalsOK'
    <3>1. proc' # "none"
      BY <2>1 DEF Calling
    <3>2. /\ globals'.sessions \in [Sid -> AddrOrNone] /\ globals'.ids \in [Addr -> Sid \cup {NoSid}]
          /\ globals'.next \in Nat /\ globals'.large \in [Handle -> TextOrNone]
      BY <2>1, <2>4, <2>7, <2>8 DEF AddrOrNone
    <3> QED BY <3>1, <3>2, <2>4 DEF GlobalsOK
  <2>10. FreshIds'
    <3>1. sid = globals.next
      BY DEF sid
    <3> QED BY <2>1, <2>4, <2>7, <2>8, <3>1 DEF IInv, FreshIds
  <2>11. OneSessionPerWrbpod'
    <3>1. ASSUME NEW a \in Addr, globals'.ids[a] # NoSid
          PROVE  globals'.sessions[globals'.ids[a]] = a
      BY <2>1, <2>4, <2>6, <2>8, <3>1 DEF IInv, OneSessionPerWrbpod
    <3>2. ASSUME NEW s \in Sid, globals'.sessions[s] # NoAddr
          PROVE  globals'.ids[globals'.sessions[s]] = s
      <4>1. CASE s = sid
        BY <2>4, <2>7, <2>8, <4>1
      <4>2. CASE s # sid
        <5>1. globals'.sessions[s] = globals.sessions[s]
          BY <2>4, <2>8, <4>2
        <5>2. globals.sessions[s] # addr
          BY <2>1, <2>7, <3>2 DEF IInv, OneSessionPerWrbpod
        <5>3. globals.sessions[s] \in Addr
          BY <2>8, <3>2, <5>1 DEF AddrOrNone
        <5> QED BY <2>4, <2>8, <3>2, <5>1, <5>2, <5>3 DEF IInv, OneSessionPerWrbpod
      <4> QED BY <4>1, <4>2
    <3> QED BY <3>1, <3>2 DEF OneSessionPerWrbpod
  <2>12. RecordsAgree'
    BY <1>1, <2>1, <2>2, <2>3, <2>4, <2>8 DEF Calling, IInv, RecordsAgree, PageOK
  <2>13. CacheCoherent'
    BY <2>1, <2>2, <2>3, <2>4 DEF Calling, IInv, CacheCoherent
  <2>14. PagesOK'
    BY <2>1, <2>2 DEF Calling, IInv, PagesOK
  <2> QED BY <1>3, <2>3, <2>9, <2>10, <2>11, <2>12, <2>13, <2>14 DEF IInv
<1> QED BY <1>4, <1>5, <1>6

LEMMA StringStep ==
    ASSUME IInv, NEW h \in Handle, NEW t,
           (t \in Text /\ store_large_string_utf8(h, t)) \/ load_large_string_utf8(h)
    PROVE  IInv'
<1>1. Calling
  BY DEF store_large_string_utf8, load_large_string_utf8
<1>2. call'.fn \notin SessionCalls
  BY DEF store_large_string_utf8, load_large_string_utf8, NoCall, SessionCalls
<1>3. AnswersComeFromRecord' /\ CallsReachRecorded'
  BY <1>2, OtherCall
<1>4. PageOK(page)
  BY DEF IInv, PagesOK
<1> DEFINE hit == globals.large[h] # NoText
           loaded == IF hit THEN globals.large[h] ELSE page.large[h]
<1>5. PICK text \in TextOrNone :
        /\ globals' = [globals EXCEPT !.large[h] = text]
        /\ \/ /\ page' = [page EXCEPT !.large[h] = text]
              /\ undone' = [undone EXCEPT !.handles = @ \ {h}]
           \/ /\ page' = [page EXCEPT !.loaded = text]
              /\ undone' = undone
              /\ text = loaded
  <2>1. loaded \in TextOrNone /\ Text \subseteq TextOrNone
    BY <1>4 DEF IInv, GlobalsOK, PageOK, TextOrNone
  <2> QED BY <2>1 DEF store_large_string_utf8, load_large_string_utf8
<1>6. /\ globals'.sessions = globals.sessions /\ globals'.ids = globals.ids
      /\ globals'.next = globals.next
      /\ globals'.large = [globals.large EXCEPT ![h] = text]
  BY <1>5 DEF IInv, GlobalsOK
<1>7. /\ page'.sessions = page.sessions
      /\ \/ /\ page'.large = [page.large EXCEPT ![h] = text]
            /\ undone'.handles = undone.handles \ {h}
         \/ /\ page'.large = page.large
            /\ undone'.handles = undone.handles
            /\ text = loaded
      /\ undone'.sessions = undone.sessions
      /\ UndoneOK'
  BY <1>4, <1>5 DEF PageOK, IInv, UndoneOK
<1>8. PagesOK'
  <2>1. page' = [sessions |-> page'.sessions, large |-> page'.large, loaded |-> page'.loaded,
                 code_hash |-> page'.code_hash, results |-> page.results]
    BY <1>4, <1>5 DEF PageOK
  <2>2. page'.large \in [Handle -> TextOrNone]
    BY <1>4, <1>7 DEF PageOK
  <2>3. \A k : LastResult(page', k) = LastResult(page, k)
    BY <2>1 DEF LastResult
  <2>4. PageOK(page')
    BY <1>4, <1>7, <2>1, <2>2, <2>3 DEF PageOK
  <2> QED BY <1>1, <2>4 DEF Calling, IInv, PagesOK
<1>9. GlobalsOK' /\ FreshIds' /\ OneSessionPerWrbpod'
  BY <1>1, <1>5, <1>6 DEF Calling, IInv, GlobalsOK, FreshIds, OneSessionPerWrbpod
<1>10. RecordsAgree'
  BY <1>1, <1>6, <1>7 DEF Calling, IInv, RecordsAgree
<1>11. CacheCoherent'
  <2> SUFFICES ASSUME NEW g \in Handle \ undone'.handles, globals'.large[g] # NoText
               PROVE  page'.large[g] = globals'.large[g]
    BY DEF CacheCoherent
  <2>1. /\ globals.large \in [Handle -> TextOrNone] /\ page.large \in [Handle -> TextOrNone]
    BY <1>4 DEF IInv, GlobalsOK, PageOK
  <2>2. \A k \in Handle \ undone.handles :
           globals.large[k] # NoText => page.large[k] = globals.large[k]
    BY <1>1 DEF Calling, IInv, CacheCoherent
  <2>3. CASE g = h
    BY <1>6, <1>7, <2>1, <2>2, <2>3
  <2>4. CASE g # h
    BY <1>6, <1>7, <2>1, <2>2, <2>4
  <2> QED BY <2>3, <2>4
<1> QED BY <1>3, <1>7, <1>8, <1>9, <1>10, <1>11 DEF IInv

(* A process that starts or ends leaves empty tables and no call behind.   *)
LEMMA EmptyTables ==
    ASSUME IInv, globals' = NewGlobals, PagesOK', UndoneOK', call'.fn \notin SessionCalls
    PROVE  IInv'
<1>1. GlobalsOK'
  BY NewGlobalsOK DEF GlobalsOK
<1>2. FreshIds' /\ OneSessionPerWrbpod' /\ RecordsAgree' /\ CacheCoherent'
  BY NewGlobalsOK DEF FreshIds, OneSessionPerWrbpod, RecordsAgree, CacheCoherent
<1> QED BY <1>1, <1>2, OtherCall DEF IInv

LEMMA NoCallIsNone == NoCall.fn \notin SessionCalls /\ NoneUndone = [sessions |-> {}, handles |-> {}]
BY DEF NoCall, SessionCalls, NoneUndone

LEMMA ExitStep == ASSUME IInv, NEW saved, PageOK(saved), Exit(saved) PROVE IInv'
<1>1. globals' = NewGlobals /\ PagesOK' /\ UndoneOK' /\ call'.fn \notin SessionCalls
  BY NoCallIsNone DEF Exit, PagesOK, UndoneOK
<1> QED BY <1>1, EmptyTables

LEMMA LifeStep ==
    ASSUME IInv,
           \/ \E v \in Version : Start(v)
           \/ EventPass \/ PassOk \/ PassErr \/ Close \/ PassFails \/ Crash
    PROVE  IInv'
<1>1. PageOK(page) /\ PageOK(mark) /\ PageOK(committed)
  BY DEF IInv, PagesOK
<1>2. ASSUME NEW v \in Version, Start(v) PROVE IInv'
  <2>1. PageOK(page')
    BY <1>1, <1>2, NewPageOK DEF Start
  <2>2. globals' = NewGlobals /\ PagesOK' /\ UndoneOK' /\ call'.fn \notin SessionCalls
    BY <1>2, <2>1, NoCallIsNone DEF Start, PagesOK, UndoneOK
  <2> QED BY <2>2, EmptyTables
<1>3. CASE EventPass \/ PassOk
  <2>1. /\ call'.fn \notin SessionCalls
        /\ proc \in {"idle", "pass"} /\ proc' \in {"idle", "pass"}
        /\ UNCHANGED <<page, committed, globals, undone>>
        /\ mark' = mark \/ mark' = page
    BY <1>3, NoCallIsNone DEF EventPass, PassOk
  <2>2. PagesOK'
    BY <1>1, <2>1 DEF PagesOK
  <2>3. GlobalsOK' /\ FreshIds' /\ UndoneOK' /\ OneSessionPerWrbpod'
    BY <2>1 DEF IInv, GlobalsOK, FreshIds, UndoneOK, OneSessionPerWrbpod
  <2>4. RecordsAgree' /\ CacheCoherent'
    BY <2>1 DEF IInv, RecordsAgree, CacheCoherent
  <2> QED BY <2>1, <2>2, <2>3, <2>4, OtherCall DEF IInv
<1>4. CASE PassErr
  <2>1. /\ call'.fn \notin SessionCalls
        /\ proc = "pass" /\ proc' = "idle"
        /\ page' = mark
        /\ UNCHANGED <<mark, committed, globals>>
        /\ undone'.sessions = undone.sessions
                                 \cup {s \in Sid : page.sessions[s] # mark.sessions[s]}
        /\ undone'.handles = undone.handles
                                 \cup {h \in Handle : page.large[h] # mark.large[h]}
        /\ UndoneOK'
    BY <1>4, NoCallIsNone DEF PassErr, UndoneOK
  <2>2. PagesOK'
    BY <1>1, <2>1 DEF PagesOK
  <2>3. GlobalsOK' /\ FreshIds' /\ OneSessionPerWrbpod'
    BY <2>1 DEF IInv, GlobalsOK, FreshIds, OneSessionPerWrbpod
  <2>4. RecordsAgree'
    BY <2>1 DEF IInv, RecordsAgree
  <2>5. CacheCoherent'
    BY <2>1 DEF IInv, CacheCoherent
  <2> QED BY <2>1, <2>2, <2>3, <2>4, <2>5, OtherCall DEF IInv
<1>5. CASE Close \/ PassFails \/ Crash
  BY <1>1, <1>5, ExitStep DEF Close, PassFails, Crash
<1> QED BY <1>2, <1>3, <1>4, <1>5

(* A command has one session, its first, and no page.                      *)
LEMMA CommandStep ==
    ASSUME IInv, NEW addr \in Addr,
           \/ CommandSession(addr)
           \/ \E fn : fn \notin SessionCalls /\ CommandCall(fn, addr)
    PROVE  IInv'
<1>1. CASE CommandSession(addr) /\ Exit(committed)
  BY <1>1, ExitStep DEF IInv, PagesOK
<1>2. CASE CommandSession(addr) /\ ~Exit(committed)
  <2>1. /\ proc = "command" /\ globals.next = 0
        /\ globals' = add_wrbpod_session(next_wrbpod_session_id(globals), 0, addr)
        /\ call' = [NoCall EXCEPT !.fn = "session", !.asked = addr]
        /\ UNCHANGED <<proc, page, mark, committed, undone>>
    BY <1>2 DEF CommandSession
  <2>2. call'.fn \notin SessionCalls
    BY <2>1 DEF NoCall, SessionCalls
  <2>3. globals' = [sessions |-> [globals.sessions EXCEPT ![0] = addr],
                    ids |-> [globals.ids EXCEPT ![addr] = 0],
                    next |-> globals.next + 1, large |-> globals.large]
    BY <2>1 DEF add_wrbpod_session, next_wrbpod_session_id, IInv, GlobalsOK
  <2>4. /\ globals.sessions \in [Sid -> AddrOrNone] /\ globals.ids \in [Addr -> Sid \cup {NoSid}]
        /\ globals.large \in [Handle -> TextOrNone]
    BY DEF IInv, GlobalsOK
  <2>5. \A s \in Sid : globals.sessions[s] = NoAddr
    BY <2>1, SidFacts DEF IInv, FreshIds
  <2>6. \A a \in Addr : globals.ids[a] = NoSid
    BY <2>4, <2>5, PageSessionsAssumption DEF IInv, OneSessionPerWrbpod
  <2>7. GlobalsOK'
    <3>1. /\ globals'.sessions \in [Sid -> AddrOrNone] /\ globals'.ids \in [Addr -> Sid \cup {NoSid}]
          /\ globals'.next \in Nat /\ globals'.large \in [Handle -> TextOrNone]
      BY <2>1, <2>3, <2>4, SidFacts DEF AddrOrNone
    <3> QED BY <2>1, <2>3, <3>1 DEF GlobalsOK
  <2>8. FreshIds'
    BY <2>1, <2>3, <2>4, <2>5, SidFacts DEF FreshIds
  <2>9. OneSessionPerWrbpod'
    BY <2>3, <2>4, <2>5, <2>6, SidFacts, PageSessionsAssumption DEF OneSessionPerWrbpod
  <2>10. PagesOK' /\ UndoneOK' /\ RecordsAgree' /\ CacheCoherent'
    BY <2>1 DEF IInv, PagesOK, UndoneOK, RecordsAgree, CacheCoherent
  <2> QED BY <2>2, <2>7, <2>8, <2>9, <2>10, OtherCall DEF IInv
<1>3. ASSUME NEW fn, fn \notin SessionCalls, CommandCall(fn, addr) PROVE IInv'
  <2>1. /\ globals' = NewGlobals /\ UNCHANGED <<page, mark, committed, undone>>
        /\ call'.fn = fn
    BY <1>3 DEF CommandCall, NoCall
  <2>2. PagesOK' /\ UndoneOK'
    BY <2>1 DEF IInv, PagesOK, UndoneOK
  <2> QED BY <1>3, <2>1, <2>2, EmptyTables
<1> QED BY <1>1, <1>2, <1>3

-----------------------------------------------------------------------------
LEMMA InitInv == Init => IInv
<1> SUFFICES ASSUME Init PROVE IInv
  OBVIOUS
<1>1. PagesOK /\ UndoneOK
  BY NewPageOK, NoCallIsNone DEF Init, PagesOK, UndoneOK
<1>2. GlobalsOK /\ FreshIds /\ OneSessionPerWrbpod /\ RecordsAgree /\ CacheCoherent
  BY NewGlobalsOK DEF Init, GlobalsOK, FreshIds, OneSessionPerWrbpod, RecordsAgree, CacheCoherent
<1>3. AnswersComeFromRecord /\ CallsReachRecorded
  BY NoCallIsNone DEF Init, AnswersComeFromRecord, CallsReachRecorded
<1> QED BY <1>1, <1>2, <1>3 DEF IInv

LEMMA StepInv == IInv /\ [Next]_vars => IInv'
<1> SUFFICES ASSUME IInv, [Next]_vars PROVE IInv'
  OBVIOUS
<1>1. CASE UNCHANGED vars
  BY <1>1 DEF vars, IInv, PagesOK, GlobalsOK, FreshIds, UndoneOK, OneSessionPerWrbpod,
              RecordsAgree, CacheCoherent, AnswersComeFromRecord, CallsReachRecorded
<1>2. CASE \/ \E v \in Version : Start(v)
           \/ EventPass \/ PassOk \/ PassErr \/ Close \/ PassFails \/ Crash
  BY <1>2, LifeStep
<1>3. CASE StartCommand
  <2>1. /\ proc' = "command"
        /\ UNCHANGED <<page, mark, committed, globals, call, undone>>
    BY <1>3 DEF StartCommand
  <2>2. PagesOK' /\ GlobalsOK' /\ FreshIds' /\ UndoneOK' /\ OneSessionPerWrbpod'
    BY <2>1 DEF IInv, PagesOK, GlobalsOK, FreshIds, UndoneOK, OneSessionPerWrbpod
  <2>3. RecordsAgree' /\ CacheCoherent'
    BY <2>1 DEF RecordsAgree, CacheCoherent
  <2>4. AnswersComeFromRecord' /\ CallsReachRecorded'
    BY <2>1 DEF IInv, AnswersComeFromRecord, CallsReachRecorded
  <2> QED BY <2>2, <2>3, <2>4 DEF IInv
<1>4. ASSUME NEW addr \in Addr,
             \/ CommandSession(addr)
             \/ command_format(addr) \/ command_get_superblock(addr) \/ command_alloc_slots(addr)
             \/ command_put_slot(addr) \/ command_clear_slot(addr) \/ command_get_chunk(addr)
             \/ command_get_slot(addr) \/ command_get_slice(addr) \/ command_put_slice(addr)
      PROVE  IInv'
  <2>1. CommandSession(addr) \/ \E fn : fn \notin SessionCalls /\ CommandCall(fn, addr)
    BY <1>4 DEF SessionCalls, command_format, command_get_superblock, command_alloc_slots,
                command_put_slot, command_clear_slot, command_get_chunk, command_get_slot,
                command_get_slice, command_put_slice
  <2> QED BY <2>1, CommandStep
<1>5. CASE \/ \E addr \in BigAddr : wrbpod_open_invalid(addr)
           \/ \E addr \in Addr :
                 wrbpod_open_fails(addr) \/ wrbpod_open_again(addr) \/ wrbpod_open_new(addr)
  BY <1>5, OpenStep
<1>6. CASE \E sid \in Sid : wrbpod_get_num_slots(sid)
  BY <1>6, SessionCallStep
<1>7. CASE \E sid \in Sid, n \in {1, BigSlot} : wrbpod_alloc_slots(sid, n)
  BY <1>7, SessionCallStep
<1>8. CASE \E sid \in Sid, slot \in AppSlot \cup {BigSlot} :
              wrbpod_fetch_slot(sid, slot) \/ wrbpod_sync_slot(sid, slot)
  BY <1>8, SessionCallStep
<1>9. CASE \E sid \in Sid, slot \in AppSlot \cup {BigSlot}, slice \in SliceId :
              wrbpod_get_slice(sid, slot, slice) \/ wrbpod_put_slice(sid, slot, slice)
  BY <1>9, SessionCallStep
<1>10. CASE \E h \in Handle, t \in Text : store_large_string_utf8(h, t)
  BY <1>10, StringStep
<1>11. ASSUME NEW h \in Handle, load_large_string_utf8(h) PROVE IInv'
  BY <1>11, StringStep
<1>12. CASE \/ wrb_call_readonly \/ buff_to_string_utf8 \/ string_ascii_to_string_utf8
            \/ wrbpod_default
  BY <1>12, ConvertedStep
<1> QED BY <1>1, <1>2, <1>3, <1>4, <1>5, <1>6, <1>7, <1>8, <1>9, <1>10, <1>11, <1>12 DEF Next

-----------------------------------------------------------------------------
LEMMA Invariance == Spec => []IInv
<1> QED BY InitInv, StepInv, PTL DEF Spec

(* For every number of wrbpods, pages, passes and processes: the tables of *)
(* Globals hold one session per wrbpod, found by ID and by address alike.  *)
THEOREM SpecOneSessionPerWrbpod == Spec => []OneSessionPerWrbpod
<1>1. IInv => OneSessionPerWrbpod
  BY DEF IInv
<1> QED BY <1>1, Invariance, PTL

(* wrb-ll records a live session under the wrbpod the process has it on,   *)
(* whatever earlier processes left in wrb-ll's map under the same ID.      *)
THEOREM SpecRecordsAgree == Spec => []RecordsAgree
<1>1. IInv => RecordsAgree
  BY DEF IInv
<1> QED BY <1>1, Invariance, PTL

(* A cached large string is the persisted one unless its store was undone. *)
THEOREM SpecCacheCoherent == Spec => []CacheCoherent
<1>1. IInv => CacheCoherent
  BY DEF IInv
<1> QED BY <1>1, Invariance, PTL

(* An ok answer was computed by its own call, on the wrbpod on record.     *)
THEOREM SpecAnswersComeFromRecord == Spec => []AnswersComeFromRecord
<1>1. IInv => AnswersComeFromRecord
  BY DEF IInv
<1> QED BY <1>1, Invariance, PTL

(* A call on a session reaches the wrbpod wrb-ll records for it or none,   *)
(* whatever it is answered, and none if the answer is that it is not open. *)
THEOREM SpecCallsReachRecorded == Spec => []CallsReachRecorded
<1>1. IInv => CallsReachRecorded
  BY DEF IInv
<1> QED BY <1>1, Invariance, PTL
=============================================================================

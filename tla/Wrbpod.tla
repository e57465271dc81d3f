------------------------------- MODULE Wrbpod -------------------------------
(***************************************************************************)
(* Wrbpod sessions (storage/wrbpod.rs, impl Wrbpod) of several processes   *)
(* on one StackerDB replica.  A call runs to completion inside its process *)
(* (&mut self), but each request to the replica is a step of its own, so   *)
(* the other processes act between any two requests of a call.             *)
(*                                                                         *)
(* A step is one request together with the local code up to the next one.  *)
(* A request can fail without effect, and an upload can take effect with   *)
(* its answer lost; a process can exit at any point.                       *)
(*                                                                         *)
(* A chunk of slices is a map from slice IDs to slices; its encoding and   *)
(* the accounting of its size are in module WrbpodSlices.                  *)
(***************************************************************************)
EXTENDS SuperblockOps, StackerDB

CONSTANTS Client,      \* processes with a session to the wrbpod
          KeyOf,       \* KeyOf[c]: the private key of client c
          SuperSlot,   \* superblock_slot_id
          SliceId,     \* slice IDs
          Val,         \* contents an app may write
          NoSlice,     \* a slice ID that is not in the index
          NoChunk,     \* a slot that is not in the local cache
          AppSlot,     \* app slot numbers the apps use
          Calls,       \* names of the calls the clients make
          MaxCalls,    \* bound: calls made in all
          MaxFaults    \* bound: requests that fail

ASSUME WrbpodAssumption ==
    /\ Slot = DOMAIN Signer
    /\ KeyOf \in [Client -> Key]
    /\ SuperSlot \in Slot
    /\ AppSlot \subseteq Nat
    /\ MaxCalls \in Nat /\ MaxFaults \in Nat

VARIABLES pc,       \* the request each client makes next, or where it rests
          session,  \* the Wrbpod struct of each client
          job,      \* the local variables of the call in progress
          ret,      \* what the last call returned
          puts,     \* history: the chunks of slices the replica accepted
          acked,    \* history: <<app, slot>> of allocations that returned Ok(true)
          ncalls,   \* calls made so far
          nfaults   \* requests that failed so far

vars == <<chunks, pc, session, job, ret, puts, acked, ncalls, nfaults>>

-----------------------------------------------------------------------------
(* Where a client can be: between calls, or before a request of a call.    *)
AtRest == {"closed", "idle"}
Requests == {"open_signers", "format_signers", "download_list", "download_get",
             "upload_list", "upload_put", "fetch_list", "fetch_signers", "fetch_get",
             "sync_list", "sync_put"}

(* A chunk of slices as a map, and a local copy of one.                    *)
Slices == [SliceId -> Val \cup {NoSlice}]
NoSlices == [i \in SliceId |-> NoSlice]
Chunk == [slices : Slices, dirty : BOOLEAN]

(* Neither Option::None is a value it could be mistaken for.               *)
ASSUME NoneAssumption == NoSlice \notin Val /\ NoChunk \notin Chunk

(***************************************************************************)
(* superblock and chunks are fields of Wrbpod; fetched holds the slots for *)
(* which this session's fetch-slot result in wrb-ll.clar is ok.            *)
(***************************************************************************)
NoSession == [superblock |-> empty, chunks |-> [s \in Slot |-> NoChunk], fetched |-> {}]

(***************************************************************************)
(* The arguments of the call and its variables slot_md, slot_version and   *)
(* refreshed_signers (here a count: 0 for false).                          *)
(***************************************************************************)
EmptyRow == [version |-> 0, data |-> {}, sig |-> NoKey]
NewJob(name, app, n, slot) ==
    [name |-> name, app |-> app, n |-> n, slot |-> slot,
     slot_md |-> EmptyRow, slot_version |-> 0, refreshes |-> 0]
NoJob == NewJob("none", "none", 0, SuperSlot)

Init ==
    /\ open_or_create
    /\ pc = [c \in Client |-> "closed"]
    /\ session = [c \in Client |-> NoSession]
    /\ job = [c \in Client |-> NoJob]
    /\ ret = [c \in Client |-> "none"]
    /\ puts = {}
    /\ acked = {}
    /\ ncalls = 0
    /\ nfaults = 0

-----------------------------------------------------------------------------
(* Control shared by the calls.                                            *)

(* Make a call; at names its first request.                                *)
Call(c, name, app, n, slot, at) ==
    /\ name \in Calls
    /\ ncalls < MaxCalls
    /\ ncalls' = ncalls + 1
    /\ pc' = [pc EXCEPT ![c] = at]
    /\ job' = [job EXCEPT ![c] = NewJob(name, app, n, slot)]
    /\ ret' = [ret EXCEPT ![c] = "none"]
    /\ UNCHANGED <<chunks, puts, nfaults>>

(* A call that returns r before it makes any request, with session s.      *)
CallReturns(c, name, r, s) ==
    /\ name \in Calls
    /\ ncalls < MaxCalls
    /\ ncalls' = ncalls + 1
    /\ ret' = [ret EXCEPT ![c] = r]
    /\ session' = [session EXCEPT ![c] = s]
    /\ UNCHANGED <<chunks, pc, job, puts, acked, nfaults>>

(* Go on to the request named by at, with session s and local variables j. *)
Proceed(c, at, s, j) ==
    /\ pc' = [pc EXCEPT ![c] = at]
    /\ session' = [session EXCEPT ![c] = s]
    /\ job' = [job EXCEPT ![c] = j]
    /\ UNCHANGED ret

(***************************************************************************)
(* The call of c returns r, with session s.  A failed open or format       *)
(* leaves no session, and the command line's upload of a whole chunk is    *)
(* the last thing its process does.                                        *)
(***************************************************************************)
Return(c, r, s) ==
    LET ends == \/ job[c].name \in {"open", "format"} /\ r # "ok"
                \/ job[c].name = "put_chunk"
    IN  /\ pc' = [pc EXCEPT ![c] = IF ends THEN "closed" ELSE "idle"]
        /\ session' = [session EXCEPT ![c] = IF ends THEN NoSession ELSE s]
        /\ job' = [job EXCEPT ![c] = NoJob]
        /\ ret' = [ret EXCEPT ![c] = r]

(* A request that only reads: the replica and the histories stay.          *)
ReadOnly == UNCHANGED <<chunks, puts, acked, ncalls, nfaults>>

-----------------------------------------------------------------------------
(* The superblock.                                                         *)

Ascending(S) == {q \in [1..Cardinality(S) -> S] :
                    \A i, j \in 1..Cardinality(S) : i < j => q[i] < q[j]}

find_available_slots(key) == {s \in Slot : Signer[s] = key}

(* Variant with a bug: the superblock's own slot is on the free list.      *)
make_superblock_KeepOwn(key) ==
    IF SuperSlot \in find_available_slots(key)
    THEN {new(q) : q \in Ascending(find_available_slots(key))}
    ELSE {}

(* A new superblock over the slots the key can sign, other than its own;   *)
(* none, for Err(NoSuperblock), when the key cannot sign the superblock.   *)
make_superblock(key) ==
    IF SuperSlot \in find_available_slots(key)
    THEN {new(q) : q \in Ascending(find_available_slots(key) \ {SuperSlot})}
    ELSE {}

(* Wrbpod::open asks the home node for the signers first.                  *)
open(c) ==
    /\ pc[c] = "closed"
    /\ Call(c, "open", "none", 0, SuperSlot, "open_signers")
    /\ UNCHANGED <<session, acked>>

open_signers(c) ==
    /\ pc[c] = "open_signers"
    /\ Proceed(c, "download_list", session[c], job[c])
    /\ ReadOnly

(* Wrbpod::format forgets whatever superblock was there.                   *)
format(c) ==
    /\ pc[c] = "closed"
    /\ Call(c, "format", "none", 0, SuperSlot, "format_signers")
    /\ acked' = {}
    /\ UNCHANGED session

format_signers(c) ==
    /\ pc[c] = "format_signers"
    /\ \/ /\ make_superblock(KeyOf[c]) = {}
          /\ Return(c, "NoSuperblock", session[c])
       \/ \E sb \in make_superblock(KeyOf[c]) :
             Proceed(c, "upload_list", [session[c] EXCEPT !.superblock = sb], job[c])
    /\ ReadOnly

(***************************************************************************)
(* What a call does with the superblock sb it has just downloaded, up to   *)
(* its next request: open is done, allocate_slots and delete_slots change  *)
(* it and upload it, unless there is no space.                             *)
(***************************************************************************)
Downloaded(c, sb) ==
    LET alloc == allocate_slots(sb, job[c].app, job[c].n)
        with(b) == [session[c] EXCEPT !.superblock = b]
    IN  \/ job[c].name = "open" /\ Return(c, "ok", with(sb))
        \/ job[c].name = "alloc" /\ alloc.ok
              /\ Proceed(c, "upload_list", with(alloc.sb), job[c])
        \/ job[c].name = "alloc" /\ ~alloc.ok /\ Return(c, "no_space", with(sb))
        \/ job[c].name = "delete"
              /\ Proceed(c, "upload_list", with(delete_slots(sb, job[c].app)), job[c])

(* download_superblock up to get_latest_chunks: an empty slot stands for a *)
(* fresh superblock.                                                       *)
download_superblock_list(c) ==
    LET slot_md == list_chunks[SuperSlot]
    IN  /\ pc[c] = "download_list"
        /\ \/ /\ is_empty(slot_md)
              /\ \/ /\ make_superblock(KeyOf[c]) = {}
                    /\ Return(c, "NoSuperblock", session[c])
                 \/ \E sb \in make_superblock(KeyOf[c]) : Downloaded(c, sb)
           \/ /\ ~is_empty(slot_md) /\ ~verify(slot_md, SuperSlot)
              /\ Return(c, "bad_signature", session[c])
           \/ /\ ~is_empty(slot_md) /\ verify(slot_md, SuperSlot)
              /\ Proceed(c, "download_get", session[c],
                         [job[c] EXCEPT !.slot_md = slot_md])
        /\ ReadOnly

(***************************************************************************)
(* The rest of download_superblock.  The answer has one entry, for the one *)
(* slot asked for, and is indexed (from 0) with the number of that slot.   *)
(***************************************************************************)
download_superblock_get(c) ==
    LET reply == get_latest_chunks(<<SuperSlot>>)
        i == SuperSlot + 1
    IN  /\ pc[c] = "download_get"
        /\ \/ i \notin DOMAIN reply /\ Return(c, "NoSuchChunk", session[c])
           \/ /\ i \in DOMAIN reply /\ reply[i] # job[c].slot_md.data
              /\ Return(c, "hash_mismatch", session[c])
           \/ /\ i \in DOMAIN reply /\ reply[i] = job[c].slot_md.data
              /\ \E sb \in reply[i] : Downloaded(c, sb)
        /\ ReadOnly

(* upload_superblock: the first try carries the version that is there now. *)
upload_superblock_list(c) ==
    /\ pc[c] = "upload_list"
    /\ Proceed(c, "upload_put", session[c],
               [job[c] EXCEPT !.slot_version = list_chunks[SuperSlot].version])
    /\ ReadOnly

(* The replica handles an upload of client c.                              *)
Store(c, slot, data) ==
    LET version == job[c].slot_version
    IN  /\ put_chunk(slot, version, data, KeyOf[c])
        /\ puts' = IF put_chunk_ack(slot, version).accepted /\ slot # SuperSlot
                   THEN puts \cup {[slot |-> slot, version |-> version,
                                    data |-> data, sig |-> KeyOf[c]]}
                   ELSE puts

(* Variant with a bug: a refusal is taken for a success.                   *)
Upload_NoRetry(c, slot, data, s) ==
    Store(c, slot, data) /\ Return(c, "ok", s)

(* Variant with a bug: the retry does not go past the version it was told. *)
Upload_SameVersion(c, slot, data, s) ==
    LET ack == put_chunk_ack(slot, job[c].slot_version)
    IN  /\ Store(c, slot, data)
        /\ \/ ack.accepted /\ Return(c, "ok", s)
           \/ \E m \in ack.metadata :
                 Proceed(c, pc[c], session[c],
                         [job[c] EXCEPT !.slot_version = m.version])
           \/ ~ack.accepted /\ ack.metadata = {} /\ Return(c, "rejected", session[c])

(***************************************************************************)
(* One turn of the loop around the replica's put_chunk, in                 *)
(* upload_superblock and in Wrbpod::put_chunk.  Accepted: the call returns *)
(* Ok, with session s.  Refused with metadata: the same data is tried      *)
(* again one version later, whatever the refusal was about.  Refused       *)
(* without metadata: the call fails.                                       *)
(***************************************************************************)
Upload(c, slot, data, s) ==
    LET ack == put_chunk_ack(slot, job[c].slot_version)
    IN  /\ Store(c, slot, data)
        /\ \/ ack.accepted /\ Return(c, "ok", s)
           \/ \E m \in ack.metadata :
                 Proceed(c, pc[c], session[c],
                         [job[c] EXCEPT !.slot_version = m.version + 1])
           \/ ~ack.accepted /\ ack.metadata = {} /\ Return(c, "rejected", session[c])

(* The slots of app in superblock sb, as <<app, slot>>.                    *)
Owned(sb, app) ==
    {<<app, s>> : s \in IF app \in DOMAIN sb.apps THEN Elems(sb.apps[app]) ELSE {}}

(* Variant with a bug: slot numbers are taken to start at 1.               *)
upload_superblock_put_NextSlot(c) ==
    /\ pc[c] = "upload_put"
    /\ Upload(c, SuperSlot + 1, session[c].superblock, session[c])
    /\ UNCHANGED <<acked, ncalls, nfaults>>

upload_superblock_put(c) ==
    /\ pc[c] = "upload_put"
    /\ Upload(c, SuperSlot, session[c].superblock, session[c])
    /\ acked' = IF job[c].name = "alloc" /\ ret'[c] = "ok"
                THEN acked \cup Owned(session[c].superblock, job[c].app) ELSE acked
    /\ UNCHANGED <<ncalls, nfaults>>

allocate_slots_call(c, app, n) ==
    /\ pc[c] = "idle"
    /\ Call(c, "alloc", app, n, SuperSlot, "download_list")
    /\ UNCHANGED <<session, acked>>

(* Once the caller has asked for the deletion nothing is promised any more. *)
delete_slots_call(c, app) ==
    /\ pc[c] = "idle"
    /\ Call(c, "delete", app, 0, SuperSlot, "download_list")
    /\ acked' = {p \in acked : p[1] # app}
    /\ UNCHANGED session

-----------------------------------------------------------------------------
(* Slots and slices.                                                       *)

ChunkId(c, app, i) ==
    app_slot_id_to_stackerdb_chunk_id(session[c].superblock, app, i)

fetch_chunk(c, app, i) ==
    /\ pc[c] = "idle"
    /\ \/ /\ ChunkId(c, app, i) = {}
          /\ CallReturns(c, "fetch", "no_such_app_chunk", session[c])
       \/ \E s \in ChunkId(c, app, i) :
             /\ Call(c, "fetch", app, 0, s, "fetch_list")
             /\ UNCHANGED <<session, acked>>

(* An empty slot returns (0, None) and leaves the local copy as it is; a   *)
(* bad signature is looked at again with fresh signers, once.              *)
fetch_chunk_list(c) ==
    LET s == job[c].slot
        slot_md == list_chunks[s]
    IN  /\ pc[c] = "fetch_list"
        /\ \/ /\ is_empty(slot_md)
              /\ Return(c, "ok", [session[c] EXCEPT !.fetched = @ \cup {s}])
           \/ /\ ~is_empty(slot_md) /\ verify(slot_md, s)
              /\ Proceed(c, "fetch_get", session[c], [job[c] EXCEPT !.slot_md = slot_md])
           \/ /\ ~is_empty(slot_md) /\ ~verify(slot_md, s) /\ job[c].refreshes = 0
              /\ Proceed(c, "fetch_signers", session[c], job[c])
           \/ /\ ~is_empty(slot_md) /\ ~verify(slot_md, s) /\ job[c].refreshes > 0
              /\ Return(c, "bad_signature", session[c])
        /\ ReadOnly

(* refresh_signers, then the loop of fetch_chunk starts over.              *)
fetch_chunk_signers(c) ==
    /\ pc[c] = "fetch_signers"
    /\ Proceed(c, "fetch_list", session[c], [job[c] EXCEPT !.refreshes = @ + 1])
    /\ ReadOnly

(* Variant with a bug: the data is not compared with the signed hash.      *)
get_chunk_NoHash(c) ==
    LET s == job[c].slot
        data == get_latest_chunks(<<s>>)[1]
    IN  /\ pc[c] = "fetch_get"
        /\ \E x \in data : Return(c, "ok",
              [session[c] EXCEPT !.chunks[s] = [slices |-> x, dirty |-> FALSE],
                                 !.fetched = @ \cup {s}])
        /\ ReadOnly

(* get_chunk: the local copy, changed or not, is replaced by the data.     *)
get_chunk(c) ==
    LET s == job[c].slot
        data == get_latest_chunks(<<s>>)[1]
    IN  /\ pc[c] = "fetch_get"
        /\ \/ data # job[c].slot_md.data /\ Return(c, "hash_mismatch", session[c])
           \/ /\ data = job[c].slot_md.data
              /\ \E x \in data : Return(c, "ok",
                    [session[c] EXCEPT !.chunks[s] = [slices |-> x, dirty |-> FALSE],
                                       !.fetched = @ \cup {s}])
        /\ ReadOnly

(* Variant with a bug: the cached chunk is replaced by an empty one first. *)
put_slice_Fresh(c, app, i, id, val) ==
    /\ pc[c] = "idle"
    /\ \E s \in ChunkId(c, app, i) :
          CallReturns(c, "put_slice", "true",
             [session[c] EXCEPT !.chunks[s] =
                [slices |-> [NoSlices EXCEPT ![id] = val], dirty |-> TRUE]])

(***************************************************************************)
(* put_slice changes the local copy, and starts from an empty chunk when   *)
(* the slot is not cached, whether it was fetched or not: neither wrb-ll   *)
(* nor the handler of its calls looks.  It may find the chunk full.        *)
(***************************************************************************)
put_slice(c, app, i, id, val) ==
    LET old(s) == IF session[c].chunks[s] = NoChunk THEN NoSlices
                  ELSE session[c].chunks[s].slices
    IN  /\ pc[c] = "idle"
        /\ \/ /\ ChunkId(c, app, i) = {}
              /\ CallReturns(c, "put_slice", "false", session[c])
           \/ \E s \in ChunkId(c, app, i) :
                 \/ CallReturns(c, "put_slice", "false", session[c])
                 \/ CallReturns(c, "put_slice", "true",
                       [session[c] EXCEPT !.chunks[s] =
                          [slices |-> [old(s) EXCEPT ![id] = val], dirty |-> TRUE]])

sync_slot(c, app, i) ==
    LET cached == {s \in ChunkId(c, app, i) : session[c].chunks[s] # NoChunk}
    IN  /\ pc[c] = "idle"
        /\ \/ cached = {} /\ CallReturns(c, "sync", "NoSuchChunk", session[c])
           \/ \E s \in cached :
                 /\ Call(c, "sync", app, 0, s, "sync_list")
                 /\ UNCHANGED <<session, acked>>

(* The command line uploads a whole chunk, an empty one to clear a slot    *)
(* (cli/wrbpod.rs, wrbpod_clear_slot), in a process of its own.            *)
wrbpod_clear_slot(c, app, i) ==
    /\ pc[c] = "idle"
    /\ session[c].fetched = {} /\ session[c].chunks = NoSession.chunks
    /\ \E s \in ChunkId(c, app, i) :
          /\ Call(c, "put_chunk", app, 0, s, "sync_list")
          /\ UNCHANGED <<session, acked>>

(* Variant with a bug: the local copy is clean before the upload is done.  *)
sync_slot_list_CleanFirst(c) ==
    /\ pc[c] = "sync_list"
    /\ Proceed(c, "sync_put",
               IF job[c].name = "sync"
               THEN [session[c] EXCEPT !.chunks[job[c].slot].dirty = FALSE]
               ELSE session[c],
               [job[c] EXCEPT !.slot_version = list_chunks[job[c].slot].version + 1])
    /\ ReadOnly

(* The version to write is one past the version that is there now.         *)
sync_slot_list(c) ==
    /\ pc[c] = "sync_list"
    /\ Proceed(c, "sync_put", session[c],
               [job[c] EXCEPT !.slot_version = list_chunks[job[c].slot].version + 1])
    /\ ReadOnly

(* The data the call uploads, and the session once it is accepted.         *)
SyncData(c) ==
    IF job[c].name = "put_chunk" THEN NoSlices
    ELSE session[c].chunks[job[c].slot].slices
SyncDone(c) ==
    IF job[c].name = "put_chunk" THEN session[c]
    ELSE [session[c] EXCEPT !.chunks[job[c].slot].dirty = FALSE]

sync_slot_put(c) ==
    /\ pc[c] = "sync_put"
    /\ Upload(c, job[c].slot, SyncData(c), SyncDone(c))
    /\ UNCHANGED <<acked, ncalls, nfaults>>

-----------------------------------------------------------------------------
(* Faults.                                                                 *)

(* A request fails before it reaches the replica, or a read loses its      *)
(* answer: the call returns the error; the session keeps what it has.      *)
RequestFails(c) ==
    /\ pc[c] \in Requests
    /\ nfaults < MaxFaults
    /\ nfaults' = nfaults + 1
    /\ Return(c, "net_error", session[c])
    /\ UNCHANGED <<chunks, puts, acked, ncalls>>

(* An upload reaches the replica but its answer is lost.                   *)
AnswerLost(c) ==
    LET slot == IF pc[c] = "upload_put" THEN SuperSlot ELSE job[c].slot
        data == IF pc[c] = "upload_put" THEN session[c].superblock ELSE SyncData(c)
    IN  /\ pc[c] \in {"upload_put", "sync_put"}
        /\ nfaults < MaxFaults
        /\ nfaults' = nfaults + 1
        /\ Store(c, slot, data)
        /\ Return(c, "net_error", session[c])
        /\ UNCHANGED <<acked, ncalls>>

(* The process ends, between two calls or in the middle of one.            *)
Exit(c) ==
    /\ pc[c] # "closed"
    /\ "exit" \in Calls
    /\ pc' = [pc EXCEPT ![c] = "closed"]
    /\ session' = [session EXCEPT ![c] = NoSession]
    /\ job' = [job EXCEPT ![c] = NoJob]
    /\ ret' = [ret EXCEPT ![c] = "none"]
    /\ UNCHANGED <<chunks, puts, acked, ncalls, nfaults>>

-----------------------------------------------------------------------------
(* The next request of the call in progress.                               *)
Request(c) ==
    \/ open_signers(c) \/ format_signers(c)
    \/ download_superblock_list(c) \/ download_superblock_get(c)
    \/ upload_superblock_list(c) \/ upload_superblock_put(c)
    \/ fetch_chunk_list(c) \/ fetch_chunk_signers(c) \/ get_chunk(c)
    \/ sync_slot_list(c) \/ sync_slot_put(c)

NewCall(c) ==
    \/ open(c) \/ format(c)
    \/ \E app \in App :
          \/ delete_slots_call(c, app)
          \/ \E n \in AllocSizes : allocate_slots_call(c, app, n)
          \/ \E i \in AppSlot :
                \/ fetch_chunk(c, app, i)
                \/ sync_slot(c, app, i)
                \/ wrbpod_clear_slot(c, app, i)
                \/ \E id \in SliceId, val \in Val : put_slice(c, app, i, id, val)

Next == \E c \in Client :
    Request(c) \/ NewCall(c) \/ RequestFails(c) \/ AnswerLost(c) \/ Exit(c)

Spec == Init /\ [][Next]_vars

(* A process goes on with its call: every request ends, answered or not.   *)
FairSpec == Spec /\ \A c \in Client : WF_vars(Request(c))

-----------------------------------------------------------------------------
(* Properties.                                                             *)

(* The replica's table, the sessions and the calls have the shape the code *)
(* gives them; a slot other than the superblock's only ever holds slices.  *)
RowOK(s, row) ==
    /\ row = [version |-> row.version, data |-> row.data, sig |-> row.sig]
    /\ row.version \in Nat
    /\ row.sig \in Key \cup {NoKey}
    /\ \A d \in row.data : IF s = SuperSlot THEN WrbpodSuperblock(d) ELSE d \in Slices

SessionOK(s) ==
    /\ s = [superblock |-> s.superblock, chunks |-> s.chunks, fetched |-> s.fetched]
    /\ WrbpodSuperblock(s.superblock)
    /\ s.chunks \in [Slot -> Chunk \cup {NoChunk}]
    /\ s.fetched \subseteq Slot

JobOK(j) ==
    /\ j = [name |-> j.name, app |-> j.app, n |-> j.n, slot |-> j.slot,
            slot_md |-> j.slot_md, slot_version |-> j.slot_version,
            refreshes |-> j.refreshes]
    /\ j.app \in App \cup {"none"}
    /\ j.n \in Nat /\ j.slot \in Slot
    /\ j.slot_version \in Nat /\ j.refreshes \in Nat

TypeOK ==
    /\ chunks = [s \in Slot |-> chunks[s]]
    /\ \A s \in Slot : RowOK(s, chunks[s])
    /\ pc \in [Client -> AtRest \cup Requests]
    /\ session = [c \in Client |-> session[c]]
    /\ \A c \in Client : SessionOK(session[c])
    /\ job = [c \in Client |-> job[c]]
    /\ \A c \in Client : JobOK(job[c])
    /\ ret = [c \in Client |-> ret[c]]
    /\ ncalls \in 0..MaxCalls /\ nfaults \in 0..MaxFaults

(***************************************************************************)
(* Every superblock, in a session or on the replica, is sound: no slot     *)
(* belongs to two apps and none is lost, whatever the sessions do at the   *)
(* same time and wherever their calls fail.                                *)
(***************************************************************************)
SuperblocksSound ==
    /\ \A c \in Client : WellFormed(session[c].superblock)
    /\ \A sb \in chunks[SuperSlot].data : WellFormed(sb)

(***************************************************************************)
(* The superblock's slot is never handed out: no session lists it, and no  *)
(* call that moves slices is about it, so slices never replace a           *)
(* superblock.                                                             *)
(***************************************************************************)
Lists(sb, s) == \E i \in DOMAIN sb.slot_ids : sb.slot_ids[i].id = s

SuperblockSlotReserved ==
    /\ \A c \in Client :
          /\ ~Lists(session[c].superblock, SuperSlot)
          /\ job[c].name \in {"fetch", "sync", "put_chunk"} => job[c].slot # SuperSlot
          /\ session[c].chunks[SuperSlot] = NoChunk
    /\ \A sb \in chunks[SuperSlot].data : ~Lists(sb, SuperSlot)

(* A slot of the replica changes only to a higher version, except for the  *)
(* first chunk of an empty slot, and a written slot is never empty again.  *)
VersionsAdvance ==
    [][\A s \in Slot : chunks'[s] # chunks[s] =>
          /\ chunks'[s].data # {}
          /\ is_empty(chunks[s]) \/ chunks'[s].version > chunks[s].version]_chunks

(***************************************************************************)
(* allocate_slots that returned Ok(true) is kept: the superblock on the    *)
(* replica goes on giving the app every slot it was told it has, until the *)
(* app's deletion or a format is asked for.                                *)
(***************************************************************************)
AllocationsKept ==
    \A p \in acked : \E sb \in chunks[SuperSlot].data : p \in Owned(sb, p[1])

(* A local copy that is not dirty is one the replica accepted for that     *)
(* slot: set_dirty(false) and a fetch never hide an unsaved change.        *)
CleanIsSaved ==
    \A c \in Client, s \in Slot :
        session[c].chunks[s] # NoChunk /\ ~session[c].chunks[s].dirty =>
            \E p \in puts : p.slot = s /\ p.data = session[c].chunks[s].slices

(***************************************************************************)
(* A fetch that caches data caches what the slot's own signer put there    *)
(* under the version the fetch reports, even if the slot is written        *)
(* between the two requests.                                               *)
(***************************************************************************)
FetchIsAuthentic ==
    [][\A c \in Client : pc[c] = "fetch_get" /\ ret'[c] = "ok" =>
          LET s == job[c].slot
          IN  [slot |-> s, version |-> job[c].slot_md.version, sig |-> Signer[s],
               data |-> session'[c].chunks[s].slices] \in puts]_vars

(***************************************************************************)
(* An upload of slices replaces the whole chunk of its slot.  A slice that *)
(* was saved in a slot goes from it in two ways only: the command line     *)
(* clears the slot, or a session syncs a slot that it has not fetched, its *)
(* put_slice having started from an empty chunk.  wrb.clar says a put is   *)
(* into a locally fetched slot, but nothing sees to it.                    *)
(***************************************************************************)
SlicesKept ==
    [][\A s \in Slot \ {SuperSlot}, id \in SliceId :
          (\E d \in chunks[s].data : d[id] # NoSlice) =>
             \/ \E d \in chunks'[s].data : d[id] # NoSlice
             \/ \E c \in Client :
                   /\ pc[c] = "sync_put" /\ job[c].slot = s
                   /\ job[c].name = "put_chunk" \/ s \notin session[c].fetched]_chunks

(* Every call returns: the retries of an upload come to an end.            *)
CallsReturn ==
    \A c \in Client : pc[c] \in Requests ~> pc[c] \in AtRest
=============================================================================

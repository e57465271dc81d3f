---------------------------- MODULE WrbpodProofs ----------------------------
(***************************************************************************)
(* Sessions on a shared replica, for every number of clients, slots, apps, *)
(* keys, calls and faults: the superblocks stay well formed and never hand *)
(* out their own slot, the versions of the replica only advance, and what  *)
(* the sessions promise about data holds.                                  *)
(***************************************************************************)
EXTENDS Wrbpod, SuperblockProofs

(* A superblock a session may hold or the replica may store.               *)
SbOK(sb) == WrbpodSuperblock(sb) /\ WellFormed(sb) /\ ~Lists(sb, SuperSlot)

SessInv(s) == SessionOK(s) /\ SbOK(s.superblock) /\ s.chunks[SuperSlot] = NoChunk

(***************************************************************************)
(* A call in progress: the request it makes next goes with its name, an    *)
(* allocation is for an app, calls about slices are not about the          *)
(* superblock's slot, and a slot being saved is in the local cache.        *)
(***************************************************************************)
CallInv(at, s, j) ==
    /\ JobOK(j)
    /\ j.name = "alloc" => j.app \in App
    /\ j.name \in {"fetch", "sync", "put_chunk"} => j.slot # SuperSlot
    /\ at \in {"fetch_list", "fetch_signers", "fetch_get"} => j.name = "fetch"
    /\ at \in {"sync_list", "sync_put"} => j.name \in {"sync", "put_chunk"}
    /\ j.name = "sync" => s.chunks[j.slot] # NoChunk
    /\ at = "idle" => j.name = "none"

ClientInv ==
    /\ pc \in [Client -> AtRest \cup Requests]
    /\ session = [c \in Client |-> session[c]]
    /\ job = [c \in Client |-> job[c]]
    /\ ret = [c \in Client |-> ret[c]]
    /\ \A c \in Client : SessInv(session[c]) /\ CallInv(pc[c], session[c], job[c])

ReplicaInv ==
    /\ chunks = [s \in Slot |-> chunks[s]]
    /\ \A s \in Slot : RowOK(s, chunks[s])
    /\ \A sb \in chunks[SuperSlot].data : SbOK(sb)

CountInv == ncalls \in 0..MaxCalls /\ nfaults \in 0..MaxFaults

IInv == ClientInv /\ ReplicaInv /\ CountInv

-----------------------------------------------------------------------------
(* Lists through the operations on superblocks.                            *)

(* Allocation relabels slots; it brings no new one onto the list.          *)
LEMMA AllocateOK ==
    ASSUME NEW sb, SbOK(sb), NEW app \in App, NEW n \in Nat
    PROVE  SbOK(allocate_slots(sb, app, n).sb)
<1> DEFINE r == allocate_slots(sb, app, n)
<1>1. WrbpodSuperblock(r.sb) /\ WellFormed(r.sb)
  BY AllocateSound DEF SbOK
<1>2. ~Lists(r.sb, SuperSlot)
  <2>1. CASE r = [ok |-> FALSE, sb |-> sb]
    BY <2>1 DEF SbOK
  <2>2. ASSUME NEW q \in fill_free_slot(sb, n),
               r = [ok |-> TRUE, sb |-> GiveSlots(sb, app, q)]
        PROVE  ~Lists(r.sb, SuperSlot)
    <3> DEFINE g == GiveSlots(sb, app, q)
    <3>1. /\ DOMAIN g.slot_ids = DOMAIN sb.slot_ids
          /\ \A i \in DOMAIN sb.slot_ids : g.slot_ids[i].id = sb.slot_ids[i].id
      BY GiveFacts DEF SbOK
    <3> HIDE DEF g, r
    <3>2. ~Lists(g, SuperSlot)
      BY <3>1 DEF SbOK, Lists
    <3>3. r.sb = g
      BY <2>2 DEF g
    <3> QED BY <3>2, <3>3
  <2> QED BY <2>1, <2>2, AllocateCases
<1> QED BY <1>1, <1>2 DEF SbOK

(* So does deletion.                                                       *)
LEMMA DeleteOK ==
    ASSUME NEW sb, SbOK(sb), NEW app
    PROVE  SbOK(delete_slots(sb, app))
<1>1. WrbpodSuperblock(delete_slots(sb, app)) /\ WellFormed(delete_slots(sb, app))
  BY DeleteSound DEF SbOK
<1>2. CASE app \notin DOMAIN sb.apps
  BY <1>2 DEF delete_slots
<1>3. CASE app \in DOMAIN sb.apps
  <2> DEFINE d == delete_slots(sb, app)
  <2>1. /\ DOMAIN d.slot_ids = DOMAIN sb.slot_ids
        /\ \A i \in DOMAIN sb.slot_ids : d.slot_ids[i].id = sb.slot_ids[i].id
    BY <1>3, DeleteFacts DEF SbOK
  <2> HIDE DEF d
  <2>2. ~Lists(d, SuperSlot)
    BY <2>1 DEF SbOK, Lists
  <2> QED BY <1>1, <2>2 DEF SbOK, d
<1> QED BY <1>2, <1>3

(* make_superblock leaves its own slot out, whatever the key.              *)
LEMMA MakeOK ==
    ASSUME NEW key, NEW sb \in make_superblock(key)
    PROVE  SbOK(sb)
<1> DEFINE S == find_available_slots(key) \ {SuperSlot}
           n == Cardinality(S)
<1>1. PICK q \in Ascending(S) : sb = new(q)
  BY DEF make_superblock
<1>2. S \subseteq Slot /\ SuperSlot \notin S
  BY DEF find_available_slots
<1>3. n \in Nat
  BY <1>2, SlotAssumption, FS_Subset, FS_CardinalityType
<1>4. q \in [1..n -> S] /\ \A i, j \in 1..n : i < j => q[i] < q[j]
  BY <1>1 DEF Ascending
<1> HIDE DEF S, n
<1>5. q \in Seq(Slot) /\ DOMAIN q = 1..n
  <2>1. q \in [1..n -> Slot]
    BY <1>2, <1>4
  <2> QED BY <1>3, <2>1, SeqDef
<1>6. \A i, j \in DOMAIN q : q[i] = q[j] => i = j
  <2>1. \A i \in 1..n : q[i] \in Nat
    BY <1>2, <1>4, SlotAssumption
  <2> QED BY <1>3, <1>4, <1>5, <2>1
<1>7. WrbpodSuperblock(new(q)) /\ WellFormed(new(q))
  BY <1>5, <1>6, NewSound
<1>8. ~Lists(new(q), SuperSlot)
  <2>1. DOMAIN new(q).slot_ids = DOMAIN q /\ \A i \in DOMAIN q : new(q).slot_ids[i].id = q[i]
    BY DEF new
  <2>2. \A i \in DOMAIN q : q[i] # SuperSlot
    BY <1>2, <1>4, <1>5
  <2> QED BY <2>1, <2>2 DEF Lists
<1> QED BY <1>1, <1>7, <1>8 DEF SbOK

-----------------------------------------------------------------------------
(* The building blocks of the actions.                                     *)

(* A process without a session.                                            *)
LEMMA NoSessionOK == SessInv(NoSession)
<1>1. WrbpodSuperblock(empty) /\ WellFormed(empty) /\ ~Lists(empty, SuperSlot)
  <2>1. empty.slot_ids = << >> /\ DOMAIN empty.apps = {}
    BY DEF empty
  <2>2. << >> \in Seq(WrbpodSlot) /\ DOMAIN << >> = {}
    BY EmptySeq
  <2>3. WrbpodSuperblock(empty)
    <3>1. [a \in {} |-> << >>] \in [{} -> Seq(Slot)]
      OBVIOUS
    <3>2. {} \in SUBSET App
      OBVIOUS
    <3> QED BY <2>2, <3>1, <3>2, RecordShape DEF empty
  <2> QED BY <2>1, <2>2, <2>3
      DEF Lists, WellFormed, SlotIdsDistinct, OwnedSlotsListed, NoSlotShared, FilledIffOwned
<1>2. NoSession.superblock = empty
  BY DEF NoSession
<1>3. SessionOK(NoSession) /\ NoSession.chunks[SuperSlot] = NoChunk
  BY <1>1, <1>2, WrbpodAssumption DEF NoSession, SessionOK
<1> QED BY <1>1, <1>2, <1>3 DEF SessInv, SbOK

(* A client at rest has no call in progress.                               *)
LEMMA NoJobOK == \A s, at : at \in AtRest => CallInv(at, s, NoJob)
BY WrbpodAssumption DEF CallInv, JobOK, NoJob, NewJob, AtRest

(* A call that returns with a good session leaves good clients.            *)
LEMMA ReturnOK ==
    ASSUME ClientInv, NEW c \in Client, NEW r, NEW s, SessInv(s), Return(c, r, s)
    PROVE  ClientInv'
<1>1. PICK at \in AtRest : pc' = [pc EXCEPT ![c] = at]
  BY DEF Return, AtRest
<1>2. PICK t : SessInv(t) /\ session' = [session EXCEPT ![c] = t]
  BY NoSessionOK DEF Return
<1>3. job' = [job EXCEPT ![c] = NoJob] /\ ret' = [ret EXCEPT ![c] = r]
  BY DEF Return
<1>4. CallInv(at, t, NoJob)
  BY <1>1, NoJobOK
<1> QED BY <1>1, <1>2, <1>3, <1>4 DEF ClientInv

(* A call that goes on with a good session and good local variables too.   *)
LEMMA ProceedOK ==
    ASSUME ClientInv, NEW c \in Client, NEW at \in Requests, NEW s, NEW j,
           SessInv(s), CallInv(at, s, j), Proceed(c, at, s, j)
    PROVE  ClientInv'
BY DEF Proceed, ClientInv

(* A new call.                                                             *)
LEMMA CallOK ==
    ASSUME ClientInv, ReplicaInv, CountInv, NEW c \in Client, NEW name, NEW app, NEW n,
           NEW slot, NEW at \in Requests,
           CallInv(at, session[c], NewJob(name, app, n, slot)),
           Call(c, name, app, n, slot, at), UNCHANGED session
    PROVE  IInv'
<1>1. ClientInv'
  BY DEF Call, ClientInv
<1>2. ReplicaInv'
  BY DEF Call, ReplicaInv
<1>3. CountInv'
  BY WrbpodAssumption DEF Call, CountInv
<1> QED BY <1>1, <1>2, <1>3 DEF IInv

(* A call that returns at once.                                            *)
LEMMA CallReturnsOK ==
    ASSUME IInv, NEW c \in Client, NEW name, NEW r, NEW s, SessInv(s),
           CallInv(pc[c], s, job[c]), CallReturns(c, name, r, s)
    PROVE  IInv'
<1>1. ClientInv'
  BY DEF CallReturns, ClientInv, IInv
<1>2. ReplicaInv'
  BY DEF CallReturns, ReplicaInv, IInv
<1>3. CountInv'
  BY WrbpodAssumption DEF CallReturns, CountInv, IInv
<1> QED BY <1>1, <1>2, <1>3 DEF IInv

(* An upload of the right kind of data leaves a good replica.              *)
LEMMA StoreOK ==
    ASSUME ReplicaInv, ClientInv, NEW c \in Client, NEW slot \in Slot, NEW data,
           slot = SuperSlot => SbOK(data),
           slot # SuperSlot => data \in Slices,
           Store(c, slot, data)
    PROVE  ReplicaInv'
<1> DEFINE version == job[c].slot_version
           row == [version |-> version, data |-> {data}, sig |-> KeyOf[c]]
<1>1. version \in Nat /\ KeyOf[c] \in Key
  BY WrbpodAssumption DEF ClientInv, CallInv, JobOK
<1>2. RowOK(slot, row)
  BY <1>1 DEF RowOK, SbOK
<1>3. chunks' = chunks \/ chunks' = [chunks EXCEPT ![slot] = row]
  BY DEF Store, put_chunk
<1>4. CASE chunks' = chunks
  BY <1>4 DEF ReplicaInv
<1>5. CASE chunks' = [chunks EXCEPT ![slot] = row]
  <2> HIDE DEF row
  <2>1. \A s \in Slot : chunks'[s] = IF s = slot THEN row ELSE chunks[s]
    BY <1>5 DEF ReplicaInv
  <2>2. chunks' = [s \in Slot |-> chunks'[s]]
    BY <1>5 DEF ReplicaInv
  <2>3. \A s \in Slot : RowOK(s, chunks'[s])
    BY <1>2, <2>1 DEF ReplicaInv
  <2>4. slot = SuperSlot => row.data = {data}
    BY DEF row
  <2>5. \A sb \in chunks'[SuperSlot].data : SbOK(sb)
    BY <2>1, <2>4, WrbpodAssumption DEF ReplicaInv
  <2> QED BY <2>2, <2>3, <2>5 DEF ReplicaInv
<1> QED BY <1>3, <1>4, <1>5

(* A step that leaves the replica alone.                                   *)
LEMMA UnchangedReplica == ReplicaInv /\ UNCHANGED chunks => ReplicaInv'
BY DEF ReplicaInv

(* A step that leaves the counters alone.                                  *)
LEMMA UnchangedCount == CountInv /\ UNCHANGED <<ncalls, nfaults>> => CountInv'
BY DEF CountInv

(* A step that only reads from the replica.                                *)
LEMMA ReadOnlyOK == IInv /\ ClientInv' /\ ReadOnly => IInv'
BY UnchangedReplica, UnchangedCount DEF IInv, ReadOnly

(* A session with another superblock keeps its cache.                      *)
LEMMA WithSuperblock ==
    ASSUME NEW s, SessInv(s), NEW sb, SbOK(sb)
    PROVE  LET t == [s EXCEPT !.superblock = sb]
           IN  SessInv(t) /\ t.chunks = s.chunks
BY DEF SessInv, SessionOK, SbOK

(* A slot that an app has is a slot of the wrbpod, not the superblock's.   *)
LEMMA AppSlotOK ==
    ASSUME NEW c \in Client, SessInv(session[c]), NEW app, NEW i, NEW s \in ChunkId(c, app, i)
    PROVE  s \in Slot /\ s # SuperSlot
<1> DEFINE sb == session[c].superblock
<1>1. SbOK(sb)
  BY DEF SessInv
<1>2. app \in DOMAIN sb.apps /\ i + 1 \in DOMAIN sb.apps[app] /\ s = sb.apps[app][i + 1]
  BY DEF ChunkId, app_slot_id_to_stackerdb_chunk_id
<1> HIDE DEF sb
<1>3. sb.apps[app] \in Seq(Slot)
  BY <1>1, <1>2 DEF SbOK, WrbpodSuperblock
<1>4. s \in Slot
  BY <1>2, <1>3, LenProperties, ElementOfSeq
<1>5. Lists(sb, s)
  BY <1>1, <1>2 DEF SbOK, WellFormed, OwnedSlotsListed, Lists
<1> QED BY <1>1, <1>4, <1>5 DEF SbOK

(* What the calls do with a superblock they have downloaded.               *)
LEMMA DownloadedOK ==
    ASSUME ClientInv, NEW c \in Client, NEW sb, SbOK(sb), Downloaded(c, sb)
    PROVE  ClientInv'
<1> DEFINE alloc == allocate_slots(sb, job[c].app, job[c].n)
           with(b) == [session[c] EXCEPT !.superblock = b]
<1>1. SessInv(session[c]) /\ CallInv(pc[c], session[c], job[c])
  BY DEF ClientInv
<1>2. ASSUME NEW b, SbOK(b)
      PROVE  SessInv(with(b)) /\ CallInv("upload_list", with(b), job[c])
  <2>1. SessInv(with(b)) /\ with(b).chunks = session[c].chunks
    BY <1>1, <1>2, WithSuperblock
  <2> QED BY <1>1, <2>1 DEF CallInv
<1>3. CASE job[c].name = "open" /\ Return(c, "ok", with(sb))
  BY <1>2, <1>3, ReturnOK
<1>4. CASE job[c].name = "alloc" /\ Proceed(c, "upload_list", with(alloc.sb), job[c])
  <2>1. job[c].app \in App /\ job[c].n \in Nat
    BY <1>1, <1>4 DEF CallInv, JobOK
  <2>2. SbOK(alloc.sb)
    BY <2>1, AllocateOK
  <2>3. SessInv(with(alloc.sb)) /\ CallInv("upload_list", with(alloc.sb), job[c])
    BY <1>2, <2>2
  <2>4. "upload_list" \in Requests
    BY DEF Requests
  <2> HIDE DEF with, alloc
  <2> QED BY <1>4, <2>3, <2>4, ProceedOK
<1>5. CASE Return(c, "no_space", with(sb))
  BY <1>2, <1>5, ReturnOK
<1>6. CASE Proceed(c, "upload_list", with(delete_slots(sb, job[c].app)), job[c])
  <2> DEFINE d == delete_slots(sb, job[c].app)
  <2>1. SbOK(d)
    BY DeleteOK
  <2>2. SessInv(with(d)) /\ CallInv("upload_list", with(d), job[c])
    BY <1>2, <2>1
  <2>3. "upload_list" \in Requests
    BY DEF Requests
  <2> HIDE DEF with
  <2> QED BY <1>6, <2>2, <2>3, ProceedOK
<1> QED BY <1>3, <1>4, <1>5, <1>6 DEF Downloaded

(* One turn of an upload loop.                                             *)
LEMMA UploadOK ==
    ASSUME IInv, NEW c \in Client, pc[c] \in Requests, NEW slot \in Slot, NEW data,
           slot = SuperSlot => SbOK(data),
           slot # SuperSlot => data \in Slices,
           NEW s, SessInv(s), Upload(c, slot, data, s)
    PROVE  ClientInv' /\ ReplicaInv'
<1> DEFINE ack == put_chunk_ack(slot, job[c].slot_version)
<1>1. ReplicaInv'
  BY StoreOK DEF Upload, IInv
<1>2. SessInv(session[c]) /\ CallInv(pc[c], session[c], job[c]) /\ ClientInv
  BY DEF IInv, ClientInv
<1>3. CASE Return(c, "ok", s)
  BY <1>1, <1>2, <1>3, ReturnOK
<1>4. ASSUME NEW m \in ack.metadata,
             Proceed(c, pc[c], session[c], [job[c] EXCEPT !.slot_version = m.version + 1])
      PROVE  ClientInv'
  <2>1. m = chunks[slot]
    BY <1>4 DEF put_chunk_ack
  <2>2. m.version + 1 \in Nat
    BY <2>1 DEF IInv, ReplicaInv, RowOK
  <2>3. CallInv(pc[c], session[c], [job[c] EXCEPT !.slot_version = m.version + 1])
    BY <1>2, <2>2 DEF CallInv, JobOK
  <2> QED BY <1>2, <1>4, <2>3, ProceedOK
<1>5. CASE Return(c, "rejected", session[c])
  BY <1>1, <1>2, <1>5, ReturnOK
<1> QED BY <1>1, <1>3, <1>4, <1>5 DEF Upload

-----------------------------------------------------------------------------
(* Every request of a call in progress keeps the invariant.                *)

(* The requests of open, format, allocate_slots and delete_slots.          *)
LEMMA SuperblockRequestOK ==
    ASSUME IInv, NEW c \in Client,
           \/ open_signers(c) \/ format_signers(c)
           \/ download_superblock_list(c) \/ download_superblock_get(c)
           \/ upload_superblock_list(c) \/ upload_superblock_put(c)
    PROVE  IInv'
<1>1. /\ ClientInv /\ ReplicaInv /\ CountInv
      /\ SessInv(session[c]) /\ CallInv(pc[c], session[c], job[c])
  BY DEF IInv, ClientInv
<1>2. \A at \in {"download_list", "download_get", "upload_list", "upload_put"} :
         at \in Requests /\ CallInv(at, session[c], job[c])
  BY <1>1 DEF CallInv, Requests
<1>3. CASE open_signers(c)
  <2>1. Proceed(c, "download_list", session[c], job[c]) /\ ReadOnly
    BY <1>3 DEF open_signers
  <2>2. ClientInv'
    BY <1>1, <1>2, <2>1, ProceedOK
  <2> QED BY <2>1, <2>2, ReadOnlyOK
<1>4. CASE format_signers(c)
  <2>1. ReadOnly
    BY <1>4 DEF format_signers
  <2>2. CASE Return(c, "NoSuperblock", session[c])
    <3>1. ClientInv'
      BY <1>1, <2>2, ReturnOK
    <3> QED BY <2>1, <3>1, ReadOnlyOK
  <2>3. ASSUME NEW sb \in make_superblock(KeyOf[c]),
               Proceed(c, "upload_list", [session[c] EXCEPT !.superblock = sb], job[c])
        PROVE  IInv'
    <3> DEFINE s == [session[c] EXCEPT !.superblock = sb]
    <3>1. SessInv(s) /\ s.chunks = session[c].chunks
      BY <1>1, MakeOK, WithSuperblock
    <3> HIDE DEF s
    <3>2. CallInv("upload_list", s, job[c])
      BY <1>1, <3>1 DEF CallInv
    <3>3. Proceed(c, "upload_list", s, job[c])
      BY <2>3 DEF s
    <3>4. ClientInv'
      BY <1>1, <1>2, <3>1, <3>2, <3>3, ProceedOK
    <3> QED BY <2>1, <3>4, ReadOnlyOK
  <2> QED BY <1>4, <2>2, <2>3 DEF format_signers
<1>5. CASE download_superblock_list(c)
  <2> DEFINE slot_md == list_chunks[SuperSlot]
  <2>1. ReadOnly
    BY <1>5 DEF download_superblock_list
  <2>2. CASE Return(c, "NoSuperblock", session[c])
    <3>1. ClientInv'
      BY <1>1, <2>2, ReturnOK
    <3> QED BY <2>1, <3>1, ReadOnlyOK
  <2>3. ASSUME NEW sb \in make_superblock(KeyOf[c]), Downloaded(c, sb) PROVE IInv'
    <3>1. ClientInv'
      BY <1>1, <2>3, MakeOK, DownloadedOK
    <3> QED BY <2>1, <3>1, ReadOnlyOK
  <2>4. CASE Return(c, "bad_signature", session[c])
    <3>1. ClientInv'
      BY <1>1, <2>4, ReturnOK
    <3> QED BY <2>1, <3>1, ReadOnlyOK
  <2>5. CASE Proceed(c, "download_get", session[c], [job[c] EXCEPT !.slot_md = slot_md])
    <3> DEFINE j == [job[c] EXCEPT !.slot_md = slot_md]
    <3>1. CallInv("download_get", session[c], j)
      BY <1>1 DEF CallInv, JobOK
    <3> HIDE DEF j
    <3>2. Proceed(c, "download_get", session[c], j)
      BY <2>5 DEF j
    <3>3. ClientInv'
      BY <1>1, <1>2, <3>1, <3>2, ProceedOK
    <3> QED BY <2>1, <3>3, ReadOnlyOK
  <2> QED BY <1>5, <2>2, <2>3, <2>4, <2>5 DEF download_superblock_list
<1>6. CASE download_superblock_get(c)
  <2> DEFINE reply == get_latest_chunks(<<SuperSlot>>)
             i == SuperSlot + 1
  <2>1. ReadOnly
    BY <1>6 DEF download_superblock_get
  <2>2. CASE Return(c, "NoSuchChunk", session[c]) \/ Return(c, "hash_mismatch", session[c])
    <3>1. ClientInv'
      BY <1>1, <2>2, ReturnOK
    <3> QED BY <2>1, <3>1, ReadOnlyOK
  <2>3. ASSUME i \in DOMAIN reply, NEW sb \in reply[i], Downloaded(c, sb) PROVE IInv'
    <3>1. DOMAIN reply = {1} /\ reply[1] = chunks[SuperSlot].data
      BY DEF get_latest_chunks
    <3>2. sb \in chunks[SuperSlot].data
      BY <2>3, <3>1
    <3>3. ClientInv'
      BY <1>1, <2>3, <3>2, DownloadedOK DEF ReplicaInv
    <3> QED BY <2>1, <3>3, ReadOnlyOK
  <2> QED BY <1>6, <2>2, <2>3 DEF download_superblock_get
<1>7. CASE upload_superblock_list(c)
  <2> DEFINE j == [job[c] EXCEPT !.slot_version = list_chunks[SuperSlot].version]
  <2>1. CallInv("upload_put", session[c], j)
    <3>1. list_chunks[SuperSlot].version \in Nat
      BY <1>1, WrbpodAssumption DEF list_chunks, ReplicaInv, RowOK
    <3> QED BY <1>1, <3>1 DEF CallInv, JobOK
  <2> HIDE DEF j
  <2>2. Proceed(c, "upload_put", session[c], j) /\ ReadOnly
    BY <1>7 DEF upload_superblock_list, j
  <2>3. ClientInv'
    BY <1>1, <1>2, <2>1, <2>2, ProceedOK
  <2> QED BY <2>2, <2>3, ReadOnlyOK
<1>8. CASE upload_superblock_put(c)
  <2>1. /\ pc[c] \in Requests
        /\ Upload(c, SuperSlot, session[c].superblock, session[c])
        /\ UNCHANGED <<ncalls, nfaults>>
    BY <1>8 DEF upload_superblock_put, Requests
  <2>2. SbOK(session[c].superblock)
    BY <1>1 DEF SessInv
  <2>3. ClientInv' /\ ReplicaInv'
    BY <1>1, <2>1, <2>2, WrbpodAssumption, UploadOK
  <2> QED BY <1>1, <2>1, <2>3, UnchangedCount DEF IInv
<1> QED BY <1>3, <1>4, <1>5, <1>6, <1>7, <1>8

(* A session that has seen one more slot.                                  *)
LEMMA WithFetched ==
    ASSUME NEW s, SessInv(s), NEW slot \in Slot
    PROVE  SessInv([s EXCEPT !.fetched = @ \cup {slot}])
BY DEF SessInv, SessionOK

(* The session after a fetch, a put or a sync: the cache has a new chunk   *)
(* in one slot, never in the superblock's.                                 *)
LEMMA WithChunk ==
    ASSUME NEW s, SessInv(s), NEW slot \in Slot, slot # SuperSlot, NEW x \in Chunk
    PROVE  /\ SessInv([s EXCEPT !.chunks[slot] = x])
           /\ SessInv([s EXCEPT !.chunks[slot] = x, !.fetched = @ \cup {slot}])
<1> DEFINE t == [s EXCEPT !.chunks[slot] = x]
<1>1. SessInv(t)
  BY WrbpodAssumption DEF SessInv, SessionOK
<1>2. [s EXCEPT !.chunks[slot] = x, !.fetched = @ \cup {slot}]
        = [t EXCEPT !.fetched = @ \cup {slot}]
  BY DEF SessInv, SessionOK
<1>3. SessInv([t EXCEPT !.fetched = @ \cup {slot}])
  <2> HIDE DEF t
  <2> QED BY <1>1, WithFetched
<1> QED BY <1>1, <1>2, <1>3

(* The requests of fetch_chunk, sync_slot and the upload of a whole chunk. *)
LEMMA SliceRequestOK ==
    ASSUME IInv, NEW c \in Client,
           \/ fetch_chunk_list(c) \/ fetch_chunk_signers(c) \/ get_chunk(c)
           \/ sync_slot_list(c) \/ sync_slot_put(c)
    PROVE  IInv'
<1> DEFINE slot == job[c].slot
<1>1. /\ ClientInv /\ ReplicaInv /\ CountInv
      /\ SessInv(session[c]) /\ CallInv(pc[c], session[c], job[c])
  BY DEF IInv, ClientInv
<1>2. slot \in Slot
  BY <1>1 DEF CallInv, JobOK
<1>3. CASE fetch_chunk_list(c)
  <2> DEFINE slot_md == list_chunks[slot]
             j == [job[c] EXCEPT !.slot_md = slot_md]
             s == [session[c] EXCEPT !.fetched = @ \cup {slot}]
  <2>1. pc[c] = "fetch_list" /\ ReadOnly
    BY <1>3 DEF fetch_chunk_list
  <2>2. CallInv("fetch_get", session[c], j) /\ CallInv("fetch_signers", session[c], job[c])
    BY <1>1, <2>1 DEF CallInv, JobOK
  <2>3. {"fetch_get", "fetch_signers"} \subseteq Requests
    BY DEF Requests
  <2>4. SessInv(s)
    BY <1>1, <1>2, WithFetched
  <2>5. \/ Return(c, "ok", s)
        \/ Proceed(c, "fetch_get", session[c], j)
        \/ Proceed(c, "fetch_signers", session[c], job[c])
        \/ Return(c, "bad_signature", session[c])
    BY <1>3 DEF fetch_chunk_list
  <2> HIDE DEF s, j
  <2>6. ClientInv'
    BY <1>1, <2>2, <2>3, <2>4, <2>5, ReturnOK, ProceedOK
  <2> QED BY <2>1, <2>6, ReadOnlyOK
<1>4. CASE fetch_chunk_signers(c)
  <2> DEFINE j == [job[c] EXCEPT !.refreshes = @ + 1]
  <2>1. /\ pc[c] = "fetch_signers" /\ ReadOnly
        /\ Proceed(c, "fetch_list", session[c], j)
    BY <1>4 DEF fetch_chunk_signers
  <2>2. CallInv("fetch_list", session[c], j) /\ "fetch_list" \in Requests
    BY <1>1, <2>1 DEF CallInv, JobOK, Requests
  <2> HIDE DEF j
  <2>3. ClientInv'
    BY <1>1, <2>1, <2>2, ProceedOK
  <2> QED BY <2>1, <2>3, ReadOnlyOK
<1>5. CASE get_chunk(c)
  <2> DEFINE data == get_latest_chunks(<<slot>>)[1]
  <2>1. pc[c] = "fetch_get" /\ ReadOnly
    BY <1>5 DEF get_chunk
  <2>2. slot # SuperSlot
    BY <1>1, <2>1 DEF CallInv
  <2>3. data = chunks[slot].data
    BY DEF get_latest_chunks
  <2>4. CASE Return(c, "hash_mismatch", session[c])
    <3>1. ClientInv'
      BY <1>1, <2>4, ReturnOK
    <3> QED BY <2>1, <3>1, ReadOnlyOK
  <2>5. ASSUME NEW x \in data,
               Return(c, "ok", [session[c] EXCEPT
                                  !.chunks[slot] = [slices |-> x, dirty |-> FALSE],
                                  !.fetched = @ \cup {slot}])
        PROVE  IInv'
    <3> DEFINE ch == [slices |-> x, dirty |-> FALSE]
               s == [session[c] EXCEPT !.chunks[slot] = ch, !.fetched = @ \cup {slot}]
    <3>1. x \in Slices
      BY <1>1, <1>2, <2>2, <2>3, <2>5 DEF ReplicaInv, RowOK
    <3>2. ch \in Chunk
      BY <3>1 DEF Chunk
    <3>3. SessInv(s)
      <4> HIDE DEF ch, slot
      <4> QED BY <1>1, <1>2, <2>2, <3>2, WithChunk
    <3>4. Return(c, "ok", s)
      BY <2>5
    <3> HIDE DEF s
    <3>5. ClientInv'
      BY <1>1, <3>3, <3>4, ReturnOK
    <3> QED BY <2>1, <3>5, ReadOnlyOK
  <2> QED BY <1>5, <2>4, <2>5 DEF get_chunk
<1>6. CASE sync_slot_list(c)
  <2> DEFINE j == [job[c] EXCEPT !.slot_version = list_chunks[slot].version + 1]
  <2>1. /\ pc[c] = "sync_list" /\ ReadOnly
        /\ Proceed(c, "sync_put", session[c], j)
    BY <1>6 DEF sync_slot_list
  <2>2. list_chunks[slot].version + 1 \in Nat
    BY <1>1, <1>2 DEF list_chunks, ReplicaInv, RowOK
  <2>3. CallInv("sync_put", session[c], j) /\ "sync_put" \in Requests
    BY <1>1, <2>1, <2>2 DEF CallInv, JobOK, Requests
  <2> HIDE DEF j
  <2>4. ClientInv'
    BY <1>1, <2>1, <2>3, ProceedOK
  <2> QED BY <2>1, <2>4, ReadOnlyOK
<1>7. CASE sync_slot_put(c)
  <2>1. /\ pc[c] = "sync_put" /\ pc[c] \in Requests
        /\ Upload(c, slot, SyncData(c), SyncDone(c))
        /\ UNCHANGED <<acked, ncalls, nfaults>>
    BY <1>7 DEF sync_slot_put, Requests
  <2>2. slot # SuperSlot /\ job[c].name \in {"sync", "put_chunk"}
    BY <1>1, <2>1 DEF CallInv
  <2>3. SyncData(c) \in Slices /\ SessInv(SyncDone(c))
    <3>1. CASE job[c].name = "put_chunk"
      BY <1>1, <3>1 DEF SyncData, SyncDone, NoSlices, Slices
    <3>2. CASE job[c].name = "sync"
      <4>1. session[c].chunks[slot] \in Chunk
        BY <1>1, <1>2, <3>2 DEF CallInv, SessInv, SessionOK
      <4>2. SyncData(c) \in Slices
        BY <3>2, <4>1 DEF SyncData, Chunk
      <4> DEFINE ch == [session[c].chunks[slot] EXCEPT !.dirty = FALSE]
      <4>3. ch \in Chunk
        BY <4>1 DEF Chunk
      <4>4. SyncDone(c) = [session[c] EXCEPT !.chunks[slot] = ch]
        BY <3>2 DEF SyncDone
      <4> HIDE DEF ch, slot
      <4>5. SessInv([session[c] EXCEPT !.chunks[slot] = ch])
        BY <1>1, <1>2, <2>2, <4>3, WithChunk
      <4> QED BY <4>2, <4>4, <4>5
    <3> QED BY <2>2, <3>1, <3>2
  <2>4. ClientInv' /\ ReplicaInv'
    BY <1>1, <1>2, <2>1, <2>2, <2>3, UploadOK
  <2> QED BY <1>1, <2>1, <2>4, UnchangedCount DEF IInv
<1> QED BY <1>3, <1>4, <1>5, <1>6, <1>7

-----------------------------------------------------------------------------
(* Every new call, fault and exit keeps the invariant.                     *)

(* The local variables with which a call makes its first request.          *)
LEMMA FirstRequest ==
    ASSUME NEW s, NEW name, NEW app \in App \cup {"none"}, NEW n \in Nat, NEW slot \in Slot,
           NEW at, at # "idle",
           name = "alloc" => app \in App,
           name \in {"fetch", "sync", "put_chunk"} => slot # SuperSlot,
           at \in {"fetch_list", "fetch_signers", "fetch_get"} => name = "fetch",
           at \in {"sync_list", "sync_put"} => name \in {"sync", "put_chunk"},
           name = "sync" => s.chunks[slot] # NoChunk
    PROVE  CallInv(at, s, NewJob(name, app, n, slot))
<1> DEFINE k == NewJob(name, app, n, slot)
<1>1. /\ k.name = name /\ k.app = app /\ k.n = n /\ k.slot = slot
      /\ k.slot_md = EmptyRow /\ k.slot_version = 0 /\ k.refreshes = 0
  BY DEF NewJob
<1>2. JobOK(k)
  BY <1>1 DEF JobOK, NewJob
<1> HIDE DEF k
<1>3. CallInv(at, s, k)
  BY <1>1, <1>2 DEF CallInv
<1> QED BY <1>3 DEF k

(* Calls about the superblock.                                             *)
LEMMA SuperblockCallOK ==
    ASSUME IInv, NEW c \in Client,
           \/ open(c) \/ format(c)
           \/ \E app \in App : \/ delete_slots_call(c, app)
                               \/ \E n \in AllocSizes : allocate_slots_call(c, app, n)
    PROVE  IInv'
<1>1. ClientInv /\ ReplicaInv /\ CountInv /\ AllocSizes \subseteq Nat /\ SuperSlot \in Slot
  BY WrbpodAssumption, SlotAssumption DEF IInv
<1>2. {"open_signers", "format_signers", "download_list"} \subseteq Requests
  BY DEF Requests
<1>3. CASE open(c)
  <2>1. Call(c, "open", "none", 0, SuperSlot, "open_signers") /\ UNCHANGED session
    BY <1>3 DEF open
  <2>2. CallInv("open_signers", session[c],
                NewJob("open", "none", 0, SuperSlot))
    BY <1>1, FirstRequest
  <2> QED BY <1>1, <1>2, <2>1, <2>2, CallOK
<1>4. CASE format(c)
  <2>1. Call(c, "format", "none", 0, SuperSlot, "format_signers") /\ UNCHANGED session
    BY <1>4 DEF format
  <2>2. CallInv("format_signers", session[c],
                NewJob("format", "none", 0, SuperSlot))
    BY <1>1, FirstRequest
  <2> QED BY <1>1, <1>2, <2>1, <2>2, CallOK
<1>5. ASSUME NEW app \in App, delete_slots_call(c, app) PROVE IInv'
  <2>1. Call(c, "delete", app, 0, SuperSlot, "download_list") /\ UNCHANGED session
    BY <1>5 DEF delete_slots_call
  <2>2. CallInv("download_list", session[c],
                NewJob("delete", app, 0, SuperSlot))
    BY <1>1, FirstRequest
  <2> QED BY <1>1, <1>2, <2>1, <2>2, CallOK
<1>6. ASSUME NEW app \in App, NEW n \in AllocSizes, allocate_slots_call(c, app, n)
      PROVE  IInv'
  <2>1. Call(c, "alloc", app, n, SuperSlot, "download_list") /\ UNCHANGED session
    BY <1>6 DEF allocate_slots_call
  <2>2. CallInv("download_list", session[c],
                NewJob("alloc", app, n, SuperSlot))
    BY <1>1, FirstRequest
  <2> QED BY <1>1, <1>2, <2>1, <2>2, CallOK
<1> QED BY <1>3, <1>4, <1>5, <1>6

(* Calls about slots and slices.                                           *)
LEMMA SliceCallOK ==
    ASSUME IInv, NEW c \in Client, NEW app \in App, NEW i \in AppSlot,
           \/ fetch_chunk(c, app, i) \/ sync_slot(c, app, i) \/ wrbpod_clear_slot(c, app, i)
           \/ \E id \in SliceId, val \in Val : put_slice(c, app, i, id, val)
    PROVE  IInv'
<1>1. /\ ClientInv /\ ReplicaInv /\ CountInv
      /\ SessInv(session[c]) /\ CallInv(pc[c], session[c], job[c])
  BY DEF IInv, ClientInv
<1>2. \A s \in ChunkId(c, app, i) : s \in Slot /\ s # SuperSlot
  BY <1>1, AppSlotOK
<1>3. {"fetch_list", "sync_list"} \subseteq Requests
  BY DEF Requests
<1>4. CASE fetch_chunk(c, app, i)
  <2>1. CASE CallReturns(c, "fetch", "no_such_app_chunk", session[c])
    BY <1>1, <2>1, CallReturnsOK
  <2>2. ASSUME NEW s \in ChunkId(c, app, i), Call(c, "fetch", app, 0, s, "fetch_list"),
               UNCHANGED session
        PROVE  IInv'
    <3>1. CallInv("fetch_list", session[c],
                  NewJob("fetch", app, 0, s))
      BY <1>2, FirstRequest
    <3> QED BY <1>1, <1>3, <2>2, <3>1, CallOK
  <2> QED BY <1>4, <2>1, <2>2 DEF fetch_chunk
<1>5. CASE sync_slot(c, app, i)
  <2>1. CASE CallReturns(c, "sync", "NoSuchChunk", session[c])
    BY <1>1, <2>1, CallReturnsOK
  <2>2. ASSUME NEW s \in ChunkId(c, app, i), session[c].chunks[s] # NoChunk,
               Call(c, "sync", app, 0, s, "sync_list"), UNCHANGED session
        PROVE  IInv'
    <3>1. CallInv("sync_list", session[c],
                  NewJob("sync", app, 0, s))
      BY <1>2, <2>2, FirstRequest
    <3> QED BY <1>1, <1>3, <2>2, <3>1, CallOK
  <2> QED BY <1>5, <2>1, <2>2 DEF sync_slot
<1>6. CASE wrbpod_clear_slot(c, app, i)
  <2>1. PICK s \in ChunkId(c, app, i) :
           Call(c, "put_chunk", app, 0, s, "sync_list") /\ UNCHANGED session
    BY <1>6 DEF wrbpod_clear_slot
  <2>2. CallInv("sync_list", session[c],
                NewJob("put_chunk", app, 0, s))
    BY <1>2, FirstRequest
  <2> QED BY <1>1, <1>3, <2>1, <2>2, CallOK
<1>7. ASSUME NEW id \in SliceId, NEW val \in Val, put_slice(c, app, i, id, val)
      PROVE  IInv'
  <2> DEFINE old(s) == IF session[c].chunks[s] = NoChunk THEN NoSlices
                       ELSE session[c].chunks[s].slices
             ch(s) == [slices |-> [old(s) EXCEPT ![id] = val], dirty |-> TRUE]
  <2>1. CASE CallReturns(c, "put_slice", "false", session[c])
    BY <1>1, <2>1, CallReturnsOK
  <2>2. ASSUME NEW s \in ChunkId(c, app, i), pc[c] = "idle",
               CallReturns(c, "put_slice", "true", [session[c] EXCEPT !.chunks[s] = ch(s)])
        PROVE  IInv'
    <3>1. old(s) \in Slices
      BY <1>1, <1>2 DEF SessInv, SessionOK, Chunk, NoSlices, Slices
    <3> HIDE DEF old
    <3>2. ch(s) \in Chunk
      BY <3>1, <1>7 DEF Chunk, Slices
    <3> HIDE DEF ch
    <3> DEFINE t == [session[c] EXCEPT !.chunks[s] = ch(s)]
    <3>3. SessInv(t)
      BY <1>1, <1>2, <3>2, WithChunk
    <3> HIDE DEF t
    <3>4. CallInv(pc[c], t, job[c])
      BY <1>1, <2>2 DEF CallInv
    <3> QED BY <2>2, <3>3, <3>4, CallReturnsOK DEF t
  <2> QED BY <1>7, <2>1, <2>2 DEF put_slice
<1> QED BY <1>4, <1>5, <1>6, <1>7

(* A failed request, a lost answer and the end of a process.               *)
LEMMA FaultOK ==
    ASSUME IInv, NEW c \in Client, RequestFails(c) \/ AnswerLost(c) \/ Exit(c)
    PROVE  IInv'
<1>1. /\ ClientInv /\ ReplicaInv /\ CountInv
      /\ SessInv(session[c]) /\ CallInv(pc[c], session[c], job[c])
  BY DEF IInv, ClientInv
<1>2. CASE RequestFails(c)
  <2>1. /\ Return(c, "net_error", session[c]) /\ UNCHANGED <<chunks, ncalls>>
        /\ nfaults < MaxFaults /\ nfaults' = nfaults + 1
    BY <1>2 DEF RequestFails
  <2>2. ClientInv'
    BY <1>1, <2>1, ReturnOK
  <2>3. CountInv'
    BY <1>1, <2>1, WrbpodAssumption DEF CountInv
  <2> QED BY <1>1, <2>1, <2>2, <2>3, UnchangedReplica DEF IInv
<1>3. CASE AnswerLost(c)
  <2> DEFINE slot == IF pc[c] = "upload_put" THEN SuperSlot ELSE job[c].slot
             data == IF pc[c] = "upload_put" THEN session[c].superblock ELSE SyncData(c)
  <2>1. /\ pc[c] \in {"upload_put", "sync_put"}
        /\ Store(c, slot, data) /\ Return(c, "net_error", session[c])
        /\ UNCHANGED ncalls /\ nfaults < MaxFaults /\ nfaults' = nfaults + 1
    BY <1>3 DEF AnswerLost
  <2>2. /\ slot \in Slot
        /\ slot = SuperSlot => SbOK(data)
        /\ slot # SuperSlot => data \in Slices
    <3>1. CASE pc[c] = "upload_put"
      BY <1>1, <3>1, WrbpodAssumption DEF SessInv
    <3>2. CASE pc[c] = "sync_put"
      <4>1. slot = job[c].slot /\ data = SyncData(c)
        BY <3>2
      <4>2. job[c].slot \in Slot \ {SuperSlot} /\ job[c].name \in {"sync", "put_chunk"}
        BY <1>1, <3>2 DEF CallInv, JobOK
      <4>3. SyncData(c) \in Slices
        BY <1>1, <4>2 DEF SyncData, CallInv, SessInv, SessionOK, Chunk, Slices, NoSlices
      <4> HIDE DEF slot, data
      <4> QED BY <4>1, <4>2, <4>3
    <3> QED BY <2>1, <3>1, <3>2
  <2> HIDE DEF slot, data
  <2>3. ReplicaInv'
    BY <1>1, <2>1, <2>2, StoreOK
  <2>4. ClientInv'
    BY <1>1, <2>1, ReturnOK
  <2>5. CountInv'
    BY <1>1, <2>1, WrbpodAssumption DEF CountInv
  <2> QED BY <2>3, <2>4, <2>5 DEF IInv
<1>4. CASE Exit(c)
  <2>1. CallInv("closed", NoSession, NoJob) /\ "closed" \in AtRest
    BY NoJobOK DEF AtRest
  <2>2. ClientInv'
    BY <1>1, <1>4, <2>1, NoSessionOK DEF Exit, ClientInv
  <2>3. UNCHANGED <<chunks, ncalls, nfaults>>
    BY <1>4 DEF Exit
  <2> QED BY <1>1, <2>2, <2>3, UnchangedReplica, UnchangedCount DEF IInv
<1> QED BY <1>2, <1>3, <1>4

-----------------------------------------------------------------------------
(* The invariant.                                                          *)

(* Closed clients on the empty replica satisfy the invariant.              *)
LEMMA InitIInv == Init => IInv
<1> SUFFICES ASSUME Init PROVE IInv
  OBVIOUS
<1>1. ClientInv
  <2>1. \A c \in Client : CallInv("closed", NoSession, NoJob) /\ "closed" \in AtRest
    BY NoJobOK DEF AtRest
  <2> QED BY <2>1, NoSessionOK DEF Init, ClientInv
<1>2. ReplicaInv
  BY WrbpodAssumption DEF Init, open_or_create, ReplicaInv, RowOK
<1>3. CountInv
  BY WrbpodAssumption DEF Init, CountInv
<1> QED BY <1>1, <1>2, <1>3 DEF IInv

(* Every step keeps the invariant.                                         *)
LEMMA NextIInv == IInv /\ [Next]_vars => IInv'
<1> SUFFICES ASSUME IInv, [Next]_vars PROVE IInv'
  OBVIOUS
<1>1. CASE UNCHANGED vars
  BY <1>1 DEF vars, IInv, ClientInv, ReplicaInv, CountInv
<1>2. ASSUME NEW c \in Client, Request(c) PROVE IInv'
  BY <1>2, SuperblockRequestOK, SliceRequestOK DEF Request
<1>3. ASSUME NEW c \in Client, NewCall(c) PROVE IInv'
  BY <1>3, SuperblockCallOK, SliceCallOK DEF NewCall
<1>4. ASSUME NEW c \in Client, RequestFails(c) \/ AnswerLost(c) \/ Exit(c) PROVE IInv'
  BY <1>4, FaultOK
<1> QED BY <1>1, <1>2, <1>3, <1>4 DEF Next

(* What the invariant is for: the three safety properties follow from it.  *)
LEMMA IInvImplies == IInv => TypeOK /\ SuperblocksSound /\ SuperblockSlotReserved
<1> SUFFICES ASSUME IInv PROVE TypeOK /\ SuperblocksSound /\ SuperblockSlotReserved
  OBVIOUS
<1>1. TypeOK
  BY DEF IInv, ClientInv, ReplicaInv, CountInv, SessInv, CallInv, TypeOK
<1>2. SuperblocksSound
  BY DEF IInv, ClientInv, ReplicaInv, SessInv, SbOK, SuperblocksSound
<1>3. SuperblockSlotReserved
  BY DEF IInv, ClientInv, ReplicaInv, SessInv, CallInv, SbOK, SuperblockSlotReserved
<1> QED BY <1>1, <1>2, <1>3

(* Uploads are the only steps that write the replica, and the replica's    *)
(* own check of the version makes each of them an advance.                 *)
LEMMA StoreAdvances ==
    ASSUME IInv, NEW c \in Client, NEW slot \in Slot, NEW data, Store(c, slot, data),
           NEW s \in Slot, chunks'[s] # chunks[s]
    PROVE  /\ chunks'[s].data # {}
           /\ is_empty(chunks[s]) \/ chunks'[s].version > chunks[s].version
<1> DEFINE version == job[c].slot_version
           row == [version |-> version, data |-> {data}, sig |-> KeyOf[c]]
<1>1. put_chunk_ack(slot, version).accepted /\ chunks' = [chunks EXCEPT ![slot] = row]
  BY DEF Store, put_chunk
<1>2. s = slot /\ chunks'[s] = row
  BY <1>1 DEF IInv, ReplicaInv
<1>3. is_empty(chunks[slot]) \/ ~(version <= chunks[slot].version)
  BY <1>1 DEF put_chunk_ack
<1>4. version \in Nat /\ chunks[slot].version \in Nat
  BY DEF IInv, ReplicaInv, RowOK, ClientInv, CallInv, JobOK
<1> QED BY <1>2, <1>3, <1>4

(* Every step leaves the replica as it is or is an upload to one slot.     *)
LEMMA ReplicaSteps ==
    ASSUME IInv, [Next]_vars
    PROVE  \/ UNCHANGED chunks
           \/ \E c \in Client, slot \in Slot : \E data : Store(c, slot, data)
<1>1. CASE UNCHANGED vars
  BY <1>1 DEF vars
<1>2. SuperSlot \in Slot /\ \A c \in Client : job[c].slot \in Slot
  BY WrbpodAssumption DEF IInv, ClientInv, CallInv, JobOK
<1>3. ASSUME NEW c \in Client, Request(c)
      PROVE  UNCHANGED chunks \/ \E slot \in Slot : \E data : Store(c, slot, data)
  <2>1. CASE upload_superblock_put(c)
    BY <1>2, <2>1 DEF upload_superblock_put, Upload
  <2>2. CASE sync_slot_put(c)
    BY <1>2, <2>2 DEF sync_slot_put, Upload
  <2>3. CASE \/ open_signers(c) \/ format_signers(c)
             \/ download_superblock_list(c) \/ download_superblock_get(c)
             \/ upload_superblock_list(c) \/ fetch_chunk_list(c)
             \/ fetch_chunk_signers(c) \/ get_chunk(c) \/ sync_slot_list(c)
    BY <2>3 DEF open_signers, format_signers, download_superblock_list,
                download_superblock_get, upload_superblock_list, fetch_chunk_list,
                fetch_chunk_signers, get_chunk, sync_slot_list, ReadOnly
  <2> QED BY <1>3, <2>1, <2>2, <2>3 DEF Request
<1>4. ASSUME NEW c \in Client, NewCall(c) PROVE UNCHANGED chunks
  BY <1>4 DEF NewCall, open, format, delete_slots_call, allocate_slots_call, fetch_chunk,
              sync_slot, wrbpod_clear_slot, put_slice, Call, CallReturns
<1>5. ASSUME NEW c \in Client, AnswerLost(c)
      PROVE  \E slot \in Slot : \E data : Store(c, slot, data)
  BY <1>2, <1>5 DEF AnswerLost
<1>6. ASSUME NEW c \in Client, RequestFails(c) \/ Exit(c) PROVE UNCHANGED chunks
  BY <1>6 DEF RequestFails, Exit
<1> QED BY <1>1, <1>3, <1>4, <1>5, <1>6 DEF Next

(***************************************************************************)
(* Type correctness: the table of the replica, the sessions and the local  *)
(* variables of the calls keep the shape storage/mod.rs declares, for any  *)
(* number of clients and slots.                                            *)
(***************************************************************************)
THEOREM TypeCorrect == Spec => []TypeOK
<1>1. Init => IInv
  BY InitIInv
<1>2. IInv /\ [Next]_vars => IInv'
  BY NextIInv
<1>3. IInv => TypeOK
  BY IInvImplies
<1> QED BY <1>1, <1>2, <1>3, PTL DEF Spec

(***************************************************************************)
(* allocate_slots and delete_slots never give a slot to two apps nor lose  *)
(* one, in any session and on the replica, however the calls of several    *)
(* processes interleave, fail or are cut short.                            *)
(***************************************************************************)
THEOREM SuperblocksStaySound == Spec => []SuperblocksSound
<1>1. Init => IInv
  BY InitIInv
<1>2. IInv /\ [Next]_vars => IInv'
  BY NextIInv
<1>3. IInv => SuperblocksSound
  BY IInvImplies
<1> QED BY <1>1, <1>2, <1>3, PTL DEF Spec

(***************************************************************************)
(* make_superblock keeps the superblock's slot off the free list, and so   *)
(* no fetch, put or sync of an app ever reads or writes that slot.         *)
(***************************************************************************)
THEOREM SuperblockSlotStaysReserved == Spec => []SuperblockSlotReserved
<1>1. Init => IInv
  BY InitIInv
<1>2. IInv /\ [Next]_vars => IInv'
  BY NextIInv
<1>3. IInv => SuperblockSlotReserved
  BY IInvImplies
<1> QED BY <1>1, <1>2, <1>3, PTL DEF Spec

(***************************************************************************)
(* The upload loops of upload_superblock and put_chunk, racing each other  *)
(* on the same slots, only ever move a slot of the replica to a later      *)
(* version, and never empty it.                                            *)
(***************************************************************************)
THEOREM ReplicaVersionsAdvance == Spec => VersionsAdvance
<1> DEFINE Advance == \A s \in Slot : chunks'[s] # chunks[s] =>
                         /\ chunks'[s].data # {}
                         /\ is_empty(chunks[s]) \/ chunks'[s].version > chunks[s].version
<1>1. Init => IInv
  BY InitIInv
<1>2. IInv /\ [Next]_vars => IInv'
  BY NextIInv
<1>3. IInv /\ [Next]_vars => [Advance]_chunks
  <2> SUFFICES ASSUME IInv, [Next]_vars, NEW s \in Slot, chunks'[s] # chunks[s]
               PROVE  /\ chunks'[s].data # {}
                      /\ is_empty(chunks[s]) \/ chunks'[s].version > chunks[s].version
    OBVIOUS
  <2>1. PICK c \in Client, slot \in Slot : \E data : Store(c, slot, data)
    BY ReplicaSteps
  <2>2. PICK data : Store(c, slot, data)
    BY <2>1
  <2> QED BY <2>2, StoreAdvances
<1> QED BY <1>1, <1>2, <1>3, PTL DEF Spec, VersionsAdvance

-----------------------------------------------------------------------------
(***************************************************************************)
(* What sessions promise about data, on top of that invariant.  For any    *)
(* number of clients: a clean local copy was accepted by the replica, and  *)
(* a fetch returns what the slot's signer uploaded.  For one client at a   *)
(* time: an allocation that returned ok and a slice that was saved are     *)
(* kept, through every failed request, lost answer and restart.            *)
(***************************************************************************)

(* The invariant about the history of uploads.                             *)

(* The record in puts of data d in row of slot s.                          *)
Entry(s, row, d) == [slot |-> s, version |-> row.version, data |-> d, sig |-> row.sig]

(* The slices on the replica were uploaded.                                *)
RowsPut ==
    \A s \in Slot \ {SuperSlot} : \A d \in chunks[s].data : Entry(s, chunks[s], d) \in puts

(* The clean chunks of a cache are among the uploads P.                    *)
Saved(cache, P) ==
    \A s \in Slot : cache[s] # NoChunk /\ ~cache[s].dirty =>
        \E p \in P : p.slot = s /\ p.data = cache[s].slices

(* A fetch between its two requests holds metadata that it has verified    *)
(* and that was uploaded, whatever the slot holds by now.                  *)
FetchOK(j, P) ==
    /\ verify(j.slot_md, j.slot)
    /\ \A d \in j.slot_md.data : Entry(j.slot, j.slot_md, d) \in P

DataOK(at, s, j, r, P) ==
    /\ Saved(s.chunks, P)
    /\ at = "fetch_get" => FetchOK(j, P)
    /\ at \in Requests => r = "none"

ClientsData == \A c \in Client : DataOK(pc[c], session[c], job[c], ret[c], puts)

DataInv == RowsPut /\ ClientsData

-----------------------------------------------------------------------------
(* The invariants of one client.                                           *)

OneClient == \A c, d \in Client : c = d

(* Superblock sb gives every pair of A its slot.                           *)
Holds(sb, A) == \A p \in A : p \in Owned(sb, p[1])

(* The superblock on the replica has what was acknowledged.                *)
RowHolds ==
    /\ chunks[SuperSlot].data = {} => acked = {}
    /\ \A sb \in chunks[SuperSlot].data : Holds(sb, acked)

(* So has the superblock a call is about to upload, and nothing is         *)
(* promised to an app whose deletion was asked for, nor after a format.    *)
CallHolds(at, s, j, A) ==
    /\ at \in {"upload_list", "upload_put"} => Holds(s.superblock, A)
    /\ at = "format_signers" => j.name = "format"
    /\ j.name = "format" => A = {}
    /\ j.name = "delete" => \A p \in A : p[1] # j.app

AllocInv ==
    RowHolds /\ \A c \in Client : CallHolds(pc[c], session[c], job[c], acked)

(***************************************************************************)
(* A fetched slot that is not cached is still as empty as it was found; a  *)
(* fetched slot's cached chunk has all slices the replica has.  Nothing is *)
(* known of a cached slot that was not fetched.  The process that uploads  *)
(* a whole chunk has fetched and cached nothing.                           *)
(***************************************************************************)
Covers(x, d) == \A id \in SliceId : d[id] # NoSlice => x[id] # NoSlice

CacheCovers(s, slot, data) ==
    slot \in s.fetched =>
        /\ s.chunks[slot] = NoChunk => data = {}
        /\ s.chunks[slot] # NoChunk => \A d \in data : Covers(s.chunks[slot].slices, d)

KeepOK(s, j, rows) ==
    /\ \A slot \in Slot \ {SuperSlot} : CacheCovers(s, slot, rows[slot].data)
    /\ j.name = "put_chunk" => s.fetched = {} /\ \A slot \in Slot : s.chunks[slot] = NoChunk

KeepInv ==
    /\ \A s \in Slot : \A d, e \in chunks[s].data : d = e
    /\ \A c \in Client : KeepOK(session[c], job[c], chunks)

-----------------------------------------------------------------------------
(* The building blocks of the actions and the history of uploads.          *)

(* What was saved stays saved as the history grows.                        *)
LEMMA SavedGrows ==
    ASSUME NEW cache, NEW P, NEW Q, P \subseteq Q, Saved(cache, P)
    PROVE  Saved(cache, Q)
BY DEF Saved

LEMMA DataGrows ==
    ASSUME NEW at, NEW s, NEW j, NEW r, NEW P, NEW Q, P \subseteq Q, DataOK(at, s, j, r, P)
    PROVE  DataOK(at, s, j, r, Q)
BY SavedGrows DEF DataOK, FetchOK

(* A step of client c alone.                                               *)
LEMMA ClientsDataStep ==
    ASSUME ClientInv, ClientsData, puts \subseteq puts', NEW c \in Client,
           NEW at, NEW s, NEW j, NEW r, DataOK(at, s, j, r, puts'),
           pc' = [pc EXCEPT ![c] = at], session' = [session EXCEPT ![c] = s],
           job' = [job EXCEPT ![c] = j], ret' = [ret EXCEPT ![c] = r]
    PROVE  ClientsData'
<1> SUFFICES ASSUME NEW d \in Client
             PROVE  DataOK(pc'[d], session'[d], job'[d], ret'[d], puts')
  BY DEF ClientsData
<1>1. CASE d = c
  <2>1. pc'[d] = at /\ session'[d] = s /\ job'[d] = j /\ ret'[d] = r
    BY <1>1 DEF ClientInv
  <2> QED BY <2>1
<1>2. CASE d # c
  <2>1. pc'[d] = pc[d] /\ session'[d] = session[d] /\ job'[d] = job[d] /\ ret'[d] = ret[d]
    BY <1>2 DEF ClientInv
  <2>2. DataOK(pc[d], session[d], job[d], ret[d], puts)
    BY DEF ClientsData
  <2> QED BY <2>1, <2>2, DataGrows
<1> QED BY <1>1, <1>2

(* A process without a session has nothing in its cache.                   *)
LEMMA NoSessionSaved == \A P : Saved(NoSession.chunks, P)
BY DEF Saved, NoSession

(* A client at rest is in no fetch and in no request.                      *)
LEMMA RestData ==
    ASSUME NEW at \in AtRest, NEW s, NEW j, NEW r, NEW P, Saved(s.chunks, P)
    PROVE  DataOK(at, s, j, r, P)
BY DEF DataOK, AtRest, Requests

LEMMA ReturnData ==
    ASSUME ClientInv, ClientsData, puts \subseteq puts', NEW c \in Client, NEW r, NEW s,
           Saved(s.chunks, puts'), Return(c, r, s)
    PROVE  ClientsData'
<1>1. PICK at \in AtRest : pc' = [pc EXCEPT ![c] = at]
  BY DEF Return, AtRest
<1>2. PICK t : Saved(t.chunks, puts') /\ session' = [session EXCEPT ![c] = t]
  BY NoSessionSaved DEF Return
<1>3. job' = [job EXCEPT ![c] = NoJob] /\ ret' = [ret EXCEPT ![c] = r]
  BY DEF Return
<1>4. DataOK(at, t, NoJob, r, puts')
  BY <1>1, <1>2, RestData
<1> QED BY <1>1, <1>2, <1>3, <1>4, ClientsDataStep

LEMMA ProceedData ==
    ASSUME ClientInv, ClientsData, puts \subseteq puts', NEW c \in Client,
           NEW at, NEW s, NEW j, pc[c] \in Requests, Saved(s.chunks, puts'),
           at = "fetch_get" => FetchOK(j, puts'), Proceed(c, at, s, j)
    PROVE  ClientsData'
<1>1. ret[c] = "none"
  BY DEF ClientsData, DataOK
<1>2. DataOK(at, s, j, "none", puts')
  BY DEF DataOK
<1>3. ret' = [ret EXCEPT ![c] = "none"]
  BY <1>1 DEF Proceed, ClientInv
<1> QED BY <1>2, <1>3, ClientsDataStep DEF Proceed

(* A new call; it does not start in the middle of a fetch.                 *)
LEMMA CallData ==
    ASSUME IInv, DataInv, NEW c \in Client, NEW name, NEW app, NEW n, NEW slot,
           NEW at, at # "fetch_get", Call(c, name, app, n, slot, at), UNCHANGED session
    PROVE  DataInv'
<1> DEFINE j == NewJob(name, app, n, slot)
<1>1. RowsPut' /\ puts' = puts
  BY DEF Call, DataInv, RowsPut
<1>2. ClientInv /\ ClientsData
  BY DEF IInv, DataInv
<1>3. Saved(session[c].chunks, puts')
  BY <1>1, <1>2 DEF ClientsData, DataOK
<1>4. DataOK(at, session[c], j, "none", puts')
  BY <1>3 DEF DataOK
<1>5. /\ pc' = [pc EXCEPT ![c] = at] /\ job' = [job EXCEPT ![c] = j]
      /\ ret' = [ret EXCEPT ![c] = "none"]
  BY DEF Call
<1>6. session' = [session EXCEPT ![c] = session[c]]
  BY <1>2 DEF ClientInv
<1> HIDE DEF j
<1>7. ClientsData'
  BY <1>1, <1>2, <1>4, <1>5, <1>6, ClientsDataStep
<1> QED BY <1>1, <1>7 DEF DataInv

(* A call that returns at once.                                            *)
LEMMA CallReturnsData ==
    ASSUME IInv, DataInv, NEW c \in Client, NEW name, NEW r, NEW s, pc[c] = "idle",
           Saved(s.chunks, puts), CallReturns(c, name, r, s)
    PROVE  DataInv'
<1>1. RowsPut' /\ puts' = puts
  BY DEF CallReturns, DataInv, RowsPut
<1>2. ClientInv /\ ClientsData
  BY DEF IInv, DataInv
<1>3. DataOK("idle", s, job[c], r, puts')
  BY <1>1, RestData DEF AtRest
<1>4. /\ pc' = [pc EXCEPT ![c] = "idle"] /\ job' = [job EXCEPT ![c] = job[c]]
      /\ ret' = [ret EXCEPT ![c] = r] /\ session' = [session EXCEPT ![c] = s]
  BY <1>2 DEF CallReturns, ClientInv
<1>5. ClientsData'
  BY <1>1, <1>2, <1>3, <1>4, ClientsDataStep
<1> QED BY <1>1, <1>5 DEF DataInv

(* A read leaves the replica and its history alone.                        *)
LEMMA ReadOnlyData == RowsPut /\ ReadOnly => RowsPut' /\ puts' = puts
BY DEF ReadOnly, RowsPut

(* An upload goes into the history when it is accepted.                    *)
LEMMA StoreData ==
    ASSUME IInv, RowsPut, NEW c \in Client, NEW slot \in Slot, NEW data, Store(c, slot, data)
    PROVE  /\ RowsPut' /\ puts \subseteq puts'
           /\ put_chunk_ack(slot, job[c].slot_version).accepted /\ slot # SuperSlot
                 => \E p \in puts' : p.slot = slot /\ p.data = data
<1> DEFINE version == job[c].slot_version
           ok == put_chunk_ack(slot, version).accepted
           row == [version |-> version, data |-> {data}, sig |-> KeyOf[c]]
           put == [slot |-> slot, version |-> version, data |-> data, sig |-> KeyOf[c]]
<1>1. /\ chunks' = IF ok THEN [chunks EXCEPT ![slot] = row] ELSE chunks
      /\ puts' = IF ok /\ slot # SuperSlot THEN puts \cup {put} ELSE puts
  BY DEF Store, put_chunk
<1>2. /\ row.version = version /\ row.data = {data} /\ row.sig = KeyOf[c]
      /\ put.slot = slot /\ put.data = data /\ Entry(slot, row, data) = put
  BY DEF Entry
<1> HIDE DEF row, put, ok
<1>3. puts \subseteq puts' /\ (ok /\ slot # SuperSlot => put \in puts')
  BY <1>1
<1>4. RowsPut'
  <2> SUFFICES ASSUME NEW s \in Slot \ {SuperSlot}, NEW d \in chunks'[s].data
               PROVE  Entry(s, chunks'[s], d) \in puts'
    BY DEF RowsPut
  <2>1. CASE ok /\ s = slot
    <3>1. chunks'[s] = row
      BY <1>1, <2>1 DEF IInv, ReplicaInv
    <3> QED BY <1>2, <1>3, <2>1, <3>1
  <2>2. CASE ~(ok /\ s = slot)
    <3>1. chunks'[s] = chunks[s]
      BY <1>1, <2>2 DEF IInv, ReplicaInv
    <3> QED BY <1>3, <3>1 DEF RowsPut
  <2> QED BY <2>1, <2>2
<1> QED BY <1>2, <1>3, <1>4 DEF ok

(* One turn of an upload loop, to the superblock's slot or to another.     *)
LEMMA UploadData ==
    ASSUME IInv, DataInv, NEW c \in Client, pc[c] \in Requests, pc[c] # "fetch_get",
           NEW slot \in Slot, NEW data, NEW s, Upload(c, slot, data, s),
           put_chunk_ack(slot, job[c].slot_version).accepted /\ puts \subseteq puts'
              /\ (slot # SuperSlot => \E p \in puts' : p.slot = slot /\ p.data = data)
                 => Saved(s.chunks, puts')
    PROVE  DataInv'
<1> DEFINE ack == put_chunk_ack(slot, job[c].slot_version)
<1>1. ClientInv /\ RowsPut /\ ClientsData /\ Store(c, slot, data)
  BY DEF IInv, DataInv, Upload
<1>2. /\ RowsPut' /\ puts \subseteq puts'
      /\ ack.accepted /\ slot # SuperSlot => \E p \in puts' : p.slot = slot /\ p.data = data
  BY <1>1, StoreData
<1>3. Saved(session[c].chunks, puts')
  <2>1. Saved(session[c].chunks, puts)
    BY <1>1 DEF ClientsData, DataOK
  <2> QED BY <1>2, <2>1, SavedGrows
<1>4. ASSUME ack.accepted, Return(c, "ok", s) PROVE ClientsData'
  <2>1. Saved(s.chunks, puts')
    BY <1>2, <1>4
  <2> QED BY <1>1, <1>2, <1>4, <2>1, ReturnData
<1>5. ASSUME NEW m \in ack.metadata,
             Proceed(c, pc[c], session[c], [job[c] EXCEPT !.slot_version = m.version + 1])
      PROVE  ClientsData'
  BY <1>1, <1>2, <1>3, <1>5, ProceedData
<1>6. ASSUME Return(c, "rejected", session[c]) PROVE ClientsData'
  BY <1>1, <1>2, <1>3, <1>6, ReturnData
<1>7. ClientsData'
  BY <1>4, <1>5, <1>6 DEF Upload
<1> QED BY <1>2, <1>7 DEF DataInv

-----------------------------------------------------------------------------
(* Every step keeps the invariant about the history.                       *)

(* A superblock that was downloaded changes no chunk of slices.            *)
LEMMA DownloadedData ==
    ASSUME IInv, DataInv, NEW c \in Client, pc[c] \in Requests, NEW sb,
           Downloaded(c, sb), ReadOnly
    PROVE  DataInv'
<1> DEFINE with(b) == [session[c] EXCEPT !.superblock = b]
<1>1. ClientInv /\ ClientsData /\ RowsPut' /\ puts' = puts
  BY ReadOnlyData DEF IInv, DataInv
<1>2. \A b : Saved(with(b).chunks, puts')
  <2>1. Saved(session[c].chunks, puts')
    BY <1>1 DEF ClientsData, DataOK
  <2>2. \A b : with(b).chunks = session[c].chunks
    BY <1>1 DEF ClientInv, SessInv, SessionOK
  <2> HIDE DEF with
  <2> QED BY <2>1, <2>2
<1>3. \/ \E b : Return(c, "ok", with(b)) \/ Return(c, "no_space", with(b))
      \/ \E b : Proceed(c, "upload_list", with(b), job[c])
  BY DEF Downloaded
<1> HIDE DEF with
<1>4. ClientsData'
  <2>1. ASSUME NEW b, NEW r, Return(c, r, with(b)) PROVE ClientsData'
    BY <1>1, <1>2, <2>1, ReturnData
  <2>2. ASSUME NEW b, Proceed(c, "upload_list", with(b), job[c]) PROVE ClientsData'
    BY <1>1, <1>2, <2>2, ProceedData
  <2> QED BY <1>3, <2>1, <2>2
<1> QED BY <1>1, <1>4 DEF DataInv

LEMMA SuperblockRequestData ==
    ASSUME IInv, DataInv, NEW c \in Client,
           \/ open_signers(c) \/ format_signers(c)
           \/ download_superblock_list(c) \/ download_superblock_get(c)
           \/ upload_superblock_list(c) \/ upload_superblock_put(c)
    PROVE  DataInv'
<1>1. ClientInv /\ ClientsData /\ RowsPut
  BY DEF IInv, DataInv
<1>2. Saved(session[c].chunks, puts)
  BY <1>1 DEF ClientsData, DataOK
<1>3. pc[c] \in Requests /\ pc[c] # "fetch_get"
  BY DEF open_signers, format_signers, download_superblock_list, download_superblock_get,
         upload_superblock_list, upload_superblock_put, Requests
<1>4. ASSUME NEW r, Return(c, r, session[c]), ReadOnly PROVE DataInv'
  <2>1. RowsPut' /\ puts' = puts
    BY <1>1, <1>4, ReadOnlyData
  <2>2. ClientsData'
    BY <1>1, <1>2, <1>4, <2>1, ReturnData
  <2> QED BY <2>1, <2>2 DEF DataInv
<1>5. ASSUME NEW at, at # "fetch_get", NEW s, s.chunks = session[c].chunks, NEW j,
             Proceed(c, at, s, j), ReadOnly
      PROVE  DataInv'
  <2>1. RowsPut' /\ puts' = puts
    BY <1>1, <1>5, ReadOnlyData
  <2>2. Saved(s.chunks, puts')
    BY <1>2, <1>5, <2>1
  <2>3. ClientsData'
    BY <1>1, <1>3, <1>5, <2>1, <2>2, ProceedData
  <2> QED BY <2>1, <2>3 DEF DataInv
<1>6. CASE open_signers(c) \/ upload_superblock_list(c)
  BY <1>5, <1>6 DEF open_signers, upload_superblock_list
<1>7. CASE format_signers(c)
  <2>1. \A sb : [session[c] EXCEPT !.superblock = sb].chunks = session[c].chunks
    BY <1>1 DEF ClientInv, SessInv, SessionOK
  <2>2. ASSUME NEW sb, ReadOnly,
               Proceed(c, "upload_list", [session[c] EXCEPT !.superblock = sb], job[c])
        PROVE  DataInv'
    BY <1>5, <2>1, <2>2
  <2> QED BY <1>4, <1>7, <2>2 DEF format_signers
<1>8. CASE download_superblock_list(c)
  BY <1>3, <1>4, <1>5, <1>8, DownloadedData DEF download_superblock_list
<1>9. CASE download_superblock_get(c)
  BY <1>3, <1>4, <1>9, DownloadedData DEF download_superblock_get
<1>10. CASE upload_superblock_put(c)
  <2>1. Upload(c, SuperSlot, session[c].superblock, session[c]) /\ SuperSlot \in Slot
    BY <1>10, WrbpodAssumption DEF upload_superblock_put
  <2>2. puts \subseteq puts' => Saved(session[c].chunks, puts')
    BY <1>2, SavedGrows
  <2> QED BY <1>3, <2>1, <2>2, UploadData
<1> QED BY <1>6, <1>7, <1>8, <1>9, <1>10

(***************************************************************************)
(* A fetch caches data only when it equals the data the verified metadata  *)
(* signs, so it can rely on FetchOK although the slot may have changed     *)
(* since; a sync marks its chunk clean only when it was accepted.          *)
(***************************************************************************)
LEMMA SliceRequestData ==
    ASSUME IInv, DataInv, NEW c \in Client,
           \/ fetch_chunk_list(c) \/ fetch_chunk_signers(c) \/ get_chunk(c)
           \/ sync_slot_list(c) \/ sync_slot_put(c)
    PROVE  DataInv'
<1> DEFINE slot == job[c].slot
           cache == session[c].chunks
<1>1. ClientInv /\ ReplicaInv /\ ClientsData /\ RowsPut
  BY DEF IInv, DataInv
<1>2. /\ SessInv(session[c]) /\ CallInv(pc[c], session[c], job[c]) /\ slot \in Slot
      /\ Saved(cache, puts) /\ (pc[c] = "fetch_get" => FetchOK(job[c], puts))
  BY <1>1 DEF ClientInv, CallInv, JobOK, ClientsData, DataOK
<1>3. pc[c] \in Requests /\ slot # SuperSlot
  BY <1>2 DEF fetch_chunk_list, fetch_chunk_signers, get_chunk, sync_slot_list,
              sync_slot_put, Requests, CallInv
<1>4. ASSUME NEW r, NEW s, Saved(s.chunks, puts), Return(c, r, s), ReadOnly PROVE DataInv'
  <2>1. RowsPut' /\ puts' = puts
    BY <1>1, <1>4, ReadOnlyData
  <2>2. ClientsData'
    BY <1>1, <1>4, <2>1, ReturnData
  <2> QED BY <2>1, <2>2 DEF DataInv
<1>5. ASSUME NEW at, NEW j, at = "fetch_get" => FetchOK(j, puts),
             Proceed(c, at, session[c], j), ReadOnly
      PROVE  DataInv'
  <2>1. RowsPut' /\ puts' = puts
    BY <1>1, <1>5, ReadOnlyData
  <2>2. ClientsData'
    BY <1>1, <1>2, <1>3, <1>5, <2>1, ProceedData
  <2> QED BY <2>1, <2>2 DEF DataInv
<1>6. CASE fetch_chunk_list(c)
  <2> DEFINE slot_md == list_chunks[slot]
             j == [job[c] EXCEPT !.slot_md = slot_md]
             s == [session[c] EXCEPT !.fetched = @ \cup {slot}]
  <2>1. s.chunks = cache
    BY <1>2 DEF SessInv, SessionOK
  <2>2. ASSUME verify(slot_md, slot) PROVE FetchOK(j, puts)
    <3>1. j.slot_md = slot_md /\ j.slot = slot
      BY <1>2 DEF CallInv, JobOK
    <3>2. \A d \in slot_md.data : Entry(slot, slot_md, d) \in puts
      BY <1>1, <1>2, <1>3 DEF RowsPut, list_chunks
    <3> HIDE DEF j
    <3> QED BY <2>2, <3>1, <3>2 DEF FetchOK
  <2>3. \/ Return(c, "ok", s) \/ Return(c, "bad_signature", session[c])
        \/ verify(slot_md, slot) /\ Proceed(c, "fetch_get", session[c], j)
        \/ Proceed(c, "fetch_signers", session[c], job[c])
    BY <1>6 DEF fetch_chunk_list
  <2>4. ReadOnly
    BY <1>6 DEF fetch_chunk_list
  <2> HIDE DEF j, s, slot_md
  <2> QED BY <1>2, <1>4, <1>5, <2>1, <2>2, <2>3, <2>4
<1>7. CASE fetch_chunk_signers(c)
  BY <1>5, <1>7 DEF fetch_chunk_signers
<1>8. CASE get_chunk(c)
  <2> DEFINE data == get_latest_chunks(<<slot>>)[1]
             ch(x) == [slices |-> x, dirty |-> FALSE]
             s(x) == [session[c] EXCEPT !.chunks[slot] = ch(x), !.fetched = @ \cup {slot}]
  <2>1. pc[c] = "fetch_get" /\ ReadOnly
    BY <1>8 DEF get_chunk
  <2>2. ASSUME NEW x \in data, data = job[c].slot_md.data, Return(c, "ok", s(x))
        PROVE  DataInv'
    <3>1. Entry(slot, job[c].slot_md, x) \in puts
      BY <1>2, <2>1, <2>2 DEF FetchOK
    <3>2. \E p \in puts : p.slot = slot /\ p.data = x
      BY <3>1 DEF Entry
    <3>3. \A t \in Slot : s(x).chunks[t] = IF t = slot THEN ch(x) ELSE cache[t]
      BY <1>2 DEF SessInv, SessionOK
    <3>4. ch(x).slices = x
      OBVIOUS
    <3> HIDE DEF s, ch
    <3>5. Saved(s(x).chunks, puts)
      BY <1>2, <3>2, <3>3, <3>4 DEF Saved
    <3> QED BY <1>4, <2>1, <2>2, <3>5
  <2> HIDE DEF s
  <2>3. \/ Return(c, "hash_mismatch", session[c])
        \/ data = job[c].slot_md.data /\ \E x \in data : Return(c, "ok", s(x))
    BY <1>8 DEF get_chunk, s
  <2> QED BY <1>2, <1>4, <2>1, <2>2, <2>3
<1>9. CASE sync_slot_list(c)
  BY <1>5, <1>9 DEF sync_slot_list
<1>10. CASE sync_slot_put(c)
  <2>1. pc[c] = "sync_put" /\ Upload(c, slot, SyncData(c), SyncDone(c))
    BY <1>10 DEF sync_slot_put
  <2>2. ASSUME puts \subseteq puts',
               \E p \in puts' : p.slot = slot /\ p.data = SyncData(c)
        PROVE  Saved(SyncDone(c).chunks, puts')
    <3>1. Saved(cache, puts')
      BY <1>2, <2>2, SavedGrows
    <3>2. CASE job[c].name = "put_chunk"
      BY <3>1, <3>2 DEF SyncDone
    <3>3. CASE job[c].name = "sync"
      <4> DEFINE ch == [cache[slot] EXCEPT !.dirty = FALSE]
      <4>1. cache[slot] \in Chunk /\ SyncData(c) = cache[slot].slices
        BY <1>2, <3>3 DEF CallInv, SessInv, SessionOK, SyncData
      <4>2. ch.slices = SyncData(c)
        BY <4>1 DEF Chunk
      <4>3. \A t \in Slot : SyncDone(c).chunks[t] = IF t = slot THEN ch ELSE cache[t]
        BY <1>2, <3>3 DEF SyncDone, SessInv, SessionOK
      <4> HIDE DEF ch
      <4> QED BY <2>2, <3>1, <4>2, <4>3 DEF Saved
    <3> QED BY <1>2, <2>1, <3>2, <3>3 DEF CallInv
  <2> QED BY <1>2, <1>3, <2>1, <2>2, UploadData
<1> QED BY <1>6, <1>7, <1>8, <1>9, <1>10

LEMMA NewCallData ==
    ASSUME IInv, DataInv, NEW c \in Client, NewCall(c)
    PROVE  DataInv'
<1>1. ClientInv /\ ClientsData
  BY DEF IInv, DataInv
<1>2. SessInv(session[c]) /\ Saved(session[c].chunks, puts)
  BY <1>1 DEF ClientInv, ClientsData, DataOK
<1>3. CASE open(c) \/ format(c)
  BY <1>3, CallData DEF open, format
<1>4. ASSUME NEW app \in App, delete_slots_call(c, app) PROVE DataInv'
  BY <1>4, CallData DEF delete_slots_call
<1>5. ASSUME NEW app \in App, NEW n \in AllocSizes, allocate_slots_call(c, app, n)
      PROVE  DataInv'
  BY <1>5, CallData DEF allocate_slots_call
<1>6. ASSUME NEW app \in App, NEW i \in AppSlot, fetch_chunk(c, app, i) PROVE DataInv'
  <2>1. CASE CallReturns(c, "fetch", "no_such_app_chunk", session[c])
    BY <1>2, <1>6, <2>1, CallReturnsData DEF fetch_chunk
  <2>2. ASSUME NEW s, Call(c, "fetch", app, 0, s, "fetch_list"), UNCHANGED session
        PROVE  DataInv'
    BY <2>2, CallData
  <2> QED BY <1>6, <2>1, <2>2 DEF fetch_chunk
<1>7. ASSUME NEW app \in App, NEW i \in AppSlot, sync_slot(c, app, i) PROVE DataInv'
  <2>1. CASE CallReturns(c, "sync", "NoSuchChunk", session[c])
    BY <1>2, <1>7, <2>1, CallReturnsData DEF sync_slot
  <2>2. ASSUME NEW s, Call(c, "sync", app, 0, s, "sync_list"), UNCHANGED session
        PROVE  DataInv'
    BY <2>2, CallData
  <2> QED BY <1>7, <2>1, <2>2 DEF sync_slot
<1>8. ASSUME NEW app \in App, NEW i \in AppSlot, wrbpod_clear_slot(c, app, i) PROVE DataInv'
  BY <1>8, CallData DEF wrbpod_clear_slot
<1>9. ASSUME NEW app \in App, NEW i \in AppSlot, NEW id \in SliceId, NEW val \in Val,
             put_slice(c, app, i, id, val)
      PROVE  DataInv'
  <2> DEFINE old(s) == IF session[c].chunks[s] = NoChunk THEN NoSlices
                       ELSE session[c].chunks[s].slices
             ch(s) == [slices |-> [old(s) EXCEPT ![id] = val], dirty |-> TRUE]
  <2>1. CASE CallReturns(c, "put_slice", "false", session[c])
    BY <1>2, <1>9, <2>1, CallReturnsData DEF put_slice
  <2>2. ASSUME NEW s,
               CallReturns(c, "put_slice", "true", [session[c] EXCEPT !.chunks[s] = ch(s)])
        PROVE  DataInv'
    <3> DEFINE t == [session[c] EXCEPT !.chunks[s] = ch(s)]
    <3>1. ch(s).dirty = TRUE
      OBVIOUS
    <3> HIDE DEF ch
    <3>2. \A u \in Slot : t.chunks[u] = IF u = s THEN ch(s) ELSE session[c].chunks[u]
      BY <1>2 DEF SessInv, SessionOK
    <3> HIDE DEF t
    <3>3. Saved(t.chunks, puts)
      BY <1>2, <3>1, <3>2 DEF Saved
    <3>4. pc[c] = "idle"
      BY <1>9 DEF put_slice
    <3> QED BY <2>2, <3>3, <3>4, CallReturnsData DEF t
  <2> QED BY <1>9, <2>1, <2>2 DEF put_slice
<1> QED BY <1>3, <1>4, <1>5, <1>6, <1>7, <1>8, <1>9 DEF NewCall

LEMMA FaultData ==
    ASSUME IInv, DataInv, NEW c \in Client, RequestFails(c) \/ AnswerLost(c) \/ Exit(c)
    PROVE  DataInv'
<1>1. ClientInv /\ ClientsData /\ RowsPut
  BY DEF IInv, DataInv
<1>2. Saved(session[c].chunks, puts) /\ SuperSlot \in Slot /\ job[c].slot \in Slot
  BY <1>1, WrbpodAssumption DEF ClientInv, CallInv, JobOK, ClientsData, DataOK
<1>3. CASE RequestFails(c)
  <2>1. Return(c, "net_error", session[c]) /\ puts' = puts /\ chunks' = chunks
    BY <1>3 DEF RequestFails
  <2>2. ClientsData'
    BY <1>1, <1>2, <2>1, ReturnData
  <2> QED BY <1>1, <2>1, <2>2 DEF DataInv, RowsPut
<1>4. CASE AnswerLost(c)
  <2>1. PICK slot \in Slot : \E data : Store(c, slot, data) /\ Return(c, "net_error", session[c])
    BY <1>2, <1>4 DEF AnswerLost
  <2>2. PICK data : Store(c, slot, data) /\ Return(c, "net_error", session[c])
    BY <2>1
  <2>3. RowsPut' /\ puts \subseteq puts'
    BY <1>1, <2>2, StoreData
  <2>4. ClientsData'
    BY <1>1, <1>2, <2>2, <2>3, SavedGrows, ReturnData
  <2> QED BY <2>3, <2>4 DEF DataInv
<1>5. CASE Exit(c)
  <2>1. /\ pc' = [pc EXCEPT ![c] = "closed"] /\ session' = [session EXCEPT ![c] = NoSession]
        /\ job' = [job EXCEPT ![c] = NoJob] /\ ret' = [ret EXCEPT ![c] = "none"]
        /\ puts' = puts /\ chunks' = chunks
    BY <1>5 DEF Exit
  <2>2. DataOK("closed", NoSession, NoJob, "none", puts')
    BY NoSessionSaved, RestData DEF AtRest
  <2>3. ClientsData'
    BY <1>1, <2>1, <2>2, ClientsDataStep
  <2> QED BY <1>1, <2>1, <2>3 DEF DataInv, RowsPut
<1> QED BY <1>3, <1>4, <1>5

LEMMA InitData == Init => DataInv
BY NoSessionSaved, WrbpodAssumption
   DEF Init, open_or_create, DataInv, RowsPut, ClientsData, DataOK, Requests

LEMMA NextData == IInv /\ DataInv /\ [Next]_vars => DataInv'
<1> SUFFICES ASSUME IInv, DataInv, [Next]_vars PROVE DataInv'
  OBVIOUS
<1>1. CASE UNCHANGED vars
  BY <1>1 DEF vars, DataInv, RowsPut, ClientsData
<1>2. ASSUME NEW c \in Client, Request(c) PROVE DataInv'
  BY <1>2, SuperblockRequestData, SliceRequestData DEF Request
<1>3. ASSUME NEW c \in Client, NewCall(c) PROVE DataInv'
  BY <1>3, NewCallData
<1>4. ASSUME NEW c \in Client, RequestFails(c) \/ AnswerLost(c) \/ Exit(c) PROVE DataInv'
  BY <1>4, FaultData
<1> QED BY <1>1, <1>2, <1>3, <1>4 DEF Next

(* Both invariants hold in every reachable state.                          *)
LEMMA DataInvariance == Spec => [](IInv /\ DataInv)
<1>1. Init => IInv /\ DataInv
  BY InitIInv, InitData
<1>2. (IInv /\ DataInv) /\ [Next]_vars => (IInv /\ DataInv)'
  BY NextIInv, NextData
<1> QED BY <1>1, <1>2, PTL DEF Spec

(***************************************************************************)
(* set_dirty(false) after put_chunk and the chunk that get_chunk caches:   *)
(* a local copy that counts as clean is one the replica accepted for the   *)
(* slot, although other processes upload to it, uploads are refused and    *)
(* tried again, and answers are lost.                                      *)
(***************************************************************************)
THEOREM CleanStaysSaved == Spec => []CleanIsSaved
<1>1. DataInv => CleanIsSaved
  BY DEF DataInv, ClientsData, DataOK, Saved, CleanIsSaved
<1> QED BY <1>1, DataInvariance, PTL

(* A step of one client changes no other client's result.                  *)
LEMMA OwnResult ==
    ASSUME ClientInv, NEW d \in Client,
           Request(d) \/ NewCall(d) \/ RequestFails(d) \/ AnswerLost(d) \/ Exit(d)
    PROVE  \A c \in Client : c # d => ret'[c] = ret[c]
<1>1. ret = [c \in Client |-> ret[c]]
  BY DEF ClientInv
<1>2. ASSUME NEW r, ret' = [ret EXCEPT ![d] = r] PROVE \A c \in Client : c # d => ret'[c] = ret[c]
  BY <1>1, <1>2
<1>3. CASE \/ open_signers(d) \/ format_signers(d) \/ upload_superblock_list(d)
           \/ fetch_chunk_list(d) \/ fetch_chunk_signers(d) \/ get_chunk(d)
           \/ sync_slot_list(d)
  BY <1>2, <1>3 DEF open_signers, format_signers, upload_superblock_list, fetch_chunk_list,
                    fetch_chunk_signers, get_chunk, sync_slot_list, Return, Proceed
<1>4. CASE download_superblock_list(d) \/ download_superblock_get(d)
  BY <1>2, <1>4 DEF download_superblock_list, download_superblock_get, Downloaded,
                    Return, Proceed
<1>5. CASE upload_superblock_put(d) \/ sync_slot_put(d)
  BY <1>2, <1>5 DEF upload_superblock_put, sync_slot_put, Upload, Return, Proceed
<1>6. CASE NewCall(d)
  BY <1>2, <1>6 DEF NewCall, open, format, delete_slots_call, allocate_slots_call,
                    fetch_chunk, sync_slot, wrbpod_clear_slot, put_slice, Call, CallReturns
<1>7. CASE RequestFails(d) \/ AnswerLost(d) \/ Exit(d)
  BY <1>2, <1>7 DEF RequestFails, AnswerLost, Exit, Return
<1> QED BY <1>3, <1>4, <1>5, <1>6, <1>7 DEF Request

(* Of the steps of a client in the second request of a fetch only get_chunk *)
(* returns ok.                                                              *)
LEMMA FetchReturns ==
    ASSUME ClientInv, NEW c \in Client, pc[c] = "fetch_get", ret'[c] = "ok",
           Request(c) \/ NewCall(c) \/ RequestFails(c) \/ AnswerLost(c) \/ Exit(c)
    PROVE  get_chunk(c)
<1>1. ret = [d \in Client |-> ret[d]]
  BY DEF ClientInv
<1>2. ~NewCall(c) /\ ~AnswerLost(c)
  BY DEF NewCall, open, format, delete_slots_call, allocate_slots_call, fetch_chunk,
         sync_slot, wrbpod_clear_slot, put_slice, AnswerLost
<1>3. ~RequestFails(c) /\ ~Exit(c)
  BY <1>1 DEF RequestFails, Exit, Return
<1>4. ~(\/ open_signers(c) \/ format_signers(c) \/ download_superblock_list(c)
        \/ download_superblock_get(c) \/ upload_superblock_list(c)
        \/ upload_superblock_put(c) \/ fetch_chunk_list(c) \/ fetch_chunk_signers(c)
        \/ sync_slot_list(c) \/ sync_slot_put(c))
  BY DEF open_signers, format_signers, download_superblock_list, download_superblock_get,
         upload_superblock_list, upload_superblock_put, fetch_chunk_list,
         fetch_chunk_signers, sync_slot_list, sync_slot_put
<1> QED BY <1>2, <1>3, <1>4 DEF Request

(***************************************************************************)
(* fetch_chunk verifies metadata in one request and reads the data in the  *)
(* next: what it caches is still what the slot's own signer uploaded under *)
(* the version it reports.                                                 *)
(***************************************************************************)
THEOREM FetchesAreAuthentic == Spec => FetchIsAuthentic
<1> DEFINE Cached(c) ==
        LET s == job[c].slot
        IN  [slot |-> s, version |-> job[c].slot_md.version, sig |-> Signer[s],
             data |-> session'[c].chunks[s].slices]
<1>1. ASSUME IInv, DataInv, Next, NEW c \in Client, pc[c] = "fetch_get", ret'[c] = "ok"
      PROVE  Cached(c) \in puts
  <2> DEFINE slot == job[c].slot
             data == get_latest_chunks(<<slot>>)[1]
             s(x) == [session[c] EXCEPT !.chunks[slot] = [slices |-> x, dirty |-> FALSE],
                                        !.fetched = @ \cup {slot}]
  <2>1. /\ ClientInv /\ ret[c] = "none" /\ FetchOK(job[c], puts) /\ slot \in Slot
        /\ SessInv(session[c]) /\ job[c].name = "fetch"
    BY <1>1 DEF IInv, ClientInv, CallInv, JobOK, DataInv, ClientsData, DataOK, Requests
  <2>2. get_chunk(c)
    <3>1. PICK d \in Client :
             Request(d) \/ NewCall(d) \/ RequestFails(d) \/ AnswerLost(d) \/ Exit(d)
      BY <1>1 DEF Next
    <3>2. d = c
      BY <1>1, <2>1, <3>1, OwnResult
    <3> QED BY <1>1, <2>1, <3>1, <3>2, FetchReturns
  <2>3. PICK x \in data : data = job[c].slot_md.data /\ Return(c, "ok", s(x))
    <3>1. ~Return(c, "hash_mismatch", session[c])
      BY <1>1, <2>1 DEF ClientInv, Return
    <3> HIDE DEF s
    <3> QED BY <2>2, <3>1 DEF get_chunk, s
  <2>4. session'[c] = s(x)
    BY <2>1, <2>3 DEF Return, ClientInv
  <2>5. session'[c].chunks[slot].slices = x
    BY <2>1, <2>4 DEF SessInv, SessionOK
  <2>6. Entry(slot, job[c].slot_md, x) \in puts /\ job[c].slot_md.sig = Signer[slot]
    BY <2>1, <2>3 DEF FetchOK, verify
  <2> QED BY <2>5, <2>6 DEF Entry
<1>2. IInv /\ DataInv /\ [Next]_vars
        => [\A c \in Client : pc[c] = "fetch_get" /\ ret'[c] = "ok" => Cached(c) \in puts]_vars
  BY <1>1
<1> QED BY <1>2, DataInvariance, PTL DEF Spec, FetchIsAuthentic

-----------------------------------------------------------------------------
(* One client: what was allocated stays allocated.                         *)

LEMMA OwnedIs ==
    ASSUME NEW sb, NEW app, NEW p
    PROVE  p \in Owned(sb, app) <=>
             app \in DOMAIN sb.apps /\ \E k \in DOMAIN sb.apps[app] : p = <<app, sb.apps[app][k]>>
BY DEF Owned, Elems

(* An allocation takes no slot from any app.                               *)
LEMMA AllocateKeeps ==
    ASSUME NEW sb, SbOK(sb), NEW app \in App, NEW n \in Nat, NEW A, Holds(sb, A)
    PROVE  Holds(allocate_slots(sb, app, n).sb, A)
<1> DEFINE r == allocate_slots(sb, app, n)
<1>1. CASE r = [ok |-> FALSE, sb |-> sb]
  BY <1>1
<1>2. ASSUME NEW q \in fill_free_slot(sb, n), r = [ok |-> TRUE, sb |-> GiveSlots(sb, app, q)]
      PROVE  Holds(r.sb, A)
  <2> DEFINE g == GiveSlots(sb, app, q)
             had == IF app \in DOMAIN sb.apps THEN Len(sb.apps[app]) ELSE 0
  <2>1. r.sb = g /\ WrbpodSuperblock(sb)
    BY <1>2 DEF SbOK
  <2>2. /\ DOMAIN g.apps = DOMAIN sb.apps \cup {app}
        /\ \A a \in DOMAIN sb.apps \ {app} : g.apps[a] = sb.apps[a]
        /\ DOMAIN g.apps[app] = 1..(had + n)
        /\ app \in DOMAIN sb.apps => \A k \in 1..had : g.apps[app][k] = sb.apps[app][k]
    BY <2>1, GiveFacts
  <2>3. app \in DOMAIN sb.apps => DOMAIN sb.apps[app] = 1..had /\ had \in Nat
    BY <2>1, LenProperties DEF WrbpodSuperblock
  <2> HIDE DEF g, had, r
  <2>4. \A a \in DOMAIN sb.apps : a \in DOMAIN g.apps /\
          \A k \in DOMAIN sb.apps[a] : k \in DOMAIN g.apps[a] /\ g.apps[a][k] = sb.apps[a][k]
    <3>1. app \in DOMAIN sb.apps =>
            \A k \in DOMAIN sb.apps[app] : /\ k \in 1..had /\ k \in 1..(had + n)
                                           /\ g.apps[app][k] = sb.apps[app][k]
      BY <2>2, <2>3
    <3> QED BY <2>2, <3>1
  <2>5. Holds(g, A)
    BY <2>4, OwnedIs DEF Holds
  <2> QED BY <2>1, <2>5
<1> QED BY <1>1, <1>2, AllocateCases

(* A deletion takes slots from one app only.                               *)
LEMMA DeleteKeeps ==
    ASSUME NEW sb, SbOK(sb), NEW app, NEW A, Holds(sb, A), \A p \in A : p[1] # app
    PROVE  Holds(delete_slots(sb, app), A)
<1> DEFINE d == delete_slots(sb, app)
<1>1. CASE app \notin DOMAIN sb.apps
  BY <1>1 DEF delete_slots
<1>2. CASE app \in DOMAIN sb.apps
  <2>1. /\ DOMAIN d.apps = DOMAIN sb.apps \ {app}
        /\ \A a \in DOMAIN sb.apps \ {app} : d.apps[a] = sb.apps[a]
    BY <1>2 DEF delete_slots
  <2> HIDE DEF d
  <2>2. Holds(d, A)
    BY <2>1, OwnedIs DEF Holds
  <2> QED BY <2>2 DEF d
<1> QED BY <1>1, <1>2

(* With one client it is enough to look at the client that moves.          *)
LEMMA AllocStep ==
    ASSUME OneClient, NEW c \in Client, RowHolds',
           CallHolds(pc'[c], session'[c], job'[c], acked')
    PROVE  AllocInv'
BY DEF OneClient, AllocInv

LEMMA SameRow ==
    ASSUME RowHolds, chunks'[SuperSlot] = chunks[SuperSlot], acked' = acked
    PROVE  RowHolds'
BY DEF RowHolds

LEMMA ReturnAlloc ==
    ASSUME OneClient, ClientInv, NEW c \in Client, NEW r, NEW s, RowHolds', Return(c, r, s)
    PROVE  AllocInv'
<1>1. PICK at \in AtRest : pc'[c] = at
  BY DEF Return, AtRest, ClientInv
<1>2. job'[c] = NoJob
  BY DEF Return, ClientInv
<1>3. CallHolds(at, session'[c], NoJob, acked')
  BY <1>1 DEF CallHolds, AtRest, NoJob, NewJob
<1> QED BY <1>1, <1>2, <1>3, AllocStep

LEMMA ProceedAlloc ==
    ASSUME OneClient, ClientInv, NEW c \in Client, NEW at, NEW s, NEW j, RowHolds',
           CallHolds(at, s, j, acked'), Proceed(c, at, s, j)
    PROVE  AllocInv'
<1>1. pc'[c] = at /\ session'[c] = s /\ job'[c] = j
  BY DEF Proceed, ClientInv
<1> QED BY <1>1, AllocStep

(* What a call does with a superblock that has what was acknowledged.      *)
LEMMA DownloadedAlloc ==
    ASSUME OneClient, IInv, AllocInv, NEW c \in Client, NEW sb, SbOK(sb), Holds(sb, acked),
           Downloaded(c, sb), ReadOnly
    PROVE  AllocInv'
<1> DEFINE with(b) == [session[c] EXCEPT !.superblock = b]
           app == job[c].app
<1>1. ClientInv /\ CallInv(pc[c], session[c], job[c]) /\ SessInv(session[c])
  BY DEF IInv, ClientInv
<1>2. RowHolds' /\ acked' = acked
  BY SameRow DEF ReadOnly, AllocInv
<1>3. CallHolds(pc[c], session[c], job[c], acked)
  BY DEF AllocInv
<1>4. ASSUME NEW b, Holds(b, acked) PROVE CallHolds("upload_list", with(b), job[c], acked')
  <2>1. with(b).superblock = b
    BY <1>1 DEF SessInv, SessionOK
  <2> HIDE DEF with
  <2> QED BY <1>2, <1>3, <1>4, <2>1 DEF CallHolds
<1> HIDE DEF with
<1>5. ASSUME NEW r, Return(c, r, with(sb)) PROVE AllocInv'
  BY <1>1, <1>2, <1>5, ReturnAlloc
<1>6. ASSUME NEW b, Holds(b, acked), Proceed(c, "upload_list", with(b), job[c]) PROVE AllocInv'
  BY <1>1, <1>2, <1>4, <1>6, ProceedAlloc
<1>7. job[c].name = "alloc" => Holds(allocate_slots(sb, app, job[c].n).sb, acked)
  BY <1>1, AllocateKeeps DEF CallInv, JobOK
<1>8. job[c].name = "delete" => Holds(delete_slots(sb, app), acked)
  BY <1>3, DeleteKeeps DEF CallHolds
<1> QED BY <1>5, <1>6, <1>7, <1>8 DEF Downloaded, with

LEMMA SuperblockRequestAlloc ==
    ASSUME OneClient, IInv, DataInv, AllocInv, NEW c \in Client,
           \/ open_signers(c) \/ format_signers(c)
           \/ download_superblock_list(c) \/ download_superblock_get(c)
           \/ upload_superblock_list(c)
    PROVE  AllocInv'
<1>1. ClientInv /\ ReplicaInv /\ SessInv(session[c])
  BY DEF IInv, ClientInv
<1>2. RowHolds /\ CallHolds(pc[c], session[c], job[c], acked)
  BY DEF AllocInv
<1>3. ReadOnly /\ RowHolds' /\ acked' = acked
  BY <1>2, SameRow DEF open_signers, format_signers, download_superblock_list,
       download_superblock_get, upload_superblock_list, ReadOnly
<1>4. ASSUME NEW r, Return(c, r, session[c]) PROVE AllocInv'
  BY <1>1, <1>3, <1>4, ReturnAlloc
<1>5. CASE open_signers(c)
  <2>1. CallHolds("download_list", session[c], job[c], acked')
    BY <1>2, <1>3 DEF CallHolds
  <2> QED BY <1>1, <1>3, <1>5, <2>1, ProceedAlloc DEF open_signers
<1>6. CASE format_signers(c)
  <2>1. pc[c] = "format_signers"
    BY <1>6 DEF format_signers
  <2>2. acked' = {} /\ job[c].name = "format"
    BY <1>2, <1>3, <2>1 DEF CallHolds
  <2>3. \A s : CallHolds("upload_list", s, job[c], acked')
    BY <2>2 DEF CallHolds, Holds
  <2>4. ASSUME NEW s, Proceed(c, "upload_list", s, job[c]) PROVE AllocInv'
    BY <1>1, <1>3, <2>3, <2>4, ProceedAlloc
  <2> QED BY <1>4, <1>6, <2>4 DEF format_signers
<1>7. CASE download_superblock_list(c)
  <2> DEFINE slot_md == list_chunks[SuperSlot]
             j == [job[c] EXCEPT !.slot_md = slot_md]
  <2>1. ASSUME is_empty(slot_md), NEW sb \in make_superblock(KeyOf[c]), Downloaded(c, sb)
        PROVE  AllocInv'
    <3>1. Holds(sb, acked)
      BY <1>2, <2>1 DEF is_empty, list_chunks, RowHolds, Holds
    <3> QED BY <1>3, <2>1, <3>1, MakeOK, DownloadedAlloc
  <2>2. ASSUME Proceed(c, "download_get", session[c], j) PROVE AllocInv'
    <3>1. j.name = job[c].name /\ j.app = job[c].app
      BY <1>1 DEF ClientInv, CallInv, JobOK
    <3> HIDE DEF j
    <3>2. CallHolds("download_get", session[c], j, acked')
      BY <1>2, <1>3, <3>1 DEF CallHolds
    <3> QED BY <1>1, <1>3, <2>2, <3>2, ProceedAlloc
  <2> QED BY <1>4, <1>7, <2>1, <2>2 DEF download_superblock_list
<1>8. CASE download_superblock_get(c)
  <2> DEFINE reply == get_latest_chunks(<<SuperSlot>>)
             i == SuperSlot + 1
  <2>1. ASSUME i \in DOMAIN reply, NEW sb \in reply[i], Downloaded(c, sb) PROVE AllocInv'
    <3>1. DOMAIN reply = {1} /\ reply[1] = chunks[SuperSlot].data
      BY DEF get_latest_chunks
    <3>2. SbOK(sb) /\ Holds(sb, acked)
      BY <1>1, <1>2, <2>1, <3>1 DEF ReplicaInv, RowHolds
    <3> QED BY <1>3, <2>1, <3>2, DownloadedAlloc
  <2> QED BY <1>4, <1>8, <2>1 DEF download_superblock_get
<1>9. CASE upload_superblock_list(c)
  <2> DEFINE j == [job[c] EXCEPT !.slot_version = list_chunks[SuperSlot].version]
  <2>1. pc[c] = "upload_list" /\ Proceed(c, "upload_put", session[c], j)
    BY <1>9 DEF upload_superblock_list
  <2>2. j.name = job[c].name /\ j.app = job[c].app
    BY <1>1 DEF ClientInv, CallInv, JobOK
  <2> HIDE DEF j
  <2>3. CallHolds("upload_put", session[c], j, acked')
    BY <1>2, <1>3, <2>1, <2>2 DEF CallHolds
  <2> QED BY <1>1, <1>3, <2>1, <2>3, ProceedAlloc
<1> QED BY <1>5, <1>6, <1>7, <1>8, <1>9

(* The replica's row of a slot after an upload to some slot.               *)
LEMMA StoreRow ==
    ASSUME ReplicaInv, NEW c \in Client, NEW slot \in Slot, NEW data, Store(c, slot, data)
    PROVE  \A s \in Slot : IF s = slot /\ put_chunk_ack(slot, job[c].slot_version).accepted
                           THEN chunks'[s].data = {data} ELSE chunks'[s] = chunks[s]
BY DEF Store, put_chunk, ReplicaInv

(* The upload that acknowledges an allocation, or repeats it.              *)
LEMMA UploadAlloc ==
    ASSUME OneClient, IInv, DataInv, AllocInv, NEW c \in Client, upload_superblock_put(c)
    PROVE  AllocInv'
<1> DEFINE sb == session[c].superblock
           ack == put_chunk_ack(SuperSlot, job[c].slot_version)
<1>1. ClientInv /\ ReplicaInv /\ SuperSlot \in Slot /\ RowHolds
  BY WrbpodAssumption DEF IInv, AllocInv
<1>2. pc[c] = "upload_put" /\ CallHolds(pc[c], session[c], job[c], acked) /\ Holds(sb, acked)
  BY DEF AllocInv, CallHolds, upload_superblock_put
<1>3. ret[c] = "none"
  BY <1>2 DEF DataInv, ClientsData, DataOK, Requests
<1>4. Store(c, SuperSlot, sb)
  BY DEF upload_superblock_put, Upload
<1>5. IF ack.accepted THEN chunks'[SuperSlot].data = {sb}
                      ELSE chunks'[SuperSlot] = chunks[SuperSlot]
  BY <1>1, <1>4, StoreRow
<1>6. acked' = acked \/ acked' = acked \cup Owned(sb, job[c].app)
  BY DEF upload_superblock_put
<1>7. ret'[c] # "ok" => acked' = acked
  BY DEF upload_superblock_put
<1>8. Holds(sb, acked')
  <2>1. \A p \in Owned(sb, job[c].app) : p \in Owned(sb, p[1])
    BY OwnedIs
  <2> QED BY <1>2, <1>6, <2>1 DEF Holds
<1>9. ASSUME ack.accepted PROVE RowHolds'
  BY <1>5, <1>8, <1>9 DEF RowHolds
<1>10. CASE ack.accepted /\ Return(c, "ok", session[c])
  BY <1>1, <1>9, <1>10, ReturnAlloc
<1>11. ASSUME NEW m \in ack.metadata,
              Proceed(c, pc[c], session[c], [job[c] EXCEPT !.slot_version = m.version + 1])
       PROVE  AllocInv'
  <2> DEFINE j == [job[c] EXCEPT !.slot_version = m.version + 1]
  <2>1. ~ack.accepted
    BY <1>11 DEF put_chunk_ack
  <2>2. acked' = acked /\ RowHolds'
    BY <1>1, <1>3, <1>5, <1>7, <1>11, <2>1, SameRow DEF Proceed
  <2>3. j.name = job[c].name /\ j.app = job[c].app
    BY <1>1 DEF ClientInv, CallInv, JobOK
  <2> HIDE DEF j
  <2>4. CallHolds(pc[c], session[c], j, acked')
    BY <1>2, <2>2, <2>3 DEF CallHolds
  <2> QED BY <1>1, <1>11, <2>2, <2>4, ProceedAlloc DEF j
<1>12. CASE ~ack.accepted /\ Return(c, "rejected", session[c])
  <2>1. ret'[c] = "rejected"
    BY <1>1, <1>12 DEF Return, ClientInv
  <2>2. RowHolds'
    BY <1>1, <1>5, <1>7, <1>12, <2>1, SameRow
  <2> QED BY <1>1, <1>12, <2>2, ReturnAlloc
<1> QED BY <1>10, <1>11, <1>12 DEF upload_superblock_put, Upload

(* Calls about slices write other slots.                                   *)
LEMMA SliceRequestAlloc ==
    ASSUME OneClient, IInv, AllocInv, NEW c \in Client,
           \/ fetch_chunk_list(c) \/ fetch_chunk_signers(c) \/ get_chunk(c)
           \/ sync_slot_list(c) \/ sync_slot_put(c)
    PROVE  AllocInv'
<1>1. /\ ClientInv /\ ReplicaInv /\ SuperSlot \in Slot /\ RowHolds
      /\ CallInv(pc[c], session[c], job[c])
  BY WrbpodAssumption DEF IInv, ClientInv, AllocInv
<1>2. job[c].name \in {"fetch", "sync", "put_chunk"} /\ job[c].slot \in Slot \ {SuperSlot}
  BY <1>1 DEF fetch_chunk_list, fetch_chunk_signers, get_chunk, sync_slot_list,
              sync_slot_put, CallInv, JobOK
<1>3. acked' = acked /\ chunks'[SuperSlot] = chunks[SuperSlot]
  <2>1. CASE sync_slot_put(c)
    <3>1. Store(c, job[c].slot, SyncData(c)) /\ acked' = acked
      BY <2>1 DEF sync_slot_put, Upload
    <3> QED BY <1>1, <1>2, <3>1, StoreRow
  <2>2. CASE ~sync_slot_put(c)
    BY <2>2 DEF fetch_chunk_list, fetch_chunk_signers, get_chunk, sync_slot_list, ReadOnly
  <2> QED BY <2>1, <2>2
<1>4. RowHolds'
  BY <1>1, <1>3, SameRow
<1>5. ASSUME NEW at, NEW s, NEW j, j.name = job[c].name, Proceed(c, at, s, j),
             at \in {"fetch_list", "fetch_signers", "fetch_get", "sync_put"}
      PROVE  AllocInv'
  <2>1. CallHolds(at, s, j, acked')
    BY <1>2, <1>5 DEF CallHolds
  <2> QED BY <1>1, <1>4, <1>5, <2>1, ProceedAlloc
<1>6. ASSUME NEW r, NEW s, Return(c, r, s) PROVE AllocInv'
  BY <1>1, <1>4, <1>6, ReturnAlloc
<1>7. \A x : /\ [job[c] EXCEPT !.slot_md = x].name = job[c].name
             /\ [job[c] EXCEPT !.slot_version = x].name = job[c].name
             /\ [job[c] EXCEPT !.refreshes = x].name = job[c].name
  BY <1>1 DEF CallInv, JobOK
<1>8. CASE fetch_chunk_list(c)
  BY <1>5, <1>6, <1>7, <1>8 DEF fetch_chunk_list
<1>9. CASE fetch_chunk_signers(c)
  BY <1>5, <1>7, <1>9 DEF fetch_chunk_signers
<1>10. CASE get_chunk(c)
  BY <1>6, <1>10 DEF get_chunk
<1>11. CASE sync_slot_list(c)
  BY <1>5, <1>7, <1>11 DEF sync_slot_list
<1>12. CASE sync_slot_put(c)
  BY <1>5, <1>6, <1>7, <1>12 DEF sync_slot_put, Upload
<1> QED BY <1>8, <1>9, <1>10, <1>11, <1>12

(* A new call promises less when it deletes or formats, never more.        *)
LEMMA NewCallAlloc ==
    ASSUME OneClient, IInv, AllocInv, NEW c \in Client, NewCall(c)
    PROVE  AllocInv'
<1>1. ClientInv /\ RowHolds
  BY DEF IInv, AllocInv
<1>2. ASSUME acked' \subseteq acked, chunks' = chunks PROVE RowHolds'
  BY <1>1, <1>2 DEF RowHolds, Holds
<1>3. ASSUME NEW name, NEW app, NEW n, NEW slot, NEW at, Call(c, name, app, n, slot, at),
             acked' \subseteq acked,
             at \notin {"upload_list", "upload_put"},
             at = "format_signers" => name = "format",
             name = "format" => acked' = {},
             name = "delete" => \A p \in acked' : p[1] # app
      PROVE  AllocInv'
  <2> DEFINE j == NewJob(name, app, n, slot)
  <2>1. pc'[c] = at /\ job'[c] = j /\ chunks' = chunks
    BY <1>1, <1>3 DEF Call, ClientInv
  <2>2. j.name = name /\ j.app = app
    BY DEF NewJob
  <2> HIDE DEF j
  <2>3. CallHolds(pc'[c], session'[c], job'[c], acked')
    BY <1>3, <2>1, <2>2 DEF CallHolds
  <2> QED BY <1>2, <1>3, <2>1, <2>3, AllocStep
<1>4. ASSUME NEW name, NEW r, NEW s, pc[c] = "idle", CallReturns(c, name, r, s) PROVE AllocInv'
  <2>1. pc'[c] = "idle" /\ job'[c] = job[c] /\ chunks' = chunks /\ acked' = acked
    BY <1>4 DEF CallReturns
  <2>2. CallHolds(pc'[c], session'[c], job'[c], acked')
    BY <2>1 DEF AllocInv, CallHolds
  <2> QED BY <1>2, <2>1, <2>2, AllocStep
<1>5. CASE open(c)
  BY <1>3, <1>5 DEF open
<1>6. CASE format(c)
  BY <1>3, <1>6 DEF format
<1>7. ASSUME NEW app \in App, delete_slots_call(c, app) PROVE AllocInv'
  BY <1>3, <1>7 DEF delete_slots_call
<1>8. ASSUME NEW app \in App, NEW n \in AllocSizes, allocate_slots_call(c, app, n)
      PROVE  AllocInv'
  BY <1>3, <1>8 DEF allocate_slots_call
<1>9. ASSUME NEW app \in App, NEW i \in AppSlot,
             fetch_chunk(c, app, i) \/ sync_slot(c, app, i) \/ wrbpod_clear_slot(c, app, i)
      PROVE  AllocInv'
  BY <1>3, <1>4, <1>9 DEF fetch_chunk, sync_slot, wrbpod_clear_slot
<1>10. ASSUME NEW app \in App, NEW i \in AppSlot, NEW id \in SliceId, NEW val \in Val,
              put_slice(c, app, i, id, val)
       PROVE  AllocInv'
  <2>1. \E r, s : pc[c] = "idle" /\ CallReturns(c, "put_slice", r, s)
    BY <1>10 DEF put_slice
  <2> QED BY <1>4, <2>1
<1> QED BY <1>5, <1>6, <1>7, <1>8, <1>9, <1>10 DEF NewCall

LEMMA FaultAlloc ==
    ASSUME OneClient, IInv, AllocInv, NEW c \in Client,
           RequestFails(c) \/ AnswerLost(c) \/ Exit(c)
    PROVE  AllocInv'
<1>1. /\ ClientInv /\ ReplicaInv /\ SuperSlot \in Slot /\ RowHolds
      /\ CallInv(pc[c], session[c], job[c]) /\ CallHolds(pc[c], session[c], job[c], acked)
  BY WrbpodAssumption DEF IInv, ClientInv, AllocInv
<1>2. CASE RequestFails(c)
  <2>1. Return(c, "net_error", session[c]) /\ chunks' = chunks /\ acked' = acked
    BY <1>2 DEF RequestFails
  <2> QED BY <1>1, <2>1, SameRow, ReturnAlloc
<1>3. CASE AnswerLost(c)
  <2>1. Return(c, "net_error", session[c]) /\ acked' = acked
    BY <1>3 DEF AnswerLost
  <2>2. RowHolds'
    <3>1. CASE pc[c] = "upload_put"
      <4>1. Store(c, SuperSlot, session[c].superblock)
        BY <1>3, <3>1 DEF AnswerLost
      <4>2. Holds(session[c].superblock, acked')
        BY <1>1, <2>1, <3>1 DEF CallHolds
      <4>3. \/ chunks'[SuperSlot].data = {session[c].superblock}
            \/ chunks'[SuperSlot] = chunks[SuperSlot]
        BY <1>1, <4>1, StoreRow
      <4> QED BY <1>1, <2>1, <4>2, <4>3, SameRow DEF RowHolds
    <3>2. CASE pc[c] = "sync_put"
      <4>1. Store(c, job[c].slot, SyncData(c)) /\ job[c].slot \in Slot \ {SuperSlot}
        BY <1>1, <1>3, <3>2 DEF AnswerLost, CallInv, JobOK
      <4>2. chunks'[SuperSlot] = chunks[SuperSlot]
        BY <1>1, <4>1, StoreRow
      <4> QED BY <1>1, <2>1, <4>2, SameRow
    <3> QED BY <1>3, <3>1, <3>2 DEF AnswerLost
  <2> QED BY <1>1, <2>1, <2>2, ReturnAlloc
<1>4. CASE Exit(c)
  <2>1. /\ pc'[c] = "closed" /\ job'[c] = NoJob /\ chunks' = chunks /\ acked' = acked
    BY <1>1, <1>4 DEF Exit, ClientInv
  <2>2. CallHolds(pc'[c], session'[c], job'[c], acked')
    BY <2>1 DEF CallHolds, NoJob, NewJob
  <2> QED BY <1>1, <2>1, <2>2, SameRow, AllocStep
<1> QED BY <1>2, <1>3, <1>4

LEMMA InitAlloc == Init => AllocInv
BY WrbpodAssumption
   DEF Init, open_or_create, AllocInv, RowHolds, CallHolds, Holds, NoJob, NewJob

LEMMA NextAlloc ==
    ASSUME OneClient
    PROVE  IInv /\ DataInv /\ AllocInv /\ [Next]_vars => AllocInv'
<1> SUFFICES ASSUME IInv, DataInv, AllocInv, [Next]_vars PROVE AllocInv'
  OBVIOUS
<1>1. CASE UNCHANGED vars
  BY <1>1 DEF vars, AllocInv, RowHolds
<1>2. ASSUME NEW c \in Client, Request(c) PROVE AllocInv'
  BY <1>2, SuperblockRequestAlloc, UploadAlloc, SliceRequestAlloc DEF Request
<1>3. ASSUME NEW c \in Client, NewCall(c) PROVE AllocInv'
  BY <1>3, NewCallAlloc
<1>4. ASSUME NEW c \in Client, RequestFails(c) \/ AnswerLost(c) \/ Exit(c) PROVE AllocInv'
  BY <1>4, FaultAlloc
<1> QED BY <1>1, <1>2, <1>3, <1>4 DEF Next

(***************************************************************************)
(* allocate_slots that returned Ok(true), with one process at a time: the  *)
(* slots stay with the app through later allocations, deletions of other   *)
(* apps, failed and half-done uploads and restarts.  Two processes break   *)
(* it: the run MCWrbpodLostAllocation shows how.                           *)
(***************************************************************************)
THEOREM AllocationsStayKept ==
    ASSUME OneClient
    PROVE  Spec => []AllocationsKept
<1>1. Init => AllocInv
  BY InitAlloc
<1>2. IInv /\ DataInv /\ AllocInv /\ [Next]_vars => AllocInv'
  BY NextAlloc
<1>3. AllocInv => AllocationsKept
  BY DEF AllocInv, RowHolds, Holds, AllocationsKept
<1> QED BY <1>1, <1>2, <1>3, DataInvariance, PTL DEF Spec

-----------------------------------------------------------------------------
(* One client: a sync of a fetched slot keeps the saved slices.            *)

(* A session that has fetched nothing has nothing to cover.                *)
LEMMA NoSessionKeep == \A rows : KeepOK(NoSession, NoJob, rows)
BY DEF KeepOK, CacheCovers, NoSession, NoJob, NewJob

(* KeepOK looks at the cache, the fetched slots and the call's name.       *)
LEMMA SameKeep ==
    ASSUME NEW s, NEW j, NEW rows, KeepOK(s, j, rows), NEW t, NEW k,
           t.chunks = s.chunks, t.fetched = s.fetched, k.name = j.name
    PROVE  KeepOK(t, k, rows)
BY DEF KeepOK, CacheCovers

(* With one client it is enough to look at the client that moves.          *)
LEMMA KeepStep ==
    ASSUME OneClient, NEW c \in Client, \A s \in Slot : \A d, e \in chunks'[s].data : d = e,
           KeepOK(session'[c], job'[c], chunks')
    PROVE  KeepInv'
BY DEF OneClient, KeepInv

LEMMA ReturnKeep ==
    ASSUME OneClient, ClientInv, NEW c \in Client, NEW r, NEW s,
           \A x \in Slot : \A d, e \in chunks'[x].data : d = e,
           KeepOK(s, job[c], chunks'), Return(c, r, s)
    PROVE  KeepInv'
<1>1. job'[c] = NoJob /\ (session'[c] = NoSession \/ session'[c] = s)
  BY DEF Return, ClientInv
<1>2. NoJob.name # "put_chunk"
  BY DEF NoJob, NewJob
<1>3. KeepOK(s, NoJob, chunks')
  BY <1>2 DEF KeepOK
<1> QED BY <1>1, <1>3, NoSessionKeep, KeepStep

LEMMA ProceedKeep ==
    ASSUME OneClient, ClientInv, NEW c \in Client, NEW at, NEW s, NEW j,
           \A x \in Slot : \A d, e \in chunks'[x].data : d = e,
           KeepOK(s, j, chunks'), Proceed(c, at, s, j)
    PROVE  KeepInv'
<1>1. session'[c] = s /\ job'[c] = j
  BY DEF Proceed, ClientInv
<1> QED BY <1>1, KeepStep

(* An upload leaves one chunk in its slot; and the cache of the client     *)
(* that uploads covers it, whether it is its own copy or it has none.      *)
LEMMA StoreKeep ==
    ASSUME IInv, KeepInv, NEW c \in Client,
           \/ pc[c] = "upload_put" /\ Store(c, SuperSlot, session[c].superblock)
           \/ pc[c] = "sync_put" /\ Store(c, job[c].slot, SyncData(c))
    PROVE  /\ \A x \in Slot : \A d, e \in chunks'[x].data : d = e
           /\ KeepOK(session[c], job[c], chunks')
<1>1. /\ ReplicaInv /\ SuperSlot \in Slot /\ CallInv(pc[c], session[c], job[c])
      /\ job[c].slot \in Slot /\ KeepOK(session[c], job[c], chunks)
      /\ \A x \in Slot : \A d, e \in chunks[x].data : d = e
  BY WrbpodAssumption DEF IInv, ClientInv, CallInv, JobOK, KeepInv
<1>2. CASE pc[c] = "upload_put" /\ Store(c, SuperSlot, session[c].superblock)
  <2>1. \A x \in Slot : \/ chunks'[x] = chunks[x]
                        \/ x = SuperSlot /\ chunks'[x].data = {session[c].superblock}
    BY <1>1, <1>2, StoreRow
  <2> QED BY <1>1, <2>1 DEF KeepOK
<1>3. CASE pc[c] = "sync_put" /\ Store(c, job[c].slot, SyncData(c))
  <2>1. \A x \in Slot : \/ chunks'[x] = chunks[x]
                        \/ x = job[c].slot /\ chunks'[x].data = {SyncData(c)}
    BY <1>1, <1>3, StoreRow
  <2>2. CASE job[c].name = "put_chunk"
    BY <1>1, <2>1, <2>2 DEF KeepOK, CacheCovers
  <2>3. CASE job[c].name = "sync"
    <3>1. session[c].chunks[job[c].slot] # NoChunk
      BY <1>1, <2>3 DEF CallInv
    <3>2. SyncData(c) = session[c].chunks[job[c].slot].slices
      BY <2>3 DEF SyncData
    <3> QED BY <1>1, <2>1, <2>3, <3>1, <3>2 DEF KeepOK, CacheCovers, Covers
  <2> QED BY <1>1, <1>3, <2>2, <2>3 DEF CallInv
<1> QED BY <1>2, <1>3

(* A session that got another superblock has the cache it had.             *)
LEMMA SuperblockRequestKeep ==
    ASSUME OneClient, IInv, KeepInv, NEW c \in Client,
           \/ open_signers(c) \/ format_signers(c)
           \/ download_superblock_list(c) \/ download_superblock_get(c)
           \/ upload_superblock_list(c) \/ upload_superblock_put(c)
    PROVE  KeepInv'
<1> DEFINE with(b) == [session[c] EXCEPT !.superblock = b]
           One(rows) == \A x \in Slot : \A d, e \in rows[x].data : d = e
<1>1. /\ ClientInv /\ SessInv(session[c]) /\ CallInv(pc[c], session[c], job[c])
      /\ KeepOK(session[c], job[c], chunks) /\ One(chunks)
  BY DEF IInv, ClientInv, KeepInv
<1>2. \A b : with(b).chunks = session[c].chunks /\ with(b).fetched = session[c].fetched
  BY <1>1 DEF SessInv, SessionOK
<1>3. \A x : /\ [job[c] EXCEPT !.slot_md = x].name = job[c].name
             /\ [job[c] EXCEPT !.slot_version = x].name = job[c].name
  BY <1>1 DEF CallInv, JobOK
<1>4. /\ One(chunks') /\ KeepOK(session[c], job[c], chunks')
  <2>1. CASE upload_superblock_put(c)
    BY <2>1, StoreKeep DEF upload_superblock_put, Upload
  <2>2. CASE ~upload_superblock_put(c)
    <3>1. chunks' = chunks
      BY <2>2 DEF open_signers, format_signers, download_superblock_list,
                  download_superblock_get, upload_superblock_list, ReadOnly
    <3> QED BY <1>1, <3>1
  <2> QED BY <2>1, <2>2
<1> HIDE DEF with, One
<1>5. ASSUME NEW r, NEW s, Return(c, r, s),
             s.chunks = session[c].chunks, s.fetched = session[c].fetched
      PROVE  KeepInv'
  <2>1. KeepOK(s, job[c], chunks')
    BY <1>4, <1>5, SameKeep
  <2> QED BY <1>1, <1>4, <1>5, <2>1, ReturnKeep DEF One
<1>6. ASSUME NEW at, NEW s, NEW j, Proceed(c, at, s, j), j.name = job[c].name,
             s.chunks = session[c].chunks, s.fetched = session[c].fetched
      PROVE  KeepInv'
  <2>1. KeepOK(s, j, chunks')
    BY <1>4, <1>6, SameKeep
  <2> QED BY <1>1, <1>4, <1>6, <2>1, ProceedKeep DEF One
<1>7. ASSUME NEW sb, Downloaded(c, sb) PROVE KeepInv'
  BY <1>2, <1>5, <1>6, <1>7 DEF Downloaded, with
<1>8. CASE open_signers(c) \/ upload_superblock_list(c)
  BY <1>3, <1>6, <1>8 DEF open_signers, upload_superblock_list
<1>9. CASE format_signers(c)
  BY <1>2, <1>5, <1>6, <1>9 DEF format_signers, with
<1>10. CASE download_superblock_list(c)
  BY <1>3, <1>5, <1>6, <1>7, <1>10 DEF download_superblock_list
<1>11. CASE download_superblock_get(c)
  BY <1>5, <1>7, <1>11 DEF download_superblock_get
<1>12. CASE upload_superblock_put(c)
  BY <1>3, <1>5, <1>6, <1>12 DEF upload_superblock_put, Upload
<1> QED BY <1>8, <1>9, <1>10, <1>11, <1>12

(***************************************************************************)
(* A fetch either sees the slot empty, and no one else fills it, or caches *)
(* the one chunk that is there.                                            *)
(***************************************************************************)
LEMMA SliceRequestKeep ==
    ASSUME OneClient, IInv, KeepInv, NEW c \in Client,
           \/ fetch_chunk_list(c) \/ fetch_chunk_signers(c) \/ get_chunk(c)
           \/ sync_slot_list(c) \/ sync_slot_put(c)
    PROVE  KeepInv'
<1> DEFINE slot == job[c].slot
           cache == session[c].chunks
           One(rows) == \A x \in Slot : \A d, e \in rows[x].data : d = e
<1>1. /\ ClientInv /\ ReplicaInv /\ SessInv(session[c]) /\ CallInv(pc[c], session[c], job[c])
      /\ slot \in Slot /\ KeepOK(session[c], job[c], chunks) /\ One(chunks)
  BY DEF IInv, ClientInv, CallInv, JobOK, KeepInv
<1>2. \A x : /\ [job[c] EXCEPT !.slot_md = x].name = job[c].name
             /\ [job[c] EXCEPT !.slot_version = x].name = job[c].name
             /\ [job[c] EXCEPT !.refreshes = x].name = job[c].name
  BY <1>1 DEF CallInv, JobOK
<1>3. One(chunks') /\ KeepOK(session[c], job[c], chunks')
  <2>1. CASE sync_slot_put(c)
    BY <2>1, StoreKeep DEF sync_slot_put, Upload
  <2>2. CASE ~sync_slot_put(c)
    <3>1. chunks' = chunks
      BY <2>2 DEF fetch_chunk_list, fetch_chunk_signers, get_chunk, sync_slot_list, ReadOnly
    <3> QED BY <1>1, <3>1
  <2> QED BY <2>1, <2>2
<1> HIDE DEF One
<1>4. ASSUME NEW r, Return(c, r, session[c]) PROVE KeepInv'
  BY <1>1, <1>3, <1>4, ReturnKeep DEF One
<1>5. ASSUME NEW at, NEW j, Proceed(c, at, session[c], j), j.name = job[c].name PROVE KeepInv'
  <2>1. KeepOK(session[c], j, chunks')
    BY <1>3, <1>5, SameKeep
  <2> QED BY <1>1, <1>3, <1>5, <2>1, ProceedKeep DEF One
<1>6. CASE fetch_chunk_list(c)
  <2> DEFINE s == [session[c] EXCEPT !.fetched = @ \cup {slot}]
  <2>1. ASSUME is_empty(list_chunks[slot]), Return(c, "ok", s) PROVE KeepInv'
    <3>1. chunks'[slot].data = {} /\ job[c].name = "fetch"
      BY <1>1, <1>6, <2>1 DEF fetch_chunk_list, ReadOnly, is_empty, list_chunks, CallInv
    <3>2. s.chunks = cache /\ s.fetched = session[c].fetched \cup {slot}
      BY <1>1 DEF SessInv, SessionOK
    <3> HIDE DEF s
    <3>3. KeepOK(s, job[c], chunks')
      BY <1>3, <3>1, <3>2 DEF KeepOK, CacheCovers
    <3> QED BY <1>1, <1>3, <2>1, <3>3, ReturnKeep DEF One
  <2> QED BY <1>2, <1>4, <1>5, <1>6, <2>1 DEF fetch_chunk_list
<1>7. CASE fetch_chunk_signers(c)
  BY <1>2, <1>5, <1>7 DEF fetch_chunk_signers
<1>8. CASE get_chunk(c)
  <2> DEFINE data == get_latest_chunks(<<slot>>)[1]
             ch(x) == [slices |-> x, dirty |-> FALSE]
             s(x) == [session[c] EXCEPT !.chunks[slot] = ch(x), !.fetched = @ \cup {slot}]
  <2>1. data = chunks[slot].data /\ chunks' = chunks
    <3>1. data = chunks[slot].data
      BY DEF get_latest_chunks
    <3> QED BY <1>8, <3>1 DEF get_chunk, ReadOnly
  <2>2. slot # SuperSlot /\ job[c].name = "fetch"
    BY <1>1, <1>8 DEF get_chunk, CallInv
  <2>3. ASSUME NEW x \in data, Return(c, "ok", s(x)) PROVE KeepInv'
    <3>1. x \in Slices
      BY <1>1, <2>1, <2>2, <2>3 DEF ReplicaInv, RowOK
    <3>2. ch(x) # NoChunk /\ ch(x).slices = x
      <4>1. ch(x) \in Chunk /\ ch(x).slices = x
        BY <3>1 DEF Chunk
      <4> QED BY <4>1, NoneAssumption
    <3>3. /\ s(x).fetched = session[c].fetched \cup {slot}
          /\ \A t \in Slot : s(x).chunks[t] = IF t = slot THEN ch(x) ELSE cache[t]
      BY <1>1 DEF SessInv, SessionOK
    <3> HIDE DEF s, ch
    <3>4. \A d \in chunks[slot].data : d = x
      BY <1>1, <2>1, <2>3 DEF One
    <3>5. ASSUME NEW t \in Slot \ {SuperSlot} PROVE CacheCovers(s(x), t, chunks'[t].data)
      <4>1. CASE t = slot
        BY <2>1, <3>2, <3>3, <3>4, <4>1 DEF CacheCovers, Covers
      <4>2. CASE t # slot
        BY <1>3, <3>3, <4>2 DEF KeepOK, CacheCovers
      <4> QED BY <4>1, <4>2
    <3>6. KeepOK(s(x), job[c], chunks')
      BY <2>2, <3>5 DEF KeepOK
    <3> QED BY <1>1, <1>3, <2>3, <3>6, ReturnKeep DEF One
  <2> HIDE DEF s
  <2>4. Return(c, "hash_mismatch", session[c]) \/ \E x \in data : Return(c, "ok", s(x))
    BY <1>8 DEF get_chunk, s
  <2> QED BY <1>4, <2>3, <2>4
<1>9. CASE sync_slot_list(c)
  BY <1>2, <1>5, <1>9 DEF sync_slot_list
<1>10. CASE sync_slot_put(c)
  <2>1. KeepOK(SyncDone(c), job[c], chunks')
    <3>1. CASE job[c].name = "put_chunk"
      BY <1>3, <3>1 DEF SyncDone
    <3>2. CASE job[c].name = "sync"
      <4> DEFINE ch == [cache[slot] EXCEPT !.dirty = FALSE]
      <4>1. cache[slot] \in Chunk
        BY <1>1, <3>2 DEF CallInv, SessInv, SessionOK
      <4>2. ch \in Chunk /\ ch.slices = cache[slot].slices
        BY <4>1 DEF Chunk
      <4>3. /\ SyncDone(c).fetched = session[c].fetched
            /\ \A t \in Slot : SyncDone(c).chunks[t] = IF t = slot THEN ch ELSE cache[t]
        BY <1>1, <3>2 DEF SyncDone, SessInv, SessionOK
      <4>4. cache[slot] # NoChunk /\ ch # NoChunk
        BY <4>1, <4>2, NoneAssumption
      <4> HIDE DEF ch
      <4> QED BY <1>3, <3>2, <4>2, <4>3, <4>4 DEF KeepOK, CacheCovers
    <3> QED BY <1>1, <1>10, <3>1, <3>2 DEF sync_slot_put, CallInv
  <2>2. ASSUME Return(c, "ok", SyncDone(c)) PROVE KeepInv'
    BY <1>1, <1>3, <2>1, <2>2, ReturnKeep DEF One
  <2> QED BY <1>2, <1>4, <1>5, <1>10, <2>2 DEF sync_slot_put, Upload
<1> QED BY <1>6, <1>7, <1>8, <1>9, <1>10

(* A put into a fetched slot adds a slice to a copy that has what the      *)
(* replica has, and a put into another slot is of no account; a process    *)
(* that uploads a whole chunk starts with no copy at all.                  *)
LEMMA NewCallKeep ==
    ASSUME OneClient, IInv, KeepInv, NEW c \in Client, NewCall(c)
    PROVE  KeepInv'
<1> DEFINE One(rows) == \A x \in Slot : \A d, e \in rows[x].data : d = e
           cache == session[c].chunks
<1>1. /\ ClientInv /\ SessInv(session[c]) /\ CallInv(pc[c], session[c], job[c])
      /\ KeepOK(session[c], job[c], chunks) /\ One(chunks)
  BY DEF IInv, ClientInv, KeepInv
<1>2. ASSUME NEW name, NEW app, NEW n, NEW slot, NEW at, Call(c, name, app, n, slot, at),
             UNCHANGED session,
             name = "put_chunk" => session[c].fetched = {} /\ cache = NoSession.chunks
      PROVE  KeepInv'
  <2> DEFINE j == NewJob(name, app, n, slot)
  <2>1. session'[c] = session[c] /\ job'[c] = j /\ chunks' = chunks
    BY <1>1, <1>2 DEF Call, ClientInv
  <2>2. j.name = name
    BY DEF NewJob
  <2> HIDE DEF j
  <2>3. KeepOK(session[c], j, chunks)
    BY <1>1, <1>2, <2>2 DEF KeepOK, NoSession
  <2> QED BY <1>1, <2>1, <2>3, KeepStep
<1>3. ASSUME NEW name, NEW r, NEW s, KeepOK(s, job[c], chunks), CallReturns(c, name, r, s)
      PROVE  KeepInv'
  <2>1. session'[c] = s /\ job'[c] = job[c] /\ chunks' = chunks
    BY <1>1, <1>3 DEF CallReturns, ClientInv
  <2> QED BY <1>1, <1>3, <2>1, KeepStep
<1> HIDE DEF One
<1>4. CASE open(c) \/ format(c)
  BY <1>2, <1>4 DEF open, format
<1>5. ASSUME NEW app \in App, delete_slots_call(c, app) PROVE KeepInv'
  BY <1>2, <1>5 DEF delete_slots_call
<1>6. ASSUME NEW app \in App, NEW n \in AllocSizes, allocate_slots_call(c, app, n)
      PROVE  KeepInv'
  BY <1>2, <1>6 DEF allocate_slots_call
<1>7. ASSUME NEW app \in App, NEW i \in AppSlot,
             fetch_chunk(c, app, i) \/ sync_slot(c, app, i) \/ wrbpod_clear_slot(c, app, i)
      PROVE  KeepInv'
  BY <1>1, <1>2, <1>3, <1>7 DEF fetch_chunk, sync_slot, wrbpod_clear_slot
<1>8. ASSUME NEW app \in App, NEW i \in AppSlot, NEW id \in SliceId, NEW val \in Val,
             put_slice(c, app, i, id, val)
      PROVE  KeepInv'
  <2> DEFINE old(s) == IF cache[s] = NoChunk THEN NoSlices ELSE cache[s].slices
             x(s) == [old(s) EXCEPT ![id] = val]
             ch(s) == [slices |-> x(s), dirty |-> TRUE]
             t(s) == [session[c] EXCEPT !.chunks[s] = ch(s)]
  <2>1. pc[c] = "idle" /\ job[c].name = "none"
    BY <1>1, <1>8 DEF put_slice, CallInv
  <2>2. ASSUME NEW s \in ChunkId(c, app, i)
        PROVE  KeepOK(t(s), job[c], chunks)
    <3>1. s \in Slot \ {SuperSlot}
      BY <1>1, <2>2, AppSlotOK
    <3>2. old(s) \in Slices
      BY <1>1, <3>1 DEF SessInv, SessionOK, Chunk, NoSlices, Slices
    <3>3. s \in session[c].fetched => \A d \in chunks[s].data : Covers(old(s), d)
      BY <1>1, <3>1 DEF KeepOK, CacheCovers
    <3> HIDE DEF old
    <3>4. x(s) \in Slices /\ \A k \in SliceId : x(s)[k] = IF k = id THEN val ELSE old(s)[k]
      BY <1>8, <3>2 DEF Slices
    <3> HIDE DEF x
    <3>5. s \in session[c].fetched => \A d \in chunks[s].data : Covers(x(s), d)
      BY <1>8, <3>3, <3>4, NoneAssumption DEF Covers
    <3>6. ch(s) \in Chunk /\ ch(s).slices = x(s)
      BY <3>4 DEF Chunk
    <3>7. /\ t(s).fetched = session[c].fetched
          /\ \A u \in Slot : t(s).chunks[u] = IF u = s THEN ch(s) ELSE cache[u]
      BY <1>1, <3>1 DEF SessInv, SessionOK
    <3>8. ch(s) # NoChunk
      BY <3>6, NoneAssumption
    <3> HIDE DEF ch, t
    <3> QED BY <1>1, <2>1, <3>5, <3>6, <3>7, <3>8 DEF KeepOK, CacheCovers
  <2> HIDE DEF t
  <2>3. \/ CallReturns(c, "put_slice", "false", session[c])
        \/ \E s \in ChunkId(c, app, i) : CallReturns(c, "put_slice", "true", t(s))
    BY <1>8 DEF put_slice, t
  <2> QED BY <1>1, <1>3, <2>2, <2>3
<1> QED BY <1>4, <1>5, <1>6, <1>7, <1>8 DEF NewCall

LEMMA FaultKeep ==
    ASSUME OneClient, IInv, KeepInv, NEW c \in Client,
           RequestFails(c) \/ AnswerLost(c) \/ Exit(c)
    PROVE  KeepInv'
<1>1. /\ ClientInv /\ KeepOK(session[c], job[c], chunks)
      /\ \A x \in Slot : \A d, e \in chunks[x].data : d = e
  BY DEF IInv, KeepInv
<1>2. CASE RequestFails(c)
  <2>1. Return(c, "net_error", session[c]) /\ chunks' = chunks
    BY <1>2 DEF RequestFails
  <2> QED BY <1>1, <2>1, ReturnKeep
<1>3. CASE AnswerLost(c)
  <2>1. \/ pc[c] = "upload_put" /\ Store(c, SuperSlot, session[c].superblock)
        \/ pc[c] = "sync_put" /\ Store(c, job[c].slot, SyncData(c))
    BY <1>3 DEF AnswerLost
  <2>2. Return(c, "net_error", session[c])
    BY <1>3 DEF AnswerLost
  <2>3. /\ \A x \in Slot : \A d, e \in chunks'[x].data : d = e
        /\ KeepOK(session[c], job[c], chunks')
    BY <2>1, StoreKeep
  <2> QED BY <1>1, <2>2, <2>3, ReturnKeep
<1>4. CASE Exit(c)
  <2>1. session'[c] = NoSession /\ job'[c] = NoJob /\ chunks' = chunks
    BY <1>1, <1>4 DEF Exit, ClientInv
  <2> QED BY <1>1, <2>1, NoSessionKeep, KeepStep
<1> QED BY <1>2, <1>3, <1>4

LEMMA InitKeep == Init => KeepInv
BY NoSessionKeep, WrbpodAssumption DEF Init, open_or_create, KeepInv

LEMMA NextKeep ==
    ASSUME OneClient
    PROVE  IInv /\ KeepInv /\ [Next]_vars => KeepInv'
<1> SUFFICES ASSUME IInv, KeepInv, [Next]_vars PROVE KeepInv'
  OBVIOUS
<1>1. CASE UNCHANGED vars
  BY <1>1 DEF vars, KeepInv
<1>2. ASSUME NEW c \in Client, Request(c) PROVE KeepInv'
  BY <1>2, SuperblockRequestKeep, SliceRequestKeep DEF Request
<1>3. ASSUME NEW c \in Client, NewCall(c) PROVE KeepInv'
  BY <1>3, NewCallKeep
<1>4. ASSUME NEW c \in Client, RequestFails(c) \/ AnswerLost(c) \/ Exit(c) PROVE KeepInv'
  BY <1>4, FaultKeep
<1> QED BY <1>1, <1>2, <1>3, <1>4 DEF Next

(* The only steps that write the replica upload a superblock or slices.    *)
LEMMA UploadSteps ==
    ASSUME IInv, [Next]_vars, chunks' # chunks
    PROVE  \E c \in Client :
             \/ pc[c] = "upload_put" /\ Store(c, SuperSlot, session[c].superblock)
             \/ pc[c] = "sync_put" /\ Store(c, job[c].slot, SyncData(c))
<1>1. PICK c \in Client :
         Request(c) \/ NewCall(c) \/ RequestFails(c) \/ AnswerLost(c) \/ Exit(c)
  BY DEF Next, vars
<1>2. ~NewCall(c) /\ ~RequestFails(c) /\ ~Exit(c)
  BY DEF NewCall, open, format, delete_slots_call, allocate_slots_call, fetch_chunk,
         sync_slot, wrbpod_clear_slot, put_slice, Call, CallReturns, RequestFails, Exit
<1>3. ~(\/ open_signers(c) \/ format_signers(c) \/ download_superblock_list(c)
        \/ download_superblock_get(c) \/ upload_superblock_list(c)
        \/ fetch_chunk_list(c) \/ fetch_chunk_signers(c) \/ get_chunk(c) \/ sync_slot_list(c))
  BY DEF open_signers, format_signers, download_superblock_list, download_superblock_get,
         upload_superblock_list, fetch_chunk_list, fetch_chunk_signers, get_chunk,
         sync_slot_list, ReadOnly
<1>4. CASE upload_superblock_put(c)
  BY <1>4 DEF upload_superblock_put, Upload
<1>5. CASE sync_slot_put(c)
  BY <1>5 DEF sync_slot_put, Upload
<1>6. CASE AnswerLost(c)
  BY <1>6 DEF AnswerLost
<1> QED BY <1>1, <1>2, <1>3, <1>4, <1>5, <1>6 DEF Request

(***************************************************************************)
(* put_slice and sync_slot rewrite the whole chunk of a slot: with one     *)
(* process at a time, no upload drops a slice that was saved unless it     *)
(* clears the slot or syncs a slot that the session has not fetched,       *)
(* whatever failed or restarted in between.                                *)
(***************************************************************************)
THEOREM SlicesStayKept ==
    ASSUME OneClient
    PROVE  Spec => SlicesKept
<1> DEFINE Kept == \A s \in Slot \ {SuperSlot}, id \in SliceId :
              (\E d \in chunks[s].data : d[id] # NoSlice) =>
                 \/ \E d \in chunks'[s].data : d[id] # NoSlice
                 \/ \E c \in Client :
                       /\ pc[c] = "sync_put" /\ job[c].slot = s
                       /\ job[c].name = "put_chunk" \/ s \notin session[c].fetched
<1>1. Init => IInv /\ KeepInv
  BY InitIInv, InitKeep
<1>2. (IInv /\ KeepInv) /\ [Next]_vars => (IInv /\ KeepInv)'
  BY NextIInv, NextKeep
<1>3. IInv /\ KeepInv /\ [Next]_vars => [Kept]_chunks
  <2> SUFFICES ASSUME IInv, KeepInv, [Next]_vars, chunks' # chunks,
                      NEW s \in Slot \ {SuperSlot}, NEW id \in SliceId,
                      NEW d \in chunks[s].data, d[id] # NoSlice,
                      ~ \E c \in Client :
                          /\ pc[c] = "sync_put" /\ job[c].slot = s
                          /\ job[c].name = "put_chunk" \/ s \notin session[c].fetched
               PROVE  \E e \in chunks'[s].data : e[id] # NoSlice
    OBVIOUS
  <2>1. PICK c \in Client :
           \/ pc[c] = "upload_put" /\ Store(c, SuperSlot, session[c].superblock)
           \/ pc[c] = "sync_put" /\ Store(c, job[c].slot, SyncData(c))
    BY UploadSteps
  <2>2. /\ ReplicaInv /\ SuperSlot \in Slot /\ CallInv(pc[c], session[c], job[c])
        /\ job[c].slot \in Slot /\ KeepOK(session[c], job[c], chunks)
    BY WrbpodAssumption DEF IInv, ClientInv, CallInv, JobOK, KeepInv
  <2>3. CASE chunks'[s] = chunks[s]
    BY <2>3
  <2>4. CASE chunks'[s] # chunks[s]
    <3>1. /\ pc[c] = "sync_put" /\ s = job[c].slot /\ chunks'[s].data = {SyncData(c)}
      BY <2>1, <2>2, <2>4, StoreRow
    <3>2. /\ job[c].name = "sync" /\ s \in session[c].fetched
          /\ session[c].chunks[s] # NoChunk
      BY <2>2, <3>1 DEF CallInv
    <3>3. SyncData(c) = session[c].chunks[s].slices
      BY <3>1, <3>2 DEF SyncData
    <3>4. Covers(SyncData(c), d)
      BY <2>2, <3>2, <3>3 DEF KeepOK, CacheCovers
    <3> QED BY <3>1, <3>4 DEF Covers
  <2> QED BY <2>3, <2>4
<1> QED BY <1>1, <1>2, <1>3, PTL DEF Spec, SlicesKept
=============================================================================

----------------------------- MODULE PageStore -----------------------------
(***************************************************************************)
(* The database a page keeps between loads (vm/storage/db.rs, util.rs and  *)
(* ClarityVM in vm/clarity_vm.rs): an SQLite file of one domain that every *)
(* wrb process showing a page of that domain opens.                        *)
(*                                                                         *)
(* Each load of a page is a "block": its writes are rows at the height one *)
(* above the tip it started from, under the tip made from that height, and *)
(* a read at a height sees the row of the greatest height at or below it.  *)
(* initialize_app writes at height 0, under BOOT_BLOCK_ID, and its commit  *)
(* renames that tip to GENESIS_BLOCK_ID.                                   *)
(*                                                                         *)
(* A writer holds SQLite's immediate transaction from begin to commit, for *)
(* as long as the page is shown; others wait in tx_busy_handler, without   *)
(* limit.  What a process reads before it takes that lock may be stale.    *)
(***************************************************************************)
EXTENDS Naturals, FiniteSetsExt

CONSTANTS Proc,          \* wrb processes that show the domain's pages
          Version,       \* versions of the page's code
          StaticVersion, \* those whose top level stores a large string in wrb-ll
          MaxStarts,     \* bound: processes started in all
          MaxPuts        \* bound: values the pages write in all

ASSUME PageStoreAssumption ==
    /\ Version \subseteq Nat \ {0} /\ StaticVersion \subseteq Version
    /\ MaxStarts \in Nat /\ MaxPuts \in Nat

VARIABLES file,    \* the database file: "absent", "empty" or "ready" (it has its tables)
          rows,    \* kvstore, as committed
          writer,  \* the processes inside a transaction, at most one
          work,    \* kvstore as the writer sees it
          client,  \* what each process is doing
          latest,  \* history: the last value committed to each key by a page
          mine,    \* history: the same, with the writer's own writes
          faults,  \* history: crashes while creating, rival creations, loads overtaken
                   \*   twice, loads committed with the store left at BOOT_BLOCK_ID
          nputs, nstarts

vars == <<file, rows, writer, work, client, latest, mine, faults, nputs, nstarts>>

-----------------------------------------------------------------------------
(* A tip is the number its first eight bytes hold; BOOT_BLOCK_ID, which    *)
(* ends every index, is a number no load reaches.                          *)
make_wrb_chain_tip(height) == height
GENESIS_BLOCK_ID == 0
BOOT_BLOCK_ID == MaxStarts + 2

(* Keys: the sentinel, the hash and data of wrb-ll, a large string that    *)
(* several versions store in wrb-ll, and the data of each version's app.   *)
Key == [of : {"genesis", "ll", "static"}, n : {0}] \cup [of : {"app"}, n : Version]
KeyOf(of, n) == [of |-> of, n |-> n]
Sentinel == KeyOf("genesis", 0)

(* Values: 0 is what deployment writes, 1.. what pages write.              *)
Value == 0..MaxPuts
NoValue == MaxPuts + 1

Row(tip, height, key, val) == [tip |-> tip, height |-> height, key |-> key, val |-> val]

(* REPLACE INTO kvstore, whose primary key is tip, height and key.         *)
Replace(kv, new) ==
    {r \in kv : \A n \in new : <<r.tip, r.height, r.key>> # <<n.tip, n.height, n.key>>}
        \cup new

-----------------------------------------------------------------------------
(* Queries.                                                                *)

tipless_get_highest_tip_height(kv) == Max({r.height : r \in kv} \cup {0})

get_wrb_block_height(kv, tip) ==
    LET hs == {r.height : r \in {x \in kv : x.tip = tip}}
    IN  IF hs = {} THEN {} ELSE {Min(hs)}

(* ORDER BY height DESC, chain_tip ASC LIMIT 1: the skipping of            *)
(* BOOT_BLOCK_ID then has no row left to take.                             *)
get_wrb_chain_tip(kv) ==
    IF kv = {} THEN BOOT_BLOCK_ID
    ELSE Min({r.tip : r \in {x \in kv : x.height = tipless_get_highest_tip_height(kv)}})

tipless_get_block_height_of(kv, tip) ==
    IF tip = BOOT_BLOCK_ID THEN {0} ELSE get_wrb_block_height(kv, tip)

check_block_hash(kv, tip_height, tip) ==
    \E r \in kv : r.tip = tip /\ r.height <= tip_height

(* ORDER BY height DESC; the side store maps the hash to its value.        *)
get_hash(kv, tip_height, key) ==
    LET seen == {r \in kv : r.key = key /\ r.height <= tip_height}
    IN  IF seen = {} THEN NoValue
        ELSE (CHOOSE r \in seen : \A s \in seen : s.height <= r.height).val

next_height(kv, cur_tip) ==
    IF get_wrb_block_height(kv, cur_tip) = {} THEN 1
    ELSE Max(get_wrb_block_height(kv, cur_tip)) + 1

(* Variant with a bug: writes go to the tip the load started from.         *)
dump_InPlace(kv, cur_tip, next_tip, puts) ==
    Replace(kv, {Row(cur_tip, next_height(kv, cur_tip) - 1, p.key, p.val) : p \in puts})

(* Variant with a bug: the next tip, without the next height.              *)
dump_SameHeight(kv, cur_tip, next_tip, puts) ==
    Replace(kv, {Row(IF cur_tip = BOOT_BLOCK_ID THEN cur_tip ELSE next_tip,
                     next_height(kv, cur_tip) - 1, p.key, p.val) : p \in puts})

(* WriteBuffer::dump of the key-value pairs puts.                          *)
dump(kv, cur_tip, next_tip, puts) ==
    Replace(kv, {IF cur_tip = BOOT_BLOCK_ID
                 THEN Row(cur_tip, next_height(kv, cur_tip) - 1, p.key, p.val)
                 ELSE Row(next_tip, next_height(kv, cur_tip), p.key, p.val) : p \in puts})

(* commit_to's UPDATE, which fails where it would make two rows one.       *)
Renamed(kv, from, to) ==
    {[r EXCEPT !.tip = IF r.tip = from THEN to ELSE r.tip] : r \in kv}
update_fails(kv, from, to) ==
    from # to /\ \E r, s \in kv : /\ r.tip = from /\ s.tip = to
                                  /\ r.height = s.height /\ r.key = s.key

-----------------------------------------------------------------------------
(* pc: "down"; "create" after finding no file; "schema" after making one;  *)
(* "opened"; "ready" once the app is deployed; "tip" with the tip read;    *)
(* "load" while the page is shown.                                         *)
Idle == [pc |-> "down", version |-> 0, chain_tip |-> 0, next_tip |-> 0,
         tip_height |-> 0, shifted |-> FALSE]

Init ==
    /\ file = "absent"
    /\ rows = {} /\ work = {} /\ writer = {}
    /\ client = [p \in Proc |-> Idle]
    /\ latest = [k \in Key |-> NoValue] /\ mine = latest
    /\ faults = {}
    /\ nputs = 0 /\ nstarts = 0

store == <<rows, writer, work, latest, mine>>

Creating == {q \in Proc : client[q].pc \in {"create", "schema"}}

(* Variant with a bug: a file with its tables is set up again.             *)
setup_db_Again(p, v) ==
    /\ client[p].pc = "down"
    /\ nstarts < MaxStarts
    /\ nstarts' = nstarts + 1
    /\ client' = [client EXCEPT ![p] =
           [Idle EXCEPT !.pc = CASE file = "absent" -> "create"
                                 [] file = "empty" -> "down"
                                 [] file = "ready" -> "schema",
                        !.version = v]]
    /\ faults' = faults \cup (IF file = "absent" /\ Creating # {} THEN {"rivals"} ELSE {})
    /\ UNCHANGED <<file, store, nputs>>

(* setup_db, up to asking whether the file is there.  A file without       *)
(* tables is opened, and the first query on it fails: the process ends.    *)
setup_db(p, v) ==
    /\ client[p].pc = "down"
    /\ nstarts < MaxStarts
    /\ nstarts' = nstarts + 1
    /\ client' = [client EXCEPT ![p] =
           [Idle EXCEPT !.pc = CASE file = "absent" -> "create"
                                 [] file = "empty" -> "down"
                                 [] file = "ready" -> "opened",
                        !.version = v]]
    /\ faults' = faults \cup (IF file = "absent" /\ Creating # {} THEN {"rivals"} ELSE {})
    /\ UNCHANGED <<file, store, nputs>>

(* sqlite_open creates the file; check_schema finds tables only if another *)
(* process has made them since.                                            *)
create_file(p) ==
    /\ client[p].pc = "create"
    /\ file' = IF file = "absent" THEN "empty" ELSE file
    /\ client' = [client EXCEPT ![p].pc = IF file = "ready" THEN "opened" ELSE "schema"]
    /\ UNCHANGED <<store, faults, nputs, nstarts>>

(* The transaction that makes the tables and the boot sentinel, whether or *)
(* not another process has made them meanwhile (IF NOT EXISTS, REPLACE).   *)
create_schema(p) ==
    /\ client[p].pc = "schema"
    /\ writer = {}
    /\ file' = "ready"
    /\ rows' = Replace(rows, {Row(BOOT_BLOCK_ID, 0, Sentinel, 0)})
    /\ client' = [client EXCEPT ![p].pc = "opened"]
    /\ UNCHANGED <<writer, work, latest, mine, faults, nputs, nstarts>>

-----------------------------------------------------------------------------
(* Deployment.                                                             *)

HasContract(kv, key) == get_hash(kv, 0, key) # NoValue

(* What deploying wrb-ll and version v writes, if they are not there.      *)
Deployed(kv, v) ==
    {[key |-> k, val |-> 0] : k \in
        (IF HasContract(kv, KeyOf("ll", 0)) THEN {} ELSE {KeyOf("ll", 0)})
        \cup (IF HasContract(kv, KeyOf("app", v)) THEN {}
              ELSE {KeyOf("app", v)} \cup
                   (IF v \in StaticVersion THEN {KeyOf("static", 0)} ELSE {}))}

AppRows(kv, v) == dump(kv, BOOT_BLOCK_ID, GENESIS_BLOCK_ID, Deployed(kv, v))

(* commit_to(GENESIS_BLOCK_ID); unchanged when the UPDATE fails.           *)
commit_to(kv) == Renamed(kv, BOOT_BLOCK_ID, GENESIS_BLOCK_ID)

InitFails(v) == update_fails(AppRows(rows, v), BOOT_BLOCK_ID, GENESIS_BLOCK_ID)

(* ClarityVM::initialize_app: one transaction, ended by commit_to; when it *)
(* fails nothing is kept and the process ends.                             *)
initialize_app(p) ==
    /\ client[p].pc = "opened"
    /\ writer = {}
    /\ IF InitFails(client[p].version)
       THEN rows' = rows /\ client' = [client EXCEPT ![p] = Idle]
       ELSE /\ rows' = commit_to(AppRows(rows, client[p].version))
            /\ client' = [client EXCEPT ![p].pc = "ready"]
    /\ UNCHANGED <<file, writer, work, latest, mine, faults, nputs, nstarts>>

-----------------------------------------------------------------------------
(* A load of the page.                                                     *)

(* begin_page_load, before its transaction: the tip and the next one.      *)
read_chain_tip(p) ==
    /\ client[p].pc = "ready"
    /\ LET cur == get_wrb_chain_tip(rows)
       IN  client' = [client EXCEPT ![p].pc = "tip", ![p].chain_tip = cur,
               ![p].next_tip = make_wrb_chain_tip(Max(get_wrb_block_height(rows, cur)) + 1)]
    /\ UNCHANGED <<file, store, faults, nputs, nstarts>>

(* Variant with a bug: a load reads at the height of its tip, without its  *)
(* own writes.                                                             *)
begin_AtTip(p) ==
    /\ client[p].pc = "tip"
    /\ writer = {}
    /\ writer' = {p}
    /\ work' = rows
    /\ mine' = latest
    /\ LET cur == client[p].chain_tip
       IN  client' = [client EXCEPT ![p].pc = "load",
               ![p].tip_height = Max(tipless_get_block_height_of(rows, cur))]
    /\ UNCHANGED <<file, rows, latest, faults, nputs, nstarts>>

(* WrbDB::begin, with the lock: a load reads one above its tip's height,   *)
(* so as to read what it writes.                                           *)
begin(p) ==
    /\ client[p].pc = "tip"
    /\ writer = {}
    /\ writer' = {p}
    /\ work' = rows
    /\ mine' = latest
    /\ LET cur == client[p].chain_tip
       IN  client' = [client EXCEPT ![p].pc = "load",
               ![p].tip_height = IF cur = BOOT_BLOCK_ID THEN 0
                                 ELSE Max(tipless_get_block_height_of(rows, cur)) + 1]
    /\ UNCHANGED <<file, rows, latest, faults, nputs, nstarts>>

(* A pass of the page's event loop writes key: Clarity gives the store     *)
(* the changes of the pass in one call.                                    *)
put_all_data(p, key) ==
    /\ client[p].pc = "load"
    /\ key \in {KeyOf("app", client[p].version), KeyOf("static", 0)}
    /\ nputs < MaxPuts
    /\ nputs' = nputs + 1
    /\ work' = dump(work, client[p].chain_tip, client[p].next_tip,
                    {[key |-> key, val |-> nputs']})
    /\ mine' = [mine EXCEPT ![key] = nputs']
    /\ UNCHANGED <<file, rows, writer, client, latest, faults, nstarts>>

(* set_block_hash on the store c, {} when it refuses the tip.              *)
set_block_hash(c, tip) ==
    IF ~check_block_hash(work, c.tip_height, tip) THEN {}
    ELSE {[c EXCEPT !.chain_tip = tip,
                    !.tip_height = Max(tipless_get_block_height_of(work, tip))]}

(* Two loads were committed between p's reading the tip and its lock.      *)
Overtaken(p) == tipless_get_highest_tip_height(rows) > client[p].next_tip

(***************************************************************************)
(* WritableWrbStore::commit, to the next tip, of p's load with the store   *)
(* as c.  The load's rows are there already and the UPDATE changes         *)
(* nothing, unless the store was left at BOOT_BLOCK_ID.  If the UPDATE     *)
(* fails, the load is rolled back.                                         *)
(***************************************************************************)
save(p, c) ==
    LET from == IF c.chain_tip = BOOT_BLOCK_ID THEN c.chain_tip ELSE c.next_tip
        fails == update_fails(work, from, c.next_tip)
    IN  /\ rows' = IF fails THEN rows ELSE Renamed(work, from, c.next_tip)
        /\ latest' = IF fails THEN latest ELSE mine
        /\ mine' = latest'
        /\ writer' = {} /\ work' = {}
        /\ client' = [client EXCEPT ![p] = Idle]
        /\ faults' = faults \cup (IF Overtaken(p) THEN {"overtaken"} ELSE {})
                            \cup (IF from = BOOT_BLOCK_ID THEN {"sentinel"} ELSE {})
        /\ UNCHANGED <<file, nputs, nstarts>>

(***************************************************************************)
(* (at-block tip ...) in a page: Clarity sets the tip, evaluates, and sets *)
(* the tip it had.  When that is refused the pass fails; run_page leaves   *)
(* its loop and commits what the passes before it wrote, and the store is  *)
(* still at the tip asked for.  (A pass whose own tip is refused fails     *)
(* with the store as it was: that is a commit.)                            *)
(***************************************************************************)
at_block(p, tip) ==
    /\ client[p].pc = "load"
    /\ \E there \in set_block_hash(client[p], tip) :
         LET back == set_block_hash(there, client[p].chain_tip)
         IN  \/ back = {} /\ save(p, there)
             \/ \E c \in back :
                  /\ client' = [client EXCEPT ![p] = [c EXCEPT !.shifted = TRUE]]
                  /\ UNCHANGED <<file, store, faults, nputs, nstarts>>

(* The event loop of the page ends.                                        *)
commit(p) == client[p].pc = "load" /\ save(p, client[p])

(* The process ends anywhere: SQLite rolls its transaction back.           *)
crash(p) ==
    /\ client[p].pc # "down"
    /\ client' = [client EXCEPT ![p] = Idle]
    /\ faults' = faults \cup (IF client[p].pc = "schema" THEN {"crash"} ELSE {})
    /\ IF p \in writer
       THEN writer' = {} /\ work' = {} /\ mine' = latest
       ELSE UNCHANGED <<writer, work, mine>>
    /\ UNCHANGED <<file, rows, latest, nputs, nstarts>>

Next ==
    \E p \in Proc :
        \/ \E v \in Version : setup_db(p, v)
        \/ create_file(p)
        \/ create_schema(p)
        \/ initialize_app(p)
        \/ read_chain_tip(p)
        \/ begin(p)
        \/ \E key \in Key : put_all_data(p, key)
        \/ \E tip \in {r.tip : r \in work} : at_block(p, tip)
        \/ commit(p)
        \/ crash(p)

Spec == Init /\ [][Next]_vars

-----------------------------------------------------------------------------
(* A page-written value, or the deployed one of a key no page has written. *)
Expected(hist, seen, key) == IF hist[key] # NoValue THEN hist[key]
                             ELSE IF get_hash(seen, 0, key) = NoValue THEN NoValue ELSE 0

(* What a read-only session at the newest tip reads (begin_read_only).     *)
begin_read_only(kv, key) ==
    get_hash(kv, Max(tipless_get_block_height_of(kv, get_wrb_chain_tip(kv))), key)

(* Nobody has committed since p read the tip.                              *)
OnTime(p) == tipless_get_highest_tip_height(rows) < client[p].next_tip

(* A load with the store left at BOOT_BLOCK_ID by a refused at-block was   *)
(* committed: the boot sentinel that a rival creation put after the        *)
(* deployment is a row of that load's tip now, at height 0, and what is    *)
(* derived from the tip is wrong.                                          *)
SentinelMoved == "sentinel" \in faults

(***************************************************************************)
(* What a page reads from its store (get_data) is the last value committed *)
(* by any process, or its own later write, as long as no load has been     *)
(* overtaken by two others between reading the tip and taking the lock, no *)
(* sentinel was moved, and the page has not used at-block.  A crash, a     *)
(* failed deployment, a rolled back load, or one other load in that window *)
(* changes nothing.                                                        *)
(***************************************************************************)
ReadsLatest ==
    \A p \in writer :
        (~client[p].shifted /\ ~Overtaken(p) /\ "overtaken" \notin faults /\ ~SentinelMoved)
        => \A k \in Key : get_hash(work, client[p].tip_height, k) = Expected(mine, work, k)

(***************************************************************************)
(* Every committed row is under the tip made from its height, or still     *)
(* under BOOT_BLOCK_ID at height 0: the heights that headers.rs derives    *)
(* from tips, and get_block_at_height's unordered query, are then exact.   *)
(* It must survive deployment of a second version, late loads and crashes; *)
(* it does not survive a moved sentinel.                                   *)
(***************************************************************************)
TipsAreHeights ==
    ~SentinelMoved =>
        \A r \in rows : \/ r.tip = make_wrb_chain_tip(r.height)
                        \/ r.tip = BOOT_BLOCK_ID /\ r.height = 0

(* What is readable at the committed heights is readable after the step.   *)
PastSame ==
    \A h \in 0..tipless_get_highest_tip_height(rows) : \A k \in Key \ {Sentinel} :
        get_hash(rows, h, k) # NoValue => get_hash(rows', h, k) = get_hash(rows, h, k)

(***************************************************************************)
(* A step never changes what was readable at a committed height: a load    *)
(* adds a height, and a deployment only keys that were not there.  The     *)
(* exceptions are a load that took the lock after another load of the same *)
(* tip was committed (begin_page_load reads the tip before the lock) and   *)
(* any load after a sentinel was moved.                                    *)
(***************************************************************************)
PastKept ==
    [][(/\ \A p \in writer : writer' = {} => OnTime(p)
        /\ ~SentinelMoved) => PastSame]_vars

(***************************************************************************)
(* The store stays usable: once no process is creating it, a file that is  *)
(* there has its tables, unless a process crashed between making the file  *)
(* and the tables; and no deployment of a version that was deployed before *)
(* fails, unless two processes created the file at once, which leaves a    *)
(* second boot sentinel that every later initialize_app trips over.        *)
(***************************************************************************)
StoreUsable ==
    Creating = {} =>
       /\ file = "empty" => "crash" \in faults
       /\ \A v \in Version : (HasContract(rows, KeyOf("app", v)) /\ InitFails(v))
                             => "rivals" \in faults
=============================================================================

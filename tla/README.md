# wrb: a verification project

wrb is a browser for pages written in Clarity. A page is a Clarity program fetched from a *wrbpod*, a
StackerDB whose slots its owner signs; while it is open the page draws frames, receives events and may
keep data of its own in the user's wrbpods. This directory holds TLA+ models of the parts whose
correctness depends on the order of events, on failures or on bookkeeping that a unit test hardly reaches,
the TLC configurations that check them, and TLAPS proofs of the most important results.

Paths below are relative to the repository; the Rust sources are in `src/` of the repository.

## 1. The system

| Component | Code | State | Operations | Talks to |
|---|---|---|---|---|
| Superblock | `storage/wrbpod.rs` (`impl WrbpodSuperblock`), `storage/mod.rs` | free list `slot_ids`, app table `apps` | `allocate_slots`, `delete_slots`, look-ups | is the content of one slot of the StackerDB |
| Wrbpod session | `storage/wrbpod.rs` (`impl Wrbpod`) | local superblock, cached chunks, signers | `open`, `format`, `allocate_slots`, `delete_slots`, `fetch_chunk`, `get_slice`, `put_slice`, `sync_slot`, `put_chunk` | sends requests to a replica and to the home node |
| Slices of a chunk | `storage/wrbpod.rs` (`impl WrbpodSlices`), codec in `storage/mod.rs` | slices, index, dirty flag, size account | `put_slice`, `get_slice`, encode, decode | cached by sessions, stored in slots |
| StackerDB replica | `storage/mock.rs`; `runner/stackerdb.rs` for a remote node | one row per slot: version, data, signature | `list_chunks`, `get_latest_chunks`, `put_chunk`, `get_signers` | serves every process that has the wrbpod open |
| Viewer | `viewer/mod.rs`, `viewer/status.rs`, end of `main.rs` | last frame, focus, quit flag, three threads | main loop, keyboard, frame and timer threads | channels to and from the page's thread |
| Page event loop | `ui/events.rs` (`run_page`) | subscriptions, open transaction, first frame sent or not | one pass per event | receives events, sends frames |
| Page sessions | `core/globals.rs`, `vm/special.rs`, `vm/contracts/wrb-ll.clar` | open sessions by ID and address, cached large strings; in the page's database the records of both and the last results | native handlers of `wrbpod-*`, large strings, conversions; passes, commits | calls wrbpod sessions |
| Page store | `vm/storage/db.rs`, `vm/clarity_vm.rs` | one SQLite file per domain: a row per tip, height and key | create, deploy, begin a load, put, at-block, commit, roll back | holds the Clarity state of a page, shared by processes |
| Text area | `ui/forms/textarea.rs` | gap buffer, mode, scroll offset, wanted column | one per key | a form of the page, reads the focus of the root |
| Root and other forms | `ui/root.rs`, `ui/forms/*` | scene graph, z-buffer, focus order, forms, runtime events | focus moves, key presses, redraw, updates | drawn by the viewer, made by the page |
| Rendering | `ui/render.rs`, `ui/charbuff.rs`, `ui/scanline.rs`, `ui/viewport.rs` | characters of each viewport | UI tables to forms, forms to characters | called by `run_page` and the viewer |
| Site lookup | `runner/site.rs`, `runner/bns.rs` | none between calls | find, authenticate and download a page | BNS contracts, zonefiles, wrbpods |
| Node RPC, transactions, p2p | `runner/*`, `tx/*`, `net/*` | none between calls | HTTP, signing, byte formats | Stacks nodes |
| Configuration, command line, utilities | `core/config.rs`, `cli/*`, `util/*` | configuration | one command per process | all of the above |

### What is hard

* **Several processes share a wrbpod.** A page in the browser, the command line and other devices with the
  same key open the same StackerDB. Nothing locks it: a call is a sequence of requests, other processes act
  between any two of them, and the only protection is the version of each slot.
* **Requests fail half way.** A request may not arrive, or it takes effect and its answer is lost; a process
  may exit at any point, and its local state is gone.
* **Bookkeeping with two views.** A superblock says twice who has a slot (free list and app table); a chunk
  accounts for its encoded size while it is edited and again when it is decoded.
* **Positions that move.** A text area keeps its text around a gap that follows the cursor, and caches where
  the line begins and which part is shown; every key has to keep them together.
* **State with two lives.** A page's wrb-ll records are undone with a failed pass and kept across processes;
  the sessions and cached strings of the process are never undone and gone at exit. Handlers change both.
* **A database shared by processes.** A process reads the tip of the page's history, then waits for the lock
  that another holds for as long as it shows a page, then writes on top of what it read.
* **Tables rebuilt under the user.** Each key and each update redraws the forms over the old picture, in the
  order of a hash map, and reads the focus order off the result.
* **Five threads, three channels.** Two of the channels are bounded and block their senders; the threads are
  joined in a fixed order at exit, and the page's changes are committed only when its thread ends.

### What makes each part correct

* Superblock: a slot has at most one owner and is free exactly when it has none; allocation is all or
  nothing; an app's slot numbers do not move.
* Sessions: every superblock anywhere is sound; the superblock's own slot is never handed out; what was
  acknowledged is kept; what is cached is authentic; what is marked clean is saved; every call returns.
* Replica: versions only advance.
* Slices: a chunk is a map; it never exceeds the limit; what is encoded can be decoded.
* Text area: behind the gap there is a plain text, changed by one character at the cursor or not at all, and
  no key panics; both up to a gap that is used up, and the properties say how far.
* Page sessions: one session per wrbpod; the process's tables and the page's records agree; an answer comes
  from the call and the wrbpod it is about.
* Page store: a read sees the last commit or the load's own writes; history is not rewritten; a crash leaves
  the file usable.
* Root and forms: focus reaches exactly the visible forms; the screen shows the forms; input is not lost.
* Viewer and page: frames arrive once and in order; input is handled; quitting ends the process, and not
  before the page is committed.

`PROJECT.json` lists the hazards line by line, with the properties that cover each.

## 2. The modules

| Module | Models | Extends |
|---|---|---|
| `SuperblockOps` | `WrbpodSuperblock` as a value and its operations | |
| `SlotOwnership` | abstract: who owns each slot | |
| `Superblock` | one superblock under any sequence of calls; refines `SlotOwnership` | `SuperblockOps` |
| `StackerDB` | the replica's table and its answers | |
| `Wrbpod` | sessions of several processes on one replica | `SuperblockOps`, `StackerDB` |
| `SliceMap` | abstract: a map with a saved copy | |
| `WrbpodSlices` | a chunk of slices, its account and codec; refines `SliceMap` | |
| `EditedText` | abstract: a text, a position and a mode | |
| `GapBuffer` | the buffer of a text area as a value and its operations | |
| `TextArea` | the keys of a text area; a step is one of `EditedText` or the reordering it names | `GapBuffer` |
| `Viewer` | the threads of an open page | |
| `PageSessions` | sessions and large strings of a page, in its process and in its database | |
| `PageStore` | the database file of a domain under several processes | |
| `Forms` | the frame that is shown: viewports, forms, focus, keys and updates | |
| `SuperblockProofs` | lemmas and theorems on the superblock | `Superblock` |
| `WrbpodProofs` | theorems on the sessions | `Wrbpod`, `SuperblockProofs` |
| `WrbpodSlicesProofs`, `TextAreaProofs`, `PageSessionsProofs`, `PageStoreProofs`, `ViewerProofs`, `FormsProofs` | theorems on each | the module they are about |
| `MC...` | constants for TLC | the module they check |

### Superblock

`allocate_slots` of the code loops over `fill_free_slot` and, on a shortage, walks back over the indexes it
filled. `SuperblockOps` says what the loop picks: the set `fill_free_slot(sb, n)` holds the one increasing
sequence of the `n` lowest free indexes, or nothing when there is a shortage. The version byte and the code
hash of an app (written, never read) are left out. Slot IDs are arbitrary, as they are in the code: the
instance has them out of numeric order, so that IDs and indexes cannot be mistaken for each other.

### Sessions on a replica

`pc[c]` names the request client `c` makes next. A step is one request together with all the local code up
to the next request or the return, because that is what is atomic: the replica handles a request in one
transaction, and a session is used by one thread (`&mut self`). `session[c]` is the `Wrbpod` struct,
`job[c]` the arguments and local variables of the call in progress (`slot_md`, `slot_version`,
`refreshed_signers`).

| Code | Actions |
|---|---|
| `open`, `format` | `open`, `open_signers`; `format`, `format_signers` |
| `download_superblock` | `download_superblock_list`, `download_superblock_get`, then `Downloaded` |
| `upload_superblock` | `upload_superblock_list`, `upload_superblock_put` (one turn of the loop) |
| `allocate_slots`, `delete_slots` | `allocate_slots_call`, `delete_slots_call`, then the two above |
| `fetch_chunk`, `get_chunk` | `fetch_chunk`, `fetch_chunk_list`, `fetch_chunk_signers`, `get_chunk` |
| `put_slice` | `put_slice` |
| `sync_slot`, `put_chunk` | `sync_slot`, `sync_slot_list`, `sync_slot_put` |
| `wrbpod_clear_slot` of the command line | `wrbpod_clear_slot`, then the same upload |

`RequestFails` (no effect), `AnswerLost` (effect, no answer) and `Exit` can strike at any request. `put_slice`
asks for nothing but the slot: neither `wrbpod-put-slice` of wrb-ll.clar nor its handler nor the command line
checks that the slot was fetched, and a slot that is not cached starts from an empty chunk. `puts` and
`acked` are history variables: the chunks of slices the replica accepted, and the slots whose allocation
returned `Ok(true)` and whose deletion (or a format) nobody has asked for since.

Cryptography is modelled by what it lets a reader decide. The hash of some data is the data, so that hashes
agree exactly when the data does; a signature is the key that made it. `verify` compares it with the key
that owns the slot.

The list of signers does not change in the model (in the code it comes from the StackerDB's contract); the
signers requests stay as steps, since other processes act during them.

### Slices

`WrbpodSlices` keeps positions, index and account as the code does, with sizes of contents as a constant.
The bytes of a chunk are a record of what the codec writes: the number of index entries, the entries and
the bodies. The decoder takes as many bodies as there are entries and recomputes the account.

### Text area

`GapBuffer` holds the operations on one record: the array, the cursor, the size of the gap and the start of
the line. `TextArea` has one action for each key, `key_left` to `key_char`; a loop that moves by
lines is where it stops (`LeftToNewline`, `LineEnd`) and the gap carried there (`MoveTo`); the loops that
measure the part in view are recursive functions, one value for each character passed. No key has a guard
that the code has not: an index out of bounds or a failed assertion sets `panicked`, which ends the process,
and `realloc` moves the cells that the code moves (`Moved`), wherever the cursor is. `form_cursor` is where `focus` has the root show the cursor. The line
counter and the moves by words are left out, since nothing uses them, and so is the layout of the text
(`GapBufferIterator`). `NumRows` and `NumCols` are at least 1.

### Viewer

`main`, `render`, `frame_thread`, `keyboard` and `timer` say where the five threads are: before which send,
receive or join. A page is whether its code runs, the event loop function it names and its subscriptions;
`find_event_loop_function` and `find_event_subscriptions` are what `run_page` gets when it asks.
`events` and `frames` are the two `sync_channel`s (`Cap` for 1024), `inbox` the viewer's
unbounded channel. A frame is its number: 1 for the `Root`, then one for each `Update`. A pass of the page's
event loop is one step that makes a frame, is skipped (not subscribed), or fails; `render_commit` is the
commit of the page's transaction at the end of `run_page`.

| Code | Actions |
|---|---|
| `Viewer::main` before the loop | `main_start`, `main_open`, `main_first_resize` |
| the loop | `main_loop`, `main_loop_resize`, `main_recv`, `main_send_runtime` |
| the end, and an early return with an error | `main_close`, `main_join_timer`, `main_join_frame`; `main_error` |
| end of `main.rs` | `main_final_close`, `main_exit` |
| `run_page` | `render_init`, `render_recv`, `render_send_frame`, `render_commit` |
| frame, keyboard and timer threads | `frame_top`, `frame_recv`; `keyboard_read`, `keyboard_check`; `timer_send` |

### Sessions of a page

`page` is wrb-ll's state in the page's open transaction: its map of sessions, its large strings, the results
of the last calls. `mark` is the same when the pass began (what a failed pass goes back to) and `committed`
what the file holds. `globals` is `struct Globals`: sessions by ID, IDs by address, the next ID, cached
strings. A call of a page is one step: the wrb-ll function, the handler of `vm/special.rs` that runs after it
whatever it returned, the setters the handler calls, and the getter by which `wrb.clar` answers. `call`
records what was asked, answered and which wrbpod was really touched. A setter is a transaction of its own,
which `handle_tx_result` keeps only when the response is ok. What `Wrbpod` does in a call is module `Wrbpod`;
here each such call returns any of its results.

| Code | Actions |
|---|---|
| `handle_wrbpod_open` | `wrbpod_open_invalid`, `wrbpod_open_again`, `wrbpod_open_fails`, `wrbpod_open_new` |
| the other `handle_wrbpod_*` | `wrbpod_get_num_slots`, `wrbpod_alloc_slots`, `wrbpod_fetch_slot`, `wrbpod_get_slice`, `wrbpod_put_slice`, `wrbpod_sync_slot`, `wrbpod_default` |
| large strings and conversions | `store_large_string_utf8`, `load_large_string_utf8`, `buff_to_string_utf8`, `string_ascii_to_string_utf8`, `wrb_call_readonly` |
| start, pass, end of a page | `Start`, `EventPass`, `PassOk`, `PassErr`, `PassFails`, `Close`, `Exit`, `Crash` |
| `cli/wrbpod.rs` | `StartCommand`, `command_format` to `command_put_slice` |

`undone` remembers the sessions and handles whose records went with a pass; the properties leave them out,
because there the code's two halves do part (section 6).

### Page store

`rows` is the table as committed, `work` as the process with the lock sees it. A load reads the tip in one
step (`read_chain_tip`) and takes the lock in a later one (`begin`); `put_all_data` is a pass's writes at the
height above that tip; `commit` and `crash` end the load. `at_block` sets the store to another tip and back;
when the own tip is refused, the pass fails and `run_page` leaves its loop for the commit (`save`), with the
store still at the other tip. Tips are the numbers their first bytes hold.
`setup_db`, `create_file` and `create_schema` are the three moments of making the file between which another
process, or a crash, can come. `latest` and `mine` are history: the values that a plain store with one
transaction at a time would hold. `faults` names the races that the code does not survive, so that the
properties say exactly what holds without them.

### Root and forms

`frame` is the viewer's `last_frame`: viewports with their cells, offsets (`SceneGraph`), z-buffer, screen,
forms, focus and focus order. `Press` is a turn of the viewer's loop for a key (dispatch, redraw of all forms
in some order of the hash map, render), `Update` one for a frame update: the page toggles viewports and
replaces its dynamic texts, `make_root_update` collects them, `update_forms` merges them. Characters are
kept, colours and decorations are not; a text is a short sequence, words of flowing prints are single
characters and newlines. The text area is module `TextArea`; `q` without focus is module `Viewer`'s.

The loops over forms, words, options and tables are all one fold (`Fold`), a recursive function over the
positions of a sequence, so that they can be proved about. `NewForm`, `NewViewport` and `Tables` are the rows
of wrb.clar's UI tables, and `PageAssumption` what wrb.clar makes true of them (section 4). Element IDs are
one more than in the code, since 0 stands for none.

## 3. The runs

| Run | Instance | Shows |
|---|---|---|
| `superblock` | 4 slots, 3 apps, requests of 0 to 3 slots | complete: every reachable superblock is sound, allocation is all or nothing, slot numbers are stable, ownership is refined |
| `wrbpod_foreign` | an owner and a client with another key, `MaxSlots` below the number of slots, 7 calls, 1 fault | superblocks stay sound and versions advance under concurrency; a fetch caches only what the slot's signer wrote |
| `wrbpod_sync` | 2 owners on one slot, 7 calls, 1 fault, with fairness | clean copies are saved; every call returns |
| `wrbpod_one_client` | 1 client, 2 apps, all kinds of calls, 8 calls, 2 faults | a reserved superblock slot; acknowledged allocations are kept, and saved slices but for two named cases |
| `slices` | 3 slice IDs, contents of 0, 5 and 30 bytes, limit 108 | a chunk is a map, never too large, and decodes to itself |
| `viewer` | capacity 1, six pages, 2 keys, 1 resize, 2 ticks, 1 failure, with fairness | order of frames, shutdown, commit before exit, input handled |
| `textarea` | a gap of 2 cells, an array of up to 5, a letter of two bytes and the newline, 2 rows of 2 columns | what the keys edit, and the keys that panic |
| `sessions` | 2 wrbpods and one whose slot is out of range, 1 app slot, 1 handle, 2 texts, 2 versions, 2 sessions, 3 calls, 2 processes one after the other | the two halves of a page's sessions and strings agree; answers come from where they should, and calls reach no other wrbpod |
| `pagestore` | 2 processes, 3 versions (2 store a static string), 4 starts, 3 values | reads see the last commit, history stays, the file stays usable |
| `forms` | 8 pages on 3 rows of 4 columns, 4 keys, 1 update | focus, screen and input are right |
| `lost_allocation` | 2 clients that allocate | **violation**, see section 6 |
| `open_answer` | as `sessions` | **violation** |

Bounds. The superblock and the slices have finitely many states and are explored completely: the number of
free slots, the account and the limit bound them. `MaxCalls` and `MaxFaults` bound the sessions; the calls
of one client are enough to format, allocate, fetch, put, sync, lose an answer, exit and come back, and two
clients have room for one to act in every gap of the other's call. Two clients meet on the
superblock and on one slot; two apps and three slots in `wrbpod_one_client` run out of free slots. The results that
are proved hold without these bounds. In `viewer` a capacity of 1 makes every blocked send happen with few
messages; two keys are enough to focus a form and make it emit an event, or to quit while one is pending.
A text area is explored completely up to `MaxSize` cells: `RoomToGrow` is the one bound, and it stops only the
character that would make the array longer still. An array that starts empty grows and grows again, one that
starts with a text grows once, with the cursor at the end, inside and at the start; two rows of two columns
scroll and wrap after a few keys. Three calls over two processes are an open, a failed or second open and a use of the session, or
a session left in the database by an earlier process and a new one with the same ID. Four starts let two
processes race to create the file and two more find what they left, or two loads overtake a third. Four keys
move the focus, type into a line and cross its ends, and the update comes before, between or after them; the
pages of `MCForms` have nested, hidden and overlapping viewports, a checkbox without options, forms
interrupted by others, forms that share cells (`Overlaid`), a text line that leaves its row (`Ragged`), prints that flow and wrap, a row out of range (`U64` is 9) and a text whose string is
missing. The limit of 108 bytes in `slices` is the exact size of three small slices, so that the boundary
is met.

Deadlock is not checked where the system may stop: sessions and the superblock stop when nobody calls, the
viewer when its process has exited or its user types nothing, pages and stores at the bounds.

Every property comes with a variant of a definition (`..._NoRollback`, `..._CleanFirst`, ...), a plausible
mistake in the code it stands for, under which TLC finds the property violated; `PROJECT.json` pairs them.

### Fairness

`FairSpec` of `Wrbpod` assumes that a client in a call goes on to make its next request
(`WF_vars(Request(c))`): the calls are straight-line code and loops around blocking requests, which the
operating system schedules, and a request ends with an answer or an error. Nothing makes a client start a call.

`Spec` of `Viewer` assumes weak fairness of each thread that is not waiting for the user: the main thread,
the page's thread, the frame thread and the timer. A thread blocked in a send or a receive is disabled, so
the assumption says only that a thread which can go on does. A blocked sender gets its turn because a
sync_channel serves its waiting senders in order, and the timer sleeps between sends. The keyboard and the
size of the terminal are the user's: no fairness. That a page's pass ends is the business of Clarity's cost limit.

## 4. What is proved

Each theorem holds for every value of the constants (sets of slots, apps, clients, keys, pages, sizes and
bounds of any size), from the assumptions named in the modules. `PROJECT.json` lists them with the property
each one states.

| Module | Theorems |
|---|---|
| `SuperblockProofs` | `SuperblockTypeCorrect` (`SuperblockTypeOK`), `NoDoubleAllocationNoLeak` (`SlotsSound`), `AllocatesAllOrNothing`, `SlotNumbersAreStable`, `Refinement` (`ImplementsOwnership`) |
| `WrbpodProofs` | `TypeCorrect`, `SuperblocksStaySound`, `SuperblockSlotStaysReserved`, `ReplicaVersionsAdvance`, `CleanStaysSaved`, `FetchesAreAuthentic`, `AllocationsStayKept`, `SlicesStayKept` |
| `WrbpodSlicesProofs` | `SpecNeverOversized`, `SpecRoundTrip`, `SpecImplementsSliceMap` |
| `TextAreaProofs` | `SpecTypeOK`, `SpecGapIsEmpty`, `SpecPanicsOnlyWhenFull`, `SpecEditsPlainText` |
| `PageSessionsProofs` | `SpecOneSessionPerWrbpod`, `SpecRecordsAgree`, `SpecCacheCoherent`, `SpecAnswersComeFromRecord`, `SpecCallsReachRecorded` |
| `PageStoreProofs` | `SpecTipsAreHeights`, `SpecReadsLatest`, `SpecStoreUsable`, `SpecPastKept` |
| `ViewerProofs` | `SpecFramesInOrder`, `SpecSavedOnExit` |
| `FormsProofs` | `FrameIsGood` (the inductive invariant), `FocusStaysOnScreen` (`FocusOnScreen`), `TabVisitsAll` (`TabGoesRound`), `SelectorStaysInside` (`SelectorInside`), `InputIsKept` (`InputKept`), `TypingAppears` (`TypedAppears`) |

Assumptions on the constants are about shapes: which sets are finite or disjoint, which numbers are natural.
Three say more. `NoneAssumption` of `Wrbpod`: the value that stands for "no slice" is not a slice, which is what
`Option` means in the code. `SlicesAssumption`: the limit of a chunk is at least the nine bytes of an empty
one; `WRBPOD_CHUNK_MAX_SIZE` is the StackerDB's own limit of a chunk, far above that. `PageAssumption` of `Forms` is justified under *Root and forms*. `WrbpodProofs` takes
the lemmas of `SuperblockProofs`, and so extends `Superblock` with its constants `SlotIds` and `Nobody`; what
`SuperblockAssumption` says of them constrains no instance of `Wrbpod`, since a finite set of slots can be
listed in some order and some value is not an app. Each inductive invariant was checked with TLC on the
instances of section 3 before it was proved.

### Superblock

`SuperblockProofs` begins with the lemmas on the operations: what they do to the shape of a superblock and to
each part of `WellFormed`. `WellFormed` is inductive with the type invariant: an allocation takes indexes
that are free, by `FilledIffOwned` nobody owns their IDs, by `SlotIdsDistinct` they are different IDs, so
`NoSlotShared` goes on holding; a deletion frees exactly the IDs of one app, and by `NoSlotShared` nobody
else's. `ImplementsOwnership` needs the same facts to show that the owner of every other slot stays.
`AllOrNothing` needs that the loop over `fill_free_slot` finds `n` indexes whenever `n` are free
(`PickExists`): at the first turn that would fail, fewer indexes are picked than are free.

### Sessions on a replica

Neither soundness nor the reserved slot is inductive on its own, because a superblock
travels: from a session to the replica, into `slot_md` of another client's call, and from there into its
session. The inductive invariant is

    IInv == ClientInv /\ ReplicaInv /\ CountInv

`ClientInv` says of each client that its superblock has the right shape, is sound and does not list the
superblock's slot; that its cached chunks and local variables have their shapes; and that a call which moves
slices names a slot other than the superblock's. `ReplicaInv` says of each row that slot `SuperSlot`
holds only sound superblocks that do not list it, and every other slot only slices. `CountInv` bounds
the counters. One lemma for each action shows that it preserves each part it can disturb.

The promises about data need what was uploaded. `DataInv`: every chunk of slices on the replica is in `puts`, every
clean chunk of a cache is in `puts`, and a fetch between its two requests holds metadata that it has verified
and that is in `puts`, whatever the slot holds by now. The last part is what makes `FetchIsAuthentic` hold
although the data is read later than it was verified: `get_chunk` rejects data whose hash is not the one in
that metadata.

`AllocationsStayKept` and `SlicesStayKept` assume `OneClient`, one process at a time with any number of
restarts; the run `lost_allocation` shows that two break it. `AllocInv` says that the superblock on the
replica, and the one a call is about to upload, give every acknowledged slot to its app, that nothing is
promised to an app whose deletion was asked for, and nothing at all after a format was. A lost answer is the
hard case: the upload took effect, so that the replica has more than was acknowledged. `SlicesKept` names the
two uploads that may drop a saved slice: the command line's clearing of a slot, and the sync of a slot that the
session has not fetched, whose `put_slice` started from an empty chunk (section 6; for
example: open, allocate, put, sync, exit, open again, put another slice, sync). No other upload does, for one process at a time.
`KeepInv` says that a cached chunk has all the slice IDs the replica has, that a slot seen empty and not cached is
still empty, and that the process which uploads a whole chunk has no cache.

### Slices

The invariant `IInv` of `WrbpodSlicesProofs` holds of the chunk and of the bytes last uploaded, from which a
fetch rebuilds the chunk. `Layout`: there are as many index entries as slices and no two point at the same
one. The decoder reads as many slices as there are entries, so this is why it reads them all, and why a
replaced slice is nobody else's. `Fits`: the account covers the encoding and stays within the limit. The
size is a sum over a sequence (`BodySize`); how it changes when a slice is added (`BodySizeAppend`) or
replaced (`BodySizeExcept`) is shown with partial sums, by looking at the smallest index at which two of
them would part.

### Text area

The theorems hold for every start text, every length of its characters in UTF-8 and every key in every
state. `Rep(g, t)` says that buffer `g` holds text `t`: the characters up to the cursor, the gap, the rest. A
start text is held padded (`Padded`): the array has a cell for each byte and is filled by characters, so the
cells left over stay in the text. The inductive invariant `IInv` is that the buffer holds its own
string, that its array is at least a gap long, and that the wanted column, the scroll position and the cursor
on the screen are inside the array and the area. There is one lemma for each operation of the buffer: the moves
keep the text, `insert`, `backspace`, `delete` and `overwrite` change it at the cursor (`Inserted`, `Removed`).

`PanicsOnlyWhenFull` is what the code keeps of "no key panics": a panic needs a gap that is used up, and then a
backspace or delete at the end of the array, or typing inside one that is longer than a gap. `EditsPlainText`
says what the edits are: a step of `EditedText` or, in one case, `Reorders`, a character typed at the start of
a full array that is longer than a gap, after which the text stands in another order. `ReallocRep` shows why
there is no third case: a gap's worth of cells from the cursor on moves by the length of the array instead of
the gap's, which is right at the end of the text and in an array of one gap's length; else it goes out of
bounds, but for the cursor at the start. `GapIsEmpty` is what the assertion of `insert` rests on.

That the cursor stays in the area
needs that the walk over the rows is defined at all (`WalkExists`, by looking at the shortest walk that
would not be) and that each of its steps stays in the columns (`WalkStays`). Of a move `EditedText` says only
that it stays in the text and leaves it alone.

### Sessions of a page

The five properties are inductive together with the shapes of wrb-ll's states and of `Globals`, with
`FreshIds` (IDs not given yet name no session, so that a new session meets no old one of the process) and
with one fact about results: a fetch never records "not open", so that this error is always the answer of
wrb-ll itself. `CallsReachRecorded` covers the calls that wrb-ll refuses too: the handler runs all the same and
takes the wrbpod from the process's table, which is the recorded one by `RecordsAgree`; only where wrb-ll
knows of no session does it reach none. `RecordsAgree` holds although wrb-ll keeps sessions of earlier processes
because an open writes the record of its ID anew.

### Page store

`ReadsLatest` compares a database of rows by tip and height with the plain history `latest` and `mine`. The
invariant relates them (`Latest`: the highest row of a key has the value a page wrote last), says that the
table the lock's holder sees is the committed one but for rows of its own height (`WorkOK`), that a tip which
was read stays in the table (`ClientOK`), that every start of a process accounts for one height
(`HeightsBounded`, which keeps heights apart from the boot tip), and who may be creating the file
(`FileOK`, `NoRivals`). `PastKept` is an action property: it follows from the same invariant, since a deployment
only adds keys that had no value and a commit adds rows at one height only, which is new unless the load was
overtaken.

One thing ends the invariant: a load committed with the store at `BOOT_BLOCK_ID` (`SentinelMoved`, section 6).
`Inv` is `IInv` until then, and after it only that the file has its tables and that two processes had created
it, which is what `StoreUsable` needs; the other three properties claim nothing from there on. That this takes
rival creations is the last part of `NoRivals`: a deployment moves every row from `BOOT_BLOCK_ID`, and only a
second creation puts one there again.

### Viewer

`FramesInOrder` says, while nobody quits, that the frames after the one shown are in the viewer's
inbox and then in the page's channel, consecutive and in order, up to the last one sent.
It is inductive with the types of the channels, with `NoneMadeYet` and with `FrameThreadNeeded`: the frame
thread ends only when the viewer or the page is over, so that no frame is lost to it earlier. `SavedOnExit` needs
`AbortedOnError` (the page's thread gives up only on an error) and `ExitAfterPage` (the process exits after the
join). Fairness plays no part in either.

### Root and forms

The theorems are about every page `PageAssumption` allows. It says of a page's tables what wrb.clar's code
makes true of them:

* Static elements and those added later never share an ID: the former count up from `u0`
  (`vm/contracts/wrb.clar:243`), the latter from 2^127 (`:40`, `:395`).
* A viewport's ID is new and its parent exists when it is added (`:131`, `:150`, `:151`), and the table is
  read from the newest viewport on.
* A checkbox has a text for each of its options (`:286`), and no viewport has zero columns. The last is the
  one thing the code does not see to; such a viewport divides by zero (section 6).

The inductive invariant is

    FormsInv == /\ PageOK(page)
                /\ frame # NoFrame => Drawable(frame) /\ Focused(frame, StaticIds(page)) /\ InOrder(frame)

`Drawable` says that every buffer holds cells that some form may have drawn, that the table of forms is well
formed, with selectors inside their options and cursors inside their texts, and that the z-buffer names
viewports. One part of it carries the others: no cell, in any buffer or on the screen, belongs to a checkbox without
options (`Idle`), since nothing is ever drawn for it. `InOrder` says that the focus order is made of the forms
on the screen, and leads round when each of them was read once. `Focused` says that the focus and every
form the order leads to are forms of the page, not dynamic ones, and not idle. It is needed because the focus outlives the
screen it was read from: after a render the order is rebuilt (or, with nothing to focus, the reverse order is
left as it was), and the focus stays.

`FocusStaysOnScreen` and `TabVisitsAll` are parts of `InOrder`. That the order is a cycle: the forms read off
the screen are exactly the forms on it, so that as many reads as forms means that none was read twice
(`OnceEach`), and a list without repetitions, paired with itself turned by one, leads round (`RoundTrip`).
`SelectorStaysInside` needs `Focused`, without which a checkbox without options could have the focus, and
`Drawable`, by which the selector of any other is an option. `InputIsKept` needs that the page's forms are
not among those an update replaces, and that the IDs of the new ones are others. `TypingAppears` needs the
cursor inside the text, counted in bytes, after every key.

Drawing, filtering and reading are folds over data of any length. What they keep is shown by looking at the
first step at which it would fail (`AlongNat`), since the induction theorems of the library cannot be used.

### What stays with TLC

The liveness properties (`CallsReturn`, `ShutsDown`, `KeysHandled`), which need fairness, and
`ScreenIsCurrent`: the screen is what a redraw of empty viewports gives in some order of the forms. It
claims this of a pixel where the z-buffer, which is made once, has the viewport that is on top now, and that
viewport has a form; and of pages whose texts do not flow from one form to the next and whose text lines keep
to their row. What happens elsewhere is in section 6. Forms may share cells (page `Overlaid`): the order of
the hash map then decides, and the picture is one of those that some order gives. A proof would be about all
orders of drawing at once; the property stays with the pages of `MCForms`.

## 5. What is not modelled

HTTP, transactions, the p2p codec, configuration, the parsing of arguments and logging: input, output and
byte formats, with no state that two actors share. Site lookup, which keeps nothing between calls. The
network search for a replica and a list of signers that changes while a session is open. The encoding of the
superblock. What Clarity code does. Of the page sessions: `load_app_name` and `load_app_code_hash`. Of the
store: metadata, headers and costs. Of rendering: colours, terminal escapes, scrolling, a change of a
viewport's size or position by an update, and the layout of a text area. `PROJECT.json` gives the reason for
each component.

## 6. Where the code and its documentation disagree

* **A lost allocation** (`storage/wrbpod.rs:485`, run `lost_allocation`). `upload_superblock` "Retries on
  stale version.": it uploads the same superblock again with a higher version. Two processes that allocate at
  the same time both get `Ok(true)`; the second upload removes the first one's slots and may hand them out
  again. Downloading and allocating again before the retry would keep both.
* **A failed open answers with another wrbpod's session** (`vm/special.rs:632`, run `open_answer`).
  `wrb-ll-finish-wrbpod-open` stores the error and returns it; the err response makes Clarity undo the store,
  so `wrbpod-open` finds the result of the last open that succeeded. Returning `(ok ...)` from the setter, as
  the other setters do, would keep the error.

Observed while modelling, without a run.

Wrbpods:

* A superblock outside slot 0 is not found (`storage/wrbpod.rs:431`): the answer for one slot has one element,
  but is indexed with the slot's number.
* A slice put without a fetch erases its neighbours (`storage/wrbpod.rs:837`), from a page and from `wrbpod
  put-slice` on the command line: `wrb.clar` speaks of "a locally-fetched slot", but nothing checks it
  (`vm/contracts/wrb.clar:838`, `vm/contracts/wrb-ll.clar:256`, `vm/special.rs:1256`).
* Replacing a slice adds its cost again and takes nothing off (`storage/wrbpod.rs:85`), so that slices that
  fit are refused; a decoded chunk has the right account.
* Every refusal with metadata is retried (`storage/wrbpod.rs:483`), also the one of the local replica about
  a signature, which no version cures: once a chunk signed with another key is stored, `CallsReturn` fails.

Text area:

* The array is sized by the bytes of the start text and filled by its characters (`ui/forms/textarea.rs:52`);
  for a text that is not ASCII the cells left over are not part of the gap, so the text the form shows and
  returns has NUL characters in it (`Padded`).
* A text area whose gap is used up (65536 characters typed): `realloc` moves the cells from the cursor on by the
  length of the array instead of the gap's (`ui/forms/textarea.rs:150`). Typing inside the text then panics;
  with the cursor at the start it reorders the text instead. Typing on at the end works, and so does the first
  growth of an array that began empty. `backspace` and `delete` at the end read past the array (`:183`). `PanicsOnlyWhenFull` and
  `EditsPlainText` say exactly this; with the cases taken out of them TLC shows both violated.
* `Down` on the last line moves the cursor to the wanted column, and so does `Up` on the first line after a
  newline was removed by `backspace`, which does not refresh `line_start`; the comments of `up` and `down`
  say they do nothing there. An empty last line cannot be reached with `Down` and is skipped by `Up` and `Home`.
* The cursor of a text area may be out of view after a key, and is then shown where it was.
* `lineno` goes up when the cursor moves left over a newline, and down when it moves right. `max_len` of a
  text area is never used.

Sessions and slices:

* `allocate_slots` changes the local superblock before the upload; when the upload fails, `get_num_slots`
  goes on counting slots that were never allocated until the next download.
* `delete_slots` and `format` leave the chunks of the freed slots cached and stored.
* `Wrbpod::can_fit_slice` uses `<` for a slot that is not cached where `WrbpodSlices::can_fit_slice` uses `<=`.
* `slot_version + 1` is `u32` arithmetic with no check.
* `fetch_chunk` replaces a local copy with unsaved slices.

Sessions of a page:

* When a pass fails, wrb-ll's records are undone and the process's sessions and cached strings stay: a string
  can then be shown from the cache that no later process will find.
* wrb-ll keeps the session IDs of earlier processes, and IDs start at 0 again: a page that remembers an ID
  across loads may use a session of another wrbpod without having opened it.
* The handlers run also when the wrb-ll function refused (`vm/special.rs:1402`). Where it knows of no session
  the handler finds none either; a sync or a get refused because the slot is out of the app's range reaches the
  recorded wrbpod all the same.
* `wrb-ll-set-app-code-hash` is documented as called on page load; `initialize_app` calls it only when there is
  no wrb-ll contract yet (`vm/clarity_vm.rs:267`), so that the hash stays the one of the first version.
* `Globals::reset` clears the sessions but not the IDs by address. `wrbpod clear-slot` asks for more
  arguments than its usage names.

Page store:

* A crash between making the file and its tables leaves a file that no later start repairs
  (`vm/storage/db.rs:200`); two processes creating the file at once may leave a second boot sentinel, after
  which every `initialize_app` fails.
* The tip is read before the lock (`vm/clarity_vm.rs:202`). A load overtaken by one other writes at the same
  height and replaces its values; overtaken by two, it writes below the newest height, and its values are
  hidden. The lock is held for as long as the page is shown, so a second process waits that long.
* `(at-block ...)` on an older tip always ends the page, because restoring the own tip is refused: the pass
  fails, and what the passes before it wrote is committed (`ui/events.rs:565`, `:628`). On the current tip it
  succeeds and from then on hides the load's own writes.
* When the refused tip is `BOOT_BLOCK_ID`, which has a row only after two processes created the file, the
  commit takes the store to be a deployment (`vm/storage/db.rs:637`) and renames the second boot sentinel to
  the load's tip, at height 0: the tip's height, and with it every later read, is wrong (`SentinelMoved`).
* A new version that stores the same large string at its top level cannot be deployed: the commit's UPDATE
  meets the row of the older version (`vm/storage/db.rs:636`).

Root and forms:

* The z-buffer is made once (`ui/root.rs:312`): a viewport that an update shows for the first time shows
  nothing, and one that it hides leaves a hole, in which its forms appear again at the next key, since a
  redraw draws hidden viewports too. `wrb-viewport-clear` does not mark the viewport as updated, so its old
  text stays.
* A text line whose text is longer than its width, or that leaves its row, leaves cells behind when the text
  gets shorter: only the width is padded.
* Forms that share cells are redrawn in the order of a hash map (`ui/root.rs:403`), and either may win.
* A form of several rows with another beside it appears twice in the focus order, and the other form may be
  reachable by neither Tab nor BackTab. With nothing to focus, the reverse order of the last frame is kept.
* Prints without a place of their own are redrawn in the order of a hash map and trade places.
* Keys go to a focused form also when its viewport is hidden; Esc leaves the cursor where it was; a viewport
  without columns divides by zero.
* The limit of a text line counts bytes and its cursor characters: with a wide character in the line, typing
  and deleting drop or miss characters, and `End` goes past the text. `set_text` leaves the cursor.
* A word that would exactly fill a line is wrapped.

Viewer:

* A page that fails to load has no frame; each key then moves the focus to the status line first, so `q`
  never quits (`viewer/mod.rs:232`).
* A page that ends before `Open` or `Resize` is sent (a static page may) makes the viewer quit, possibly
  without showing it (`viewer/mod.rs:448`, `457`); so does a resize of a page that has ended.
* After `quit` a page may end without reading `Close`: the frame thread is gone and a pending frame fails to
  send (`ui/events.rs:587`).
* The `Close` that `main.rs:248` sends after an error of `run_page` goes to a channel whose receiver
  `run_page` has already dropped.
* A new terminal size is noticed only when some other message arrives, since the loop waits in `recv`.

## 7. Plan

Done: the modules of section 2 with the proofs of section 4. Next, in this order:

1. `PageSessions` over the calls of `Wrbpod` in one composed specification.
2. The layout of a text area (`GapBufferIterator`) against `cursor_location`.
3. Site lookup: selection and authentication of records in `runner/site.rs`.
4. A proof of `ScreenIsCurrent`.

Runs are kept to one for each question: the instances of a new component join an existing run where the
component composes with it.

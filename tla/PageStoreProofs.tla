-------------------------- MODULE PageStoreProofs --------------------------
(***************************************************************************)
(* The database of a page, for every number of processes, versions, starts *)
(* and writes.                                                             *)
(***************************************************************************)
EXTENDS PageStore, TLAPS, FiniteSetTheorems, WellFoundedInduction

RowType == [tip : Nat, height : Nat, key : Key, val : Value]

(* A state of kvstore: rows are under the tip of their height, except for  *)
(* a boot sentinel, and the primary key is one.                            *)
KvOK(kv) ==
    /\ kv \subseteq RowType
    /\ \A r \in kv : \/ r.tip = r.height /\ r.height <= MaxStarts
                     \/ r.tip = BOOT_BLOCK_ID /\ r.height = 0 /\ r.key = Sentinel
    /\ \A r, s \in kv : (r.tip = s.tip /\ r.height = s.height /\ r.key = s.key) => r = s

HasTip(kv, tip) == \E r \in kv : r.tip = tip /\ r.height = tip

(* What kvstore holds of a key is what deployment wrote, or below the last *)
(* value a page wrote.                                                     *)
Latest(kv, hist) ==
    \A k \in Key :
        /\ hist[k] = NoValue => \A r \in kv : r.key = k => r.height = 0 /\ r.val = 0
        /\ hist[k] # NoValue =>
             \E r \in kv : /\ r.key = k /\ r.val = hist[k] /\ r.height > 0
                           /\ \A s \in kv : s.key = k => s.height <= r.height

ClientType == [pc : {"down", "create", "schema", "opened", "ready", "tip", "load"},
               version : Version \cup {0}, chain_tip : Nat, next_tip : Nat,
               tip_height : Nat, shifted : BOOLEAN]

History == [Key -> Value \cup {NoValue}]

TypeInv ==
    /\ file \in {"absent", "empty", "ready"}
    /\ client \in [Proc -> ClientType]
    /\ writer \subseteq Proc
    /\ latest \in History /\ mine \in History
    /\ nputs \in 0..MaxPuts /\ nstarts \in 0..MaxStarts

Active == {p \in Proc : client[p].pc # "down"}

(* Every start of a process is good for one height.                        *)
HeightsBounded ==
    /\ IsFiniteSet(Active)
    /\ Cardinality(Active) <= nstarts
    /\ \A r \in rows : r.height + Cardinality(Active) <= nstarts

(* A client that has read a tip finds it in kvstore ever after.            *)
ClientOK(c, kv) ==
    /\ c.pc # "down" => c.version \in Version
    /\ c.pc = "ready" => HasTip(kv, GENESIS_BLOCK_ID)
    /\ c.pc \in {"tip", "load"} => HasTip(kv, c.chain_tip) /\ c.next_tip = c.chain_tip + 1
    /\ c.pc = "load" /\ ~c.shifted => c.tip_height = c.next_tip

ClientsOK ==
    /\ \A p \in Proc : ClientOK(client[p], rows) /\ (client[p].pc = "load" <=> p \in writer)
    /\ \A p, q \in writer : p = q

(* The writer's view is the database, but for its own rows.                *)
WorkOK ==
    \A p \in writer :
        /\ KvOK(work)
        /\ \A r \in RowType : r.height # client[p].next_tip => (r \in work <=> r \in rows)
        /\ \A r \in work : (r.height = client[p].next_tip /\ r.key # Sentinel) \/ r \in rows
        /\ HasTip(rows, client[p].next_tip) => HasTip(work, client[p].next_tip)

FileOK ==
    /\ file = "empty" => "crash" \in faults \/ \E q \in Proc : client[q].pc = "schema"
    /\ file # "ready" =>
          rows = {} /\ \A p \in Proc : client[p].pc \in {"down", "create", "schema"}

Deployers == {q \in Proc : client[q].pc \in {"ready", "tip", "load"}}

(* Without rival creations one process creates the file, there is one      *)
(* sentinel, and a deployment has moved it from BOOT_BLOCK_ID for good.    *)
NoRivals ==
    "rivals" \notin faults =>
        /\ \A p, q \in Creating : p = q
        /\ Creating # {} => file # "ready"
        /\ \A r, s \in rows : r.key = Sentinel /\ s.key = Sentinel => r.tip = s.tip
        /\ Deployers # {} => \A r \in rows : r.tip # BOOT_BLOCK_ID

LatestKept ==
    "overtaken" \notin faults =>
        /\ Latest(rows, latest)
        /\ \A p \in writer : ~Overtaken(p) => Latest(work, mine)

IInv == /\ TypeInv /\ KvOK(rows) /\ HeightsBounded /\ ClientsOK /\ WorkOK
        /\ FileOK /\ NoRivals /\ LatestKept

(* A load left at BOOT_BLOCK_ID is committed only where a rival's sentinel *)
(* gave it that tip, and nothing but the file is sure after it.            *)
Inv == IInv \/ (SentinelMoved /\ "rivals" \in faults /\ file = "ready")

-----------------------------------------------------------------------------
(* Constants.                                                              *)

LEMMA Constants ==
    /\ BOOT_BLOCK_ID \in Nat /\ BOOT_BLOCK_ID = MaxStarts + 2 /\ MaxStarts \in Nat
    /\ GENESIS_BLOCK_ID = 0
    /\ NoValue \notin Value /\ 0 \in Value /\ Value \subseteq Nat
    /\ Sentinel \in Key /\ KeyOf("ll", 0) \in Key /\ KeyOf("static", 0) \in Key
    /\ \A v \in Version : KeyOf("app", v) \in Key /\ KeyOf("app", v) # Sentinel
    /\ KeyOf("ll", 0) # Sentinel /\ KeyOf("static", 0) # Sentinel
    /\ KeyOf("ll", 0) # KeyOf("static", 0)
    /\ \A v \in Version : KeyOf("app", v) # KeyOf("static", 0) /\ KeyOf("app", v) # KeyOf("ll", 0)
<1>1. /\ BOOT_BLOCK_ID \in Nat /\ BOOT_BLOCK_ID = MaxStarts + 2 /\ MaxStarts \in Nat
      /\ GENESIS_BLOCK_ID = 0
      /\ NoValue \notin Value /\ 0 \in Value /\ Value \subseteq Nat
  BY PageStoreAssumption DEF BOOT_BLOCK_ID, GENESIS_BLOCK_ID, NoValue, Value
<1>2. /\ Sentinel \in Key /\ KeyOf("ll", 0) \in Key /\ KeyOf("static", 0) \in Key
      /\ \A v \in Version : KeyOf("app", v) \in Key
  BY DEF Key, KeyOf, Sentinel
<1>3. \A of1, of2, n1, n2 : of1 # of2 => KeyOf(of1, n1) # KeyOf(of2, n2)
  BY DEF KeyOf
<1> QED BY <1>1, <1>2, <1>3 DEF Sentinel

(* Largest and smallest numbers of a set.                                  *)
LEMMA LeastNat == ASSUME NEW S \in SUBSET Nat, S # {} PROVE \E x \in S : \A y \in S : x <= y
<1> DEFINE R == OpToRel(<, Nat)
<1>1. \A x, y \in Nat : <<x, y>> \in R <=> x < y
  BY DEF OpToRel
<1>2. IsWellFoundedOn(R, Nat)
  BY NatLessThanWellFounded
<1> HIDE DEF R
<1>3. PICK x \in S : \A y \in S : ~(<<y, x>> \in R)
  BY <1>2, WFMin
<1>4. ASSUME NEW y \in S PROVE x <= y
  <2>1. x \in Nat /\ y \in Nat
    OBVIOUS
  <2>2. ~(y < x)
    BY <1>1, <1>3, <2>1
  <2> QED BY <2>1, <2>2
<1> QED BY <1>4

LEMMA MinFacts ==
    ASSUME NEW S \in SUBSET Nat, S # {}
    PROVE  Min(S) \in S /\ \A y \in S : Min(S) <= y
BY LeastNat DEF Min

LEMMA MaxFacts ==
    ASSUME NEW S \in SUBSET Nat, S # {}, NEW b \in Nat, \A y \in S : y <= b
    PROVE  Max(S) \in S /\ \A y \in S : y <= Max(S)
<1> DEFINE U == {b - y : y \in S}
<1>1. U \in SUBSET Nat /\ U # {}
  <2>1. \A y \in S : b - y \in Nat
    OBVIOUS
  <2> QED BY <2>1
<1> HIDE DEF U
<1>2. PICK u \in U : \A w \in U : u <= w
  BY <1>1, LeastNat
<1>3. PICK x \in S : u = b - x
  BY <1>2 DEF U
<1>4. ASSUME NEW y \in S PROVE y <= x
  <2>1. b - y \in U
    BY DEF U
  <2>2. b - x <= b - y
    BY <1>2, <1>3, <2>1
  <2> QED BY <2>2
<1>5. \E z \in S : \A y \in S : z >= y
  BY <1>4
<1>6. \A y \in S : Max(S) >= y
  BY <1>5 DEF Max
<1>7. Max(S) \in S
  BY <1>5 DEF Max
<1> QED BY <1>6, <1>7

LEMMA Singles == \A n \in Nat : Max({n}) = n /\ Min({n}) = n
BY DEF Max, Min

-----------------------------------------------------------------------------
(* What the queries answer on a kvstore as it should be.                   *)

LEMMA RowFacts ==
    ASSUME NEW kv, KvOK(kv), NEW r \in kv
    PROVE  /\ r \in RowType /\ r.tip \in Nat /\ r.height \in Nat /\ r.key \in Key
           /\ r.val \in Value /\ r.height <= MaxStarts
           /\ r = Row(r.tip, r.height, r.key, r.val)
           /\ r.key # Sentinel => r.tip = r.height
           /\ r.tip # BOOT_BLOCK_ID => r.tip = r.height
           /\ r.height > 0 => r.tip = r.height
           /\ r.tip = BOOT_BLOCK_ID => r.height = 0 /\ r.key = Sentinel
<1>1. r \in RowType
  BY DEF KvOK
<1>2. /\ r.tip \in Nat /\ r.height \in Nat /\ r.key \in Key /\ r.val \in Value
      /\ r = Row(r.tip, r.height, r.key, r.val)
  BY <1>1 DEF RowType, Row
<1>3. \/ r.tip = r.height /\ r.height <= MaxStarts
      \/ r.tip = BOOT_BLOCK_ID /\ r.height = 0 /\ r.key = Sentinel
  BY DEF KvOK
<1> QED BY <1>1, <1>2, <1>3, Constants

LEMMA Highest ==
    ASSUME NEW kv, KvOK(kv)
    PROVE  LET H == tipless_get_highest_tip_height(kv)
           IN  /\ H \in Nat /\ \A r \in kv : r.height <= H
               /\ H = 0 \/ \E r \in kv : r.height = H
<1> DEFINE S == {r.height : r \in kv} \cup {0}
<1>1. S \in SUBSET Nat /\ S # {} /\ \A y \in S : y <= MaxStarts
  BY RowFacts, Constants
<1>2. Max(S) \in S /\ \A y \in S : y <= Max(S)
  BY <1>1, MaxFacts, Constants
<1>3. tipless_get_highest_tip_height(kv) = Max(S)
  BY DEF tipless_get_highest_tip_height
<1> QED BY <1>1, <1>2, <1>3

LEMMA BlockHeight ==
    ASSUME NEW kv, KvOK(kv), NEW tip, HasTip(kv, tip)
    PROVE  /\ tip \in Nat /\ tip <= MaxStarts /\ tip # BOOT_BLOCK_ID
           /\ get_wrb_block_height(kv, tip) = {tip}
           /\ next_height(kv, tip) = tip + 1
           /\ Max(tipless_get_block_height_of(kv, tip)) = tip
<1>1. tip \in Nat /\ tip <= MaxStarts /\ tip # BOOT_BLOCK_ID
  BY RowFacts, Constants DEF HasTip
<1>2. {r.height : r \in {x \in kv : x.tip = tip}} = {tip}
  <2>1. \A r \in kv : r.tip = tip => r.height = tip
    BY <1>1, RowFacts
  <2> QED BY <2>1 DEF HasTip
<1>3. get_wrb_block_height(kv, tip) = {tip}
  BY <1>1, <1>2, Singles DEF get_wrb_block_height
<1>4. next_height(kv, tip) = tip + 1
  BY <1>1, <1>3, Singles DEF next_height
<1>5. tipless_get_block_height_of(kv, tip) = {tip}
  BY <1>1, <1>3 DEF tipless_get_block_height_of
<1> QED BY <1>1, <1>3, <1>4, <1>5, Singles

(* A new load starts at the greatest height there is.                      *)
LEMMA ChainTip ==
    ASSUME NEW kv, KvOK(kv), HasTip(kv, GENESIS_BLOCK_ID)
    PROVE  HasTip(kv, get_wrb_chain_tip(kv))
<1> DEFINE H == tipless_get_highest_tip_height(kv)
           top == {x \in kv : x.height = H}
           T == {r.tip : r \in top}
<1>1. H \in Nat /\ (H = 0 \/ \E r \in kv : r.height = H)
  BY Highest
<1>2. kv # {}
  BY DEF HasTip
<1>3. get_wrb_chain_tip(kv) = Min(T)
  BY <1>2 DEF get_wrb_chain_tip
<1> HIDE DEF H
<1>4. PICK r \in kv : r.height = H /\ r.tip = H
  <2>1. CASE H = 0
    BY <2>1, Constants DEF HasTip
  <2>2. CASE H # 0
    <3>1. PICK r \in kv : r.height = H
      BY <1>1, <2>2
    <3>2. r.tip = r.height
      BY <1>1, <2>2, <3>1, RowFacts
    <3> QED BY <3>1, <3>2
  <2> QED BY <2>1, <2>2
<1>5. H \in T /\ T \in SUBSET Nat /\ H <= MaxStarts
  BY <1>4, RowFacts
<1>6. Min(T) \in T /\ Min(T) <= H /\ Min(T) \in Nat
  BY <1>5, MinFacts
<1>7. PICK s \in top : s.tip = Min(T)
  BY <1>6
<1>8. s.tip # BOOT_BLOCK_ID
  BY <1>1, <1>5, <1>6, <1>7, Constants
<1>9. s \in kv /\ s.height = s.tip
  BY <1>7, <1>8, RowFacts
<1> QED BY <1>3, <1>7, <1>9 DEF HasTip

(* A read answers from a row of the greatest height at or below its own.   *)
LEMMA GetHash ==
    ASSUME NEW kv, KvOK(kv), NEW h \in Nat, NEW k
    PROVE  \/ /\ get_hash(kv, h, k) = NoValue
              /\ \A r \in kv : r.key = k => r.height > h
           \/ \E r \in kv : /\ r.key = k /\ r.height <= h /\ get_hash(kv, h, k) = r.val
                            /\ \A s \in kv : s.key = k /\ s.height <= h => s.height <= r.height
<1> DEFINE seen == {r \in kv : r.key = k /\ r.height <= h}
<1>1. CASE seen = {}
  <2>1. \A r \in kv : r.height \in Nat
    BY RowFacts
  <2> QED BY <1>1, <2>1 DEF get_hash
<1>2. CASE seen # {}
  <2> DEFINE S == {r.height : r \in seen}
  <2>1. S \in SUBSET Nat /\ S # {} /\ \A y \in S : y <= MaxStarts
    BY <1>2, RowFacts
  <2>2. Max(S) \in S /\ \A y \in S : y <= Max(S)
    BY <2>1, MaxFacts, Constants
  <2>3. \E r \in seen : \A s \in seen : s.height <= r.height
    BY <2>2
  <2> DEFINE c == CHOOSE r \in seen : \A s \in seen : s.height <= r.height
  <2>4. c \in seen /\ \A s \in seen : s.height <= c.height
    BY <2>3
  <2>5. get_hash(kv, h, k) = c.val
    BY <1>2 DEF get_hash
  <2> HIDE DEF c
  <2> QED BY <2>4, <2>5
<1> QED BY <1>1, <1>2

(* The row of the greatest height is one, except for the sentinel.         *)
LEMMA GetHashIs ==
    ASSUME NEW kv, KvOK(kv), NEW h \in Nat, NEW r \in kv, r.height <= h,
           \A s \in kv : s.key = r.key /\ s.height <= h => s.height <= r.height,
           r.key # Sentinel \/ r.height > 0
    PROVE  get_hash(kv, h, r.key) = r.val
<1>1. PICK c \in kv : /\ c.key = r.key /\ c.height <= h /\ get_hash(kv, h, r.key) = c.val
                      /\ \A s \in kv : s.key = r.key /\ s.height <= h => s.height <= c.height
  BY GetHash, RowFacts
<1>2. c.height = r.height
  BY <1>1, RowFacts
<1>3. c.tip = r.tip
  BY <1>1, <1>2, RowFacts
<1>4. c = r
  BY <1>1, <1>2, <1>3 DEF KvOK
<1> QED BY <1>1, <1>4

LEMMA HasContractIs ==
    ASSUME NEW kv, KvOK(kv), NEW k
    PROVE  HasContract(kv, k) <=> \E r \in kv : r.key = k /\ r.height = 0
<1>1. \A r \in kv : r.height \in Nat /\ r.val # NoValue
  BY RowFacts, Constants
<1>2. 0 \in Nat
  OBVIOUS
<1> QED BY <1>1, <1>2, GetHash DEF HasContract

-----------------------------------------------------------------------------
(* What the writes do to a kvstore.                                        *)

LEMMA RowFields ==
    ASSUME NEW tip, NEW height, NEW key, NEW val
    PROVE  LET r == Row(tip, height, key, val)
           IN  /\ r.tip = tip /\ r.height = height /\ r.key = key /\ r.val = val
               /\ (tip \in Nat /\ height \in Nat /\ key \in Key /\ val \in Value => r \in RowType)
BY DEF Row, RowType

(* One row is written; only the row with its primary key is replaced.      *)
LEMMA ReplaceOne ==
    ASSUME NEW kv, KvOK(kv), NEW n \in RowType,
           \/ n.tip = n.height /\ n.height <= MaxStarts
           \/ n.tip = BOOT_BLOCK_ID /\ n.height = 0 /\ n.key = Sentinel
    PROVE  LET new == Replace(kv, {n})
           IN  /\ KvOK(new) /\ n \in new
               /\ \A r \in new : r = n \/ r \in kv
               /\ \A r \in kv : r \in new \/ (r.tip = n.tip /\ r.height = n.height /\ r.key = n.key)
               /\ \A r \in new : r.tip = n.tip /\ r.height = n.height /\ r.key = n.key => r = n
<1> DEFINE new == Replace(kv, {n})
<1>1. \A r : r \in new <=> \/ r = n
                           \/ r \in kv /\ ~(r.tip = n.tip /\ r.height = n.height /\ r.key = n.key)
  BY DEF Replace
<1> HIDE DEF new
<1>2. KvOK(new)
  BY <1>1 DEF KvOK
<1>3. QED BY <1>1, <1>2 DEF new

(* The keys that deploying version v writes.                               *)
NewKeys(kv, v) ==
    (IF HasContract(kv, KeyOf("ll", 0)) THEN {} ELSE {KeyOf("ll", 0)})
    \cup (IF HasContract(kv, KeyOf("app", v)) THEN {}
          ELSE {KeyOf("app", v)} \cup (IF v \in StaticVersion THEN {KeyOf("static", 0)} ELSE {}))

LEMMA AppRowsAre ==
    ASSUME NEW kv, KvOK(kv), NEW v \in Version
    PROVE  /\ \A r : r \in AppRows(kv, v) <=>
                        r \in kv \/ \E k \in NewKeys(kv, v) : r = Row(BOOT_BLOCK_ID, 0, k, 0)
           /\ NewKeys(kv, v) \subseteq Key \ {Sentinel}
<1>1. NewKeys(kv, v) \subseteq Key \ {Sentinel}
  BY Constants DEF NewKeys
<1>2. next_height(kv, BOOT_BLOCK_ID) - 1 = 0
  <2> DEFINE hs == {r.height : r \in {x \in kv : x.tip = BOOT_BLOCK_ID}}
  <2>1. \A h \in hs : h = 0
    BY RowFacts
  <2>2. hs = {} \/ hs = {0}
    BY <2>1
  <2>3. get_wrb_block_height(kv, BOOT_BLOCK_ID) = {}
        \/ get_wrb_block_height(kv, BOOT_BLOCK_ID) = {0}
    BY <2>2, Singles DEF get_wrb_block_height
  <2> QED BY <2>3, Singles DEF next_height
<1> DEFINE new == {Row(BOOT_BLOCK_ID, 0, k, 0) : k \in NewKeys(kv, v)}
<1>3. AppRows(kv, v) = Replace(kv, new)
  <2>1. Deployed(kv, v) = {[key |-> k, val |-> 0] : k \in NewKeys(kv, v)}
    BY DEF Deployed, NewKeys
  <2>2. AppRows(kv, v) = Replace(kv, {Row(BOOT_BLOCK_ID, 0, p.key, p.val) : p \in Deployed(kv, v)})
    BY <1>2 DEF AppRows, dump
  <2>3. {Row(BOOT_BLOCK_ID, 0, p.key, p.val) : p \in Deployed(kv, v)} = new
    <3>1. ASSUME NEW p \in Deployed(kv, v) PROVE Row(BOOT_BLOCK_ID, 0, p.key, p.val) \in new
      <4>1. PICK k \in NewKeys(kv, v) : p = [key |-> k, val |-> 0]
        BY <2>1
      <4> QED BY <4>1
    <3>2. ASSUME NEW k \in NewKeys(kv, v)
          PROVE  \E p \in Deployed(kv, v) :
                    Row(BOOT_BLOCK_ID, 0, k, 0) = Row(BOOT_BLOCK_ID, 0, p.key, p.val)
      <4>1. [key |-> k, val |-> 0] \in Deployed(kv, v)
        BY <2>1
      <4> QED BY <4>1
    <3> QED BY <3>1, <3>2
  <2> QED BY <2>2, <2>3
<1>4. \A r \in kv : \A n \in new : <<r.tip, r.height, r.key>> # <<n.tip, n.height, n.key>>
  <2> SUFFICES ASSUME NEW r \in kv, NEW k \in NewKeys(kv, v)
               PROVE  ~(r.tip = BOOT_BLOCK_ID /\ r.key = k)
    BY RowFields
  <2> QED BY <1>1, RowFacts
<1>5. Replace(kv, new) = kv \cup new
  BY <1>4 DEF Replace
<1> QED BY <1>1, <1>3, <1>5

(***************************************************************************)
(* A deployment that is not refused: the rows stay, boot sentinels move to *)
(* the genesis tip, and what is new are rows of height 0 for keys that had *)
(* none there.                                                             *)
(***************************************************************************)
LEMMA Deploy ==
    ASSUME NEW kv, KvOK(kv), NEW v \in Version,
           ~update_fails(AppRows(kv, v), BOOT_BLOCK_ID, GENESIS_BLOCK_ID)
    PROVE  LET out == commit_to(AppRows(kv, v))
           IN  /\ KvOK(out) /\ HasTip(out, GENESIS_BLOCK_ID)
               /\ \A r \in kv : r.tip # BOOT_BLOCK_ID => r \in out
               /\ \A r \in out :
                     \/ r \in kv /\ r.tip # BOOT_BLOCK_ID
                     \/ /\ r.tip = 0 /\ r.height = 0 /\ r.key = Sentinel
                        /\ \E s \in kv : /\ s.key = Sentinel /\ s.tip = BOOT_BLOCK_ID
                                         /\ s.height = 0 /\ s.val = r.val
                     \/ /\ r.tip = 0 /\ r.height = 0 /\ r.key # Sentinel /\ r.val = 0
                        /\ \A s \in kv : s.key = r.key => s.height # 0
<1> DEFINE A == AppRows(kv, v)
           out == commit_to(A)
           to0(r) == [r EXCEPT !.tip = IF r.tip = BOOT_BLOCK_ID THEN GENESIS_BLOCK_ID ELSE r.tip]
<1>1. /\ \A r : r \in A <=> r \in kv \/ \E k \in NewKeys(kv, v) : r = Row(BOOT_BLOCK_ID, 0, k, 0)
      /\ NewKeys(kv, v) \subseteq Key \ {Sentinel}
  BY AppRowsAre
<1>2. BOOT_BLOCK_ID # GENESIS_BLOCK_ID /\ GENESIS_BLOCK_ID = 0
  BY Constants
<1>3. \A r, s \in A : r.tip = BOOT_BLOCK_ID /\ s.tip = 0 => ~(r.height = s.height /\ r.key = s.key)
  BY <1>2 DEF update_fails
<1>4. \A r \in A : r = Row(r.tip, r.height, r.key, r.val) /\ r \in RowType
                   /\ (r.tip = BOOT_BLOCK_ID => r.height = 0)
                   /\ (r.tip # BOOT_BLOCK_ID => r \in kv /\ r.tip = r.height)
  <2>1. \A k \in Key : LET r == Row(BOOT_BLOCK_ID, 0, k, 0)
                       IN  /\ r = Row(r.tip, r.height, r.key, r.val) /\ r \in RowType
                           /\ r.tip = BOOT_BLOCK_ID /\ r.height = 0
    BY RowFields, Constants
  <2> QED BY <1>1, <2>1, RowFacts
<1>5. out = {to0(r) : r \in A}
  BY DEF commit_to, Renamed
<1>6. \A r \in A : /\ to0(r).height = r.height /\ to0(r).key = r.key /\ to0(r).val = r.val
                   /\ to0(r).tip = r.height
                   /\ r.tip # BOOT_BLOCK_ID => to0(r) = r
                   /\ to0(r) \in RowType
  BY <1>2, <1>4 DEF Row, RowType
<1> HIDE DEF A, out, to0
<1>7. ASSUME NEW r \in A, NEW s \in A, r.height = s.height, r.key = s.key PROVE r = s
  <2>1. r.height \in Nat /\ r.tip \in Nat /\ s.tip \in Nat
    BY <1>4 DEF RowType
  <2>2. CASE r.tip = s.tip
    <3>1. CASE r \in kv /\ s \in kv
      BY <1>7, <2>2, <3>1 DEF KvOK
    <3>2. CASE r \notin kv
      <4>1. PICK k \in NewKeys(kv, v) : r = Row(BOOT_BLOCK_ID, 0, k, 0)
        BY <1>1, <3>2 DEF A
      <4>2. r.tip = BOOT_BLOCK_ID /\ r.key = k /\ k # Sentinel
        BY <1>1, <4>1, RowFields
      <4>3. s \notin kv
        BY <1>7, <2>2, <4>2, RowFacts
      <4>4. PICK j \in NewKeys(kv, v) : s = Row(BOOT_BLOCK_ID, 0, j, 0)
        BY <1>1, <4>3 DEF A
      <4>5. s.key = j
        BY <4>4, RowFields
      <4> QED BY <1>7, <4>1, <4>2, <4>4, <4>5
    <3>3. CASE s \notin kv
      <4>1. PICK k \in NewKeys(kv, v) : s = Row(BOOT_BLOCK_ID, 0, k, 0)
        BY <1>1, <3>3 DEF A
      <4>2. s.tip = BOOT_BLOCK_ID /\ s.key = k /\ k # Sentinel
        BY <1>1, <4>1, RowFields
      <4>3. r \notin kv
        BY <1>7, <2>2, <4>2, RowFacts
      <4> QED BY <3>2, <4>3
    <3> QED BY <3>1, <3>2, <3>3
  <2>3. CASE r.tip # s.tip
    <3>1. r.tip = BOOT_BLOCK_ID \/ s.tip = BOOT_BLOCK_ID
      BY <1>4, <1>7, <2>3
    <3>2. r.height = 0
      BY <1>4, <1>7, <3>1
    <3> QED BY <1>3, <1>4, <1>7, <2>3, <3>1, <3>2
  <2> QED BY <2>2, <2>3
<1>8. KvOK(out)
  <2>1. out \subseteq RowType
    BY <1>5, <1>6
  <2>2. \A r \in out : r.tip = r.height /\ r.height <= MaxStarts
    <3>1. \A r \in A : r.height <= MaxStarts
      BY <1>4, RowFacts, Constants
    <3> QED BY <1>5, <1>6, <3>1
  <2>3. \A r, s \in out : (r.tip = s.tip /\ r.height = s.height /\ r.key = s.key) => r = s
    BY <1>5, <1>6, <1>7
  <2> QED BY <2>1, <2>2, <2>3 DEF KvOK
<1>9. \A r \in kv : r.tip # BOOT_BLOCK_ID => r \in out
  BY <1>1, <1>5, <1>6 DEF A
<1>10. HasTip(out, GENESIS_BLOCK_ID)
  <2>1. CASE HasContract(kv, KeyOf("ll", 0))
    <3>1. PICK r \in kv : r.key = KeyOf("ll", 0) /\ r.height = 0
      BY <2>1, HasContractIs
    <3>2. r.tip = 0
      BY <3>1, RowFacts, Constants
    <3> QED BY <1>2, <1>9, <3>1, <3>2 DEF HasTip
  <2>2. CASE ~HasContract(kv, KeyOf("ll", 0))
    <3>1. Row(BOOT_BLOCK_ID, 0, KeyOf("ll", 0), 0) \in A
      BY <1>1, <2>2 DEF NewKeys, A
    <3>2. Row(BOOT_BLOCK_ID, 0, KeyOf("ll", 0), 0).height = 0
      BY RowFields
    <3> QED BY <1>2, <1>5, <1>6, <3>1, <3>2 DEF HasTip
  <2> QED BY <2>1, <2>2
<1>11. ASSUME NEW q \in out
       PROVE  \/ q \in kv /\ q.tip # BOOT_BLOCK_ID
              \/ /\ q.tip = 0 /\ q.height = 0 /\ q.key = Sentinel
                 /\ \E s \in kv : /\ s.key = Sentinel /\ s.tip = BOOT_BLOCK_ID
                                  /\ s.height = 0 /\ s.val = q.val
              \/ /\ q.tip = 0 /\ q.height = 0 /\ q.key # Sentinel /\ q.val = 0
                 /\ \A s \in kv : s.key = q.key => s.height # 0
  <2>1. PICK r \in A : q = to0(r)
    BY <1>5
  <2>2. CASE r.tip # BOOT_BLOCK_ID
    BY <1>4, <1>6, <2>1, <2>2
  <2>3. CASE r.tip = BOOT_BLOCK_ID /\ r \in kv
    BY <1>4, <1>6, <2>1, <2>3, RowFacts
  <2>4. CASE r \notin kv
    <3>1. PICK k \in NewKeys(kv, v) : r = Row(BOOT_BLOCK_ID, 0, k, 0)
      BY <1>1, <2>4 DEF A
    <3>2. r.tip = BOOT_BLOCK_ID /\ r.height = 0 /\ r.key = k /\ r.val = 0 /\ k # Sentinel
      BY <1>1, <3>1, RowFields
    <3>3. q.tip = 0 /\ q.height = 0 /\ q.key = k /\ q.val = 0
      BY <1>6, <2>1, <3>2
    <3>4. ASSUME NEW s \in kv, s.key = k, s.height = 0 PROVE FALSE
      <4>1. s.tip = 0
        BY <3>2, <3>4, RowFacts
      <4>2. s \in A
        BY <1>1 DEF A
      <4> QED BY <1>3, <3>2, <3>4, <4>1, <4>2
    <3> QED BY <3>2, <3>3, <3>4
  <2> QED BY <2>2, <2>3, <2>4
<1> QED BY <1>8, <1>9, <1>10, <1>11 DEF out, A

-----------------------------------------------------------------------------
(* Facts the steps share: process p goes on as c.                          *)

LEMMA Facts ==
    ASSUME IInv
    PROVE  /\ KvOK(rows) /\ client \in [Proc -> ClientType] /\ writer \subseteq Proc
           /\ nstarts \in Nat /\ nstarts <= MaxStarts /\ nputs \in Nat /\ MaxPuts \in Nat
           /\ \A p \in Proc : client[p] \in ClientType
           /\ \A p \in Proc : ClientOK(client[p], rows) /\ (client[p].pc = "load" <=> p \in writer)
           /\ \A p, q \in writer : p = q
BY PageStoreAssumption, Constants DEF IInv, TypeInv, ClientsOK

LEMMA ClientsStep ==
    ASSUME IInv, NEW p \in Proc, NEW c \in ClientType, client' = [client EXCEPT ![p] = c],
           ClientOK(c, rows'), c.pc = "load" <=> p \in writer',
           \A t : HasTip(rows, t) => HasTip(rows', t),
           \/ writer' = writer
           \/ writer = {} /\ writer' = {p}
           \/ p \in writer /\ writer' = {}
    PROVE  ClientsOK' /\ client' \in [Proc -> ClientType] /\ writer' \subseteq Proc
<1>1. client' \in [Proc -> ClientType] /\ writer' \subseteq Proc
  BY Facts
<1>2. ASSUME NEW q \in Proc
      PROVE  ClientOK(client'[q], rows') /\ (client'[q].pc = "load" <=> q \in writer')
  <2>1. CASE q = p
    BY <2>1, Facts
  <2>2. CASE q # p
    <3>1. client'[q] = client[q]
      BY <2>2, Facts
    <3>2. ClientOK(client[q], rows')
      BY Facts DEF ClientOK
    <3>3. q \in writer' <=> q \in writer
      BY <2>2, Facts
    <3> QED BY <3>1, <3>2, <3>3, Facts
  <2> QED BY <2>1, <2>2
<1>3. \A q, r \in writer' : q = r
  BY Facts
<1> QED BY <1>1, <1>2, <1>3 DEF ClientsOK

(* Every step but the start of a process.                                  *)
LEMMA BoundStep ==
    ASSUME IInv, NEW p \in Proc, NEW c \in ClientType, client' = [client EXCEPT ![p] = c],
           client[p].pc # "down", nstarts' = nstarts,
           \A r \in rows' : \/ r.height = 0
                            \/ r \in rows
                            \/ /\ c.pc = "down" /\ r.height \in Nat
                               /\ r.height + Cardinality(Active) <= nstarts + 1
    PROVE  HeightsBounded'
<1>1. /\ IsFiniteSet(Active) /\ Cardinality(Active) \in Nat /\ Cardinality(Active) <= nstarts
      /\ \A r \in rows : r.height \in Nat /\ r.height + Cardinality(Active) <= nstarts
      /\ nstarts \in Nat
  BY FS_CardinalityType, Facts, RowFacts DEF IInv, HeightsBounded
<1>2. p \in Active
  BY DEF Active
<1>3. CASE c.pc # "down"
  <2>1. Active' = Active
    BY <1>2, <1>3, Facts DEF Active
  <2> QED BY <1>1, <1>3, <2>1 DEF HeightsBounded
<1>4. CASE c.pc = "down"
  <2>1. Active' = Active \ {p}
    BY <1>2, <1>4, Facts DEF Active
  <2>2. IsFiniteSet(Active') /\ Cardinality(Active') = Cardinality(Active) - 1
    BY <1>1, <1>2, <2>1, FS_RemoveElement
  <2> QED BY <1>1, <2>2 DEF HeightsBounded
<1> QED BY <1>3, <1>4

LEMMA OvertakenIs ==
    ASSUME IInv, NEW p \in Proc
    PROVE  ~Overtaken(p) <=> \A r \in rows : r.height <= client[p].next_tip
<1>1. client[p].next_tip \in Nat
  BY Facts DEF ClientType
<1>2. KvOK(rows) /\ \A r \in rows : r.height \in Nat
  BY Facts, RowFacts
<1> DEFINE H == tipless_get_highest_tip_height(rows)
<1>3. H \in Nat /\ (\A r \in rows : r.height <= H) /\ (H = 0 \/ \E r \in rows : r.height = H)
  BY <1>2, Highest
<1>4. Overtaken(p) <=> H > client[p].next_tip
  BY DEF Overtaken
<1> HIDE DEF H
<1> QED BY <1>1, <1>2, <1>3, <1>4

(* Steps that change neither the database nor a load.                      *)
LEMMA LoadsSame ==
    ASSUME IInv, UNCHANGED <<rows, writer, work, latest, mine>>,
           \A q \in writer : client'[q].next_tip = client[q].next_tip,
           faults \subseteq faults'
    PROVE  KvOK(rows') /\ WorkOK' /\ LatestKept'
<1>1. KvOK(rows')
  BY Facts
<1>2. WorkOK'
  BY DEF IInv, WorkOK
<1>3. LatestKept'
  BY DEF IInv, LatestKept, Overtaken
<1> QED BY <1>1, <1>2, <1>3

(* Steps outside a load that write to the database.                        *)
LEMMA NoLoad ==
    ASSUME writer' = {}, "overtaken" \notin faults' => Latest(rows', latest')
    PROVE  WorkOK' /\ LatestKept'
BY DEF WorkOK, LatestKept

-----------------------------------------------------------------------------
(* Creating the file.                                                      *)

LEMMA IdleFacts == Idle \in ClientType /\ Idle.pc = "down" /\ \A kv : ClientOK(Idle, kv)
<1>1. Idle \in ClientType /\ Idle.pc = "down"
  BY DEF Idle, ClientType
<1> QED BY <1>1 DEF ClientOK

LEMMA SetupStep ==
    ASSUME IInv, NEW p \in Proc, NEW v \in Version, setup_db(p, v)
    PROVE  IInv'
<1> DEFINE pc == CASE file = "absent" -> "create"
                   [] file = "empty" -> "down"
                   [] file = "ready" -> "opened"
           c == [Idle EXCEPT !.pc = pc, !.version = v]
<1>1. /\ client[p].pc = "down" /\ nstarts < MaxStarts /\ nstarts' = nstarts + 1
      /\ client' = [client EXCEPT ![p] = c]
      /\ faults' = faults \cup (IF file = "absent" /\ Creating # {} THEN {"rivals"} ELSE {})
      /\ UNCHANGED <<file, rows, writer, work, latest, mine, nputs>>
  BY DEF setup_db, store
<1>2. /\ file \in {"absent", "empty", "ready"} /\ pc \in {"create", "down", "opened"}
      /\ file = "absent" <=> pc = "create"
      /\ file = "ready" <=> pc = "opened"
  BY DEF IInv, TypeInv
<1>3. c \in ClientType /\ c.pc = pc /\ c.version = v
  BY <1>2 DEF Idle, ClientType
<1> HIDE DEF pc, c
<1>4. ClientOK(c, rows') /\ (c.pc = "load" <=> p \in writer')
  BY <1>1, <1>2, <1>3, Facts DEF ClientOK
<1>5. ClientsOK' /\ client' \in [Proc -> ClientType] /\ writer' \subseteq Proc
  BY <1>1, <1>3, <1>4, ClientsStep
<1>6. TypeInv'
  BY <1>1, <1>5, Facts, Constants DEF IInv, TypeInv
<1>7. \A q \in writer : client'[q].next_tip = client[q].next_tip
  BY <1>1, Facts
<1>8. KvOK(rows') /\ WorkOK' /\ LatestKept'
  BY <1>1, <1>7, LoadsSame
<1>9. HeightsBounded'
  <2>1. /\ IsFiniteSet(Active) /\ Cardinality(Active) \in Nat /\ Cardinality(Active) <= nstarts
        /\ \A r \in rows : r.height \in Nat /\ r.height + Cardinality(Active) <= nstarts
        /\ nstarts \in Nat /\ rows' = rows /\ nstarts' = nstarts + 1
    BY <1>1, FS_CardinalityType, Facts, RowFacts DEF IInv, HeightsBounded
  <2>2. p \notin Active
    BY <1>1 DEF Active
  <2>3. Active' = Active \/ Active' = Active \cup {p}
    BY <1>1, <2>2, Facts DEF Active
  <2>4. IsFiniteSet(Active') /\ Cardinality(Active') \in {Cardinality(Active), Cardinality(Active) + 1}
    BY <2>1, <2>2, <2>3, FS_AddElement
  <2> QED BY <2>1, <2>4 DEF HeightsBounded
<1>10. \A q \in Proc : q # p => client'[q] = client[q]
  BY <1>1, Facts
<1>11. client'[p].pc = pc
  BY <1>1, <1>3, Facts
<1>12. FileOK'
  BY <1>1, <1>2, <1>10, <1>11 DEF IInv, FileOK
<1>13. NoRivals'
  <2> SUFFICES ASSUME "rivals" \notin faults' PROVE
                 /\ \A q, r \in Creating' : q = r
                 /\ Creating' # {} => file' # "ready"
                 /\ \A r, s \in rows' : r.key = Sentinel /\ s.key = Sentinel => r.tip = s.tip
                 /\ Deployers' # {} => \A r \in rows' : r.tip # BOOT_BLOCK_ID
    BY DEF NoRivals, BOOT_BLOCK_ID
  <2>0. Deployers' \subseteq Deployers
    BY <1>2, <1>10, <1>11 DEF Deployers
  <2>1. "rivals" \notin faults /\ (file = "absent" => Creating = {})
    BY <1>1
  <2>2. Creating' \subseteq Creating \cup {p}
    BY <1>10 DEF Creating
  <2>3. CASE pc = "create"
    BY <1>1, <1>2, <2>0, <2>1, <2>2, <2>3 DEF IInv, NoRivals
  <2>4. CASE pc # "create"
    <3>1. p \notin Creating'
      BY <1>2, <1>11, <2>4 DEF Creating
    <3> QED BY <1>1, <2>0, <2>1, <2>2, <3>1 DEF IInv, NoRivals
  <2> QED BY <2>3, <2>4
<1> QED BY <1>5, <1>6, <1>8, <1>9, <1>12, <1>13 DEF IInv

LEMMA CreateFileStep ==
    ASSUME IInv, NEW p \in Proc, create_file(p)
    PROVE  IInv'
<1> DEFINE pc == IF file = "ready" THEN "opened" ELSE "schema"
           c == [client[p] EXCEPT !.pc = pc]
<1>1. /\ client[p].pc = "create"
      /\ file' = IF file = "absent" THEN "empty" ELSE file
      /\ client' = [client EXCEPT ![p] = c]
      /\ UNCHANGED <<rows, writer, work, latest, mine, faults, nputs, nstarts>>
  BY DEF create_file, store
<1>2. c \in ClientType /\ c.pc = pc /\ c.version = client[p].version
  BY Facts DEF ClientType
<1>3. pc \in {"opened", "schema"}
  OBVIOUS
<1>4. p \notin writer
  BY <1>1, Facts
<1>5. file = "ready" <=> pc = "opened"
  OBVIOUS
<1> HIDE DEF c, pc
<1>6. ClientOK(c, rows') /\ (c.pc = "load" <=> p \in writer')
  BY <1>1, <1>2, <1>3, <1>4, Facts DEF ClientOK
<1>7. ClientsOK' /\ client' \in [Proc -> ClientType] /\ writer' \subseteq Proc
  BY <1>1, <1>2, <1>6, ClientsStep
<1>8. TypeInv'
  BY <1>1, <1>7 DEF IInv, TypeInv
<1>9. \A q \in writer : client'[q].next_tip = client[q].next_tip
  BY <1>1, <1>4, Facts
<1>10. KvOK(rows') /\ WorkOK' /\ LatestKept'
  BY <1>1, <1>9, LoadsSame
<1>11. HeightsBounded'
  BY <1>1, <1>2, BoundStep
<1>12. \A q \in Proc : q # p => client'[q] = client[q]
  BY <1>1, Facts
<1>13. client'[p].pc = pc
  BY <1>1, <1>2, Facts
<1>14. FileOK'
  BY <1>1, <1>3, <1>5, <1>12, <1>13 DEF IInv, FileOK
<1>15. NoRivals'
  <2>1. Creating' \subseteq Creating
    BY <1>1, <1>12 DEF Creating
  <2>2. file' = "ready" => file = "ready"
    BY <1>1
  <2>3. Deployers' \subseteq Deployers
    BY <1>3, <1>12, <1>13 DEF Deployers
  <2> QED BY <1>1, <2>1, <2>2, <2>3 DEF IInv, NoRivals, BOOT_BLOCK_ID
<1> QED BY <1>7, <1>8, <1>10, <1>11, <1>14, <1>15 DEF IInv

LEMMA CreateSchemaStep ==
    ASSUME IInv, NEW p \in Proc, create_schema(p)
    PROVE  IInv'
<1> DEFINE c == [client[p] EXCEPT !.pc = "opened"]
           n == Row(BOOT_BLOCK_ID, 0, Sentinel, 0)
<1>1. /\ client[p].pc = "schema" /\ writer = {} /\ file' = "ready"
      /\ rows' = Replace(rows, {n})
      /\ client' = [client EXCEPT ![p] = c]
      /\ UNCHANGED <<writer, work, latest, mine, faults, nputs, nstarts>>
  BY DEF create_schema
<1>2. c \in ClientType /\ c.pc = "opened" /\ c.version = client[p].version
  BY Facts DEF ClientType
<1>3. n \in RowType /\ n.tip = BOOT_BLOCK_ID /\ n.height = 0 /\ n.key = Sentinel /\ n.val = 0
  BY RowFields, Constants
<1> HIDE DEF c, n
<1>4. /\ KvOK(rows') /\ n \in rows'
      /\ \A r \in rows' : r = n \/ r \in rows
      /\ \A r \in rows : r \in rows' \/ (r.tip = n.tip /\ r.height = n.height /\ r.key = n.key)
  BY <1>1, <1>3, Facts, ReplaceOne
<1>5. \A t : HasTip(rows, t) => HasTip(rows', t)
  <2> SUFFICES ASSUME NEW t, NEW r \in rows, r.tip = t, r.height = t PROVE r \in rows'
    BY DEF HasTip
  <2> QED BY <1>3, <1>4, Facts, RowFacts, Constants
<1>6. ClientOK(c, rows') /\ (c.pc = "load" <=> p \in writer')
  BY <1>1, <1>2, Facts DEF ClientOK
<1>7. ClientsOK' /\ client' \in [Proc -> ClientType] /\ writer' \subseteq Proc
  BY <1>1, <1>2, <1>5, <1>6, ClientsStep
<1>8. TypeInv'
  BY <1>1, <1>7 DEF IInv, TypeInv
<1>9. HeightsBounded'
  BY <1>1, <1>2, <1>3, <1>4, BoundStep
<1>10. ASSUME Latest(rows, latest) PROVE Latest(rows', latest')
  <2> SUFFICES ASSUME NEW k \in Key
               PROVE  /\ latest[k] = NoValue => \A r \in rows' : r.key = k => r.height = 0 /\ r.val = 0
                      /\ latest[k] # NoValue =>
                           \E r \in rows' : /\ r.key = k /\ r.val = latest[k] /\ r.height > 0
                                            /\ \A s \in rows' : s.key = k => s.height <= r.height
    BY <1>1 DEF Latest
  <2>1. CASE latest[k] = NoValue
    BY <1>3, <1>4, <1>10, <2>1 DEF Latest
  <2>2. CASE latest[k] # NoValue
    <3>1. PICK r \in rows : /\ r.key = k /\ r.val = latest[k] /\ r.height > 0
                            /\ \A s \in rows : s.key = k => s.height <= r.height
      BY <1>10, <2>2 DEF Latest
    <3>2. r.height \in Nat /\ r \in rows'
      BY <1>3, <1>4, <3>1, Facts, RowFacts
    <3>3. \A s \in rows' : s.key = k => s.height <= r.height
      BY <1>3, <1>4, <3>1, <3>2
    <3> QED BY <2>2, <3>1, <3>2, <3>3
  <2> QED BY <2>1, <2>2
<1>11. WorkOK' /\ LatestKept'
  BY <1>1, <1>10, NoLoad DEF IInv, LatestKept
<1>12. FileOK'
  BY <1>1 DEF FileOK
<1>13. \A q \in Proc : q # p => client'[q] = client[q]
  BY <1>1, Facts
<1>14. client'[p].pc = "opened"
  BY <1>1, <1>2, Facts
<1>15. NoRivals'
  <2> SUFFICES ASSUME "rivals" \notin faults PROVE
                 /\ Creating' = {} /\ Deployers' = {}
                 /\ \A r, s \in rows' : r.key = Sentinel /\ s.key = Sentinel => r.tip = s.tip
    BY <1>1 DEF NoRivals
  <2>1. p \in Creating
    BY <1>1 DEF Creating
  <2>2. \A q \in Creating : q = p
    BY <2>1 DEF IInv, NoRivals
  <2>3. Creating' = {}
    BY <1>13, <1>14, <2>2 DEF Creating
  <2>4. file # "ready"
    BY <2>1 DEF IInv, NoRivals
  <2>5. rows = {} /\ Deployers = {}
    BY <2>4 DEF IInv, FileOK, Deployers
  <2>6. Deployers' = {}
    BY <1>13, <1>14, <2>5 DEF Deployers
  <2> QED BY <1>4, <2>3, <2>5, <2>6
<1> QED BY <1>4, <1>7, <1>8, <1>9, <1>11, <1>12, <1>15 DEF IInv

-----------------------------------------------------------------------------
(* Deployment, loads and crashes.                                          *)

(* A step of a process that holds no transaction, with the database as it  *)
(* was.                                                                    *)
LEMMA OutsideStep ==
    ASSUME IInv, NEW p \in Proc, NEW c \in ClientType, client' = [client EXCEPT ![p] = c],
           client[p].pc # "down", p \notin writer,
           c.pc = "down" \/ (c.pc \in {"ready", "tip"} /\ p \in Deployers),
           ClientOK(c, rows), client[p].pc \in {"create", "schema"} => c.pc = "down",
           faults \subseteq faults', client[p].pc = "schema" => "crash" \in faults',
           UNCHANGED <<file, rows, writer, work, latest, mine, nputs, nstarts>>
    PROVE  IInv'
<1>1. ClientsOK' /\ client' \in [Proc -> ClientType] /\ writer' \subseteq Proc
  BY ClientsStep
<1>2. TypeInv'
  BY <1>1 DEF IInv, TypeInv
<1>3. \A q \in Proc : q # p => client'[q] = client[q]
  BY Facts
<1>4. client'[p] = c
  BY Facts
<1>5. KvOK(rows') /\ WorkOK' /\ LatestKept'
  BY <1>3, Facts, LoadsSame
<1>6. HeightsBounded'
  BY BoundStep
<1>7. FileOK'
  BY <1>3, <1>4, Facts DEF IInv, FileOK
<1>8. NoRivals'
  <2>1. Creating' \subseteq Creating /\ Deployers' \subseteq Deployers
    BY <1>3, <1>4 DEF Creating, Deployers
  <2> QED BY <2>1 DEF IInv, NoRivals, BOOT_BLOCK_ID
<1> QED BY <1>1, <1>2, <1>5, <1>6, <1>7, <1>8 DEF IInv

LEMMA InitializeStep ==
    ASSUME IInv, NEW p \in Proc, initialize_app(p)
    PROVE  IInv'
<1> DEFINE v == client[p].version
           c == [client[p] EXCEPT !.pc = "ready"]
<1>1. /\ client[p].pc = "opened" /\ writer = {}
      /\ UNCHANGED <<file, writer, work, latest, mine, faults, nputs, nstarts>>
  BY DEF initialize_app
<1>2. v \in Version
  BY <1>1, Facts DEF ClientOK
<1>3. CASE InitFails(v)
  <2>1. rows' = rows /\ client' = [client EXCEPT ![p] = Idle]
    BY <1>3 DEF initialize_app
  <2> QED BY <1>1, <2>1, IdleFacts, OutsideStep
<1>4. CASE ~InitFails(v)
  <2>1. rows' = commit_to(AppRows(rows, v)) /\ client' = [client EXCEPT ![p] = c]
    BY <1>4 DEF initialize_app
  <2>2. c \in ClientType /\ c.pc = "ready" /\ c.version = v
    BY Facts DEF ClientType
  <2> HIDE DEF c, v
  <2>3. /\ KvOK(rows') /\ HasTip(rows', GENESIS_BLOCK_ID)
        /\ \A r \in rows : r.tip # BOOT_BLOCK_ID => r \in rows'
        /\ \A r \in rows' :
              \/ r \in rows /\ r.tip # BOOT_BLOCK_ID
              \/ /\ r.tip = 0 /\ r.height = 0 /\ r.key = Sentinel
                 /\ \E s \in rows : /\ s.key = Sentinel /\ s.tip = BOOT_BLOCK_ID
                                    /\ s.height = 0 /\ s.val = r.val
              \/ /\ r.tip = 0 /\ r.height = 0 /\ r.key # Sentinel /\ r.val = 0
                 /\ \A s \in rows : s.key = r.key => s.height # 0
    BY <1>2, <1>4, <2>1, Facts, Deploy DEF InitFails
  <2>4. \A t : HasTip(rows, t) => HasTip(rows', t)
    <3> SUFFICES ASSUME NEW t, NEW r \in rows, r.tip = t, r.height = t PROVE r \in rows'
      BY DEF HasTip
    <3> QED BY <2>3, Facts, RowFacts, Constants
  <2>5. ClientOK(c, rows') /\ (c.pc = "load" <=> p \in writer')
    BY <1>1, <1>2, <2>2, <2>3 DEF ClientOK
  <2>6. ClientsOK' /\ client' \in [Proc -> ClientType] /\ writer' \subseteq Proc
    BY <1>1, <2>1, <2>2, <2>4, <2>5, ClientsStep
  <2>7. TypeInv'
    BY <1>1, <2>6 DEF IInv, TypeInv
  <2>8. HeightsBounded'
    BY <1>1, <2>1, <2>2, <2>3, BoundStep
  <2>9. ASSUME Latest(rows, latest) PROVE Latest(rows', latest')
    <3> SUFFICES ASSUME NEW k \in Key
                 PROVE  /\ latest[k] = NoValue => \A r \in rows' : r.key = k => r.height = 0 /\ r.val = 0
                        /\ latest[k] # NoValue =>
                             \E r \in rows' : /\ r.key = k /\ r.val = latest[k] /\ r.height > 0
                                              /\ \A s \in rows' : s.key = k => s.height <= r.height
      BY <1>1 DEF Latest
    <3>1. CASE latest[k] = NoValue
      BY <2>3, <2>9, <3>1 DEF Latest
    <3>2. CASE latest[k] # NoValue
      <4>1. PICK r \in rows : /\ r.key = k /\ r.val = latest[k] /\ r.height > 0
                              /\ \A s \in rows : s.key = k => s.height <= r.height
        BY <2>9, <3>2 DEF Latest
      <4>2. r.height \in Nat /\ r.tip # BOOT_BLOCK_ID
        BY <4>1, Facts, RowFacts
      <4>3. \A s \in rows' : s.key = k => s.height <= r.height
        BY <2>3, <4>1, <4>2
      <4> QED BY <2>3, <3>2, <4>1, <4>2, <4>3
    <3> QED BY <3>1, <3>2
  <2>10. WorkOK' /\ LatestKept'
    BY <1>1, <2>9, NoLoad DEF IInv, LatestKept
  <2>11. FileOK'
    <3>1. file = "ready"
      BY <1>1 DEF IInv, FileOK
    <3> QED BY <1>1, <3>1 DEF FileOK
  <2>12. NoRivals'
    <3>1. Creating' \subseteq Creating
      BY <2>1, <2>2, Facts DEF Creating
    <3>2. ASSUME "rivals" \notin faults, NEW r \in rows', NEW s \in rows',
                 r.key = Sentinel, s.key = Sentinel
          PROVE  r.tip = s.tip
      BY <2>3, <3>2 DEF IInv, NoRivals
    <3>3. \A r \in rows' : r.tip # BOOT_BLOCK_ID
      BY <2>3, Constants
    <3> QED BY <1>1, <3>1, <3>2, <3>3 DEF IInv, NoRivals, BOOT_BLOCK_ID
  <2> QED BY <2>3, <2>6, <2>7, <2>8, <2>10, <2>11, <2>12 DEF IInv
<1> QED BY <1>3, <1>4

LEMMA ReadTipStep ==
    ASSUME IInv, NEW p \in Proc, read_chain_tip(p)
    PROVE  IInv'
<1> DEFINE cur == get_wrb_chain_tip(rows)
           next == make_wrb_chain_tip(Max(get_wrb_block_height(rows, cur)) + 1)
           c == [client[p] EXCEPT !.pc = "tip", !.chain_tip = cur, !.next_tip = next]
<1>1. /\ client[p].pc = "ready" /\ client' = [client EXCEPT ![p] = c]
      /\ UNCHANGED <<file, rows, writer, work, latest, mine, faults, nputs, nstarts>>
  BY DEF read_chain_tip, store
<1>2. HasTip(rows, cur) /\ p \notin writer
  BY <1>1, Facts, ChainTip DEF ClientOK
<1>3. cur \in Nat /\ next = cur + 1
  BY <1>2, Facts, BlockHeight, Singles DEF make_wrb_chain_tip
<1> HIDE DEF cur, next
<1>4. /\ c \in ClientType /\ c.pc = "tip" /\ c.chain_tip = cur /\ c.next_tip = next
      /\ c.version = client[p].version
  <2>1. client[p] \in ClientType /\ next \in Nat
    BY <1>3, Facts
  <2> QED BY <1>3, <2>1 DEF ClientType
<1> HIDE DEF c
<1>5. ClientOK(c, rows)
  BY <1>1, <1>2, <1>3, <1>4, Facts DEF ClientOK
<1> QED BY <1>1, <1>2, <1>4, <1>5, OutsideStep DEF Deployers

LEMMA BeginStep ==
    ASSUME IInv, NEW p \in Proc, begin(p)
    PROVE  IInv'
<1> DEFINE cur == client[p].chain_tip
           th == IF cur = BOOT_BLOCK_ID THEN 0
                 ELSE Max(tipless_get_block_height_of(rows, cur)) + 1
           c == [client[p] EXCEPT !.pc = "load", !.tip_height = th]
<1>1. /\ client[p].pc = "tip" /\ writer = {} /\ writer' = {p}
      /\ work' = rows /\ mine' = latest
      /\ client' = [client EXCEPT ![p] = c]
      /\ UNCHANGED <<file, rows, latest, faults, nputs, nstarts>>
  BY DEF begin
<1>2. HasTip(rows, cur) /\ client[p].next_tip = cur + 1 /\ client[p].version \in Version
  BY <1>1, Facts DEF ClientOK
<1>3. cur \in Nat /\ th = cur + 1
  BY <1>2, Facts, BlockHeight
<1> HIDE DEF th
<1>4. /\ c \in ClientType /\ c.pc = "load" /\ c.chain_tip = cur /\ c.next_tip = cur + 1
      /\ c.tip_height = th /\ c.version = client[p].version
  BY <1>2, <1>3, Facts DEF ClientType
<1> HIDE DEF c
<1>5. ClientOK(c, rows') /\ (c.pc = "load" <=> p \in writer')
  BY <1>1, <1>2, <1>3, <1>4, Facts DEF ClientOK
<1>6. ClientsOK' /\ client' \in [Proc -> ClientType] /\ writer' \subseteq Proc
  BY <1>1, <1>4, <1>5, ClientsStep
<1>7. TypeInv'
  BY <1>1, <1>6 DEF IInv, TypeInv
<1>8. HeightsBounded'
  BY <1>1, <1>4, BoundStep
<1>9. KvOK(rows') /\ WorkOK' /\ LatestKept'
  BY <1>1, Facts DEF IInv, WorkOK, LatestKept
<1>10. \A q \in Proc : q # p => client'[q] = client[q]
  BY <1>1, Facts
<1>11. client'[p] = c
  BY <1>1, Facts
<1>12. FileOK'
  BY <1>1, <1>4, <1>10, <1>11 DEF IInv, FileOK
<1>13. NoRivals'
  <2>1. Creating' \subseteq Creating /\ Deployers' \subseteq Deployers
    BY <1>1, <1>4, <1>10, <1>11 DEF Creating, Deployers
  <2> QED BY <1>1, <2>1 DEF IInv, NoRivals, BOOT_BLOCK_ID
<1> QED BY <1>6, <1>7, <1>8, <1>9, <1>12, <1>13 DEF IInv

(* What holds during a load of process p.                                  *)
LEMMA LoadFacts ==
    ASSUME IInv, NEW p \in Proc, client[p].pc = "load"
    PROVE  /\ writer = {p} /\ client[p] \in ClientType /\ client[p].version \in Version
           /\ client[p].next_tip = client[p].chain_tip + 1 /\ client[p].chain_tip \in Nat
           /\ HasTip(rows, client[p].chain_tip) /\ HasTip(work, client[p].chain_tip)
           /\ client[p].next_tip <= nstarts /\ client[p].next_tip \in Nat
           /\ client[p].next_tip + Cardinality(Active) <= nstarts + 1
           /\ Cardinality(Active) \in Nat
           /\ KvOK(work)
           /\ \A r \in RowType : r.height # client[p].next_tip => (r \in work <=> r \in rows)
           /\ \A r \in work : (r.height = client[p].next_tip /\ r.key # Sentinel) \/ r \in rows
           /\ HasTip(rows, client[p].next_tip) => HasTip(work, client[p].next_tip)
<1>1. /\ client[p] \in ClientType /\ ClientOK(client[p], rows) /\ p \in writer
      /\ writer = {p}
  BY Facts
<1>2. /\ client[p].next_tip = client[p].chain_tip + 1 /\ HasTip(rows, client[p].chain_tip)
      /\ client[p].version \in Version
  BY <1>1 DEF ClientOK
<1>3. client[p].chain_tip \in Nat /\ client[p].next_tip \in Nat
  BY <1>1 DEF ClientType
<1>4. PICK r \in rows : r.tip = client[p].chain_tip /\ r.height = client[p].chain_tip
  BY <1>2 DEF HasTip
<1>5. /\ IsFiniteSet(Active) /\ Cardinality(Active) \in Nat /\ nstarts \in Nat
      /\ r.height + Cardinality(Active) <= nstarts
  BY <1>4, FS_CardinalityType, Facts DEF IInv, HeightsBounded
<1>6. p \in Active /\ Cardinality(Active) # 0
  BY <1>5, FS_EmptySet DEF Active
<1>7. /\ KvOK(work)
      /\ \A s \in RowType : s.height # client[p].next_tip => (s \in work <=> s \in rows)
      /\ \A s \in work : (s.height = client[p].next_tip /\ s.key # Sentinel) \/ s \in rows
      /\ HasTip(rows, client[p].next_tip) => HasTip(work, client[p].next_tip)
  BY <1>1 DEF IInv, WorkOK
<1>8. r \in RowType /\ r.height # client[p].next_tip
  BY <1>2, <1>3, <1>4, Facts, RowFacts
<1>9. HasTip(work, client[p].chain_tip)
  BY <1>4, <1>7, <1>8 DEF HasTip
<1> QED BY <1>1, <1>2, <1>3, <1>4, <1>5, <1>6, <1>7, <1>9

LEMMA PutStep ==
    ASSUME IInv, NEW p \in Proc, NEW key \in Key, put_all_data(p, key)
    PROVE  IInv'
<1> DEFINE tip == client[p].next_tip
           n == Row(tip, tip, key, nputs + 1)
<1>1. /\ client[p].pc = "load" /\ nputs < MaxPuts /\ nputs' = nputs + 1
      /\ key \in {KeyOf("app", client[p].version), KeyOf("static", 0)}
      /\ work' = dump(work, client[p].chain_tip, tip, {[key |-> key, val |-> nputs + 1]})
      /\ mine' = [mine EXCEPT ![key] = nputs + 1]
      /\ UNCHANGED <<file, rows, writer, client, latest, faults, nstarts>>
  BY DEF put_all_data
<1>2. /\ writer = {p} /\ tip = client[p].chain_tip + 1 /\ HasTip(work, client[p].chain_tip)
      /\ KvOK(work) /\ tip <= nstarts /\ tip \in Nat /\ client[p].chain_tip \in Nat
      /\ \A r \in RowType : r.height # tip => (r \in work <=> r \in rows)
      /\ \A r \in work : (r.height = tip /\ r.key # Sentinel) \/ r \in rows
  BY <1>1, LoadFacts
<1>3. nputs + 1 \in Value /\ nputs + 1 # NoValue
  BY <1>1, Facts DEF Value, NoValue
<1>4. n \in RowType /\ n.tip = tip /\ n.height = tip /\ n.key = key /\ n.val = nputs + 1
  BY <1>2, <1>3, RowFields
<1>5. work' = Replace(work, {n})
  <2>1. client[p].chain_tip # BOOT_BLOCK_ID /\ next_height(work, client[p].chain_tip) = tip
    BY <1>2, BlockHeight
  <2>2. work' = Replace(work, {Row(tip, tip, q.key, q.val) : q \in {[key |-> key, val |-> nputs + 1]}})
    BY <1>1, <2>1 DEF dump
  <2>3. {Row(tip, tip, q.key, q.val) : q \in {[key |-> key, val |-> nputs + 1]}} = {n}
    OBVIOUS
  <2> QED BY <2>2, <2>3
<1>6. tip <= MaxStarts
  BY <1>2, Facts, Constants
<1> HIDE DEF n, tip
<1>7. /\ KvOK(work') /\ n \in work'
      /\ \A r \in work' : r = n \/ r \in work
      /\ \A r \in work : r \in work' \/ (r.tip = n.tip /\ r.height = n.height /\ r.key = n.key)
      /\ \A r \in work' : r.tip = n.tip /\ r.height = n.height /\ r.key = n.key => r = n
  <2>1. n.tip = n.height /\ n.height <= MaxStarts
    BY <1>4, <1>6
  <2> QED BY <1>2, <1>4, <1>5, <2>1, ReplaceOne
<1>8. TypeInv'
  <2>1. mine' \in History
    BY <1>1, <1>3 DEF IInv, TypeInv, History
  <2> QED BY <1>1, <2>1, Facts DEF IInv, TypeInv
<1>9. WorkOK'
  <2>1. \A r \in RowType : r.height # tip => (r \in work' <=> r \in rows)
    BY <1>2, <1>4, <1>7
  <2>2. key # Sentinel
    BY <1>1, Facts, Constants DEF ClientOK
  <2>3. \A r \in work' : (r.height = tip /\ r.key # Sentinel) \/ r \in rows
    BY <1>2, <1>4, <1>7, <2>2
  <2>4. HasTip(work', tip)
    BY <1>4, <1>7 DEF HasTip
  <2> QED BY <1>1, <1>2, <1>7, <2>1, <2>3, <2>4 DEF WorkOK, tip
<1>10. ASSUME Latest(work, mine), \A r \in rows : r.height <= tip
       PROVE  Latest(work', mine')
  <2> SUFFICES ASSUME NEW k \in Key
               PROVE  /\ mine'[k] = NoValue => \A r \in work' : r.key = k => r.height = 0 /\ r.val = 0
                      /\ mine'[k] # NoValue =>
                           \E r \in work' : /\ r.key = k /\ r.val = mine'[k] /\ r.height > 0
                                            /\ \A s \in work' : s.key = k => s.height <= r.height
    BY DEF Latest
  <2>1. CASE k = key
    <3>1. mine'[k] = nputs + 1
      BY <1>1, <2>1 DEF IInv, TypeInv, History
    <3>2. tip > 0 /\ \A s \in work' : s.height <= tip
      BY <1>2, <1>4, <1>7, <1>10
    <3> QED BY <1>3, <1>4, <1>7, <2>1, <3>1, <3>2
  <2>2. CASE k # key
    <3>1. mine'[k] = mine[k]
      BY <1>1, <2>2 DEF IInv, TypeInv, History
    <3>2. \A r : r.key = k => (r \in work' <=> r \in work)
      BY <1>4, <1>7, <2>2
    <3>3. CASE mine[k] = NoValue
      BY <1>10, <3>1, <3>2, <3>3 DEF Latest
    <3>4. CASE mine[k] # NoValue
      <4>1. PICK r \in work : /\ r.key = k /\ r.val = mine[k] /\ r.height > 0
                              /\ \A s \in work : s.key = k => s.height <= r.height
        BY <1>10, <3>4 DEF Latest
      <4> QED BY <3>1, <3>2, <3>4, <4>1
    <3> QED BY <3>3, <3>4
  <2> QED BY <2>1, <2>2
<1>11. LatestKept'
  <2> SUFFICES ASSUME "overtaken" \notin faults
               PROVE  Latest(rows, latest) /\ (~Overtaken(p) => Latest(work', mine'))
    BY <1>1, <1>2 DEF LatestKept, Overtaken
  <2>1. Latest(rows, latest) /\ (~Overtaken(p) => Latest(work, mine))
    BY <1>2 DEF IInv, LatestKept
  <2>2. ~Overtaken(p) => \A r \in rows : r.height <= tip
    BY OvertakenIs DEF tip
  <2> QED BY <1>10, <2>1, <2>2
<1>12. KvOK(rows') /\ HeightsBounded' /\ ClientsOK' /\ FileOK' /\ NoRivals'
  BY <1>1 DEF IInv, HeightsBounded, Active, ClientsOK, FileOK, NoRivals, Creating, Deployers,
              BOOT_BLOCK_ID
<1> QED BY <1>8, <1>9, <1>11, <1>12 DEF IInv

(* A load that ends without a commit.                                      *)
LEMMA RollbackStep ==
    ASSUME IInv, NEW p \in Proc, client[p].pc = "load",
           client' = [client EXCEPT ![p] = Idle], writer' = {}, mine' = latest,
           faults \subseteq faults', UNCHANGED <<file, rows, latest, nputs, nstarts>>
    PROVE  IInv'
<1>1. p \in writer
  BY LoadFacts
<1>2. ClientsOK' /\ client' \in [Proc -> ClientType] /\ writer' \subseteq Proc
  BY <1>1, IdleFacts, ClientsStep
<1>3. TypeInv'
  BY <1>2 DEF IInv, TypeInv
<1>4. HeightsBounded'
  BY IdleFacts, BoundStep
<1>5. WorkOK' /\ LatestKept'
  BY NoLoad DEF IInv, LatestKept
<1>6. file = "ready"
  BY DEF IInv, FileOK
<1>7. FileOK' /\ KvOK(rows')
  BY <1>6, Facts DEF FileOK
<1>8. NoRivals'
  <2>1. Creating' \subseteq Creating /\ Deployers' \subseteq Deployers
    BY Facts, IdleFacts DEF Creating, Deployers
  <2> QED BY <2>1 DEF IInv, NoRivals, BOOT_BLOCK_ID
<1> QED BY <1>2, <1>3, <1>4, <1>5, <1>7, <1>8 DEF IInv

(* What at-block does: the load goes on, or is saved with the store at the *)
(* tip asked for.                                                          *)
LEMMA AtBlockIs ==
    ASSUME IInv, NEW p \in Proc, NEW tip \in {r.tip : r \in work}, at_block(p, tip)
    PROVE  \/ \E c : save(p, c) /\ c.next_tip = client[p].next_tip /\ c.chain_tip = tip
           \/ \E c \in ClientType :
                /\ c.pc = "load" /\ c.chain_tip = client[p].chain_tip /\ c.shifted = TRUE
                /\ c.next_tip = client[p].next_tip /\ c.version = client[p].version
                /\ client' = [client EXCEPT ![p] = c]
                /\ UNCHANGED <<file, store, faults, nputs, nstarts>>
<1>1. client[p].pc = "load"
  BY DEF at_block
<1>2. PICK there \in set_block_hash(client[p], tip) :
         LET back == set_block_hash(there, client[p].chain_tip)
         IN  \/ back = {} /\ save(p, there)
             \/ \E c \in back :
                  /\ client' = [client EXCEPT ![p] = [c EXCEPT !.shifted = TRUE]]
                  /\ UNCHANGED <<file, store, faults, nputs, nstarts>>
  BY DEF at_block
<1>3. PICK x : there = [client[p] EXCEPT !.chain_tip = tip, !.tip_height = x]
  BY <1>2 DEF set_block_hash
<1>4. client[p] \in ClientType
  BY Facts
<1>5. there.next_tip = client[p].next_tip /\ there.chain_tip = tip
  BY <1>3, <1>4 DEF ClientType
<1>6. ASSUME NEW b \in set_block_hash(there, client[p].chain_tip),
             client' = [client EXCEPT ![p] = [b EXCEPT !.shifted = TRUE]]
      PROVE  \E c \in ClientType :
                /\ c.pc = "load" /\ c.chain_tip = client[p].chain_tip /\ c.shifted = TRUE
                /\ c.next_tip = client[p].next_tip /\ c.version = client[p].version
                /\ client' = [client EXCEPT ![p] = c]
  <2> DEFINE c == [b EXCEPT !.shifted = TRUE]
             th == Max(tipless_get_block_height_of(work, client[p].chain_tip))
  <2>1. KvOK(work) /\ HasTip(work, client[p].chain_tip) /\ client[p].chain_tip \in Nat
    BY <1>1, LoadFacts
  <2>2. th = client[p].chain_tip
    BY <2>1, BlockHeight
  <2>3. b = [there EXCEPT !.chain_tip = client[p].chain_tip, !.tip_height = th]
    BY <1>6 DEF set_block_hash
  <2>4. c = [client[p] EXCEPT !.tip_height = th, !.shifted = TRUE]
    BY <1>3, <1>4, <2>3 DEF ClientType
  <2>5. /\ c \in ClientType /\ c.pc = "load" /\ c.chain_tip = client[p].chain_tip
        /\ c.next_tip = client[p].next_tip /\ c.version = client[p].version /\ c.shifted = TRUE
    BY <1>1, <1>4, <2>1, <2>2, <2>4 DEF ClientType
  <2>6. client' = [client EXCEPT ![p] = c]
    BY <1>6
  <2> QED BY <2>5, <2>6
<1> QED BY <1>2, <1>5, <1>6

(***************************************************************************)
(* The UPDATE of a commit renames nothing but a boot sentinel: for every   *)
(* other key the writer's view becomes the database.  It does nothing at   *)
(* all unless the store was left at BOOT_BLOCK_ID.                         *)
(***************************************************************************)
LEMMA SaveRows ==
    ASSUME IInv, NEW p \in Proc, client[p].pc = "load", NEW c,
           c.next_tip = client[p].next_tip, save(p, c)
    PROVE  /\ c.chain_tip # BOOT_BLOCK_ID =>
                /\ rows' = work /\ latest' = mine
                /\ faults' = faults \cup (IF Overtaken(p) THEN {"overtaken"} ELSE {})
           /\ rows' # rows =>
                \A k \in Key \ {Sentinel} : \A r : r.key = k => (r \in rows' <=> r \in work)
<1> DEFINE from == IF c.chain_tip = BOOT_BLOCK_ID THEN c.chain_tip ELSE c.next_tip
           moved(r) == [r EXCEPT !.tip = IF r.tip = from THEN c.next_tip ELSE r.tip]
<1>1. /\ rows' = IF update_fails(work, from, c.next_tip) THEN rows
                 ELSE Renamed(work, from, c.next_tip)
      /\ latest' = IF update_fails(work, from, c.next_tip) THEN latest ELSE mine
      /\ faults' = faults \cup (IF Overtaken(p) THEN {"overtaken"} ELSE {})
                          \cup (IF from = BOOT_BLOCK_ID THEN {"sentinel"} ELSE {})
  BY DEF save
<1>2. KvOK(work) /\ c.next_tip \in Nat /\ c.next_tip # BOOT_BLOCK_ID
  BY LoadFacts, Facts, Constants
<1>3. ASSUME NEW r \in work, r.tip # from \/ from = c.next_tip PROVE moved(r) = r
  BY <1>2, <1>3, RowFacts DEF RowType
<1>4. Renamed(work, from, c.next_tip) = {moved(r) : r \in work}
  BY DEF Renamed
<1> HIDE DEF moved
<1>5. ASSUME c.chain_tip # BOOT_BLOCK_ID
      PROVE  /\ rows' = work /\ latest' = mine
             /\ faults' = faults \cup (IF Overtaken(p) THEN {"overtaken"} ELSE {})
  <2>1. from = c.next_tip /\ from # BOOT_BLOCK_ID
    BY <1>2, <1>5
  <2>2. ~update_fails(work, from, c.next_tip)
    BY <2>1 DEF update_fails
  <2>3. Renamed(work, from, c.next_tip) = work
    BY <1>3, <1>4, <2>1
  <2> HIDE DEF from
  <2> QED BY <1>1, <2>1, <2>2, <2>3
<1>6. ASSUME rows' # rows, NEW k \in Key \ {Sentinel}, NEW r, r.key = k
      PROVE  r \in rows' <=> r \in work
  <2>1. CASE c.chain_tip # BOOT_BLOCK_ID
    BY <1>5, <2>1
  <2>2. CASE c.chain_tip = BOOT_BLOCK_ID
    <3>1. from = BOOT_BLOCK_ID
      BY <2>2
    <3>2. rows' = {moved(s) : s \in work}
      BY <1>1, <1>4, <1>6
    <3>3. \A s \in work : moved(s).key = s.key
      <4>1. \A s \in work : s \in RowType
        BY <1>2, RowFacts
      <4> QED BY <4>1 DEF moved, RowType
    <3>4. \A s \in work : s.key = k => s.tip # BOOT_BLOCK_ID
      BY <1>2, <1>6, RowFacts
    <3> HIDE DEF from
    <3>5. \A s \in work : s.key = k => moved(s) = s
      BY <1>3, <3>1, <3>4
    <3> QED BY <1>6, <3>2, <3>3, <3>5
  <2> QED BY <2>1, <2>2
<1> HIDE DEF from
<1> QED BY <1>5, <1>6

LEMMA SaveStep ==
    ASSUME IInv, NEW p \in Proc, client[p].pc = "load", NEW c,
           c.next_tip = client[p].next_tip, c.chain_tip # BOOT_BLOCK_ID, save(p, c)
    PROVE  IInv'
<1>1. /\ writer' = {} /\ client' = [client EXCEPT ![p] = Idle] /\ mine' = latest'
      /\ UNCHANGED <<file, nputs, nstarts>>
  BY DEF save
<1>2. /\ rows' = work /\ latest' = mine
      /\ faults' = faults \cup (IF Overtaken(p) THEN {"overtaken"} ELSE {})
  BY SaveRows
<1> DEFINE tip == client[p].next_tip
<1>3. /\ writer = {p} /\ KvOK(work) /\ tip \in Nat /\ tip # BOOT_BLOCK_ID
      /\ tip + Cardinality(Active) <= nstarts + 1
      /\ \A r \in RowType : r.height # tip => (r \in work <=> r \in rows)
      /\ \A r \in work : (r.height = tip /\ r.key # Sentinel) \/ r \in rows
      /\ HasTip(rows, tip) => HasTip(work, tip)
  BY LoadFacts, Facts, Constants
<1> HIDE DEF tip
<1>4. \A t : HasTip(rows, t) => HasTip(rows', t)
  <2> SUFFICES ASSUME NEW t, HasTip(rows, t) PROVE HasTip(work, t)
    BY <1>2
  <2>1. CASE t = tip
    BY <1>3, <2>1
  <2>2. CASE t # tip
    BY <1>3, <2>2, Facts, RowFacts DEF HasTip
  <2> QED BY <2>1, <2>2
<1>5. ClientsOK' /\ client' \in [Proc -> ClientType] /\ writer' \subseteq Proc
  BY <1>1, <1>3, <1>4, IdleFacts, ClientsStep
<1>6. TypeInv'
  BY <1>1, <1>2, <1>5 DEF IInv, TypeInv
<1>7. HeightsBounded'
  BY <1>1, <1>2, <1>3, IdleFacts, BoundStep
<1>8. WorkOK' /\ LatestKept'
  <2>1. "overtaken" \notin faults' => "overtaken" \notin faults /\ ~Overtaken(p)
    BY <1>2
  <2>2. "overtaken" \notin faults' => Latest(rows', latest')
    BY <1>2, <1>3, <2>1 DEF IInv, LatestKept
  <2> QED BY <1>1, <2>2, NoLoad
<1>9. file = "ready"
  BY DEF IInv, FileOK
<1>10. FileOK' /\ KvOK(rows')
  BY <1>1, <1>2, <1>3, <1>9 DEF FileOK
<1>11. NoRivals'
  <2>1. Creating' \subseteq Creating /\ Deployers' \subseteq Deployers
    BY <1>1, Facts, IdleFacts DEF Creating, Deployers
  <2>2. \A r \in rows' : r.key = Sentinel => r \in rows
    BY <1>2, <1>3
  <2>3. \A r \in rows' : r.tip = BOOT_BLOCK_ID => r \in rows
    BY <1>2, <1>3, <2>2, RowFacts
  <2>4. "rivals" \in faults' <=> "rivals" \in faults
    BY <1>2
  <2> QED BY <1>1, <2>1, <2>2, <2>3, <2>4 DEF IInv, NoRivals, BOOT_BLOCK_ID
<1> QED BY <1>5, <1>6, <1>7, <1>8, <1>10, <1>11 DEF IInv

LEMMA CommitStep ==
    ASSUME IInv, NEW p \in Proc, commit(p)
    PROVE  IInv'
<1>1. client[p].pc = "load" /\ save(p, client[p])
  BY DEF commit
<1>2. client[p].chain_tip # BOOT_BLOCK_ID
  BY <1>1, LoadFacts, Facts, BlockHeight
<1> QED BY <1>1, <1>2, SaveStep

LEMMA AtBlockStep ==
    ASSUME IInv, NEW p \in Proc, NEW tip \in {r.tip : r \in work}, at_block(p, tip)
    PROVE  Inv'
<1>1. client[p].pc = "load"
  BY DEF at_block
<1>2. ASSUME NEW c, save(p, c), c.next_tip = client[p].next_tip, c.chain_tip = tip,
             tip # BOOT_BLOCK_ID
      PROVE  IInv'
  BY <1>1, <1>2, SaveStep
<1>3. ASSUME NEW c, save(p, c), c.chain_tip = tip, tip = BOOT_BLOCK_ID
      PROVE  (SentinelMoved /\ "rivals" \in faults /\ file = "ready")'
  <2>1. file' = file /\ faults \subseteq faults' /\ "sentinel" \in faults'
    BY <1>3 DEF save
  <2>2. file = "ready"
    BY <1>1 DEF IInv, FileOK
  <2>3. PICK r \in work : r.tip = BOOT_BLOCK_ID
    BY <1>3
  <2>4. r \in rows
    BY <1>1, <2>3, LoadFacts, RowFacts
  <2>5. p \in Deployers
    BY <1>1 DEF Deployers
  <2>6. "rivals" \in faults
    BY <2>3, <2>4, <2>5 DEF IInv, NoRivals
  <2> QED BY <2>1, <2>2, <2>6 DEF SentinelMoved
<1>4. ASSUME NEW c \in ClientType,
             c.pc = "load", c.chain_tip = client[p].chain_tip, c.shifted = TRUE,
             c.next_tip = client[p].next_tip, c.version = client[p].version,
             client' = [client EXCEPT ![p] = c],
             UNCHANGED <<file, store, faults, nputs, nstarts>>
      PROVE  IInv'
  <2>1. UNCHANGED <<file, rows, writer, work, latest, mine, faults, nputs, nstarts>>
    BY <1>4 DEF store
  <2>2. ClientOK(c, rows') /\ (c.pc = "load" <=> p \in writer')
    BY <1>1, <1>4, <2>1, Facts DEF ClientOK
  <2>3. ClientsOK' /\ client' \in [Proc -> ClientType] /\ writer' \subseteq Proc
    BY <1>4, <2>1, <2>2, ClientsStep
  <2>4. TypeInv'
    BY <2>1, <2>3 DEF IInv, TypeInv
  <2>5. HeightsBounded'
    BY <1>1, <1>4, <2>1, BoundStep
  <2>6. KvOK(rows') /\ WorkOK' /\ LatestKept'
    <3>1. \A q \in writer : client'[q].next_tip = client[q].next_tip
      BY <1>4, Facts
    <3> QED BY <2>1, <3>1, LoadsSame
  <2>7. FileOK'
    BY <1>1, <1>4, <2>1, Facts DEF IInv, FileOK
  <2>8. NoRivals'
    <3>1. Creating' \subseteq Creating /\ Deployers' \subseteq Deployers
      BY <1>1, <1>4, Facts DEF Creating, Deployers
    <3> QED BY <2>1, <3>1 DEF IInv, NoRivals, BOOT_BLOCK_ID
  <2> QED BY <2>3, <2>4, <2>5, <2>6, <2>7, <2>8 DEF IInv
<1> QED BY <1>2, <1>3, <1>4, AtBlockIs DEF Inv

LEMMA CrashStep ==
    ASSUME IInv, NEW p \in Proc, crash(p)
    PROVE  IInv'
<1>1. /\ client[p].pc # "down" /\ client' = [client EXCEPT ![p] = Idle]
      /\ faults \subseteq faults' /\ (client[p].pc = "schema" => "crash" \in faults')
      /\ UNCHANGED <<file, rows, latest, nputs, nstarts>>
  BY DEF crash
<1>2. CASE p \in writer
  <2>1. writer' = {} /\ mine' = latest /\ client[p].pc = "load"
    BY <1>2, Facts DEF crash
  <2> QED BY <1>1, <2>1, RollbackStep
<1>3. CASE p \notin writer
  <2>1. UNCHANGED <<writer, work, mine>>
    BY <1>3 DEF crash
  <2> QED BY <1>1, <1>3, <2>1, IdleFacts, OutsideStep
<1> QED BY <1>2, <1>3

-----------------------------------------------------------------------------
LEMMA InitInv == Init => IInv
<1> SUFFICES ASSUME Init PROVE IInv
  OBVIOUS
<1>1. TypeInv
  BY IdleFacts, PageStoreAssumption DEF Init, TypeInv, History
<1>2. \A p \in Proc : client[p] = Idle /\ client[p].pc = "down"
  BY IdleFacts DEF Init
<1>3. KvOK(rows)
  BY DEF Init, KvOK
<1>4. HeightsBounded
  <2>1. Active = {}
    BY <1>2 DEF Active
  <2> QED BY <2>1, FS_EmptySet DEF Init, HeightsBounded
<1>5. ClientsOK /\ WorkOK
  BY <1>2, IdleFacts DEF Init, ClientsOK, WorkOK
<1>6. FileOK
  BY <1>2 DEF Init, FileOK
<1>7. NoRivals
  BY <1>2 DEF Init, NoRivals, Creating
<1>8. LatestKept
  BY DEF Init, LatestKept, Latest
<1> QED BY <1>1, <1>3, <1>4, <1>5, <1>6, <1>7, <1>8 DEF IInv

LEMMA StepInv == IInv /\ [Next]_vars => Inv'
<1> SUFFICES ASSUME IInv, [Next]_vars PROVE Inv'
  OBVIOUS
<1>1. CASE UNCHANGED vars
  <2>1. KvOK(rows') /\ WorkOK' /\ LatestKept'
    BY <1>1, LoadsSame DEF vars
  <2>2. TypeInv' /\ HeightsBounded' /\ ClientsOK' /\ FileOK' /\ NoRivals'
    BY <1>1 DEF vars, IInv, TypeInv, HeightsBounded, Active, ClientsOK, FileOK, NoRivals, Creating,
                Deployers, BOOT_BLOCK_ID
  <2> QED BY <2>1, <2>2 DEF IInv, Inv
<1>2. ASSUME NEW p \in Proc,
             \/ \E v \in Version : setup_db(p, v)
             \/ create_file(p) \/ create_schema(p) \/ initialize_app(p)
             \/ read_chain_tip(p) \/ begin(p)
             \/ \E key \in Key : put_all_data(p, key)
             \/ \E tip \in {r.tip : r \in work} : at_block(p, tip)
             \/ commit(p) \/ crash(p)
      PROVE  Inv'
  BY <1>2, SetupStep, CreateFileStep, CreateSchemaStep, InitializeStep, ReadTipStep, BeginStep,
     PutStep, AtBlockStep, CommitStep, CrashStep DEF Inv
<1> QED BY <1>1, <1>2 DEF Next

(* No step forgets a fault or takes the tables away.                       *)
LEMMA FaultsStay ==
    ASSUME [Next]_vars
    PROVE  faults \subseteq faults' /\ (file = "ready" => file' = "ready")
<1>1. CASE UNCHANGED vars
  BY <1>1 DEF vars
<1>2. ASSUME NEW p \in Proc,
             \/ \E v \in Version : setup_db(p, v)
             \/ create_file(p) \/ create_schema(p) \/ initialize_app(p)
             \/ read_chain_tip(p) \/ begin(p)
             \/ \E key \in Key : put_all_data(p, key)
             \/ \E tip \in {r.tip : r \in work} : at_block(p, tip)
             \/ commit(p) \/ crash(p)
      PROVE  faults \subseteq faults' /\ (file = "ready" => file' = "ready")
  BY <1>2 DEF setup_db, create_file, create_schema, initialize_app, read_chain_tip, begin,
              put_all_data, at_block, commit, save, crash
<1> QED BY <1>1, <1>2 DEF Next

LEMMA Invariance == Spec => []Inv
<1>1. Init => Inv
  BY InitInv DEF Inv
<1>2. Inv /\ [Next]_vars => Inv'
  BY StepInv, FaultsStay DEF Inv, SentinelMoved
<1> QED BY <1>1, <1>2, PTL DEF Spec

-----------------------------------------------------------------------------
(* For every number of processes, versions, loads and crashes: a committed *)
(* row is under the tip made from its height, or is the boot sentinel,     *)
(* unless a page that asked for BOOT_BLOCK_ID has moved a rival's one.     *)
THEOREM SpecTipsAreHeights == Spec => []TipsAreHeights
<1>1. Inv => TipsAreHeights
  BY DEF Inv, IInv, KvOK, TipsAreHeights, make_wrb_chain_tip
<1> QED BY <1>1, Invariance, PTL

(* A page reads the last committed value of a key or its own later one,    *)
(* whatever other processes deploy, load, roll back or crash around it,    *)
(* unless a load was overtaken twice or a sentinel was moved.              *)
THEOREM SpecReadsLatest == Spec => []ReadsLatest
<1>1. Inv => ReadsLatest
  <2> SUFFICES ASSUME IInv, NEW p \in writer, ~client[p].shifted, ~Overtaken(p),
                      "overtaken" \notin faults, NEW k \in Key
               PROVE  get_hash(work, client[p].tip_height, k) = Expected(mine, work, k)
    BY DEF Inv, ReadsLatest
  <2> DEFINE h == client[p].tip_height
  <2>1. p \in Proc /\ client[p].pc = "load"
    BY Facts
  <2>2. /\ KvOK(work) /\ client[p].next_tip \in Nat
        /\ \A r \in work : (r.height = client[p].next_tip /\ r.key # Sentinel) \/ r \in rows
    BY <2>1, LoadFacts
  <2>3. h = client[p].next_tip
    BY <2>1, Facts DEF ClientOK
  <2>4. \A r \in work : r.height <= h /\ r.height \in Nat
    BY <2>1, <2>2, <2>3, OvertakenIs, RowFacts
  <2>5. Latest(work, mine)
    BY DEF IInv, LatestKept
  <2> HIDE DEF h
  <2>6. h \in Nat
    BY <2>2, <2>3
  <2>7. CASE mine[k] # NoValue
    <3>1. PICK r \in work : /\ r.key = k /\ r.val = mine[k] /\ r.height > 0
                            /\ \A s \in work : s.key = k => s.height <= r.height
      BY <2>5, <2>7 DEF Latest
    <3>2. get_hash(work, h, k) = r.val
      BY <2>2, <2>4, <2>6, <3>1, GetHashIs
    <3> QED BY <2>7, <3>1, <3>2 DEF Expected, h
  <2>8. CASE mine[k] = NoValue
    <3>1. \A r \in work : r.key = k => r.height = 0 /\ r.val = 0
      BY <2>5, <2>8 DEF Latest
    <3>2. CASE \E r \in work : r.key = k
      <4>1. get_hash(work, h, k) = 0
        BY <2>2, <2>4, <2>6, <3>1, <3>2, GetHash
      <4>2. get_hash(work, 0, k) = 0
        <5>1. 0 \in Nat
          OBVIOUS
        <5> QED BY <2>2, <3>1, <3>2, <5>1, GetHash
      <4> QED BY <2>8, <4>1, <4>2, Constants DEF Expected, h
    <3>3. CASE ~\E r \in work : r.key = k
      <4>1. get_hash(work, h, k) = NoValue
        BY <3>3 DEF get_hash
      <4>2. get_hash(work, 0, k) = NoValue
        BY <3>3 DEF get_hash
      <4> QED BY <2>8, <4>1, <4>2 DEF Expected, h
    <3> QED BY <3>2, <3>3
  <2> QED BY <2>7, <2>8
<1> QED BY <1>1, Invariance, PTL

(* The file has its tables and a deployed version can be opened again,     *)
(* unless a process crashed while creating the file or two created it.     *)
THEOREM SpecStoreUsable == Spec => []StoreUsable
<1>1. Inv => StoreUsable
  <2> SUFFICES ASSUME IInv, Creating = {}
               PROVE  /\ file = "empty" => "crash" \in faults
                      /\ \A v \in Version : (HasContract(rows, KeyOf("app", v)) /\ InitFails(v))
                                             => "rivals" \in faults
    BY DEF Inv, StoreUsable
  <2>1. file = "empty" => "crash" \in faults
    BY DEF IInv, FileOK, Creating
  <2>2. ASSUME NEW v \in Version, HasContract(rows, KeyOf("app", v)), InitFails(v),
               "rivals" \notin faults
        PROVE  FALSE
    <3>1. PICK r \in AppRows(rows, v), s \in AppRows(rows, v) :
             /\ r.tip = BOOT_BLOCK_ID /\ s.tip = GENESIS_BLOCK_ID
             /\ r.height = s.height /\ r.key = s.key
      BY <2>2 DEF InitFails, update_fails
    <3>2. \A x : x \in AppRows(rows, v) <=>
                   x \in rows \/ \E k \in NewKeys(rows, v) : x = Row(BOOT_BLOCK_ID, 0, k, 0)
      BY Facts, AppRowsAre
    <3>3. NewKeys(rows, v) \subseteq {KeyOf("ll", 0)}
          /\ (NewKeys(rows, v) # {} => ~HasContract(rows, KeyOf("ll", 0)))
      BY <2>2 DEF NewKeys
    <3>4. s \in rows
      BY <3>1, <3>2, RowFields, Constants
    <3>5. CASE r \in rows
      BY <2>2, <3>1, <3>4, <3>5, Facts, RowFacts, Constants DEF IInv, NoRivals
    <3>6. CASE r \notin rows
      <4>1. r = Row(BOOT_BLOCK_ID, 0, KeyOf("ll", 0), 0) /\ ~HasContract(rows, KeyOf("ll", 0))
        BY <3>2, <3>3, <3>6
      <4>2. s.key = KeyOf("ll", 0) /\ s.height = 0
        BY <3>1, <4>1, RowFields
      <4> QED BY <3>4, <4>1, <4>2, Facts, HasContractIs
    <3> QED BY <3>5, <3>6
  <2> QED BY <2>1, <2>2
<1> QED BY <1>1, Invariance, PTL

LEMMA SameSeen ==
    ASSUME NEW kv, NEW kw, NEW h, NEW k,
           \A r : r.key = k /\ r.height <= h => (r \in kv <=> r \in kw)
    PROVE  get_hash(kv, h, k) = get_hash(kw, h, k)
<1> DEFINE S(x) == {r \in x : r.key = k /\ r.height <= h}
           Top(seen) == IF seen = {} THEN NoValue
                        ELSE (CHOOSE r \in seen : \A s \in seen : s.height <= r.height).val
<1>1. S(kv) = S(kw)
  OBVIOUS
<1>2. get_hash(kv, h, k) = Top(S(kv)) /\ get_hash(kw, h, k) = Top(S(kw))
  BY DEF get_hash
<1> HIDE DEF S, Top
<1> QED BY <1>1, <1>2

LEMMA PastStep ==
    ASSUME IInv, [Next]_vars, \A p \in writer : writer' = {} => OnTime(p)
    PROVE  PastSame
<1> DEFINE H == tipless_get_highest_tip_height(rows)
<1> SUFFICES ASSUME NEW h \in 0..H, NEW k \in Key \ {Sentinel},
                    get_hash(rows, h, k) # NoValue
             PROVE  get_hash(rows', h, k) = get_hash(rows, h, k)
  BY DEF PastSame
<1>1. H \in Nat
  BY Facts, Highest
<1>2. h \in Nat /\ h <= H
  BY <1>1
<1>3. CASE rows' = rows
  BY <1>3
<1>4. ASSUME NEW p \in Proc, create_schema(p) PROVE get_hash(rows', h, k) = get_hash(rows, h, k)
  <2> DEFINE n == Row(BOOT_BLOCK_ID, 0, Sentinel, 0)
  <2>1. rows' = Replace(rows, {n})
    BY <1>4 DEF create_schema
  <2>2. n \in RowType /\ n.tip = BOOT_BLOCK_ID /\ n.height = 0 /\ n.key = Sentinel
    BY RowFields, Constants
  <2> HIDE DEF n
  <2>3. /\ KvOK(rows') /\ n \in rows'
        /\ \A r \in rows' : r = n \/ r \in rows
        /\ \A r \in rows : r \in rows' \/ (r.tip = n.tip /\ r.height = n.height /\ r.key = n.key)
        /\ \A r \in rows' : r.tip = n.tip /\ r.height = n.height /\ r.key = n.key => r = n
    <3>1. n.tip = BOOT_BLOCK_ID /\ n.height = 0 /\ n.key = Sentinel
      BY <2>2
    <3>2. KvOK(rows)
      BY Facts
    <3> QED BY <2>1, <2>2, <3>1, <3>2, ReplaceOne
  <2>4. \A r : r.key = k /\ r.height <= h => (r \in rows' <=> r \in rows)
    BY <2>2, <2>3
  <2> QED BY <2>4, SameSeen
<1>5. ASSUME NEW p \in Proc, initialize_app(p), rows' # rows
      PROVE  get_hash(rows', h, k) = get_hash(rows, h, k)
  <2> DEFINE v == client[p].version
  <2>1. client[p].pc = "opened" /\ ~InitFails(v) /\ rows' = commit_to(AppRows(rows, v))
    BY <1>5 DEF initialize_app
  <2>2. v \in Version
    BY <2>1, Facts DEF ClientOK
  <2> HIDE DEF v
  <2>3. /\ KvOK(rows')
        /\ \A r \in rows : r.tip # BOOT_BLOCK_ID => r \in rows'
        /\ \A r \in rows' : r.key # Sentinel => r \in rows \/ r.height = 0
    BY <2>1, <2>2, Facts, Deploy DEF InitFails
  <2>4. PICK r \in rows : /\ r.key = k /\ r.height <= h /\ get_hash(rows, h, k) = r.val
                          /\ \A s \in rows : s.key = k /\ s.height <= h => s.height <= r.height
    BY <1>2, Facts, GetHash
  <2>5. r \in rows' /\ r.height \in Nat
    BY <2>3, <2>4, Facts, RowFacts
  <2>6. \A s \in rows' : s.key = r.key /\ s.height <= h => s.height <= r.height
    BY <2>3, <2>4, <2>5
  <2>7. get_hash(rows', h, r.key) = r.val
    BY <1>2, <2>3, <2>4, <2>5, <2>6, GetHashIs
  <2> QED BY <2>4, <2>7
<1>6. ASSUME NEW p \in Proc, client[p].pc = "load", NEW c, save(p, c), rows' # rows,
             c.next_tip = client[p].next_tip
      PROVE  get_hash(rows', h, k) = get_hash(rows, h, k)
  <2>1. writer' = {}
    BY <1>6 DEF save
  <2> DEFINE tip == client[p].next_tip
  <2>3. /\ p \in writer /\ KvOK(work) /\ tip \in Nat
        /\ \A r \in RowType : r.height # tip => (r \in work <=> r \in rows)
        /\ \A r \in work : (r.height = tip /\ r.key # Sentinel) \/ r \in rows
    BY <1>6, LoadFacts
  <2>2. \A r : r.key = k => (r \in rows' <=> r \in work)
    BY <1>6, SaveRows
  <2>4. H < tip
    BY <2>1, <2>3 DEF OnTime
  <2> HIDE DEF tip, H
  <2>5. ~(tip <= h)
    BY <1>1, <1>2, <2>3, <2>4
  <2>6. \A r : r.key = k /\ r.height <= h => (r \in work <=> r \in rows)
    BY <2>3, <2>5, Facts, RowFacts
  <2> QED BY <2>2, <2>6, SameSeen
<1>7. ASSUME NEW p \in Proc, NEW tip \in {r.tip : r \in work}, at_block(p, tip)
      PROVE  get_hash(rows', h, k) = get_hash(rows, h, k)
  <2>1. client[p].pc = "load"
    BY <1>7 DEF at_block
  <2>2. CASE \E c : save(p, c) /\ c.next_tip = client[p].next_tip
    BY <1>3, <1>6, <2>1, <2>2
  <2>3. CASE UNCHANGED store
    BY <1>3, <2>3 DEF store
  <2> QED BY <1>7, <2>2, <2>3, AtBlockIs
<1>8. ASSUME NEW p \in Proc, commit(p) PROVE get_hash(rows', h, k) = get_hash(rows, h, k)
  BY <1>3, <1>6, <1>8 DEF commit
<1> QED
  <2>1. CASE UNCHANGED vars
    BY <1>3, <2>1 DEF vars
  <2>2. ASSUME NEW p \in Proc,
               \/ \E v \in Version : setup_db(p, v)
               \/ create_file(p) \/ read_chain_tip(p) \/ begin(p)
               \/ \E key \in Key : put_all_data(p, key)
               \/ crash(p)
        PROVE  rows' = rows
    BY <2>2 DEF setup_db, create_file, read_chain_tip, begin, put_all_data, crash, store
  <2> QED BY <1>3, <1>4, <1>5, <1>7, <1>8, <2>1, <2>2 DEF Next

(* No step of any process changes what was readable at a committed height, *)
(* except the commit of a load that was overtaken before it took the lock, *)
(* and whatever is committed after a sentinel was moved.                   *)
THEOREM SpecPastKept == Spec => PastKept
<1>1. Inv /\ [Next]_vars =>
        [(/\ \A p \in writer : writer' = {} => OnTime(p)
          /\ ~SentinelMoved) => PastSame]_vars
  BY PastStep DEF Inv
<1> QED BY <1>1, Invariance, PTL DEF Spec, PastKept
=============================================================================

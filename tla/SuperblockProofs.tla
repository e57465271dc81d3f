-------------------------- MODULE SuperblockProofs --------------------------
(***************************************************************************)
(* What the operations of SuperblockOps keep, for every set of slots and   *)
(* apps and every size of request; and with it, that Superblock stays well *)
(* formed, allocates all or nothing, keeps the slot numbers of its apps    *)
(* and implements SlotOwnership.  Module WrbpodProofs uses the first part. *)
(***************************************************************************)
EXTENDS Superblock, SequenceTheorems, FiniteSetTheorems, WellFoundedInduction, TLAPS

(* The record an operation builds has the shape of WrbpodSuperblock as     *)
(* soon as its two fields do.                                              *)
LEMMA RecordShape ==
    ASSUME NEW slots \in Seq(WrbpodSlot), NEW D \in SUBSET App,
           NEW table \in [D -> Seq(Slot)]
    PROVE  WrbpodSuperblock([slot_ids |-> slots, apps |-> table])
BY DEF WrbpodSuperblock

(* WrbpodSuperblock::new lists each slot once, free, and knows no app.     *)
LEMMA NewSound ==
    ASSUME NEW ids \in Seq(Slot),
           \A i, j \in DOMAIN ids : ids[i] = ids[j] => i = j
    PROVE  WrbpodSuperblock(new(ids)) /\ WellFormed(new(ids))
<1> DEFINE slots == [i \in DOMAIN ids |-> [id |-> ids[i], free |-> TRUE]]
           table == [a \in {} |-> << >>]
<1>1. Len(ids) \in Nat /\ DOMAIN ids = 1..Len(ids)
  BY LenProperties
<1>2. \A i \in DOMAIN ids : ids[i] \in Slot
  BY <1>1, ElementOfSeq
<1>3. slots \in [1..Len(ids) -> WrbpodSlot]
  BY <1>1, <1>2 DEF WrbpodSlot
<1>4. slots \in Seq(WrbpodSlot)
  BY <1>1, <1>3, SeqDef
<1>5. table \in [{} -> Seq(Slot)] /\ {} \in SUBSET App
  OBVIOUS
<1>6. new(ids) = [slot_ids |-> slots, apps |-> table]
  BY DEF new
<1>7. WrbpodSuperblock([slot_ids |-> slots, apps |-> table])
  <2> HIDE DEF slots, table
  <2> QED BY <1>4, <1>5, RecordShape
<1>8. /\ DOMAIN new(ids).slot_ids = DOMAIN ids
      /\ \A i \in DOMAIN ids : /\ new(ids).slot_ids[i].id = ids[i]
                               /\ new(ids).slot_ids[i].free = TRUE
      /\ DOMAIN new(ids).apps = {}
  BY <1>6
<1> QED
  BY <1>6, <1>7, <1>8
  DEF WellFormed, SlotIdsDistinct, OwnedSlotsListed, NoSlotShared, FilledIffOwned

(* The indexes fill_free_slot picks are distinct indexes of free slots.    *)
LEMMA PickFacts ==
    ASSUME NEW sb, WrbpodSuperblock(sb), NEW n \in Nat, NEW q \in fill_free_slot(sb, n)
    PROVE  /\ DOMAIN q = 1..n
           /\ \A k \in 1..n : /\ q[k] \in DOMAIN sb.slot_ids
                              /\ sb.slot_ids[q[k]].free
                              /\ sb.slot_ids[q[k]].id \in Slot
           /\ \A j, k \in 1..n : q[j] = q[k] => j = k
<1>1. q \in [1..n -> FreeIndexes(sb)] /\ \A j, k \in 1..n : j < k => q[j] < q[k]
  BY DEF fill_free_slot
<1>2. /\ sb.slot_ids \in Seq(WrbpodSlot)
      /\ Len(sb.slot_ids) \in Nat
      /\ DOMAIN sb.slot_ids = 1..Len(sb.slot_ids)
  BY LenProperties DEF WrbpodSuperblock
<1>3. \A i \in DOMAIN sb.slot_ids : sb.slot_ids[i] \in WrbpodSlot
  BY <1>2, ElementOfSeq
<1>4. \A k \in 1..n : q[k] \in DOMAIN sb.slot_ids /\ sb.slot_ids[q[k]].free /\ q[k] \in Int
  BY <1>1, <1>2 DEF FreeIndexes
<1>5. \A k \in 1..n : sb.slot_ids[q[k]].id \in Slot
  BY <1>3, <1>4 DEF WrbpodSlot
<1>6. \A j, k \in 1..n : q[j] = q[k] => j = k
  BY <1>1, <1>4
<1> QED BY <1>1, <1>4, <1>5, <1>6

(* A list of slots followed by another one, position by position.          *)
LEMMA Followed ==
    ASSUME NEW S, NEW s \in Seq(S), NEW t \in Seq(S), NEW u, u = s \o t
    PROVE  /\ u \in Seq(S)
           /\ DOMAIN u = 1..(Len(s) + Len(t))
           /\ \A k \in 1..Len(s) : u[k] = s[k]
           /\ \A k \in 1..Len(t) : u[Len(s) + k] = t[k]
<1> DEFINE m == Len(s)
           n == Len(t)
<1>0. m \in Nat /\ n \in Nat
  BY LenProperties
<1>1. /\ u \in Seq(S)
      /\ Len(u) = m + n
      /\ \A k \in 1..(m + n) : u[k] = IF k <= m THEN s[k] ELSE t[k - m]
  BY ConcatProperties
<1>2. DOMAIN u = 1..(m + n)
  BY <1>1, LenProperties
<1> HIDE DEF m, n
<1>3. \A k \in 1..m : u[k] = s[k]
  <2> TAKE k \in 1..m
  <2>1. k \in 1..(m + n) /\ k <= m
    BY <1>0
  <2> QED BY <1>1, <2>1
<1>4. \A k \in 1..n : u[m + k] = t[k]
  <2> TAKE k \in 1..n
  <2>1. m + k \in 1..(m + n) /\ ~(m + k <= m) /\ (m + k) - m = k
    BY <1>0
  <2> QED BY <1>1, <2>1
<1> QED BY <1>1, <1>2, <1>3, <1>4 DEF m, n

(***************************************************************************)
(* GiveSlots field by field: the picked slots are filled, the other apps   *)
(* keep their slots, and app has the slots it had followed by the new ones. *)
(***************************************************************************)
LEMMA GiveFacts ==
    ASSUME NEW sb, WrbpodSuperblock(sb), NEW app \in App, NEW n \in Nat,
           NEW q \in fill_free_slot(sb, n)
    PROVE  LET g == GiveSlots(sb, app, q)
               had == IF app \in DOMAIN sb.apps THEN Len(sb.apps[app]) ELSE 0
           IN  /\ WrbpodSuperblock(g)
               /\ DOMAIN g.slot_ids = DOMAIN sb.slot_ids
               /\ \A i \in DOMAIN sb.slot_ids :
                     /\ g.slot_ids[i].id = sb.slot_ids[i].id
                     /\ g.slot_ids[i].free
                           <=> sb.slot_ids[i].free /\ \A k \in 1..n : q[k] # i
               /\ DOMAIN g.apps = DOMAIN sb.apps \cup {app}
               /\ \A a \in DOMAIN sb.apps \ {app} : g.apps[a] = sb.apps[a]
               /\ had \in Nat
               /\ app \in DOMAIN sb.apps => DOMAIN sb.apps[app] = 1..had
               /\ DOMAIN g.apps[app] = 1..(had + n)
               /\ \A k \in 1..had : g.apps[app][k] = sb.apps[app][k]
               /\ \A k \in 1..n : g.apps[app][had + k] = sb.slot_ids[q[k]].id
<1> DEFINE ids == [k \in DOMAIN q |-> sb.slot_ids[q[k]].id]
           slots == [i \in DOMAIN sb.slot_ids |->
                       IF i \in Elems(q) THEN as_filled(sb.slot_ids[i])
                                         ELSE sb.slot_ids[i]]
           list == IF app \in DOMAIN sb.apps THEN sb.apps[app] \o ids ELSE ids
           table == [a \in DOMAIN sb.apps \cup {app} |->
                       IF a # app THEN sb.apps[a] ELSE list]
           had == IF app \in DOMAIN sb.apps THEN Len(sb.apps[app]) ELSE 0
           g == GiveSlots(sb, app, q)
<1>1. g = [slot_ids |-> slots, apps |-> table]
  BY DEF GiveSlots
<1>2. /\ DOMAIN q = 1..n
      /\ \A k \in 1..n : q[k] \in DOMAIN sb.slot_ids /\ sb.slot_ids[q[k]].id \in Slot
  BY PickFacts
<1>3. /\ sb.slot_ids \in Seq(WrbpodSlot)
      /\ DOMAIN sb.apps \subseteq App
      /\ sb.apps \in [DOMAIN sb.apps -> Seq(Slot)]
  BY DEF WrbpodSuperblock
<1>4. /\ Len(sb.slot_ids) \in Nat
      /\ DOMAIN sb.slot_ids = 1..Len(sb.slot_ids)
      /\ \A i \in DOMAIN sb.slot_ids : sb.slot_ids[i] \in WrbpodSlot
  BY <1>3, LenProperties, ElementOfSeq
<1>5. \A i : i \in Elems(q) <=> \E k \in 1..n : q[k] = i
  BY <1>2 DEF Elems
<1>6. /\ DOMAIN slots = DOMAIN sb.slot_ids
      /\ \A i \in DOMAIN sb.slot_ids :
            /\ slots[i] \in WrbpodSlot
            /\ slots[i].id = sb.slot_ids[i].id
            /\ slots[i].free <=> sb.slot_ids[i].free /\ \A k \in 1..n : q[k] # i
  BY <1>4, <1>5 DEF as_filled, WrbpodSlot
<1>7. slots \in Seq(WrbpodSlot)
  <2>1. slots \in [1..Len(sb.slot_ids) -> WrbpodSlot]
    BY <1>4, <1>6
  <2> HIDE DEF slots
  <2> QED BY <1>4, <2>1, SeqDef
<1>8. ids \in Seq(Slot) /\ Len(ids) = n /\ \A k \in 1..n : ids[k] = sb.slot_ids[q[k]].id
  <2>1. ids \in [1..n -> Slot] /\ \A k \in 1..n : ids[k] = sb.slot_ids[q[k]].id
    BY <1>2
  <2> HIDE DEF ids
  <2>2. ids \in Seq(Slot)
    BY <2>1, SeqDef
  <2> QED BY <2>1, <2>2, LenProperties
<1>9. /\ list \in Seq(Slot)
      /\ had \in Nat
      /\ app \in DOMAIN sb.apps => DOMAIN sb.apps[app] = 1..had
      /\ DOMAIN list = 1..(had + n)
      /\ \A k \in 1..had : list[k] = sb.apps[app][k]
      /\ \A k \in 1..n : list[had + k] = ids[k]
  <2> HIDE DEF ids
  <2>1. CASE app \in DOMAIN sb.apps
    <3>1. sb.apps[app] \in Seq(Slot)
      BY <1>3, <2>1
    <3>2. had = Len(sb.apps[app]) /\ had \in Nat /\ DOMAIN sb.apps[app] = 1..had
      BY <2>1, <3>1, LenProperties
    <3>3. list = sb.apps[app] \o ids
      BY <2>1
    <3> HIDE DEF had, list, slots, table, g
    <3>0. ids \in Seq(Slot)
      BY <1>8
    <3>4. /\ list \in Seq(Slot)
          /\ DOMAIN list = 1..(Len(sb.apps[app]) + Len(ids))
          /\ \A k \in 1..Len(sb.apps[app]) : list[k] = sb.apps[app][k]
          /\ \A k \in 1..Len(ids) : list[Len(sb.apps[app]) + k] = ids[k]
      BY <3>0, <3>1, <3>3, Followed, SMTT(30)
    <3> QED BY <1>8, <3>2, <3>4
  <2>2. CASE app \notin DOMAIN sb.apps
    BY <1>8, <2>2, LenProperties
  <2> QED BY <2>1, <2>2
<1>10. table \in [DOMAIN sb.apps \cup {app} -> Seq(Slot)]
  <2> HIDE DEF list
  <2> QED BY <1>3, <1>9
<1>11. /\ DOMAIN table = DOMAIN sb.apps \cup {app}
       /\ \A a \in DOMAIN sb.apps \ {app} : table[a] = sb.apps[a]
       /\ table[app] = list
  <2> HIDE DEF list
  <2> QED OBVIOUS
<1> HIDE DEF slots, table, list, ids, had
<1>12. WrbpodSuperblock(g)
  BY <1>1, <1>3, <1>7, <1>10, RecordShape
<1>13. g.slot_ids = slots /\ g.apps = table
  BY <1>1
<1> QED
  BY <1>6, <1>8, <1>9, <1>11, <1>12, <1>13 DEF had

(* A slot an app already has is not one of those just picked: those were   *)
(* free.                                                                   *)
LEMMA PickedWasUnowned ==
    ASSUME NEW sb, WrbpodSuperblock(sb), WellFormed(sb), NEW n \in Nat,
           NEW q \in fill_free_slot(sb, n), NEW k \in 1..n,
           NEW a \in DOMAIN sb.apps, NEW j \in DOMAIN sb.apps[a]
    PROVE  sb.apps[a][j] # sb.slot_ids[q[k]].id
<1>1. q[k] \in DOMAIN sb.slot_ids /\ sb.slot_ids[q[k]].free
  BY PickFacts
<1>2. sb.slot_ids[q[k]].id \notin Elems(sb.apps[a])
  BY <1>1 DEF WellFormed, FilledIffOwned
<1> QED BY <1>2 DEF Elems

(* Giving an app slots that were free keeps the superblock well formed.    *)
LEMMA GiveSound ==
    ASSUME NEW sb, WrbpodSuperblock(sb), WellFormed(sb), NEW app \in App,
           NEW n \in Nat, NEW q \in fill_free_slot(sb, n)
    PROVE  WellFormed(GiveSlots(sb, app, q))
<1> DEFINE g == GiveSlots(sb, app, q)
           had == IF app \in DOMAIN sb.apps THEN Len(sb.apps[app]) ELSE 0
<1>1. /\ DOMAIN g.slot_ids = DOMAIN sb.slot_ids
      /\ \A i \in DOMAIN sb.slot_ids :
            /\ g.slot_ids[i].id = sb.slot_ids[i].id
            /\ g.slot_ids[i].free <=> sb.slot_ids[i].free /\ \A k \in 1..n : q[k] # i
  BY GiveFacts
<1>2. /\ DOMAIN g.apps = DOMAIN sb.apps \cup {app}
      /\ \A a \in DOMAIN sb.apps \ {app} : g.apps[a] = sb.apps[a]
  BY GiveFacts
<1>3. /\ had \in Nat
      /\ app \in DOMAIN sb.apps => DOMAIN sb.apps[app] = 1..had
      /\ DOMAIN g.apps[app] = 1..(had + n)
      /\ \A k \in 1..had : g.apps[app][k] = sb.apps[app][k]
      /\ \A k \in 1..n : g.apps[app][had + k] = sb.slot_ids[q[k]].id
  BY GiveFacts
<1>4. app \notin DOMAIN sb.apps => had = 0
  OBVIOUS
<1>5. /\ \A k \in 1..n : q[k] \in DOMAIN sb.slot_ids /\ sb.slot_ids[q[k]].free
      /\ \A j, k \in 1..n : q[j] = q[k] => j = k
  BY PickFacts
<1>6. /\ SlotIdsDistinct(sb) /\ OwnedSlotsListed(sb)
      /\ NoSlotShared(sb) /\ FilledIffOwned(sb)
  BY DEF WellFormed
<1> HIDE DEF g, had
(* Each entry of the new table is an old entry, or a slot just picked.     *)
<1>7. \A j \in DOMAIN g.apps[app] :
         \/ app \in DOMAIN sb.apps /\ j \in DOMAIN sb.apps[app] /\ j \in 1..had
              /\ g.apps[app][j] = sb.apps[app][j]
         \/ \E k \in 1..n : j = had + k /\ g.apps[app][j] = sb.slot_ids[q[k]].id
  <2> TAKE j \in DOMAIN g.apps[app]
  <2>1. j \in 1..had \/ \E k \in 1..n : j = had + k
    <3>1. j \in 1..(had + n) /\ had \in Nat
      BY <1>3
    <3>2. j \in 1..had \/ (j - had \in 1..n /\ j = had + (j - had))
      BY <3>1
    <3> QED BY <3>2
  <2>2. CASE j \in 1..had
    <3>1. app \in DOMAIN sb.apps
      BY <1>3, <1>4, <2>2
    <3> QED BY <1>3, <2>2, <3>1
  <2>3. CASE \E k \in 1..n : j = had + k
    BY <1>3, <2>3
  <2> QED BY <2>1, <2>2, <2>3
<1>8. \A a \in DOMAIN sb.apps : \A j \in DOMAIN sb.apps[a], k \in 1..n :
         sb.apps[a][j] # sb.slot_ids[q[k]].id
  BY PickedWasUnowned
<1>9. SlotIdsDistinct(g)
  BY <1>1, <1>6 DEF SlotIdsDistinct
<1>10. OwnedSlotsListed(g)
  <2> SUFFICES ASSUME NEW a \in DOMAIN g.apps, NEW j \in DOMAIN g.apps[a]
               PROVE  \E i \in DOMAIN g.slot_ids : g.slot_ids[i].id = g.apps[a][j]
    BY DEF OwnedSlotsListed
  <2>1. CASE a # app
    BY <1>1, <1>2, <1>6, <2>1 DEF OwnedSlotsListed
  <2>2. CASE a = app
    <3>1. \/ app \in DOMAIN sb.apps /\ j \in DOMAIN sb.apps[app]
               /\ g.apps[app][j] = sb.apps[app][j]
          \/ \E k \in 1..n : g.apps[app][j] = sb.slot_ids[q[k]].id
      BY <1>7, <2>2
    <3> QED BY <1>1, <1>5, <1>6, <2>2, <3>1 DEF OwnedSlotsListed
  <2> QED BY <2>1, <2>2
<1>11. NoSlotShared(g)
  <2> SUFFICES ASSUME NEW a \in DOMAIN g.apps, NEW b \in DOMAIN g.apps,
                      NEW j \in DOMAIN g.apps[a], NEW k \in DOMAIN g.apps[b],
                      g.apps[a][j] = g.apps[b][k]
               PROVE  a = b /\ j = k
    BY DEF NoSlotShared
  <2>1. CASE a # app /\ b # app
    BY <1>2, <1>6, <2>1 DEF NoSlotShared
  <2>2. CASE a = app /\ b # app
    <3>1. b \in DOMAIN sb.apps /\ g.apps[b] = sb.apps[b]
      BY <1>2, <2>2
    <3> QED BY <1>6, <1>7, <1>8, <2>2, <3>1 DEF NoSlotShared
  <2>3. CASE a # app /\ b = app
    <3>1. a \in DOMAIN sb.apps /\ g.apps[a] = sb.apps[a]
      BY <1>2, <2>3
    <3> QED BY <1>6, <1>7, <1>8, <2>3, <3>1 DEF NoSlotShared
  <2>4. CASE a = app /\ b = app
    <3>1. \/ app \in DOMAIN sb.apps /\ j \in DOMAIN sb.apps[app]
               /\ g.apps[app][j] = sb.apps[app][j]
          \/ \E x \in 1..n : j = had + x /\ g.apps[app][j] = sb.slot_ids[q[x]].id
      BY <1>7, <2>4
    <3>2. \/ app \in DOMAIN sb.apps /\ k \in DOMAIN sb.apps[app]
               /\ g.apps[app][k] = sb.apps[app][k]
          \/ \E y \in 1..n : k = had + y /\ g.apps[app][k] = sb.slot_ids[q[y]].id
      BY <1>7, <2>4
    <3>3. \A x, y \in 1..n : sb.slot_ids[q[x]].id = sb.slot_ids[q[y]].id => x = y
      BY <1>5, <1>6 DEF SlotIdsDistinct
    <3> QED BY <1>6, <1>8, <2>4, <3>1, <3>2, <3>3 DEF NoSlotShared
  <2> QED BY <2>1, <2>2, <2>3, <2>4
<1>12. FilledIffOwned(g)
  <2> SUFFICES ASSUME NEW i \in DOMAIN sb.slot_ids
               PROVE  g.slot_ids[i].free <=>
                        \A a \in DOMAIN g.apps : sb.slot_ids[i].id \notin Elems(g.apps[a])
    BY <1>1 DEF FilledIffOwned
  <2>1. ASSUME g.slot_ids[i].free, NEW a \in DOMAIN g.apps, NEW j \in DOMAIN g.apps[a]
        PROVE  g.apps[a][j] # sb.slot_ids[i].id
    <3>1. sb.slot_ids[i].free /\ \A k \in 1..n : q[k] # i
      BY <1>1, <2>1
    <3>2. \A b \in DOMAIN sb.apps : \A x \in DOMAIN sb.apps[b] :
             sb.apps[b][x] # sb.slot_ids[i].id
      BY <1>6, <3>1 DEF FilledIffOwned, Elems
    <3>3. \A k \in 1..n : sb.slot_ids[q[k]].id # sb.slot_ids[i].id
      BY <1>5, <1>6, <3>1 DEF SlotIdsDistinct
    <3>4. CASE a # app
      BY <1>2, <3>2, <3>4
    <3>5. CASE a = app
      BY <1>7, <3>2, <3>3, <3>5
    <3> QED BY <3>4, <3>5
  <2>2. ASSUME ~g.slot_ids[i].free
        PROVE  \E a \in DOMAIN g.apps : \E j \in DOMAIN g.apps[a] :
                  g.apps[a][j] = sb.slot_ids[i].id
    <3>1. ~sb.slot_ids[i].free \/ \E k \in 1..n : q[k] = i
      BY <1>1, <2>2
    <3>2. CASE ~sb.slot_ids[i].free
      <4>1. PICK b \in DOMAIN sb.apps : sb.slot_ids[i].id \in Elems(sb.apps[b])
        BY <1>6, <3>2 DEF FilledIffOwned
      <4>2. PICK x \in DOMAIN sb.apps[b] : sb.apps[b][x] = sb.slot_ids[i].id
        BY <4>1 DEF Elems
      <4>3. CASE b # app
        BY <1>2, <4>2, <4>3
      <4>4. CASE b = app
        <5>1. x \in 1..had /\ g.apps[app][x] = sb.apps[app][x]
          BY <1>3, <4>4
        <5>2. x \in DOMAIN g.apps[app] /\ app \in DOMAIN g.apps
          BY <1>2, <1>3, <5>1
        <5> QED BY <4>2, <4>4, <5>1, <5>2
      <4> QED BY <4>3, <4>4
    <3>3. ASSUME NEW k \in 1..n, q[k] = i
          PROVE  \E a \in DOMAIN g.apps : \E j \in DOMAIN g.apps[a] :
                    g.apps[a][j] = sb.slot_ids[i].id
      <4>1. had + k \in DOMAIN g.apps[app] /\ app \in DOMAIN g.apps
        BY <1>2, <1>3
      <4>2. g.apps[app][had + k] = sb.slot_ids[i].id
        BY <1>3, <3>3
      <4> QED BY <4>1, <4>2
    <3> QED BY <3>1, <3>2, <3>3
  <2> QED BY <2>1, <2>2 DEF Elems
<1> QED BY <1>9, <1>10, <1>11, <1>12 DEF WellFormed, g

(* allocate_slots either changes nothing or gives app slots it picked.     *)
LEMMA AllocateCases ==
    ASSUME NEW sb, NEW app, NEW n
    PROVE  LET r == allocate_slots(sb, app, n)
           IN  \/ r = [ok |-> FALSE, sb |-> sb]
               \/ \E q \in fill_free_slot(sb, n) :
                     r = [ok |-> TRUE, sb |-> GiveSlots(sb, app, q)]
BY DEF allocate_slots

(* allocate_slots keeps the superblock well formed, granted or not.        *)
LEMMA AllocateSound ==
    ASSUME NEW sb, WrbpodSuperblock(sb), WellFormed(sb), NEW app \in App, NEW n \in Nat
    PROVE  LET r == allocate_slots(sb, app, n)
           IN  WrbpodSuperblock(r.sb) /\ WellFormed(r.sb) /\ r.ok \in BOOLEAN
<1> DEFINE r == allocate_slots(sb, app, n)
<1>1. CASE r = [ok |-> FALSE, sb |-> sb]
  BY <1>1
<1>2. ASSUME NEW q \in fill_free_slot(sb, n),
             r = [ok |-> TRUE, sb |-> GiveSlots(sb, app, q)]
      PROVE  WrbpodSuperblock(r.sb) /\ WellFormed(r.sb) /\ r.ok \in BOOLEAN
  <2>1. WrbpodSuperblock(GiveSlots(sb, app, q)) /\ WellFormed(GiveSlots(sb, app, q))
    BY GiveFacts, GiveSound
  <2> HIDE DEF r
  <2> QED BY <1>2, <2>1
<1> QED BY <1>1, <1>2, AllocateCases

(* delete_slots field by field: the slots of app are free, app is gone.    *)
LEMMA DeleteFacts ==
    ASSUME NEW sb, WrbpodSuperblock(sb), NEW app \in DOMAIN sb.apps
    PROVE  LET d == delete_slots(sb, app)
           IN  /\ WrbpodSuperblock(d)
               /\ DOMAIN d.slot_ids = DOMAIN sb.slot_ids
               /\ \A i \in DOMAIN sb.slot_ids :
                     /\ d.slot_ids[i].id = sb.slot_ids[i].id
                     /\ d.slot_ids[i].free <=> \/ sb.slot_ids[i].free
                                              \/ sb.slot_ids[i].id \in Elems(sb.apps[app])
               /\ DOMAIN d.apps = DOMAIN sb.apps \ {app}
               /\ \A a \in DOMAIN sb.apps \ {app} : d.apps[a] = sb.apps[a]
<1> DEFINE slots == [i \in DOMAIN sb.slot_ids |->
                       IF sb.slot_ids[i].id \in Elems(sb.apps[app])
                       THEN as_free(sb.slot_ids[i]) ELSE sb.slot_ids[i]]
           table == [a \in DOMAIN sb.apps \ {app} |-> sb.apps[a]]
           d == delete_slots(sb, app)
<1>1. d = [slot_ids |-> slots, apps |-> table]
  BY DEF delete_slots
<1>2. /\ sb.slot_ids \in Seq(WrbpodSlot)
      /\ DOMAIN sb.apps \subseteq App
      /\ sb.apps \in [DOMAIN sb.apps -> Seq(Slot)]
  BY DEF WrbpodSuperblock
<1>3. /\ Len(sb.slot_ids) \in Nat
      /\ DOMAIN sb.slot_ids = 1..Len(sb.slot_ids)
      /\ \A i \in DOMAIN sb.slot_ids : sb.slot_ids[i] \in WrbpodSlot
  BY <1>2, LenProperties, ElementOfSeq
<1>4. /\ DOMAIN slots = DOMAIN sb.slot_ids
      /\ \A i \in DOMAIN sb.slot_ids :
            /\ slots[i] \in WrbpodSlot
            /\ slots[i].id = sb.slot_ids[i].id
            /\ slots[i].free <=> \/ sb.slot_ids[i].free
                                \/ sb.slot_ids[i].id \in Elems(sb.apps[app])
  BY <1>3 DEF as_free, WrbpodSlot
<1>5. slots \in Seq(WrbpodSlot)
  <2>1. slots \in [1..Len(sb.slot_ids) -> WrbpodSlot]
    BY <1>3, <1>4
  <2> HIDE DEF slots
  <2> QED BY <1>3, <2>1, SeqDef
<1>6. /\ table \in [DOMAIN sb.apps \ {app} -> Seq(Slot)]
      /\ DOMAIN table = DOMAIN sb.apps \ {app}
      /\ \A a \in DOMAIN sb.apps \ {app} : table[a] = sb.apps[a]
  BY <1>2
<1> HIDE DEF slots, table
<1>7. WrbpodSuperblock(d)
  BY <1>1, <1>2, <1>5, <1>6, RecordShape
<1> QED BY <1>1, <1>4, <1>6, <1>7

(* delete_slots keeps the superblock well formed: the slots it frees are   *)
(* the app's own, and no other app's.                                      *)
LEMMA DeleteSound ==
    ASSUME NEW sb, WrbpodSuperblock(sb), WellFormed(sb), NEW app
    PROVE  WrbpodSuperblock(delete_slots(sb, app)) /\ WellFormed(delete_slots(sb, app))
<1>1. CASE app \notin DOMAIN sb.apps
  BY <1>1 DEF delete_slots
<1>2. CASE app \in DOMAIN sb.apps
  <2> DEFINE d == delete_slots(sb, app)
  <2>1. /\ WrbpodSuperblock(d)
        /\ DOMAIN d.slot_ids = DOMAIN sb.slot_ids
        /\ \A i \in DOMAIN sb.slot_ids :
              /\ d.slot_ids[i].id = sb.slot_ids[i].id
              /\ d.slot_ids[i].free <=> \/ sb.slot_ids[i].free
                                       \/ sb.slot_ids[i].id \in Elems(sb.apps[app])
        /\ DOMAIN d.apps = DOMAIN sb.apps \ {app}
        /\ \A a \in DOMAIN sb.apps \ {app} : d.apps[a] = sb.apps[a]
    BY <1>2, DeleteFacts
  <2> HIDE DEF d
  <2>2. SlotIdsDistinct(d)
    BY <2>1 DEF WellFormed, SlotIdsDistinct
  <2>3. OwnedSlotsListed(d)
    BY <2>1 DEF WellFormed, OwnedSlotsListed
  <2>4. NoSlotShared(d)
    BY <2>1 DEF WellFormed, NoSlotShared
  <2>5. FilledIffOwned(d)
    <3> SUFFICES ASSUME NEW i \in DOMAIN sb.slot_ids
                 PROVE  d.slot_ids[i].free <=>
                          \A a \in DOMAIN sb.apps \ {app} :
                             sb.slot_ids[i].id \notin Elems(sb.apps[a])
      BY <2>1 DEF FilledIffOwned
    <3>1. sb.slot_ids[i].free <=>
            \A a \in DOMAIN sb.apps : sb.slot_ids[i].id \notin Elems(sb.apps[a])
      BY DEF WellFormed, FilledIffOwned
    <3>2. \A a \in DOMAIN sb.apps \ {app} :
             sb.slot_ids[i].id \in Elems(sb.apps[app]) =>
                sb.slot_ids[i].id \notin Elems(sb.apps[a])
      BY <1>2 DEF WellFormed, NoSlotShared, Elems
    <3> QED BY <1>2, <2>1, <3>1, <3>2
  <2> QED BY <2>1, <2>2, <2>3, <2>4, <2>5 DEF WellFormed, d
<1> QED BY <1>1, <1>2

-----------------------------------------------------------------------------
(* The inductive invariant of Superblock.                                  *)
SuperblockInv == SuperblockTypeOK /\ SlotsSound

(* A new superblock satisfies the invariant.                               *)
LEMMA SuperblockInvInit == SuperblockInit => SuperblockInv
<1> SUFFICES ASSUME SuperblockInit PROVE SuperblockInv
  OBVIOUS
<1>1. WrbpodSuperblock(new(SlotIds)) /\ WellFormed(new(SlotIds))
  BY NewSound, SuperblockAssumption
<1> QED BY <1>1 DEF SuperblockInit, SuperblockInv, SuperblockTypeOK, SlotsSound

(* Allocations and deletions keep it.                                      *)
LEMMA SuperblockInvNext == SuperblockInv /\ [SuperblockNext]_sbVars => SuperblockInv'
<1> SUFFICES ASSUME SuperblockInv, [SuperblockNext]_sbVars PROVE SuperblockInv'
  OBVIOUS
<1>1. WrbpodSuperblock(superblock) /\ WellFormed(superblock) /\ granted \in BOOLEAN
  BY DEF SuperblockInv, SuperblockTypeOK, SlotsSound
<1>2. ASSUME NEW app \in App, NEW n \in AllocSizes, Allocate(app, n) PROVE SuperblockInv'
  <2>1. n \in Nat
    BY SlotAssumption
  <2>2. LET r == allocate_slots(superblock, app, n)
        IN  WrbpodSuperblock(r.sb) /\ WellFormed(r.sb) /\ r.ok \in BOOLEAN
    BY <1>1, <2>1, AllocateSound
  <2> QED BY <1>2, <2>2 DEF Allocate, SuperblockInv, SuperblockTypeOK, SlotsSound
<1>3. ASSUME NEW app \in App, Delete(app) PROVE SuperblockInv'
  <2>1. /\ WrbpodSuperblock(delete_slots(superblock, app))
        /\ WellFormed(delete_slots(superblock, app))
    BY <1>1, DeleteSound
  <2> QED BY <1>1, <1>3, <2>1 DEF Delete, SuperblockInv, SuperblockTypeOK, SlotsSound
<1>4. CASE UNCHANGED sbVars
  BY <1>1, <1>4 DEF sbVars, SuperblockInv, SuperblockTypeOK, SlotsSound
<1> QED BY <1>2, <1>3, <1>4 DEF SuperblockNext

(* The superblock keeps the shape of WrbpodSuperblock.                     *)
THEOREM SuperblockTypeCorrect == SuperblockSpec => []SuperblockTypeOK
<1>1. SuperblockInv => SuperblockTypeOK
  BY DEF SuperblockInv
<1> QED BY <1>1, SuperblockInvInit, SuperblockInvNext, PTL DEF SuperblockSpec

(* Whatever the apps allocate and delete, no slot has two owners and none  *)
(* is lost: the free list and the app table agree.                         *)
THEOREM NoDoubleAllocationNoLeak == SuperblockSpec => []SlotsSound
<1>1. SuperblockInv => SlotsSound
  BY DEF SuperblockInv
<1> QED BY <1>1, SuperblockInvInit, SuperblockInvNext, PTL DEF SuperblockSpec

(* The slots an app has keep their numbers as long as it exists.           *)
THEOREM SlotNumbersAreStable == SuperblockSpec => SlotNumbersStable
<1> DEFINE Stable ==
      \A a \in DOMAIN superblock.apps \cap DOMAIN superblock'.apps :
         \A k \in DOMAIN superblock.apps[a] :
            k \in DOMAIN superblock'.apps[a] /\ superblock'.apps[a][k] = superblock.apps[a][k]
<1>1. ASSUME SuperblockInv, [SuperblockNext]_sbVars PROVE [Stable]_sbVars
  <2>1. WrbpodSuperblock(superblock)
    BY <1>1 DEF SuperblockInv, SuperblockTypeOK
  <2>2. ASSUME NEW app \in App, NEW n \in AllocSizes, Allocate(app, n) PROVE Stable
    <3>1. n \in Nat
      BY SlotAssumption
    <3>2. \/ superblock' = superblock
          \/ \E q \in fill_free_slot(superblock, n) :
                superblock' = GiveSlots(superblock, app, q)
      BY <2>2, AllocateCases DEF Allocate
    <3>3. ASSUME NEW q \in fill_free_slot(superblock, n),
                 superblock' = GiveSlots(superblock, app, q)
          PROVE  Stable
      <4> DEFINE had == IF app \in DOMAIN superblock.apps THEN Len(superblock.apps[app]) ELSE 0
      <4>1. \A a \in DOMAIN superblock.apps \ {app} : superblock'.apps[a] = superblock.apps[a]
        BY <2>1, <3>1, <3>3, GiveFacts
      <4>2. /\ had \in Nat
            /\ app \in DOMAIN superblock.apps => DOMAIN superblock.apps[app] = 1..had
            /\ DOMAIN superblock'.apps[app] = 1..(had + n)
            /\ \A k \in 1..had : superblock'.apps[app][k] = superblock.apps[app][k]
        BY <2>1, <3>1, <3>3, GiveFacts
      <4> HIDE DEF had
      <4> SUFFICES ASSUME NEW a \in DOMAIN superblock.apps,
                          NEW k \in DOMAIN superblock.apps[a]
                   PROVE  /\ k \in DOMAIN superblock'.apps[a]
                          /\ superblock'.apps[a][k] = superblock.apps[a][k]
        OBVIOUS
      <4>3. CASE a # app
        BY <4>1, <4>3
      <4>4. CASE a = app
        BY <3>1, <4>2, <4>4
      <4> QED BY <4>3, <4>4
    <3>4. CASE superblock' = superblock
      BY <3>4
    <3> QED BY <3>2, <3>3, <3>4
  <2>3. ASSUME NEW app \in App, Delete(app) PROVE Stable
    <3>1. CASE app \notin DOMAIN superblock.apps
      BY <2>3, <3>1 DEF Delete, delete_slots
    <3>2. CASE app \in DOMAIN superblock.apps
      <4>1. /\ DOMAIN superblock'.apps = DOMAIN superblock.apps \ {app}
            /\ \A a \in DOMAIN superblock.apps \ {app} :
                  superblock'.apps[a] = superblock.apps[a]
        BY <2>1, <2>3, <3>2, DeleteFacts DEF Delete
      <4> QED BY <4>1
    <3> QED BY <3>1, <3>2
  <2> QED BY <1>1, <2>2, <2>3 DEF SuperblockNext
<1> QED BY <1>1, SuperblockInvInit, SuperblockInvNext, PTL DEF SuperblockSpec, SlotNumbersStable

-----------------------------------------------------------------------------
(* The free indexes are finitely many naturals.                            *)
LEMMA FreeFinite ==
    ASSUME NEW sb, WrbpodSuperblock(sb)
    PROVE  /\ FreeIndexes(sb) \subseteq Nat
           /\ IsFiniteSet(FreeIndexes(sb))
           /\ Cardinality(FreeIndexes(sb)) \in Nat
<1>1. Len(sb.slot_ids) \in Nat /\ DOMAIN sb.slot_ids = 1..Len(sb.slot_ids)
  BY LenProperties DEF WrbpodSuperblock
<1>2. /\ FreeIndexes(sb) \in SUBSET (1..Len(sb.slot_ids))
      /\ FreeIndexes(sb) \subseteq Nat
  BY <1>1 DEF FreeIndexes
<1>3. IsFiniteSet(1..Len(sb.slot_ids))
  BY <1>1, FS_Interval
<1>4. IsFiniteSet(FreeIndexes(sb))
  BY <1>2, <1>3, FS_Subset
<1> QED BY <1>2, <1>4, FS_CardinalityType

(* n picked indexes are n of the free ones.                                *)
LEMMA PickedCount ==
    ASSUME NEW sb, WrbpodSuperblock(sb), NEW n \in Nat, NEW q \in fill_free_slot(sb, n)
    PROVE  /\ {q[k] : k \in 1..n} \subseteq FreeIndexes(sb)
           /\ IsFiniteSet({q[k] : k \in 1..n})
           /\ Cardinality({q[k] : k \in 1..n}) = n
<1> DEFINE Q == {q[k] : k \in 1..n}
<1>1. q \in [1..n -> FreeIndexes(sb)]
  BY DEF fill_free_slot
<1>2. \A j, k \in 1..n : q[j] = q[k] => j = k
  BY PickFacts
<1>3. q \in [1..n -> Q] /\ \A x \in Q : \E k \in 1..n : q[k] = x
  BY <1>1
<1>4. q \in Bijection(1..n, Q)
  <2> HIDE DEF Q
  <2> QED BY <1>2, <1>3 DEF Bijection, Injection, Surjection, IsInjective
<1>5. ExistsBijection(1..n, Q)
  BY <1>4 DEF ExistsBijection
<1>6. IsFiniteSet(1..n) /\ Cardinality(1..n) = n
  BY FS_Interval
<1>7. IsFiniteSet(Q) /\ Cardinality(Q) = n
  BY <1>5, <1>6, FS_Bijection
<1> QED BY <1>1, <1>7

(* A set of naturals has a smallest element.                               *)
LEMMA SmallestNat == ASSUME NEW S \in SUBSET Nat, S # {} PROVE \E x \in S : \A y \in S : x <= y
<1> DEFINE R == OpToRel(<, Nat)
<1>1. \A x, y \in Nat : <<x, y>> \in R <=> x < y
  BY DEF OpToRel
<1>2. IsWellFoundedOn(R, Nat)
  BY NatLessThanWellFounded
<1> HIDE DEF R
<1>3. PICK x \in S : \A y \in S : ~(<<y, x>> \in R)
  BY <1>2, WFMin
<1>4. ASSUME NEW y \in S PROVE x <= y
  <2>1. x \in Nat /\ y \in Nat /\ ~(y < x)
    BY <1>1, <1>3
  <2> QED BY <2>1
<1> QED BY <1>4

(***************************************************************************)
(* The loop over fill_free_slot finds n slots whenever n are free.  Look   *)
(* at the first turn that would fail: fewer indexes than are free were     *)
(* picked before it, so some free index is left, and the smallest one is   *)
(* larger than all the picked ones.                                        *)
(***************************************************************************)
LEMMA PickExists ==
    ASSUME NEW sb, WrbpodSuperblock(sb), NEW n \in Nat, Cardinality(FreeIndexes(sb)) >= n
    PROVE  fill_free_slot(sb, n) # {}
<1> DEFINE F == FreeIndexes(sb)
           Bad == {m \in 0..n : fill_free_slot(sb, m) = {}}
<1> SUFFICES ASSUME Bad # {} PROVE FALSE
  OBVIOUS
<1>1. F \subseteq Nat /\ IsFiniteSet(F) /\ Cardinality(F) \in Nat
  BY FreeFinite
<1>2. PICK m \in Bad : \A y \in Bad : m <= y
  <2>1. Bad \in SUBSET Nat
    OBVIOUS
  <2> HIDE DEF Bad
  <2> QED BY <2>1, SmallestNat
<1>3. m \in 0..n /\ fill_free_slot(sb, m) = {}
  BY <1>2
<1>4. CASE m = 0
  <2> DEFINE q == [k \in 1..0 |-> 0]
  <2>1. q \in fill_free_slot(sb, 0)
    BY DEF fill_free_slot
  <2> QED BY <1>3, <1>4, <2>1
<1>5. CASE m # 0
  <2>1. m - 1 \in 0..n /\ m - 1 \notin Bad /\ m \in Nat /\ m - 1 \in Nat /\ m \in 1..m
    BY <1>2, <1>3, <1>5
  <2>2. PICK q : q \in fill_free_slot(sb, m - 1)
    BY <2>1
  <2> DEFINE Q == {q[k] : k \in 1..(m - 1)}
             Rest == F \ Q
  <2>3. Q \subseteq F /\ IsFiniteSet(Q) /\ Cardinality(Q) = m - 1
    BY <2>1, <2>2, PickedCount
  <2>4. /\ q \in [1..(m - 1) -> F]
        /\ \A j, k \in 1..(m - 1) : j < k => q[j] < q[k]
        /\ \A i \in F : (\E k \in 1..(m - 1) : q[k] = i) \/ (\A k \in 1..(m - 1) : q[k] < i)
    BY <2>2 DEF fill_free_slot
  <2>5. Rest # {}
    <3>1. F # Q
      <4> HIDE DEF Q, F
      <4> QED BY <1>1, <1>3, <2>1, <2>3 DEF F
    <3> HIDE DEF Q
    <3> QED BY <2>3, <3>1
  <2>6. PICK i \in Rest : \A y \in Rest : i <= y
    <3>1. Rest \in SUBSET Nat
      BY <1>1
    <3> HIDE DEF Rest
    <3> QED BY <2>5, <3>1, SmallestNat
  <2>7. i \in F /\ \A k \in 1..(m - 1) : q[k] < i
    BY <2>4, <2>6
  <2> DEFINE r == [k \in 1..m |-> IF k = m THEN i ELSE q[k]]
  <2>8. \A k \in 1..m : k = m \/ k \in 1..(m - 1)
    BY <2>1
  <2>9. r \in [1..m -> F] /\ r[m] = i /\ \A k \in 1..(m - 1) : r[k] = q[k] /\ k \in 1..m
    BY <2>1, <2>4, <2>7, <2>8
  <2> HIDE DEF r, F
  <2>10. ASSUME NEW j \in 1..m, NEW k \in 1..m, j < k PROVE r[j] < r[k]
    <3>1. j \in 1..(m - 1)
      BY <2>1, <2>10
    <3> QED BY <2>4, <2>7, <2>8, <2>9, <2>10, <3>1
  <2>11. ASSUME NEW x \in F
         PROVE  (\E k \in 1..m : r[k] = x) \/ (\A k \in 1..m : r[k] < x)
    <3>1. CASE x \in Q
      BY <2>9, <3>1
    <3>2. CASE x = i
      BY <2>1, <2>9, <3>2
    <3>3. CASE x \notin Q /\ x # i
      <4>1. i <= x /\ i \in Nat /\ x \in Nat
        BY <1>1, <2>6, <2>7, <3>3
      <4>2. i < x
        BY <3>3, <4>1
      <4>3. \A k \in 1..(m - 1) : q[k] < x
        BY <2>4, <3>3
      <4> QED BY <2>8, <2>9, <4>2, <4>3
    <3> QED BY <3>1, <3>2, <3>3
  <2>12. r \in fill_free_slot(sb, m)
    BY <2>9, <2>10, <2>11 DEF fill_free_slot, F
  <2> QED BY <1>3, <2>12
<1> QED BY <1>4, <1>5

(* Filling the picked indexes leaves the other free ones free.             *)
LEMMA GiveCounts ==
    ASSUME NEW sb, WrbpodSuperblock(sb), NEW app \in App, NEW n \in Nat,
           NEW q \in fill_free_slot(sb, n)
    PROVE  LET g == GiveSlots(sb, app, q)
           IN  /\ Cardinality(FreeIndexes(g)) = Cardinality(FreeIndexes(sb)) - n
               /\ num_app_slots(g, app) = num_app_slots(sb, app) + n
<1> DEFINE g == GiveSlots(sb, app, q)
           Q == {q[k] : k \in 1..n}
           F == FreeIndexes(sb)
           had == IF app \in DOMAIN sb.apps THEN Len(sb.apps[app]) ELSE 0
<1>1. /\ WrbpodSuperblock(g)
      /\ DOMAIN g.slot_ids = DOMAIN sb.slot_ids
      /\ \A i \in DOMAIN sb.slot_ids :
            g.slot_ids[i].free <=> sb.slot_ids[i].free /\ \A k \in 1..n : q[k] # i
      /\ app \in DOMAIN g.apps
      /\ had \in Nat
      /\ DOMAIN g.apps[app] = 1..(had + n)
  BY GiveFacts
<1>2. Q \subseteq F /\ IsFiniteSet(Q) /\ Cardinality(Q) = n
  BY PickedCount
<1>3. IsFiniteSet(F) /\ Cardinality(F) \in Nat
  BY FreeFinite
<1> HIDE DEF g
<1>4. FreeIndexes(g) = F \ Q
  BY <1>1 DEF FreeIndexes
<1>5. Cardinality(FreeIndexes(g)) = Cardinality(F) - n
  <2> HIDE DEF F, Q
  <2>1. F \cap Q = Q
    BY <1>2
  <2> QED BY <1>2, <1>3, <1>4, <2>1, FS_Difference
<1>6. Len(g.apps[app]) = had + n
  <2>1. g.apps[app] \in Seq(Slot)
    BY <1>1 DEF WrbpodSuperblock
  <2>2. Len(g.apps[app]) \in Nat /\ DOMAIN g.apps[app] = 1..Len(g.apps[app])
    BY <2>1, LenProperties
  <2> DEFINE l == Len(g.apps[app])
             t == had + n
  <2>3. l \in Nat /\ t \in Nat /\ 1..l = 1..t
    BY <1>1, <2>2
  <2> HIDE DEF l, t
  <2>4. l = t
    <3>1. \A x \in Int : x \in 1..l <=> x \in 1..t
      BY <2>3
    <3>2. l \in 1..l => l <= t
      BY <2>3, <3>1
    <3>3. t \in 1..t => t <= l
      BY <2>3, <3>1
    <3> QED BY <2>3, <3>2, <3>3
  <2> QED BY <2>4 DEF l, t
<1>7. num_app_slots(g, app) = num_app_slots(sb, app) + n
  BY <1>1, <1>6 DEF num_app_slots
<1> QED BY <1>5, <1>7 DEF g

(***************************************************************************)
(* allocate_slots in every reachable superblock and for every size of      *)
(* request: with enough free slots it succeeds and moves exactly as many   *)
(* as asked from the free list to the app, else it refuses and its         *)
(* roll-back leaves the superblock as it was.                              *)
(***************************************************************************)
THEOREM AllocatesAllOrNothing == SuperblockSpec => AllOrNothing
<1> DEFINE Enough(n) == Cardinality(FreeIndexes(superblock)) >= n
           Moved(app, n) ==
             /\ granted'
             /\ num_app_slots(superblock', app) = num_app_slots(superblock, app) + n
             /\ Cardinality(FreeIndexes(superblock'))
                  = Cardinality(FreeIndexes(superblock)) - n
           Refused == ~granted' /\ superblock' = superblock
           Exact == \A app \in App, n \in AllocSizes :
                      Allocate(app, n) => IF Enough(n) THEN Moved(app, n) ELSE Refused
<1>1. ASSUME SuperblockInv PROVE Exact
  <2> SUFFICES ASSUME NEW app \in App, NEW n \in AllocSizes, Allocate(app, n)
               PROVE  IF Enough(n) THEN Moved(app, n) ELSE Refused
    OBVIOUS
  <2> DEFINE picks == fill_free_slot(superblock, n)
  <2>1. n \in Nat /\ WrbpodSuperblock(superblock)
    BY <1>1, SlotAssumption DEF SuperblockInv, SuperblockTypeOK
  <2>2. CASE picks = {}
    <3>1. ~Enough(n)
      BY <2>1, <2>2, PickExists
    <3>2. Refused
      BY <2>2 DEF Allocate, allocate_slots
    <3> HIDE DEF Enough, Moved, Refused
    <3> QED BY <3>1, <3>2
  <2>3. CASE picks # {}
    <3>1. PICK q \in picks : superblock' = GiveSlots(superblock, app, q) /\ granted'
      BY <2>3 DEF Allocate, allocate_slots
    <3>2. Enough(n)
      <4> DEFINE Q == {q[k] : k \in 1..n}
      <4>1. Q \subseteq FreeIndexes(superblock) /\ Cardinality(Q) = n
        BY <2>1, <3>1, PickedCount
      <4> HIDE DEF Q
      <4>2. IsFiniteSet(FreeIndexes(superblock)) /\ Cardinality(FreeIndexes(superblock)) \in Nat
        BY <2>1, FreeFinite
      <4> QED BY <2>1, <4>1, <4>2, FS_Subset
    <3>3. Moved(app, n)
      BY <2>1, <3>1, GiveCounts
    <3> HIDE DEF Enough, Moved, Refused
    <3> QED BY <3>2, <3>3
  <2> QED BY <2>2, <2>3
<1>2. SuperblockInv => [Exact]_sbVars
  BY <1>1
<1> QED BY <1>2, SuperblockInvInit, SuperblockInvNext, PTL DEF SuperblockSpec, AllOrNothing

-----------------------------------------------------------------------------
(* With no slot shared, the owner of a slot is the app that lists it.      *)
LEMMA OwnerIs ==
    ASSUME NEW sb, WellFormed(sb), NEW s, NEW a \in DOMAIN sb.apps,
           s \in Elems(sb.apps[a])
    PROVE  OwnerOf(sb, s) = a
<1>1. \A b \in DOMAIN sb.apps : s \in Elems(sb.apps[b]) => b = a
  BY DEF WellFormed, NoSlotShared, Elems
<1> QED BY <1>1 DEF OwnerOf

(* A slot without an owner in the app table is nobody's.                   *)
LEMMA OwnerIsNobody ==
    ASSUME NEW sb, NEW s, \A a \in DOMAIN sb.apps : s \notin Elems(sb.apps[a])
    PROVE  OwnerOf(sb, s) = Nobody
BY DEF OwnerOf

(* The slots of app after GiveSlots are those it had and those picked.     *)
LEMMA GiveOwners ==
    ASSUME NEW sb, WrbpodSuperblock(sb), NEW app \in App, NEW n \in Nat,
           NEW q \in fill_free_slot(sb, n)
    PROVE  LET g == GiveSlots(sb, app, q)
               S == {sb.slot_ids[q[k]].id : k \in 1..n}
           IN  \A s : s \in Elems(g.apps[app])
                        <=> \/ s \in S
                            \/ app \in DOMAIN sb.apps /\ s \in Elems(sb.apps[app])
<1> DEFINE g == GiveSlots(sb, app, q)
           had == IF app \in DOMAIN sb.apps THEN Len(sb.apps[app]) ELSE 0
           S == {sb.slot_ids[q[k]].id : k \in 1..n}
<1>1. /\ had \in Nat
      /\ app \in DOMAIN sb.apps => DOMAIN sb.apps[app] = 1..had
      /\ DOMAIN g.apps[app] = 1..(had + n)
      /\ \A k \in 1..had : g.apps[app][k] = sb.apps[app][k]
      /\ \A k \in 1..n : g.apps[app][had + k] = sb.slot_ids[q[k]].id
  BY GiveFacts
<1>2. app \notin DOMAIN sb.apps => had = 0
  OBVIOUS
<1> HIDE DEF g, had
<1>3. ASSUME NEW s, s \in Elems(g.apps[app])
      PROVE  s \in S \/ (app \in DOMAIN sb.apps /\ s \in Elems(sb.apps[app]))
  <2>1. PICK j \in 1..(had + n) : s = g.apps[app][j]
    BY <1>1, <1>3 DEF Elems
  <2>2. CASE j <= had
    <3>1. j \in 1..had /\ app \in DOMAIN sb.apps
      BY <1>1, <1>2, <2>1, <2>2
    <3> QED BY <1>1, <2>1, <3>1 DEF Elems
  <2>3. CASE j > had
    <3>1. j - had \in 1..n /\ had + (j - had) = j
      BY <1>1, <2>1, <2>3
    <3>2. s = sb.slot_ids[q[j - had]].id
      BY <1>1, <2>1, <3>1
    <3> QED BY <3>1, <3>2
  <2>4. j <= had \/ j > had
    BY <1>1
  <2> QED BY <2>2, <2>3, <2>4
<1>4. ASSUME NEW s, app \in DOMAIN sb.apps, s \in Elems(sb.apps[app])
      PROVE  s \in Elems(g.apps[app])
  <2>1. PICK j \in 1..had : s = sb.apps[app][j]
    BY <1>1, <1>4 DEF Elems
  <2>2. j \in 1..(had + n)
    BY <1>1, <2>1
  <2> QED BY <1>1, <2>1, <2>2 DEF Elems
<1>5. ASSUME NEW s, s \in S PROVE s \in Elems(g.apps[app])
  <2>1. PICK k \in 1..n : s = sb.slot_ids[q[k]].id
    BY <1>5
  <2>2. had + k \in 1..(had + n)
    BY <1>1
  <2> QED BY <1>1, <2>1, <2>2 DEF Elems
<1> QED BY <1>3, <1>4, <1>5 DEF g

(* A granted request is an abstract allocation of n free slots to app.     *)
LEMMA GiveRefines ==
    ASSUME SuperblockInv, NEW app \in App, NEW n \in Nat,
           NEW q \in fill_free_slot(superblock, n),
           superblock' = GiveSlots(superblock, app, q)
    PROVE  Ownership!Allocate(app, n)
<1> DEFINE S == {superblock.slot_ids[q[k]].id : k \in 1..n}
           g == GiveSlots(superblock, app, q)
           f == [k \in 1..n |-> superblock.slot_ids[q[k]].id]
<1>1. WrbpodSuperblock(superblock) /\ WellFormed(superblock)
  BY DEF SuperblockInv, SuperblockTypeOK, SlotsSound
<1>2. /\ f \in [1..n -> Slot]
      /\ \A j, k \in 1..n : f[j] = f[k] => j = k
      /\ \A s : s \in S <=> \E k \in 1..n : f[k] = s
  <2>1. /\ \A k \in 1..n : /\ q[k] \in DOMAIN superblock.slot_ids
                           /\ superblock.slot_ids[q[k]].id \in Slot
        /\ \A j, k \in 1..n : q[j] = q[k] => j = k
    BY <1>1, PickFacts
  <2>2. \A j, k \in 1..n :
           superblock.slot_ids[q[j]].id = superblock.slot_ids[q[k]].id => j = k
    BY <1>1, <2>1 DEF WellFormed, SlotIdsDistinct
  <2> QED BY <2>1, <2>2
<1>3. \A s \in S : OwnerOf(superblock, s) = Nobody
  <2> SUFFICES ASSUME NEW k \in 1..n, NEW a \in DOMAIN superblock.apps
               PROVE  superblock.slot_ids[q[k]].id \notin Elems(superblock.apps[a])
    BY OwnerIsNobody
  <2> QED BY <1>1, PickedWasUnowned DEF Elems
<1>4. /\ DOMAIN g.apps = DOMAIN superblock.apps \cup {app}
      /\ \A a \in DOMAIN superblock.apps \ {app} : g.apps[a] = superblock.apps[a]
  BY <1>1, GiveFacts
<1>5. \A s : s \in Elems(g.apps[app])
             <=> s \in S \/ (app \in DOMAIN superblock.apps
                             /\ s \in Elems(superblock.apps[app]))
  BY <1>1, GiveOwners
<1>6. WellFormed(g)
  BY <1>1, GiveSound
<1> HIDE DEF S, g, f
<1>7. ASSUME NEW s \in Slot
      PROVE  OwnerOf(g, s) = IF s \in S THEN app ELSE OwnerOf(superblock, s)
  <2>1. CASE s \in S
    BY <1>4, <1>5, <1>6, <2>1, OwnerIs
  <2>2. CASE s \notin S /\ \E a \in DOMAIN superblock.apps : s \in Elems(superblock.apps[a])
    <3>1. PICK a \in DOMAIN superblock.apps : s \in Elems(superblock.apps[a])
      BY <2>2
    <3>2. a \in DOMAIN g.apps /\ s \in Elems(g.apps[a])
      BY <1>4, <1>5, <3>1
    <3>3. OwnerOf(g, s) = a
      BY <1>6, <3>2, OwnerIs
    <3>4. OwnerOf(superblock, s) = a
      BY <1>1, <3>1, OwnerIs
    <3> QED BY <2>2, <3>3, <3>4
  <2>3. CASE s \notin S /\ \A a \in DOMAIN superblock.apps : s \notin Elems(superblock.apps[a])
    <3>1. \A a \in DOMAIN g.apps : s \notin Elems(g.apps[a])
      BY <1>4, <1>5, <2>3
    <3>2. OwnerOf(g, s) = Nobody
      BY <3>1, OwnerIsNobody
    <3>3. OwnerOf(superblock, s) = Nobody
      BY <2>3, OwnerIsNobody
    <3> QED BY <2>3, <3>2, <3>3
  <2> QED BY <2>1, <2>2, <2>3
<1>8. superblock' = g
  BY DEF g
<1>9. Ownership!Allocate(app, n)
  <2> DEFINE owner == [s \in Slot |-> OwnerOf(superblock, s)]
  <2>1. f \in [1..n -> {s \in Slot : owner[s] = Nobody}]
    <3>1. \A k \in 1..n : f[k] \in Slot /\ owner[f[k]] = Nobody
      BY <1>2, <1>3
    <3> QED BY <1>2, <3>1
  <2>2. [s \in Slot |-> OwnerOf(superblock', s)]
           = [s \in Slot |-> IF \E k \in 1..n : f[k] = s THEN app ELSE owner[s]]
    BY <1>2, <1>7, <1>8
  <2> QED BY <1>2, <2>1, <2>2 DEF Ownership!Allocate
<1> QED BY <1>9

(* A deletion is an abstract one.                                          *)
LEMMA DeleteRefines ==
    ASSUME SuperblockInv, NEW app \in App, Delete(app)
    PROVE  Ownership!Delete(app)
<1> DEFINE d == delete_slots(superblock, app)
<1>1. WrbpodSuperblock(superblock) /\ WellFormed(superblock)
  BY DEF SuperblockInv, SuperblockTypeOK, SlotsSound
<1>2. WellFormed(d)
  BY <1>1, DeleteSound
<1>3. /\ DOMAIN d.apps = DOMAIN superblock.apps \ {app}
      /\ \A a \in DOMAIN superblock.apps \ {app} : d.apps[a] = superblock.apps[a]
  <2>1. CASE app \notin DOMAIN superblock.apps
    BY <2>1 DEF delete_slots
  <2>2. CASE app \in DOMAIN superblock.apps
    BY <1>1, <2>2, DeleteFacts
  <2> QED BY <2>1, <2>2
<1> HIDE DEF d
<1>4. ASSUME NEW s \in Slot
      PROVE  OwnerOf(d, s) = IF OwnerOf(superblock, s) = app THEN Nobody
                             ELSE OwnerOf(superblock, s)
  <2>1. CASE \A a \in DOMAIN superblock.apps : s \notin Elems(superblock.apps[a])
    <3>1. OwnerOf(superblock, s) = Nobody
      BY <2>1, OwnerIsNobody
    <3>2. \A a \in DOMAIN d.apps : s \notin Elems(d.apps[a])
      BY <1>3, <2>1
    <3>3. OwnerOf(d, s) = Nobody
      BY <3>2, OwnerIsNobody
    <3> QED BY <3>1, <3>3
  <2>2. ASSUME NEW a \in DOMAIN superblock.apps, s \in Elems(superblock.apps[a])
        PROVE  OwnerOf(d, s) = IF OwnerOf(superblock, s) = app THEN Nobody
                               ELSE OwnerOf(superblock, s)
    <3>1. OwnerOf(superblock, s) = a
      BY <1>1, <2>2, OwnerIs
    <3>2. CASE a # app
      <4>1. OwnerOf(d, s) = a
        BY <1>2, <1>3, <2>2, <3>2, OwnerIs
      <4> QED BY <3>1, <3>2, <4>1
    <3>3. CASE a = app
      <4>1. \A b \in DOMAIN superblock.apps \ {app} : s \notin Elems(superblock.apps[b])
        BY <1>1, <2>2, <3>3 DEF WellFormed, NoSlotShared, Elems
      <4>2. OwnerOf(d, s) = Nobody
        BY <1>3, <4>1, OwnerIsNobody
      <4> QED BY <3>1, <3>3, <4>2
    <3> QED BY <3>2, <3>3
  <2> QED BY <2>1, <2>2
<1>5. superblock' = d
  BY DEF Delete, d
<1>6. [s \in Slot |-> OwnerOf(superblock', s)]
        = [s \in Slot |-> IF OwnerOf(superblock, s) = app THEN Nobody
                          ELSE OwnerOf(superblock, s)]
  BY <1>4, <1>5
<1> QED BY <1>6 DEF Ownership!Delete

(* The free list, the app table and the all-or-nothing loop of             *)
(* allocate_slots together do what SlotOwnership says.                     *)
THEOREM Refinement == SuperblockSpec => ImplementsOwnership
<1>1. ASSUME SuperblockInit PROVE Ownership!Init
  <2>1. \A s : OwnerOf(superblock, s) = Nobody
    BY <1>1, OwnerIsNobody DEF SuperblockInit, new
  <2> QED BY <2>1 DEF Ownership!Init
<1>2. ASSUME SuperblockInv, [SuperblockNext]_sbVars
      PROVE  [Ownership!Next]_([s \in Slot |-> OwnerOf(superblock, s)])
  <2>1. ASSUME NEW app \in App, NEW n \in AllocSizes, Allocate(app, n)
        PROVE  Ownership!Next \/ UNCHANGED superblock
    <3>1. n \in Nat
      BY SlotAssumption
    <3>2. \/ superblock' = superblock
          \/ \E q \in fill_free_slot(superblock, n) :
                superblock' = GiveSlots(superblock, app, q)
      BY <2>1, AllocateCases DEF Allocate
    <3>3. ASSUME NEW q \in fill_free_slot(superblock, n),
                 superblock' = GiveSlots(superblock, app, q)
          PROVE  Ownership!Next
      <4>1. Ownership!Allocate(app, n)
        BY <1>2, <3>1, <3>3, GiveRefines
      <4> QED BY <4>1 DEF Ownership!Next
    <3> QED BY <3>2, <3>3
  <2>2. ASSUME NEW app \in App, Delete(app) PROVE Ownership!Next
    <3>1. Ownership!Delete(app)
      BY <1>2, <2>2, DeleteRefines
    <3> QED BY <3>1 DEF Ownership!Next
  <2>3. Ownership!Next \/ UNCHANGED superblock
    BY <1>2, <2>1, <2>2 DEF SuperblockNext, sbVars
  <2> QED BY <2>3
<1> QED BY <1>1, <1>2, SuperblockInvInit, SuperblockInvNext, PTL
        DEF SuperblockSpec, ImplementsOwnership, Ownership!Spec

=============================================================================

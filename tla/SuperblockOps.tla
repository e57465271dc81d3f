---------------------------- MODULE SuperblockOps ----------------------------
(***************************************************************************)
(* The wrbpod superblock as a value: the free list and the table of apps   *)
(* (storage/mod.rs, WrbpodSuperblock), with its operations                 *)
(* (storage/wrbpod.rs, impl WrbpodSuperblock).                             *)
(*                                                                         *)
(* The version byte is a constant of the program and the code hash of an   *)
(* app is written once and never read; both are left out.  Indexes into    *)
(* slot_ids start at 1 here and at 0 in the code.                          *)
(***************************************************************************)
EXTENDS Integers, Sequences, FiniteSets

CONSTANTS Slot,      \* the StackerDB slot IDs, a set of naturals
          App,       \* the app names
          AllocSizes \* the numbers of slots apps ask for

ASSUME SlotAssumption == Slot \subseteq Nat /\ IsFiniteSet(Slot) /\ AllocSizes \subseteq Nat

-----------------------------------------------------------------------------
(* WrbpodSlot::Free and WrbpodSlot::Filled, with as_free and as_filled.    *)
WrbpodSlot == [id : Slot, free : BOOLEAN]
as_free(slot) == [id |-> slot.id, free |-> TRUE]
as_filled(slot) == [id |-> slot.id, free |-> FALSE]

(* The apps are a map: a function whose domain is the set of known apps.   *)
WrbpodSuperblock(sb) ==
    /\ sb = [slot_ids |-> sb.slot_ids, apps |-> sb.apps]
    /\ sb.slot_ids \in Seq(WrbpodSlot)
    /\ DOMAIN sb.apps \subseteq App
    /\ sb.apps \in [DOMAIN sb.apps -> Seq(Slot)]

Elems(s) == {s[k] : k \in DOMAIN s}

-----------------------------------------------------------------------------
(* WrbpodSuperblock::empty and ::new.                                      *)
empty == [slot_ids |-> << >>, apps |-> [a \in {} |-> << >>]]
new(ids) == [slot_ids |-> [i \in DOMAIN ids |-> [id |-> ids[i], free |-> TRUE]],
             apps |-> [a \in {} |-> << >>]]

FreeIndexes(sb) == {i \in DOMAIN sb.slot_ids : sb.slot_ids[i].free}

(***************************************************************************)
(* What n successive calls of fill_free_slot pick: each takes the lowest   *)
(* index that is still free.  The set has one element when n slots are     *)
(* free, and none when some call finds no free slot.                       *)
(***************************************************************************)
fill_free_slot(sb, n) ==
    {q \in [1..n -> FreeIndexes(sb)] :
        /\ \A j, k \in 1..n : j < k => q[j] < q[k]
        /\ \A i \in FreeIndexes(sb) :
              (\E k \in 1..n : q[k] = i) \/ (\A k \in 1..n : q[k] < i)}

(* Variant with a bug: the app is given the indexes, not the slot IDs.     *)
GiveSlots_Indexes(sb, app, q) ==
    [slot_ids |-> [i \in DOMAIN sb.slot_ids |->
                     IF i \in Elems(q) THEN as_filled(sb.slot_ids[i])
                                       ELSE sb.slot_ids[i]],
     apps |-> [a \in DOMAIN sb.apps \cup {app} |->
                 IF a # app THEN sb.apps[a]
                 ELSE IF app \in DOMAIN sb.apps THEN sb.apps[app] \o q ELSE q]]

(* Variant with a bug: the new slots replace those the app already had.    *)
GiveSlots_Replace(sb, app, q) ==
    [slot_ids |-> [i \in DOMAIN sb.slot_ids |->
                     IF i \in Elems(q) THEN as_filled(sb.slot_ids[i])
                                       ELSE sb.slot_ids[i]],
     apps |-> [a \in DOMAIN sb.apps \cup {app} |->
                 IF a # app THEN sb.apps[a]
                 ELSE [k \in DOMAIN q |-> sb.slot_ids[q[k]].id]]]

(* The superblock once the indexes q are filled and given to app.          *)
GiveSlots(sb, app, q) ==
    LET ids == [k \in DOMAIN q |-> sb.slot_ids[q[k]].id]
    IN  [slot_ids |-> [i \in DOMAIN sb.slot_ids |->
                         IF i \in Elems(q) THEN as_filled(sb.slot_ids[i])
                                           ELSE sb.slot_ids[i]],
         apps |-> [a \in DOMAIN sb.apps \cup {app} |->
                     IF a # app THEN sb.apps[a]
                     ELSE IF app \in DOMAIN sb.apps THEN sb.apps[app] \o ids
                          ELSE ids]]

(* Variant with a bug: on a shortage the slots found so far are kept.      *)
allocate_slots_NoRollback(sb, app, n) ==
    LET m == IF fill_free_slot(sb, n) = {} THEN Cardinality(FreeIndexes(sb)) ELSE n
    IN  [ok |-> m = n,
         sb |-> GiveSlots(sb, app, CHOOSE q \in fill_free_slot(sb, m) : TRUE)]

(***************************************************************************)
(* allocate_slots: all n slots or none.  On a shortage the indexes filled  *)
(* so far are freed again, so the superblock is as it was.                 *)
(***************************************************************************)
allocate_slots(sb, app, n) ==
    LET picks == fill_free_slot(sb, n)
    IN  IF picks = {} THEN [ok |-> FALSE, sb |-> sb]
        ELSE [ok |-> TRUE, sb |-> GiveSlots(sb, app, CHOOSE q \in picks : TRUE)]

(* Variant with a bug: the app is forgotten but its slots stay filled.     *)
delete_slots_Leak(sb, app) ==
    IF app \notin DOMAIN sb.apps THEN sb
    ELSE [slot_ids |-> sb.slot_ids,
          apps |-> [a \in DOMAIN sb.apps \ {app} |-> sb.apps[a]]]

(* delete_slots: forget the app and free each of its slots.                *)
delete_slots(sb, app) ==
    IF app \notin DOMAIN sb.apps THEN sb
    ELSE [slot_ids |-> [i \in DOMAIN sb.slot_ids |->
                          IF sb.slot_ids[i].id \in Elems(sb.apps[app])
                          THEN as_free(sb.slot_ids[i]) ELSE sb.slot_ids[i]],
          apps |-> [a \in DOMAIN sb.apps \ {app} |-> sb.apps[a]]]

num_app_slots(sb, app) == IF app \in DOMAIN sb.apps THEN Len(sb.apps[app]) ELSE 0

(* The StackerDB slots behind an app's slots 0 .. n-1: the set holds the   *)
(* slot ID, or nothing when the app has no such slot.                      *)
app_slot_id_to_stackerdb_chunk_id(sb, app, i) ==
    IF app \in DOMAIN sb.apps /\ i + 1 \in DOMAIN sb.apps[app]
    THEN {sb.apps[app][i + 1]} ELSE {}

-----------------------------------------------------------------------------
(* What makes a superblock sound, part by part.                            *)

SlotIdsDistinct(sb) ==
    \A i, j \in DOMAIN sb.slot_ids : sb.slot_ids[i].id = sb.slot_ids[j].id => i = j

OwnedSlotsListed(sb) ==
    \A a \in DOMAIN sb.apps : \A k \in DOMAIN sb.apps[a] :
        \E i \in DOMAIN sb.slot_ids : sb.slot_ids[i].id = sb.apps[a][k]

NoSlotShared(sb) ==
    \A a, b \in DOMAIN sb.apps :
        \A j \in DOMAIN sb.apps[a], k \in DOMAIN sb.apps[b] :
            sb.apps[a][j] = sb.apps[b][k] => a = b /\ j = k

FilledIffOwned(sb) ==
    \A i \in DOMAIN sb.slot_ids :
        sb.slot_ids[i].free <=> \A a \in DOMAIN sb.apps :
                                   sb.slot_ids[i].id \notin Elems(sb.apps[a])

WellFormed(sb) ==
    /\ SlotIdsDistinct(sb)
    /\ OwnedSlotsListed(sb)
    /\ NoSlotShared(sb)
    /\ FilledIffOwned(sb)
=============================================================================

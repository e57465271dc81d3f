------------------------------ MODULE Superblock ------------------------------
(***************************************************************************)
(* One in-memory superblock and the two calls that change it               *)
(* (storage/wrbpod.rs, WrbpodSuperblock::allocate_slots and delete_slots), *)
(* shown to implement SlotOwnership.                                       *)
(***************************************************************************)
EXTENDS SuperblockOps

CONSTANTS SlotIds,  \* the slot IDs given to WrbpodSuperblock::new
          Nobody    \* not an app: the owner of a free slot

ASSUME SuperblockAssumption ==
    /\ SlotIds \in Seq(Slot)
    /\ Elems(SlotIds) = Slot
    /\ \A i, j \in DOMAIN SlotIds : SlotIds[i] = SlotIds[j] => i = j
    /\ Nobody \notin App

VARIABLES superblock,   \* the value
          granted       \* result of the last allocate_slots

sbVars == <<superblock, granted>>

SuperblockInit == superblock = new(SlotIds) /\ granted = FALSE

Allocate(app, n) ==
    LET r == allocate_slots(superblock, app, n)
    IN  superblock' = r.sb /\ granted' = r.ok

Delete(app) == superblock' = delete_slots(superblock, app) /\ UNCHANGED granted

SuperblockNext == \E app \in App : Delete(app) \/ \E n \in AllocSizes : Allocate(app, n)

SuperblockSpec == SuperblockInit /\ [][SuperblockNext]_sbVars

-----------------------------------------------------------------------------
(* The superblock always has the shape of WrbpodSuperblock.                *)
SuperblockTypeOK == WrbpodSuperblock(superblock) /\ granted \in BOOLEAN

(* After any sequence of allocations and deletions no slot belongs to two  *)
(* apps or twice to one, and the free list marks a slot Filled exactly     *)
(* when an app owns it: neither a double allocation nor a leaked slot.     *)
SlotsSound == WellFormed(superblock)

(***************************************************************************)
(* allocate_slots is all or nothing and refuses only on a real shortage:   *)
(* it reports success and moves exactly n slots out of the free list when  *)
(* n are free, and otherwise reports failure and changes nothing.          *)
(***************************************************************************)
AllOrNothing ==
    [][\A app \in App, n \in AllocSizes : Allocate(app, n) =>
          IF Cardinality(FreeIndexes(superblock)) >= n
          THEN /\ granted'
               /\ num_app_slots(superblock', app) = num_app_slots(superblock, app) + n
               /\ Cardinality(FreeIndexes(superblock'))
                    = Cardinality(FreeIndexes(superblock)) - n
          ELSE ~granted' /\ superblock' = superblock]_sbVars

(***************************************************************************)
(* The slots an app already has keep their place: its slot numbers         *)
(* 0 .. n-1 name the same StackerDB slots until the app is deleted, however *)
(* the other apps come and go.                                             *)
(***************************************************************************)
SlotNumbersStable ==
    [][\A a \in DOMAIN superblock.apps \cap DOMAIN superblock'.apps :
          \A k \in DOMAIN superblock.apps[a] :
             k \in DOMAIN superblock'.apps[a]
             /\ superblock'.apps[a][k] = superblock.apps[a][k]]_sbVars

(* The owner of a slot, as the app table has it.                           *)
OwnerOf(sb, s) ==
    IF \E a \in DOMAIN sb.apps : s \in Elems(sb.apps[a])
    THEN CHOOSE a \in DOMAIN sb.apps : s \in Elems(sb.apps[a])
    ELSE Nobody

Ownership == INSTANCE SlotOwnership
                 WITH owner <- [s \in Slot |-> OwnerOf(superblock, s)]

(* The superblock implements the abstract ownership of slots.              *)
ImplementsOwnership == Ownership!Spec
=============================================================================

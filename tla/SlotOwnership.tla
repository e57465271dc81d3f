---------------------------- MODULE SlotOwnership ----------------------------
(***************************************************************************)
(* What a superblock promises: every slot of the wrbpod has at most one    *)
(* owner.  An allocation takes n free slots for one app, a deletion frees  *)
(* exactly the slots of one app, and nothing else changes an owner.        *)
(***************************************************************************)
EXTENDS Integers

CONSTANTS Slot, App, Nobody, AllocSizes

VARIABLE owner    \* owner[s]: the app that owns slot s, or Nobody

Init == owner = [s \in Slot |-> Nobody]

(* f lists n different slots that nobody owns.                             *)
Allocate(app, n) ==
    \E f \in [1..n -> {s \in Slot : owner[s] = Nobody}] :
        /\ \A j, k \in 1..n : f[j] = f[k] => j = k
        /\ owner' = [s \in Slot |-> IF \E k \in 1..n : f[k] = s THEN app ELSE owner[s]]

Delete(app) ==
    owner' = [s \in Slot |-> IF owner[s] = app THEN Nobody ELSE owner[s]]

Next == \E app \in App : Delete(app) \/ \E n \in AllocSizes : Allocate(app, n)

Spec == Init /\ [][Next]_owner
=============================================================================

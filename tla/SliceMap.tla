------------------------------ MODULE SliceMap ------------------------------
(***************************************************************************)
(* What a chunk of slices promises: a map from slice IDs to contents.  A   *)
(* put stores one slice and touches no other, saving remembers the whole   *)
(* map, and reloading brings the remembered map back.                      *)
(***************************************************************************)
CONSTANTS SliceId, Content, None

VARIABLES map, saved

Init == map = [i \in SliceId |-> None] /\ saved = map

Put(id, x) == map' = [map EXCEPT ![id] = x] /\ UNCHANGED saved
Save == saved' = map /\ UNCHANGED map
Reload == map' = saved /\ UNCHANGED saved

Next == (\E id \in SliceId, x \in Content : Put(id, x)) \/ Save \/ Reload

Spec == Init /\ [][Next]_<<map, saved>>
=============================================================================

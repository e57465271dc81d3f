---------------------------- MODULE MCSuperblock ----------------------------
(* Four slots out of numeric order, three apps, requests of 0 to 3 slots.  *)
EXTENDS Superblock

MCSlot == {1, 2, 4, 5}
MCSlotIds == <<2, 1, 5, 4>>
MCAllocSizes == 0..3
=============================================================================

------------------------------ MODULE MCWrbpod ------------------------------
(***************************************************************************)
(* Instances of Wrbpod: a wrbpod of three slots, the superblock in slot 0  *)
(* or 1, with clients that all hold the owner's key or one visitor that    *)
(* does not.                                                               *)
(***************************************************************************)
EXTENDS Wrbpod, TLC

CONSTANTS owner, visitor, c1, c2

MCSlot == 0..2
MCSigner == [s \in MCSlot |-> owner]
AllOwners == [c \in Client |-> owner]
WithVisitor == [c \in Client |-> IF c = c2 THEN visitor ELSE owner]
Syms == Permutations(Client) \cup Permutations(App)
=============================================================================

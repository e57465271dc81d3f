---------------------------- MODULE MCPageStore ----------------------------
(* Instances of PageStore: two processes, three versions of the page.      *)
EXTENDS PageStore, TLC

ProcSymmetry == Permutations(Proc)
=============================================================================

---------------------------- MODULE MCDesktop ----------------------------
(* Instances of Desktop: two operations and two wallets are alike.            *)
EXTENDS Desktop, TLC

MCSymmetry == Permutations(Ops) \cup Permutations(Keys)
=============================================================================

------------------------------- MODULE MCStaking -------------------------------
(***************************************************************************)
(* Small instances of Staking for TLC: two accounts, a subnet that may be  *)
(* removed, validators that register late or never.  Epochs are four       *)
(* blocks long, the shortest the designated slots allow.                   *)
(***************************************************************************)
EXTENDS Staking, TLC

CONSTANTS a1, a2, s1, v1, v2

MCLive == {s1}

(* What one emission step may pay to the delegators of a subnet and of a   *)
(* validator.                                                              *)
MCPlans == {s1 :> 30 @@ v1 :> 4}

Symmetry == Permutations(Accounts)
================================================================================

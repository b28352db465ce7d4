----------------------------- MODULE MCNodeStaking -----------------------------
(***************************************************************************)
(* Small instances of NodeStaking for TLC: a subnet with a node of         *)
(* validator 1, whose coldkey is a1 and whose hotkey is a2; validator 2    *)
(* may register with any keys that are free, and with a rate of 200 %.     *)
(***************************************************************************)
EXTENDS NodeStaking, TLC

CONSTANTS a1, a2, a3, s1

MCLive == {s1, 1}
MCColdkey == 1 :> a1
MCHotkey == 1 :> a2
MCDelegate == [account |-> a3, rate |-> 50]
MCOwner == s1 :> 1
NoPlans == {s1 :> 0}
================================================================================

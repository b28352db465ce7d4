------------------------------ MODULE MCOverwatch ------------------------------
(***************************************************************************)
(* A small instance of Overwatch for TLC: a validator with a node in the   *)
(* subnet and two overwatch nodes.  The run covers the overwatch epoch of  *)
(* the blocks 4 to 7 and the payment for it in block 9; four calls are     *)
(* enough for both nodes to commit and to reveal.                          *)
(***************************************************************************)
EXTENDS Overwatch, TLC

CONSTANTS a1, a2, a3, s1

MCLive == {s1, 1}
MCColdkey == 1 :> a1
MCHotkey == 1 :> a2
MCDelegate == [account |-> NoKey, rate |-> 0]
MCOwner == s1 :> 1
NoPlans == {s1 :> 0}
MCReputation == 1 :> [start_epoch |-> 0, score |-> 100, average_attestation |-> 100]
MCWatchers == <<1, 1>>

(* The first power, times 10^18 in the code: here times 400, so that the   *)
(* power of the minimum stake fits MaxBalance once and not twice.          *)
Powers(stake) == IF 400 * stake > MaxBalance THEN MaxBalance ELSE 400 * stake
================================================================================

--------------------------- MODULE MCOwnerParameters ---------------------------
(***************************************************************************)
(* Small instances of OwnerParameters for TLC, with the epochs of the      *)
(* testnet: one subnet, its owner and another account.  The values lie on  *)
(* both sides of the bounds the calls check.                               *)
(***************************************************************************)
EXTENDS OwnerParameters

CONSTANTS s1, owner, other

MCOwnerOf == [s \in Subnets |-> owner]
MCSlot == [s \in Subnets |-> 5]
TwoThirds == <<2, 3>>
FourFifths == <<4, 5>>
ThreeFifths == <<3, 5>>
MCVotes == {TwoThirds, FourFifths, ThreeFifths}
================================================================================

--------------------------- MODULE MCSubnetLifecycle ---------------------------
(***************************************************************************)
(* Small instances of SubnetLifecycle for TLC: one subnet too many fits,   *)
(* and takes the last slot.                                                *)
(***************************************************************************)
EXTENDS SubnetLifecycle, TLC

CONSTANTS a1, a2, n1, n2

Symmetry == Permutations(Accounts) \cup Permutations(Names)
================================================================================

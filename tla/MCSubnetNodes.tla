----------------------------- MODULE MCSubnetNodes -----------------------------
(***************************************************************************)
(* Small instances of SubnetNodes for TLC.                                 *)
(***************************************************************************)
EXTENDS SubnetNodes, TLC

CONSTANTS v1, u1, u2
================================================================================

----------------------------- MODULE MCGovernance ------------------------------
(***************************************************************************)
(* A small instance of Governance for TLC: a call that needs two thirds    *)
(* and one that needs four fifths, with three accounts that join and leave *)
(* the collective.                                                         *)
(***************************************************************************)
EXTENDS Governance

CONSTANTS a1, a2, a3, nobody

Pause == [name |-> "pause", v |-> 0, w |-> 0, x |-> 0]
LimitSubnets == [name |-> "set_max_subnets", v |-> 2, w |-> 0, x |-> 0]
MCCalls == {Pause, LimitSubnets}

Symmetry == Permutations(Accounts)
================================================================================

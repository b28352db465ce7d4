------------------------------ MODULE MCSwapQueue ------------------------------
(***************************************************************************)
(* An instance of SwapQueue for TLC: there is always a swap that could     *)
(* still be queued, and the queue fills faster than a block empties it.    *)
(***************************************************************************)
EXTENDS SwapQueue
================================================================================

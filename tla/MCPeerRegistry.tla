----------------------------- MODULE MCPeerRegistry -----------------------------
(***************************************************************************)
(* Small instances of PeerRegistry for TLC.  Which ids and addresses are   *)
(* used makes no difference as long as they have the same form.            *)
(***************************************************************************)
EXTENDS PeerRegistry, TLC

CONSTANTS p1, p2, p3, bad, m1, m2

Alike == Permutations({p1, p2}) \cup Permutations({m1, m2})
================================================================================

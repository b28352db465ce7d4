------------------------------ MODULE Governance -------------------------------
(***************************************************************************)
(* The collective and the parameters it governs: what a step of the        *)
(* collective dispatches changes the parameters in that step, and an EVM   *)
(* account may try the same calls through the admin precompile.            *)
(***************************************************************************)
EXTENDS Collective, NetworkParameters

vars == <<councilVars, paramVars>>

Init == CouncilInit /\ ParamInit

(* The parameters after the collective's step.                             *)
DispatchExecuted ==
  IF executed' = {} THEN UNCHANGED paramVars
  ELSE \A e \in executed' : Dispatch(e.origin, e.call)

CollectiveStep == CouncilNext /\ DispatchExecuted
EvmStep == (\E h \in Calls : EvmDispatch(h)) /\ UNCHANGED councilVars

Next == CollectiveStep \/ EvmStep

Spec == Init /\ [][Next]_vars
--------------------------------------------------------------------------------
(* The collective's books are sound: of their types, with motions that can *)
(* be found in all three maps and votes of members only.  (The types of    *)
(* the parameters are in ParametersSound, for the calls of every setter.)  *)
MotionsSound == CouncilTypeOK /\ VotersAreMembers /\ MotionsConsistent

Enough(n, name) ==
  IF name \in SuperMajorityCalls THEN 5 * n >= 4 * Seats ELSE 3 * n >= 2 * Seats

Closed(h) == h \in DOMAIN voting /\ h \notin DOMAIN voting'
ByTheOnlyMember(h) == h \notin DOMAIN voting /\ Seats = 1 /\ Executes(MembersOrigin(1), h)

(* A parameter changes only when a motion to change it is closed with the  *)
(* support of the share of the present members that its setter demands     *)
(* (two thirds, or four fifths), or when the only member proposes it and   *)
(* it is dispatched at once: votes of former members, votes changed or     *)
(* repeated, thresholds too low and calls from the EVM do not count.       *)
CouncilGoverns ==
  [][net' # net =>
       \E h \in Calls :
         \/ Closed(h) /\ Enough(Cardinality(Supporters(h)), h.name)
         \/ ByTheOnlyMember(h)]_vars
================================================================================

---------------------------- MODULE OwnerParameters ----------------------------
(***************************************************************************)
(* The parameters of a subnet, which its owner sets within the bounds the  *)
(* collective has set (NetworkParameters), by a call of the pallet or      *)
(* through the subnet precompile, and the schedule by which the factors    *)
(* that raise and lower the reputation of its nodes change.                *)
(*                                                                         *)
(* own[s] maps the storage items of subnet s to their values, scaled as in *)
(* NetworkParameters.  Ownership, the emergency validator set and the      *)
(* epochs of a subnet belong to SubnetLifecycle and SubnetNodes: here the  *)
(* owners are fixed, the set is there or not, and an epoch is a step of    *)
(* the clock.                                                              *)
(***************************************************************************)
EXTENDS NetworkParameters

CONSTANTS
  Subnets, Accounts, OwnerOf, SubnetSlot, StartBlock,
  SubnetOwnerFactorCooldownEpochs,   \* not set by any call
  Values, EvmValues, FactorValues,   \* arguments of calls
  TouchedFactors,                    \* factors that updates name
  Votes,                             \* votes of the collective: <<yes, seats>>
  Deep, Budget, MaxEpochs            \* bounds of the model

Factors == {"absent_decrease", "included_increase", "below_min_weight_decrease",
            "non_attestor_decrease", "non_consensus_attestor_decrease",
            "validator_absent_decrease", "validator_non_consensus_decrease"}

ASSUME OwnerAssumption ==
  /\ OwnerOf \in [Subnets -> Accounts] /\ SubnetSlot \in [Subnets -> 1 .. EpochLength - 1]
  /\ {StartBlock, SubnetOwnerFactorCooldownEpochs, Budget, MaxEpochs} \subseteq Nat
  /\ StartBlock >= EpochLength /\ Budget > 0
  /\ StartBlock + (MaxEpochs + 1) * EpochLength <= U32Max   \* blocks are numbered by a u32
  /\ Values \subseteq 0 .. U128Max /\ EvmValues \subseteq Nat
  /\ FactorValues \subseteq 0 .. U128Max /\ TouchedFactors \subseteq Factors

VARIABLES
  own,         \* the parameters of each subnet
  schedule,    \* SubnetReputationFactorSchedules: the factors in force, and at most one pending change
  emergency,   \* the subnets with an EmergencySubnetNodeElectionData
  block,
  budget       \* bound: calls still to come

ownVars == <<own, schedule, emergency>>
vars == <<paramVars, ownVars, block, budget>>

(* get_current_subnet_epoch_as_u32                                         *)
SubnetEpoch(s) == (block - SubnetSlot[s]) \div EpochLength

OwnDefaults == [
  LastSubnetDelegateStakeRewardsUpdate |-> 0,
  SubnetNodeMinWeightDecreaseReputationThreshold |-> 0, SubnetMinStakeBalance |-> 1000,
  SubnetMaxStakeBalance |-> 10000, SubnetDelegateStakeRewardsPercentage |-> 100,
  ChurnLimit |-> 4, ChurnLimitMultiplier |-> 1, QueueImmunityEpochs |-> 3,
  SubnetNodeQueueEpochs |-> 3, MaxRegisteredNodes |-> 64,
  TargetNodeRegistrationsPerEpoch |-> 64, IdleClassificationEpochs |-> 2,
  IncludedClassificationEpochs |-> 2, MinSubnetNodeReputation |-> 100,
  NodeBurnRateAlpha |-> 500]

DefaultFactors ==
  [f \in Factors |->
     IF f \in {"validator_absent_decrease", "validator_non_consensus_decrease"} THEN 50 ELSE 100]

Init ==
  /\ ParamInit
  /\ own = [s \in Subnets |-> OwnDefaults]
  /\ schedule = [s \in Subnets |-> [current |-> DefaultFactors, pending |-> {}]]
  /\ emergency = {} /\ block = StartBlock /\ budget = Budget
--------------------------------------------------------------------------------
(***************************************************************************)
(* The setters of an owner: what each checks and writes.                   *)
(***************************************************************************)
Within(v, low, high) == v >= net[low] /\ v <= net[high]
Distance(a, b) == IF a < b THEN b - a ELSE a - b

OwnerEpochSetters(s, v, w) == [
  owner_update_churn_limit |->
    Sets("ChurnLimit", v, Within(v, "MinChurnLimit", "MaxChurnLimit")),
  owner_update_churn_limit_multiplier |->
    Sets("ChurnLimitMultiplier", v,
         Within(v, "MinChurnLimitMultiplier", "MaxChurnLimitMultiplier")),
  owner_update_registration_queue_epochs |->
    Sets("SubnetNodeQueueEpochs", v, Within(v, "MinQueueEpochs", "MaxQueueEpochs")),
  owner_update_idle_classification_epochs |->
    Sets("IdleClassificationEpochs", v,
         Within(v, "MinIdleClassificationEpochs", "MaxIdleClassificationEpochs")),
  owner_update_included_classification_epochs |->
    Sets("IncludedClassificationEpochs", v,
         Within(v, "MinIncludedClassificationEpochs", "MaxIncludedClassificationEpochs"))]

(* Mutant: the maximum is checked against its bounds only.                 *)
RegisteredInBounds(s, v) == Within(v, "MinMaxRegisteredNodes", "MaxMaxRegisteredNodes")

RegisteredAllowed(s, v) ==
  /\ Within(v, "MinMaxRegisteredNodes", "MaxMaxRegisteredNodes")
  /\ v <= own[s].TargetNodeRegistrationsPerEpoch

(* The sum of two u32 wraps, for the period is not bounded.                *)
PeriodOver(s) ==
  (own[s].LastSubnetDelegateStakeRewardsUpdate
     + net.SubnetDelegateStakeRewardsUpdatePeriod) % (U32Max + 1) < block

OwnerStakeSetters(s, v, w) == [
  owner_update_min_max_stake |->
    SetsBoth("SubnetMinStakeBalance", v, "SubnetMaxStakeBalance", w,
             /\ v <= w /\ Within(v, "MinSubnetMinStake", "MaxSubnetMinStake")
             /\ w <= net.NetworkMaxStakeBalance),
  owner_update_delegate_stake_percentage |->
    SetsBoth("LastSubnetDelegateStakeRewardsUpdate", block,
             "SubnetDelegateStakeRewardsPercentage", v,
             /\ PeriodOver(s)
             /\ Distance(own[s].SubnetDelegateStakeRewardsPercentage, v)
                  <= net.MaxSubnetDelegateStakeRewardsPercentageChange
             /\ Within(v, "MinDelegateStakePercentage", "MaxDelegateStakePercentage")
             /\ v <= Full),
  owner_update_max_registered_nodes |->
    Sets("MaxRegisteredNodes", v, RegisteredAllowed(s, v))]

OwnerNodeSetters(s, v, w) == [
  owner_update_target_node_registrations_per_epoch |->
    Sets("TargetNodeRegistrationsPerEpoch", v, v <= own[s].MaxRegisteredNodes /\ v > 0),
  owner_update_node_burn_rate_alpha |-> Sets("NodeBurnRateAlpha", v, v <= Full),
  owner_update_queue_immunity_epochs |-> Sets("QueueImmunityEpochs", v, TRUE),
  owner_update_min_subnet_node_reputation |->
    Sets("MinSubnetNodeReputation", v,
         v <= Full /\ Within(v, "MinMinSubnetNodeReputation", "MaxMinSubnetNodeReputation")),
  owner_update_subnet_node_min_weight_decrease_reputation_threshold |->
    Sets("SubnetNodeMinWeightDecreaseReputationThreshold", v,
         v <= net.MaxSubnetNodeMinWeightDecreaseReputationThreshold)]

OwnerSetters(s, v, w) ==
  Over(OwnerEpochSetters(s, v, w), Over(OwnerStakeSetters(s, v, w), OwnerNodeSetters(s, v, w)))

(* The calls of the pallet: none gets past is_paused while TxPause is set. *)
is_paused == net.TxPause = 1

OwnerCalls1 == {"owner_update_churn_limit", "owner_update_churn_limit_multiplier",
  "owner_update_registration_queue_epochs", "owner_update_idle_classification_epochs",
  "owner_update_included_classification_epochs",
  "owner_update_subnet_node_min_weight_decrease_reputation_threshold",
  "owner_update_min_subnet_node_reputation"}
OwnerCalls2 == {"owner_update_min_max_stake", "owner_update_delegate_stake_percentage",
  "owner_update_max_registered_nodes"}
OwnerCalls3 == {"owner_update_target_node_registrations_per_epoch",
  "owner_update_node_burn_rate_alpha", "owner_update_queue_immunity_epochs"}
OwnerCalls == OwnerCalls1 \cup OwnerCalls2 \cup OwnerCalls3

OwnerDispatch(who, s, call) ==
  LET setter == OwnerSetters(s, call.v, call.w)[call.name]
      ok == ~is_paused /\ who = OwnerOf[s] /\ setter.ok
  IN  /\ result' = IF ok THEN "Ok" ELSE "Refused"
      /\ own' = IF ok THEN [own EXCEPT ![s] = Over(setter.writes, @)] ELSE own
      /\ UNCHANGED <<net, schedule, emergency>>

(* The calls by the width of their arguments, in the pallet and in the     *)
(* subnet precompile alike.                                                *)
EvmOwnerCalls1 == [
  u32 |-> {"owner_update_churn_limit", "owner_update_churn_limit_multiplier",
           "owner_update_registration_queue_epochs", "owner_update_idle_classification_epochs",
           "owner_update_included_classification_epochs"}, u128 |-> {}]
EvmOwnerCalls2 == [
  u32 |-> {"owner_update_max_registered_nodes"},
  u128 |-> {"owner_update_min_max_stake", "owner_update_delegate_stake_percentage"}]
EvmOwnerCalls3 == [
  u32 |-> {"owner_update_target_node_registrations_per_epoch",
           "owner_update_queue_immunity_epochs"},
  u128 |-> {"owner_update_node_burn_rate_alpha", "owner_update_min_subnet_node_reputation",
            "owner_update_subnet_node_min_weight_decrease_reputation_threshold"}]
EvmOwnerGroups == {EvmOwnerCalls1, EvmOwnerCalls2, EvmOwnerCalls3}

Narrow(name) == name \in UNION {g.u32 : g \in EvmOwnerGroups}

(* In the precompile a word too wide for u32 is an error, one too wide for *)
(* u128 becomes the largest u128; the caller signs.                        *)
unique_saturated_into(n) == IF n > U128Max THEN U128Max ELSE n

EvmOwnerDispatch(who, s, call) ==
  IF Narrow(call.name)
  THEN IF call.v > U32Max
       THEN result' = "OutOfBounds" /\ UNCHANGED <<net, ownVars>>
       ELSE OwnerDispatch(who, s, call)
  ELSE OwnerDispatch(who, s, [call EXCEPT !.v = unique_saturated_into(@),
                                          !.w = unique_saturated_into(@)])
--------------------------------------------------------------------------------
(***************************************************************************)
(* The reputation factors: an update takes effect in a later epoch of the  *)
(* subnet, and one that is already due is put in force first.              *)
(***************************************************************************)
factors_for_epoch(sch, e) ==
  IF \E p \in sch.pending : p.epoch <= e
  THEN (CHOOSE p \in sch.pending : TRUE).factors
  ELSE sch.current

Penalties == Factors \ {"included_increase"}

(* Mutant: the emergency set is looked up for one of the penalties only.   *)
requires_for_absence(updates) == "validator_absent_decrease" \in DOMAIN updates

requires_no_emergency_validators(updates) == DOMAIN updates \cap Penalties # {}

(* Mutant: only the lower bound is checked.                                *)
validate_lower_bound(v) == v >= net.MinNodeReputationFactor

validate_reputation_factor_update(v) ==
  v <= Full /\ Within(v, "MinNodeReputationFactor", "MaxNodeReputationFactor")

(* Mutant: a pending change is only ever replaced.                         *)
NeverMatured(sch, e) == sch

(* The schedule with a change that is due put in force.                    *)
Matured(sch, e) ==
  IF \E p \in sch.pending : p.epoch <= e
  THEN [current |-> factors_for_epoch(sch, e), pending |-> {}]
  ELSE sch

(* What the pending change holds, and else what is in force.               *)
Latest(sch) == IF sch.pending = {} THEN sch.current
               ELSE (CHOOSE p \in sch.pending : TRUE).factors

Cooldown == IF SubnetOwnerFactorCooldownEpochs > 1 THEN SubnetOwnerFactorCooldownEpochs ELSE 1

do_owner_update_reputation_factors(who, s, updates) ==
  LET e == SubnetEpoch(s)
      sch == Matured(schedule[s], e)
      ok == /\ ~is_paused /\ who = OwnerOf[s]
            /\ DOMAIN updates # {}
            /\ requires_no_emergency_validators(updates) => s \notin emergency
            /\ \A f \in DOMAIN updates : validate_reputation_factor_update(updates[f])
  IN  /\ result' = IF ok THEN "Ok" ELSE "Refused"
      /\ schedule' =
           IF ok
           THEN [schedule EXCEPT ![s] =
                   [sch EXCEPT !.pending = {[epoch |-> e + Cooldown,
                                             factors |-> Over(updates, Latest(sch))]}]]
           ELSE schedule
      /\ UNCHANGED <<net, own, emergency>>

(* The precompile has a function for each factor.                          *)
EvmFactors1 == {"absent_decrease", "included_increase", "below_min_weight_decrease",
                "non_attestor_decrease", "non_consensus_attestor_decrease"}
EvmFactors2 == {"validator_absent_decrease", "validator_non_consensus_decrease"}

EvmUpdateFactor(who, s, f, word) ==
  /\ f \in EvmFactors1 \cup EvmFactors2
  /\ do_owner_update_reputation_factors(who, s, Item(f, unique_saturated_into(word)))

(* The emergency set comes and goes by the owner's calls and the hooks.    *)
SetEmergency(s) ==
  /\ s \notin emergency /\ ~is_paused
  /\ emergency' = emergency \cup {s}
  /\ UNCHANGED <<paramVars, own, schedule>>

ClearEmergency(s) ==
  /\ s \in emergency
  /\ emergency' = emergency \ {s}
  /\ UNCHANGED <<paramVars, own, schedule>>

NewEpoch ==
  /\ block < StartBlock + MaxEpochs * EpochLength
  /\ block' = block + EpochLength
  /\ UNCHANGED <<paramVars, ownVars, budget>>
--------------------------------------------------------------------------------
(***************************************************************************)
(* Calls.  The bound: Deep calls, which matter to each other, are combined *)
(* up to Budget of them; any other is made alone.                          *)
(***************************************************************************)
Callable(names) == IF budget = Budget THEN names ELSE IF budget > 0 THEN names \cap Deep ELSE {}

Spend(name) ==
  /\ name \in Callable({name})
  /\ budget' = IF result' # "Ok" THEN budget ELSE IF name \in Deep THEN budget - 1 ELSE 0
  /\ UNCHANGED block

Call(name, v, w, x) == [name |-> name, v |-> v, w |-> w, x |-> x]
Arguments(names, S) ==
  UNION {IF n \in PairCalls \cup {"owner_update_min_max_stake"}
         THEN {Call(n, v, w, 0) : v \in S, w \in S}
         ELSE IF n = "set_subnet_weight_factors"
         THEN {Call(n, v, w, v) : v \in S, w \in S}
         ELSE {Call(n, v, 0, 0) : v \in S} : n \in names}

(* A call of the pallet has arguments of the width it declares.            *)
CollectiveCalls ==
  \E c \in Arguments(Callable(AdminCalls), Values), vote \in Votes :
    /\ \A n \in {c.v, c.w, c.x} : Converts(c.name, n)
    /\ Dispatch(Members(vote[1], vote[2]), c) /\ Spend(c.name)
    /\ UNCHANGED ownVars

EvmAdminCalls ==
  \E c \in Arguments(Callable(AdminCalls), EvmValues) :
    EvmDispatch(c) /\ Spend(c.name) /\ UNCHANGED ownVars

OwnerSets ==
  \E s \in Subnets, who \in Accounts, c \in Arguments(Callable(OwnerCalls), Values) :
    /\ Narrow(c.name) => c.v <= U32Max
    /\ OwnerDispatch(who, s, c) /\ Spend(c.name)

EvmOwnerSets ==
  \E s \in Subnets, who \in Accounts, c \in Arguments(Callable(OwnerCalls), EvmValues) :
    EvmOwnerDispatch(who, s, c) /\ Spend(c.name)

UpdateFactors ==
  \E s \in Subnets, who \in Accounts, F \in SUBSET TouchedFactors :
    \E updates \in [F -> FactorValues] :
      /\ do_owner_update_reputation_factors(who, s, updates)
      /\ Spend("owner_update_reputation_factors")

EvmUpdateFactors ==
  \E s \in Subnets, who \in Accounts, f \in TouchedFactors, word \in EvmValues :
    EvmUpdateFactor(who, s, f, word) /\ Spend("owner_update_reputation_factors")

Emergencies ==
  /\ \E s \in Subnets : SetEmergency(s) \/ ClearEmergency(s)
  /\ UNCHANGED <<block, budget>>

Next ==
  \/ CollectiveCalls \/ EvmAdminCalls \/ OwnerSets \/ EvmOwnerSets
  \/ UpdateFactors \/ EvmUpdateFactors \/ Emergencies \/ NewEpoch

Spec == Init /\ [][Next]_vars
--------------------------------------------------------------------------------
(***************************************************************************)
(* Properties.                                                             *)
(***************************************************************************)
(* The items of a subnet that are of 128 bits.                             *)
WideItems == {"SubnetNodeMinWeightDecreaseReputationThreshold", "SubnetMinStakeBalance",
              "SubnetMaxStakeBalance", "SubnetDelegateStakeRewardsPercentage",
              "MinSubnetNodeReputation", "NodeBurnRateAlpha"}

(* The parameters of the network and of the subnets are of their types: a  *)
(* word that the precompile saturates reaches no item of 32 bits.          *)
TypeOK ==
  /\ ParamTypeOK
  /\ own \in [Subnets -> [DOMAIN OwnDefaults -> 0 .. U128Max]]
  /\ \A s \in Subnets, i \in DOMAIN OwnDefaults \ WideItems : own[s][i] <= U32Max
  /\ \A s \in Subnets : /\ schedule[s].current \in [Factors -> 0 .. Full]
                        /\ Latest(schedule[s]) \in [Factors -> 0 .. Full]
                        /\ Cardinality(schedule[s].pending) <= 1
  /\ emergency \subseteq Subnets /\ block \in Nat /\ budget \in 0 .. Budget

(* The parameters that the calls check can be worked with, whatever the    *)
(* collective and the precompile set, over the whole width of each         *)
(* argument and in any order: each is of its type, the twelve pairs of     *)
(* bounds that are checked against each other are the right way round, and *)
(* the three intervals of the epoch hooks that belong to the network are   *)
(* not 0.  Two things that no call prevents are not claimed: the bounds    *)
(* MinIdleClassificationEpochs and MaxIdleClassificationEpochs may cross   *)
(* (each has a setter that checks nothing, and owners then have no value   *)
(* left to choose), and a subnet's ChurnLimitMultiplier, by which the      *)
(* queue divides, may become 0, for its bounds admit that.                 *)
ParametersSound == TypeOK /\ PairsOrdered /\ DivisorsPositive

Ceiling(s) == IF own[s].MaxRegisteredNodes > own[s].TargetNodeRegistrationsPerEpoch
              THEN own[s].MaxRegisteredNodes ELSE own[s].TargetNodeRegistrationsPerEpoch

(* The maximum of registered nodes may be set up to the target of          *)
(* registrations and the target up to the maximum, so that the larger of   *)
(* the two can only fall: an owner who has lowered both, in any order and  *)
(* under any bounds of the collective, never gets above them again.        *)
RegistrationRatchet == [][\A s \in Subnets : Ceiling(s)' <= Ceiling(s)]_vars

(* The factors by which the nodes of a subnet are judged for an epoch do   *)
(* not change from its first block to the block that judges it (the first  *)
(* of the next epoch), whatever updates are scheduled in between.          *)
FactorsStandForEpoch ==
  [][\A s \in Subnets : LET e == SubnetEpoch(s)
                        IN  factors_for_epoch(schedule'[s], e)
                              = factors_for_epoch(schedule[s], e)]_vars

PenaltiesOf(factors) == [f \in Penalties |-> factors[f]]

(* While a subnet has an emergency validator set, its owner schedules no   *)
(* change of a penalty, neither directly nor with an update of the reward  *)
(* that carries a pending change along.                                    *)
PenaltiesFrozen ==
  [][\A s \in emergency : PenaltiesOf(Latest(schedule'[s])) = PenaltiesOf(Latest(schedule[s]))]_vars
================================================================================

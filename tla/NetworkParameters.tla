--------------------------- MODULE NetworkParameters ---------------------------
(***************************************************************************)
(* The parameters of the network pallet that its collective sets: their    *)
(* defaults, the checks of every do_set_* function, the share of the       *)
(* collective that each call demands, and the admin precompile, through    *)
(* which an EVM account makes the same calls.                              *)
(*                                                                         *)
(* net maps the name of each storage item to its value.  The setters are   *)
(* tables, one row for each: what it checks of its arguments v, w and x    *)
(* (those it has), and what it writes.  Percentages are in thousandths     *)
(* (1e18 is 1000), balances in tenths of a token, both rounded down, and   *)
(* the widths of integers are scaled down to U32Max, U64Max and U128Max.   *)
(*                                                                         *)
(* The calls that do not set a parameter belong to other modules: the      *)
(* removals of subnets and nodes, and the lists of overwatch validators.   *)
(***************************************************************************)
EXTENDS Integers, FiniteSets, TLC

CONSTANTS
  EpochLength, DesignatedEpochSlots, EpochsPerYear, MaxSwapQueueLength,
  InitialTxRateLimit, MaximumHooksWeight, MaxBlockWeight,
  U32Max, U64Max, U128Max

Full == 1000
Half == Full \div 2

ASSUME ParametersAssumption ==
  /\ {EpochLength, DesignatedEpochSlots, EpochsPerYear, MaxSwapQueueLength,
      InitialTxRateLimit, MaximumHooksWeight, MaxBlockWeight} \subseteq Nat
  /\ DesignatedEpochSlots < EpochLength /\ EpochLength >= 4 /\ EpochsPerYear >= 365
  /\ MaximumHooksWeight <= MaxBlockWeight /\ MaxBlockWeight <= U64Max
  /\ {U32Max, U64Max, U128Max} \subseteq Nat /\ U32Max < U64Max /\ U64Max < U128Max
  /\ {EpochLength, EpochsPerYear, InitialTxRateLimit} \subseteq 0 .. U32Max
  /\ U32Max >= 438290                 \* the largest default of a u32

VARIABLES net, result   \* the parameters, and the outcome of the last call

paramVars == <<net, result>>

(* What f holds, and g where f holds nothing; and the one item written.    *)
Over(f, g) == [i \in DOMAIN f \cup DOMAIN g |-> IF i \in DOMAIN f THEN f[i] ELSE g[i]]
Item(item, value) == [i \in {item} |-> value]
--------------------------------------------------------------------------------
(***************************************************************************)
(* The storage items by type, and their defaults.                          *)
(***************************************************************************)
NetItems1 == [
  bool |-> {"RequireSubnetRegistrationWhitelist"},
  u32 |-> {"SubnetPauseCooldownEpochs"},
  u128 |-> {"MinRegistrationCost"},
  u64 |-> {}]

NetItems2 == [
  u32 |-> {"MaxEmergencySubnetNodes"},
  u128 |-> {"MaxEmergencyValidatorEpochsMultiplier"},
  bool |-> {}, u64 |-> {}]

NetItems3 == [
  u32 |-> {"RegistrationCostDecayBlocks", "MaxSubnetPauseEpochs", "MinSubnetRemovalInterval",
          "MaxSubnetRemovalInterval", "DelegateStakeSubnetRemovalInterval",
          "SubnetRegistrationEpochs", "MinSubnetRegistrationEpochs", "SubnetEnactmentEpochs",
          "MaxSubnetBootnodeAccess", "MaxSubnets", "MaxBootnodes", "MinSubnetNodes",
          "MaxSubnetNodes", "MinChurnLimit", "MaxChurnLimit", "MinChurnLimitMultiplier",
          "MaxChurnLimitMultiplier", "MinQueueEpochs", "MaxQueueEpochs",
          "MinIdleClassificationEpochs", "MaxIdleClassificationEpochs",
          "MinIncludedClassificationEpochs", "MaxIncludedClassificationEpochs"},
  u128 |-> {"RegistrationCostAlpha", "NewRegistrationCostMultiplier",
           "MaxMinDelegateStakeMultiplier",
           "MaxSubnetNodeMinWeightDecreaseReputationThreshold"},
  bool |-> {}, u64 |-> {}]

NetItems4 == [
  u32 |-> {"MinMaxRegisteredNodes", "MaxMaxRegisteredNodes",
          "SubnetDelegateStakeRewardsUpdatePeriod", "DelegateStakeCooldownEpochs",
          "NodeDelegateStakeCooldownEpochs", "StakeCooldownEpochs", "MaxUnbondings"},
  u64 |-> {"ValidatorRewardK", "AttestorRewardExponent"},
  u128 |-> {"MinSubnetMinStake", "MaxSubnetMinStake", "NetworkMaxStakeBalance",
           "MinDelegateStakePercentage", "MaxDelegateStakePercentage",
           "MaxSubnetDelegateStakeRewardsPercentageChange", "BaseValidatorReward",
           "ValidatorRewardMidpoint", "AttestorMinRewardFactor", "BaseSlashPercentage",
           "MaxSlashAmount", "SubnetDistributionPower", "DelegateStakeWeightFactor",
           "delegate_stake", "node_count", "net_flow", "InflationSigmoidMidpoint"},
  bool |-> {}]

NetItems5 == [
  u128 |-> {"InflationSigmoidSteepness", "SubnetOwnerPercentage"},
  bool |-> {}, u32 |-> {}, u64 |-> {}]

NetItems6 == [
  bool |-> {"TxPause"},
  u32 |-> {"TxRateLimit"},
  u128 |-> {"BaseNodeBurnAmount", "MinNodeBurnRate", "MaxNodeBurnRate",
           "MinAttestationPercentage", "SuperMajorityAttestationRatio",
           "MinNodeReputationFactor", "MaxNodeReputationFactor", "MinMinSubnetNodeReputation",
           "MaxMinSubnetNodeReputation"},
  u64 |-> {}]

NetItems7 == [
  u128 |-> {"MinSubnetReputation", "NotInConsensusSubnetReputationFactor",
           "MaxPauseEpochsSubnetReputationFactor", "LessThanMinNodesSubnetReputationFactor",
           "ValidatorAbsentSubnetReputationFactor", "InConsensusSubnetReputationFactor",
           "ValidatorReputationIncreaseFactor", "ValidatorReputationDecreaseFactor"},
  bool |-> {}, u32 |-> {}, u64 |-> {}]

NetItems8 == [
  u32 |-> {"MinActiveNodeStakeEpochs"},
  u128 |-> {"MinSubnetDelegateStakeFactor", "MinDelegateStakeDeposit"},
  bool |-> {}, u64 |-> {}]

NetItems9 == [
  u32 |-> {"NodeRewardRateUpdatePeriod"},
  u128 |-> {"MaxRewardRateDecrease"},
  bool |-> {}, u64 |-> {}]

NetItems10 == [
  u32 |-> {"MaxOverwatchNodes", "OverwatchEpochLengthMultiplier"},
  u128 |-> {"OverwatchCommitCutoffPercent"},
  bool |-> {}, u64 |-> {}]

NetItems11 == [
  u128 |-> {"OverwatchWeightFactor", "OverwatchStakeWeightFactor"},
  bool |-> {}, u32 |-> {}, u64 |-> {}]

NetItems12 == [
  u32 |-> {"OverwatchMinAge"},
  u128 |-> {"OverwatchMinDiversificationRatio", "OverwatchMinRepScore",
           "OverwatchMinAvgAttestationRatio", "OverwatchMinStakeBalance",
           "DefaultOverwatchSubnetWeight"},
  bool |-> {}, u64 |-> {}]

NetItems13 == [
  u32 |-> {"MaxSwapQueueCallsPerBlock"},
  u64 |-> {"MaximumHooksWeightV2"},
  bool |-> {}, u128 |-> {}]

ItemGroups == {NetItems1, NetItems2, NetItems3, NetItems4, NetItems5, NetItems6, NetItems7,
               NetItems8, NetItems9, NetItems10, NetItems11, NetItems12, NetItems13}

NetDefaults1 == [
  RequireSubnetRegistrationWhitelist |-> 0, OverwatchWeightFactor |-> 1000,
  TxRateLimit |-> InitialTxRateLimit, TxPause |-> 0]

NetDefaults2 == [
  MaxSubnetNodes |-> 256, NetworkMaxStakeBalance |-> 10000,
  MinActiveNodeStakeEpochs |-> EpochsPerYear \div 365, MinSubnetDelegateStakeFactor |-> 1,
  MinDelegateStakeDeposit |-> 1000, MaxSubnetDelegateStakeRewardsPercentageChange |-> 20,
  SubnetDelegateStakeRewardsUpdatePeriod |-> 14400, BaseValidatorReward |-> 10,
  ValidatorRewardK |-> 20, ValidatorRewardMidpoint |-> 500, AttestorRewardExponent |-> 10,
  AttestorMinRewardFactor |-> 330, BaseSlashPercentage |-> 31, MaxSlashAmount |-> 10,
  MinAttestationPercentage |-> 660, SuperMajorityAttestationRatio |-> 875,
  MinSubnetNodes |-> 3, SubnetRegistrationEpochs |-> EpochsPerYear \div 52,
  MinSubnetRegistrationEpochs |-> EpochsPerYear \div 365,
  SubnetEnactmentEpochs |-> EpochsPerYear \div 104]

NetDefaults3 == [
  MaxSubnets |-> 64, MaxBootnodes |-> 32, MaxSubnetBootnodeAccess |-> 21,
  SubnetOwnerPercentage |-> 230, InflationSigmoidMidpoint |-> 500,
  InflationSigmoidSteepness |-> 7, MinChurnLimit |-> 1, MaxChurnLimit |-> 64,
  MinChurnLimitMultiplier |-> 1, MaxChurnLimitMultiplier |-> EpochsPerYear \div 52,
  MaxSubnetPauseEpochs |-> EpochsPerYear \div 4, MinQueueEpochs |-> 3,
  MaxQueueEpochs |-> EpochsPerYear \div 12, MinIdleClassificationEpochs |-> 1,
  MaxIdleClassificationEpochs |-> EpochsPerYear \div 52, MinIncludedClassificationEpochs |-> 1,
  MaxIncludedClassificationEpochs |-> EpochsPerYear \div 52, MinSubnetMinStake |-> 1000,
  MaxSubnetMinStake |-> 2500]

NetDefaults4 == [
  MinDelegateStakePercentage |-> 50, MaxDelegateStakePercentage |-> 950,
  MinMaxRegisteredNodes |-> 1, MaxMaxRegisteredNodes |-> 64,
  NodeRewardRateUpdatePeriod |-> 14400, MaxRewardRateDecrease |-> 0,
  SubnetDistributionPower |-> 750, ValidatorReputationIncreaseFactor |-> 0,
  ValidatorReputationDecreaseFactor |-> 500]

NetDefaults5 == [
  MinNodeReputationFactor |-> 50, MaxNodeReputationFactor |-> 500,
  MinMinSubnetNodeReputation |-> 50, MaxMinSubnetNodeReputation |-> 500,
  MinSubnetReputation |-> 100, NotInConsensusSubnetReputationFactor |-> 125,
  MaxPauseEpochsSubnetReputationFactor |-> 125, LessThanMinNodesSubnetReputationFactor |-> 125,
  ValidatorAbsentSubnetReputationFactor |-> 50, InConsensusSubnetReputationFactor |-> 125,
  MaxSubnetRemovalInterval |-> 10, MinSubnetRemovalInterval |-> 10,
  DelegateStakeSubnetRemovalInterval |-> 2, MaxOverwatchNodes |-> 64,
  OverwatchEpochLengthMultiplier |-> 16, OverwatchCommitCutoffPercent |-> 800,
  OverwatchStakeWeightFactor |-> 900, OverwatchMinStakeBalance |-> 1000,
  OverwatchMinDiversificationRatio |-> 250, OverwatchMinRepScore |-> 750,
  OverwatchMinAvgAttestationRatio |-> 720]

NetDefaults6 == [
  OverwatchMinAge |-> EpochLength \div 4, MaxMinDelegateStakeMultiplier |-> 4000,
  DelegateStakeWeightFactor |-> 400, DelegateStakeCooldownEpochs |-> 1,
  NodeDelegateStakeCooldownEpochs |-> 1, StakeCooldownEpochs |-> 4, MaxUnbondings |-> 32,
  MinNodeBurnRate |-> 1000, MaxNodeBurnRate |-> 5000, BaseNodeBurnAmount |-> 0,
  SubnetPauseCooldownEpochs |-> 0, MinRegistrationCost |-> 1,
  RegistrationCostDecayBlocks |-> 438290, RegistrationCostAlpha |-> 500,
  NewRegistrationCostMultiplier |-> 2000, MaxSwapQueueCallsPerBlock |-> 16,
  MaximumHooksWeightV2 |-> MaximumHooksWeight,
  MaxSubnetNodeMinWeightDecreaseReputationThreshold |-> 100,
  MaxEmergencyValidatorEpochsMultiplier |-> 2000, MaxEmergencySubnetNodes |-> 64]

NetDefaults7 == [
  delegate_stake |-> 400, net_flow |-> 200, node_count |-> 400,
  DefaultOverwatchSubnetWeight |-> 500]

NetDefaults ==
  Over(NetDefaults1, Over(NetDefaults2, Over(NetDefaults3, Over(NetDefaults4,
    Over(NetDefaults5, Over(NetDefaults6, NetDefaults7))))))

ParamInit == net = NetDefaults /\ result = "none"
--------------------------------------------------------------------------------
(***************************************************************************)
(* The setters of the pallet.                                              *)
(***************************************************************************)
(* Mutant: the registration period may fall below its minimum.             *)
SetsUnchecked(item, value, ok) ==
  [ok |-> ok \/ item = "SubnetRegistrationEpochs", writes |-> Item(item, value)]

(* Mutant: the interval of the hook's removals may be set to zero.         *)
SetsZero(item, value, ok) ==
  [ok |-> ok \/ item = "DelegateStakeSubnetRemovalInterval", writes |-> Item(item, value)]

Sets(item, value, ok) == [ok |-> ok, writes |-> Item(item, value)]
SetsBoth(low, v, high, w, ok) == [ok |-> ok, writes |-> Over(Item(low, v), Item(high, w))]

LimitSetters(v, w, x) == [
  pause |-> Sets("TxPause", 1, TRUE),
  unpause |-> Sets("TxPause", 0, TRUE),
  set_subnet_owner_percentage |-> Sets("SubnetOwnerPercentage", v, v <= Half),
  set_max_subnets |-> Sets("MaxSubnets", v, v <= EpochLength - DesignatedEpochSlots),
  set_max_bootnodes |-> Sets("MaxBootnodes", v, v <= 256),
  set_max_subnet_bootnodes_access |-> Sets("MaxSubnetBootnodeAccess", v, v <= 256),
  set_max_pause_epochs |-> Sets("MaxSubnetPauseEpochs", v, v > 0),
  set_min_registration_cost |-> Sets("MinRegistrationCost", v, TRUE),
  set_registration_cost_delay_blocks |-> Sets("RegistrationCostDecayBlocks", v, TRUE),
  set_registration_cost_alpha |-> Sets("RegistrationCostAlpha", v, v <= Full),
  set_new_registration_cost_multiplier |-> Sets("NewRegistrationCostMultiplier", v, TRUE),
  set_max_min_delegate_stake_multiplier |-> Sets("MaxMinDelegateStakeMultiplier", v, v >= Full),
  set_churn_limits |-> SetsBoth("MinChurnLimit", v, "MaxChurnLimit", w, v < w),
  set_churn_limit_multipliers |->
    SetsBoth("MinChurnLimitMultiplier", v, "MaxChurnLimitMultiplier", w, v < w),
  set_queue_epochs |-> SetsBoth("MinQueueEpochs", v, "MaxQueueEpochs", w, v < w),
  set_min_idle_classification_epochs |-> Sets("MinIdleClassificationEpochs", v, TRUE)]

StakeSetters(v, w, x) == [
  set_max_idle_classification_epochs |-> Sets("MaxIdleClassificationEpochs", v, TRUE),
  set_subnet_activation_enactment_epochs |-> Sets("SubnetEnactmentEpochs", v, TRUE),
  set_included_classification_epochs |->
    SetsBoth("MinIncludedClassificationEpochs", v, "MaxIncludedClassificationEpochs", w, v < w),
  set_subnet_stakes |-> SetsBoth("MinSubnetMinStake", v, "MaxSubnetMinStake", w, v < w),
  set_delegate_stake_percentages |->
    SetsBoth("MinDelegateStakePercentage", v, "MaxDelegateStakePercentage", w, v < w /\ w <= Full),
  set_min_max_registered_nodes |->
    SetsBoth("MinMaxRegisteredNodes", v, "MaxMaxRegisteredNodes", w, v < w),
  set_max_subnet_delegate_stake_rewards_percentage_change |->
    Sets("MaxSubnetDelegateStakeRewardsPercentageChange", v, TRUE),
  set_subnet_delegate_stake_rewards_update_period |->
    Sets("SubnetDelegateStakeRewardsUpdatePeriod", v, TRUE),
  set_min_attestation_percentage |-> Sets("MinAttestationPercentage", v, v <= Full /\ v > Half),
  set_super_majority_attestation_ratio |->
    Sets("SuperMajorityAttestationRatio", v, v <= Full /\ v >= net.MinAttestationPercentage),
  set_base_validator_reward |-> Sets("BaseValidatorReward", v, TRUE),
  set_base_slash_percentage |-> Sets("BaseSlashPercentage", v, TRUE),
  set_max_slash_amount |-> Sets("MaxSlashAmount", v, TRUE),
  set_reputation_increase_factor |-> Sets("ValidatorReputationIncreaseFactor", v, v <= Full)]

OverwatchSetters(v, w, x) == [
  set_reputation_decrease_factor |-> Sets("ValidatorReputationDecreaseFactor", v, v <= Full),
  set_network_max_stake_balance |-> Sets("NetworkMaxStakeBalance", v, TRUE),
  set_min_delegate_stake_deposit |-> Sets("MinDelegateStakeDeposit", v, v >= 1000),
  set_node_reward_rate_update_period |-> Sets("NodeRewardRateUpdatePeriod", v, TRUE),
  set_max_reward_rate_decrease |-> Sets("MaxRewardRateDecrease", v, TRUE),
  set_subnet_distribution_power |-> Sets("SubnetDistributionPower", v, TRUE),
  set_delegate_stake_weight_factor |-> Sets("DelegateStakeWeightFactor", v, v <= Full),
  set_inflation_sigmoid_steepness |-> Sets("InflationSigmoidSteepness", v, TRUE),
  set_max_overwatch_nodes |-> Sets("MaxOverwatchNodes", v, TRUE),
  set_overwatch_epoch_length_multiplier |-> Sets("OverwatchEpochLengthMultiplier", v, v > 0),
  set_overwatch_commit_cutoff_percent |-> Sets("OverwatchCommitCutoffPercent", v, v <= 950),
  set_overwatch_min_diversification_ratio |-> Sets("OverwatchMinDiversificationRatio", v, TRUE),
  set_overwatch_min_rep_score |-> Sets("OverwatchMinRepScore", v, TRUE),
  set_overwatch_min_avg_attestation_ratio |-> Sets("OverwatchMinAvgAttestationRatio", v, TRUE),
  set_overwatch_min_age |-> Sets("OverwatchMinAge", v, TRUE),
  set_overwatch_min_stake_balance |-> Sets("OverwatchMinStakeBalance", v, TRUE),
  set_min_max_subnet_node |-> SetsBoth("MinSubnetNodes", v, "MaxSubnetNodes", w, v < w /\ v > 0),
  set_tx_rate_limit |-> Sets("TxRateLimit", v, TRUE)]

CooldownSetters(v, w, x) == [
  set_min_subnet_delegate_stake_factor |-> Sets("MinSubnetDelegateStakeFactor", v, v <= Full),
  set_min_subnet_registration_epochs |->
    Sets("MinSubnetRegistrationEpochs", v, v < net.SubnetRegistrationEpochs),
  set_subnet_registration_epochs |->
    Sets("SubnetRegistrationEpochs", v, v > net.MinSubnetRegistrationEpochs),
  set_min_active_node_stake_epochs |-> Sets("MinActiveNodeStakeEpochs", v, TRUE),
  set_delegate_stake_cooldown_epochs |-> Sets("DelegateStakeCooldownEpochs", v, v > 0),
  set_node_delegate_stake_cooldown_epochs |-> Sets("NodeDelegateStakeCooldownEpochs", v, v > 0),
  set_min_stake_cooldown_epochs |-> Sets("StakeCooldownEpochs", v, v > 0),
  set_max_unbondings |-> Sets("MaxUnbondings", v, v <= 256),
  set_sigmoid_midpoint |-> Sets("InflationSigmoidMidpoint", v, v <= Full),
  set_maximum_hooks_weight |->
    Sets("MaximumHooksWeightV2", (v * MaxBlockWeight) \div 100, v > 0 /\ v <= 100),
  set_base_node_burn_amount |-> Sets("BaseNodeBurnAmount", v, TRUE)]

RewardSetters(v, w, x) == [
  set_node_burn_rates |->
    SetsBoth("MinNodeBurnRate", v, "MaxNodeBurnRate", w, v < w /\ v > 0 /\ w <= Full),
  set_delegate_stake_subnet_removal_interval |->
    Sets("DelegateStakeSubnetRemovalInterval", v, v > 0),
  set_subnet_removal_intervals |->
    SetsBoth("MinSubnetRemovalInterval", v, "MaxSubnetRemovalInterval", w, v < w),
  set_subnet_pause_cooldown_epochs |-> Sets("SubnetPauseCooldownEpochs", v, TRUE),
  set_max_swap_queue_calls_per_block |->
    Sets("MaxSwapQueueCallsPerBlock", v, v <= MaxSwapQueueLength),
  set_max_subnet_node_min_weight_decrease_reputation_threshold |->
    Sets("MaxSubnetNodeMinWeightDecreaseReputationThreshold", v, v <= Full),
  set_validator_reward_k |-> Sets("ValidatorRewardK", v, v > 0),
  set_validator_reward_midpoint |-> Sets("ValidatorRewardMidpoint", v, v <= Full),
  set_attestor_reward_exponent |-> Sets("AttestorRewardExponent", v, v > 0),
  set_attestor_min_reward_factor |-> Sets("AttestorMinRewardFactor", v, v <= Full),
  set_min_max_node_reputation |->
    SetsBoth("MinMinSubnetNodeReputation", v, "MaxMinSubnetNodeReputation", w, v < w /\ w <= Full),
  set_min_max_node_reputation_factor |->
    SetsBoth("MinNodeReputationFactor", v, "MaxNodeReputationFactor", w, v < w /\ w <= Full)]

ReputationSetters(v, w, x) == [
  set_min_subnet_reputation |-> Sets("MinSubnetReputation", v, v <= Full),
  set_not_in_consensus_subnet_reputation_factor |->
    Sets("NotInConsensusSubnetReputationFactor", v, v <= Full),
  set_max_pause_epochs_subnet_reputation_factor |->
    Sets("MaxPauseEpochsSubnetReputationFactor", v, v <= Full),
  set_less_than_min_nodes_subnet_reputation_factor |->
    Sets("LessThanMinNodesSubnetReputationFactor", v, v <= Full),
  set_validator_proposal_absent_subnet_reputation_factor |->
    Sets("ValidatorAbsentSubnetReputationFactor", v, v <= Full),
  set_in_consensus_subnet_reputation_factor |->
    Sets("InConsensusSubnetReputationFactor", v, v <= Full),
  set_overwatch_weight_factor |-> Sets("OverwatchWeightFactor", v, v <= Full),
  set_max_emergency_validator_epochs_multiplier |->
    Sets("MaxEmergencyValidatorEpochsMultiplier", v, v >= Full),
  set_max_emergency_subnet_nodes |-> Sets("MaxEmergencySubnetNodes", v, v >= net.MinSubnetNodes),
  set_overwatch_stake_weight_factor |-> Sets("OverwatchStakeWeightFactor", v, v > 0 /\ v >= Full)]

WeightSetters(v, w, x) == [
  set_subnet_weight_factors |->
    [ok |-> v + w + x <= Full,
     writes |-> [delegate_stake |-> v, node_count |-> w, net_flow |-> x]],
  set_default_overwatch_subnet_weight |-> Sets("DefaultOverwatchSubnetWeight", v, v <= Full)]

SwitchSetters(v, w, x) == [
  update_require_subnet_registration_whitelist |->
    Sets("RequireSubnetRegistrationWhitelist", v, v \in {0, 1})]

(* The row of a call, from the table that has it.                          *)
Setter(call) ==
  LET has(table) == call.name \in DOMAIN table
      limit == LimitSetters(call.v, call.w, call.x)
      stake == StakeSetters(call.v, call.w, call.x)
      overwatch == OverwatchSetters(call.v, call.w, call.x)
      cooldown == CooldownSetters(call.v, call.w, call.x)
      reward == RewardSetters(call.v, call.w, call.x)
      reputation == ReputationSetters(call.v, call.w, call.x)
      weight == WeightSetters(call.v, call.w, call.x)
      switch == SwitchSetters(call.v, call.w, call.x)
  IN  (CASE has(limit) -> limit [] has(stake) -> stake [] has(overwatch) -> overwatch
         [] has(cooldown) -> cooldown [] has(reward) -> reward
         [] has(reputation) -> reputation [] has(weight) -> weight
         [] has(switch) -> switch)[call.name]

PairCalls ==
  {"set_churn_limits", "set_churn_limit_multipliers", "set_queue_epochs",
   "set_included_classification_epochs", "set_subnet_stakes", "set_delegate_stake_percentages",
   "set_min_max_registered_nodes", "set_min_max_subnet_node", "set_node_burn_rates",
   "set_subnet_removal_intervals", "set_min_max_node_reputation",
   "set_min_max_node_reputation_factor"}
--------------------------------------------------------------------------------
(***************************************************************************)
(* Who may call them: MajorityCollectiveOrigin and                         *)
(* SuperMajorityCollectiveOrigin, as the runtime defines them.             *)
(***************************************************************************)
Origins1 == [
  majority |-> {"pause", "unpause", "set_max_bootnodes", "set_max_subnet_bootnodes_access",
               "set_max_pause_epochs", "set_delegate_stake_subnet_removal_interval",
               "set_subnet_removal_intervals", "set_subnet_pause_cooldown_epochs"},
  super |-> {"collective_remove_subnet", "collective_remove_subnet_node",
            "collective_remove_overwatch_node", "set_min_subnet_delegate_stake_factor",
            "set_subnet_owner_percentage", "set_max_subnets", "set_min_registration_cost"}]

Origins2 == [
  majority |-> {"set_registration_cost_alpha", "set_churn_limits", "set_queue_epochs",
               "set_min_idle_classification_epochs", "set_max_idle_classification_epochs",
               "set_subnet_activation_enactment_epochs", "set_included_classification_epochs"},
  super |-> {"set_registration_cost_delay_blocks", "set_new_registration_cost_multiplier",
            "set_max_min_delegate_stake_multiplier", "set_max_swap_queue_calls_per_block",
            "set_subnet_stakes", "set_delegate_stake_percentages",
            "set_min_max_registered_nodes",
            "set_max_subnet_delegate_stake_rewards_percentage_change"}]

Origins3 == [
  majority |-> {"set_subnet_delegate_stake_rewards_update_period",
               "set_reputation_increase_factor", "set_reputation_decrease_factor",
               "set_node_reward_rate_update_period", "set_max_reward_rate_decrease"},
  super |-> {"set_min_attestation_percentage", "set_super_majority_attestation_ratio",
            "set_base_validator_reward", "set_base_slash_percentage", "set_max_slash_amount",
            "set_network_max_stake_balance", "set_min_delegate_stake_deposit",
            "set_subnet_distribution_power", "set_delegate_stake_weight_factor",
            "set_inflation_sigmoid_steepness", "set_max_overwatch_nodes",
            "set_overwatch_epoch_length_multiplier", "set_overwatch_commit_cutoff_percent"}]

Origins4 == [
  majority |-> {"set_delegate_stake_cooldown_epochs", "set_node_delegate_stake_cooldown_epochs",
               "set_min_stake_cooldown_epochs", "set_sigmoid_midpoint",
               "set_maximum_hooks_weight"},
  super |-> {"set_overwatch_min_diversification_ratio", "set_overwatch_min_rep_score",
            "set_overwatch_min_avg_attestation_ratio", "set_overwatch_min_age",
            "set_overwatch_min_stake_balance", "set_min_max_subnet_node", "set_tx_rate_limit",
            "collective_set_coldkey_overwatch_node_eligibility",
            "set_min_subnet_registration_epochs", "set_subnet_registration_epochs",
            "set_min_active_node_stake_epochs", "set_max_unbondings"}]

Origins5 == [
  majority |-> {"set_base_node_burn_amount", "set_node_burn_rates",
               "set_max_subnet_node_min_weight_decrease_reputation_threshold",
               "set_validator_reward_k", "set_validator_reward_midpoint",
               "set_attestor_reward_exponent", "set_attestor_min_reward_factor",
               "set_min_max_node_reputation", "set_min_max_node_reputation_factor",
               "set_min_subnet_reputation", "set_not_in_consensus_subnet_reputation_factor",
               "set_max_pause_epochs_subnet_reputation_factor",
               "set_less_than_min_nodes_subnet_reputation_factor",
               "set_validator_proposal_absent_subnet_reputation_factor",
               "set_in_consensus_subnet_reputation_factor", "set_overwatch_weight_factor",
               "set_max_emergency_validator_epochs_multiplier"},
  super |-> {}]

Origins6 == [
  majority |-> {"set_max_emergency_subnet_nodes", "set_overwatch_stake_weight_factor",
               "set_subnet_weight_factors", "set_churn_limit_multipliers",
               "set_default_overwatch_subnet_weight", "set_overwatch_validator_whitelist",
               "update_require_subnet_registration_whitelist", "update_subnet_registrant"},
  super |-> {}]

OriginGroups == {Origins1, Origins2, Origins3, Origins4, Origins5, Origins6}
MajorityCalls == UNION {g.majority : g \in OriginGroups}
SuperMajorityCalls == UNION {g.super : g \in OriginGroups}

(* The calls that set a parameter.                                         *)
AdminCalls ==
  (MajorityCalls \cup SuperMajorityCalls)
    \ {"collective_remove_subnet", "collective_remove_subnet_node",
       "collective_remove_overwatch_node", "set_overwatch_validator_whitelist",
       "collective_set_coldkey_overwatch_node_eligibility", "update_subnet_registrant"}

(* An origin is a vote of the collective, one of its members, a signed     *)
(* account or root; only a vote can pass the filter.                       *)
Members(yes, seats) == [kind |-> "Members", yes |-> yes, seats |-> seats]
Origin(kind) == [kind |-> kind, yes |-> 0, seats |-> 0]

EnsureProportionAtLeast(origin, n, d) ==
  origin.kind = "Members" /\ origin.yes * d >= n * origin.seats

MayCall(origin, name) ==
  \/ name \in MajorityCalls /\ EnsureProportionAtLeast(origin, 2, 3)
  \/ name \in SuperMajorityCalls /\ EnsureProportionAtLeast(origin, 4, 5)

(* A call names its function and gives its arguments.                      *)
Dispatch(origin, call) ==
  LET setter == Setter(call)
      outcome == IF ~MayCall(origin, call.name) THEN "BadOrigin"
                 ELSE IF setter.ok THEN "Ok" ELSE "Refused"
  IN  /\ result' = outcome
      /\ net' = IF outcome = "Ok" THEN Over(setter.writes, net) ELSE net
--------------------------------------------------------------------------------
(***************************************************************************)
(* The admin precompile: it converts the words of the EVM to the width of  *)
(* each argument, and dispatches the call as signed by the caller.         *)
(***************************************************************************)
EvmSetters1 == [
  u32 |-> {"collective_remove_subnet", "collective_remove_subnet_node",
           "collective_remove_overwatch_node", "set_max_subnets", "set_max_bootnodes",
           "set_max_subnet_bootnodes_access", "set_max_pause_epochs",
           "set_delegate_stake_subnet_removal_interval", "set_subnet_removal_intervals",
           "set_subnet_pause_cooldown_epochs"},
  u128 |-> {"set_min_subnet_delegate_stake_factor", "set_subnet_owner_percentage"},
  u64 |-> {}]

EvmSetters2 == [
  u32 |-> {"set_registration_cost_delay_blocks", "set_churn_limits", "set_queue_epochs",
           "set_max_swap_queue_calls_per_block", "set_min_idle_classification_epochs",
           "set_max_idle_classification_epochs", "set_subnet_activation_enactment_epochs",
           "set_included_classification_epochs"},
  u128 |-> {"set_min_registration_cost", "set_registration_cost_alpha",
            "set_new_registration_cost_multiplier", "set_max_min_delegate_stake_multiplier"},
  u64 |-> {}]

EvmSetters3 == [
  u32 |-> {"set_min_max_registered_nodes", "set_subnet_delegate_stake_rewards_update_period"},
  u128 |-> {"set_subnet_stakes", "set_delegate_stake_percentages",
            "set_max_subnet_delegate_stake_rewards_percentage_change",
            "set_min_attestation_percentage", "set_super_majority_attestation_ratio",
            "set_base_validator_reward", "set_base_slash_percentage", "set_max_slash_amount",
            "set_reputation_increase_factor", "set_reputation_decrease_factor"},
  u64 |-> {}]

EvmSetters4 == [
  u32 |-> {"set_node_reward_rate_update_period", "set_max_overwatch_nodes",
           "set_overwatch_epoch_length_multiplier"},
  u128 |-> {"set_network_max_stake_balance", "set_min_delegate_stake_deposit",
            "set_max_reward_rate_decrease", "set_subnet_distribution_power",
            "set_delegate_stake_weight_factor", "set_inflation_sigmoid_steepness",
            "set_overwatch_commit_cutoff_percent", "set_overwatch_min_diversification_ratio",
            "set_overwatch_min_rep_score"},
  u64 |-> {}]

EvmSetters5 == [
  u32 |-> {"set_overwatch_min_age", "set_min_max_subnet_node", "set_tx_rate_limit",
           "set_min_subnet_registration_epochs", "set_subnet_registration_epochs",
           "set_min_active_node_stake_epochs", "set_delegate_stake_cooldown_epochs",
           "set_node_delegate_stake_cooldown_epochs", "set_min_stake_cooldown_epochs"},
  u128 |-> {"set_overwatch_min_avg_attestation_ratio", "set_overwatch_min_stake_balance"},
  u64 |-> {}]

EvmSetters6 == [
  u32 |-> {"set_max_unbondings", "set_maximum_hooks_weight"},
  u128 |-> {"set_sigmoid_midpoint", "set_base_node_burn_amount", "set_node_burn_rates",
            "set_max_subnet_node_min_weight_decrease_reputation_threshold",
            "set_validator_reward_midpoint", "set_attestor_min_reward_factor",
            "set_min_max_node_reputation", "set_min_max_node_reputation_factor",
            "set_min_subnet_reputation"},
  u64 |-> {"set_validator_reward_k", "set_attestor_reward_exponent"}]

EvmSetters7 == [
  u32 |-> {"set_max_emergency_subnet_nodes", "set_churn_limit_multipliers"},
  u128 |-> {"set_not_in_consensus_subnet_reputation_factor",
            "set_max_pause_epochs_subnet_reputation_factor",
            "set_less_than_min_nodes_subnet_reputation_factor",
            "set_validator_proposal_absent_subnet_reputation_factor",
            "set_in_consensus_subnet_reputation_factor", "set_overwatch_weight_factor",
            "set_max_emergency_validator_epochs_multiplier",
            "set_overwatch_stake_weight_factor", "set_subnet_weight_factors"},
  u64 |-> {}]

EvmSetters8 == [
  u32 |-> {"set_overwatch_validator_whitelist"},
  u128 |-> {"set_default_overwatch_subnet_weight"},
  u64 |-> {}]

EvmGroups == {EvmSetters1, EvmSetters2, EvmSetters3, EvmSetters4, EvmSetters5, EvmSetters6,
              EvmSetters7, EvmSetters8}

try_u256_to_u32(name, n) == name \in UNION {g.u32 : g \in EvmGroups} => n <= U32Max
try_u256_to_u64(name, n) == name \in UNION {g.u64 : g \in EvmGroups} => n <= U64Max
try_u256_to_u128(name, n) == name \in UNION {g.u128 : g \in EvmGroups} => n <= U128Max

Converts(name, n) ==
  try_u256_to_u32(name, n) /\ try_u256_to_u64(name, n) /\ try_u256_to_u128(name, n)

EvmDispatch(call) ==
  IF \A n \in {call.v, call.w, call.x} : Converts(call.name, n)
  THEN Dispatch(Origin("Signed"), call)
  ELSE result' = "OutOfBounds" /\ UNCHANGED net
--------------------------------------------------------------------------------
(***************************************************************************)
(* Properties.                                                             *)
(***************************************************************************)
Fits(S, max) == \A i \in S : net[i] \in 0 .. max

(* Every parameter holds a value of the type of its storage item, and the  *)
(* hooks are never given more than the weight of a block, after any        *)
(* sequence of do_set_* calls.                                             *)
ParamTypeOK ==
  /\ DOMAIN net = DOMAIN NetDefaults
  /\ \A g \in ItemGroups :
       Fits(g.bool, 1) /\ Fits(g.u32, U32Max) /\ Fits(g.u64, U64Max) /\ Fits(g.u128, U128Max)
  /\ net.MaximumHooksWeightV2 <= MaxBlockWeight
  /\ result \in {"none", "Ok", "Refused", "BadOrigin", "OutOfBounds"}

Ordered(low, high) == net[low] < net[high]

(* The bounds that are set together, or each against the other's present   *)
(* value (do_set_min_subnet_registration_epochs and                        *)
(* do_set_subnet_registration_epochs), never cross, in whatever order they *)
(* move.  The pair of IdleClassificationEpochs is not among them: its two  *)
(* setters check nothing, and it can cross.                                *)
PairsOrdered ==
  /\ Ordered("MinSubnetRegistrationEpochs", "SubnetRegistrationEpochs")
  /\ Ordered("MinChurnLimit", "MaxChurnLimit")
  /\ Ordered("MinChurnLimitMultiplier", "MaxChurnLimitMultiplier")
  /\ Ordered("MinQueueEpochs", "MaxQueueEpochs")
  /\ Ordered("MinIncludedClassificationEpochs", "MaxIncludedClassificationEpochs")
  /\ Ordered("MinSubnetMinStake", "MaxSubnetMinStake")
  /\ Ordered("MinDelegateStakePercentage", "MaxDelegateStakePercentage")
  /\ Ordered("MinMaxRegisteredNodes", "MaxMaxRegisteredNodes")
  /\ Ordered("MinSubnetNodes", "MaxSubnetNodes")
  /\ Ordered("MinNodeBurnRate", "MaxNodeBurnRate")
  /\ Ordered("MinMinSubnetNodeReputation", "MaxMinSubnetNodeReputation")
  /\ Ordered("MinNodeReputationFactor", "MaxNodeReputationFactor")

(* The network's own parameters by which the epoch hooks divide (the       *)
(* length of the overwatch epoch, and the intervals at which subnets are   *)
(* removed, of which one is guarded by the order of a pair) are not zero.  *)
DivisorsPositive ==
  /\ net.OverwatchEpochLengthMultiplier > 0
  /\ net.DelegateStakeSubnetRemovalInterval > 0
  /\ net.MaxSubnetRemovalInterval > 0
================================================================================

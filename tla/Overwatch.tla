------------------------------- MODULE Overwatch -------------------------------
(***************************************************************************)
(* Overwatch nodes (overwatch_nodes/, stake/overwatch_node_staking.rs and  *)
(* calculate_overwatch_rewards), composed with the validators that run     *)
(* them, the unbonding ledger and the block hook.                          *)
(*                                                                         *)
(* In the first part of an overwatch epoch the nodes commit to a weight    *)
(* for each subnet, in the rest of it they reveal them.  In the second     *)
(* block of the next overwatch epoch the hook takes the average of what    *)
(* was revealed, weighted by stake, and pays the nodes by how close they   *)
(* came to it.  A node is a uid; its stake, its owner and its hotkey       *)
(* outlive it.  Peer ids belong to PeerRegistry.                           *)
(***************************************************************************)
EXTENDS NodeStaking

CONSTANTS
  StakePower(_),                  \* stake to the power OverwatchStakeWeightFactor, as
                                  \* a percentage: times 10^18, cut off at u128
  Multipliers,                    \* values of OverwatchEpochLengthMultiplier, Init has all
  Cutoffs,                        \* values of OverwatchCommitCutoffPercent, likewise
  OverwatchMinStakeBalance, MaxOverwatchNodes,    \* settings the collective leaves alone
  OverwatchEpochEmissions,
  ValidatorReputation,            \* of the validators that have one; read here only
  OverwatchMinAge, OverwatchMinRepScore, OverwatchMinDiversificationRatio,
  OverwatchMinAvgAttestationRatio,
  FirstWatchers,                  \* the validators of the nodes 1, 2, ... there are in Init
  MaxWatchers,                    \* bound: uids
  Weights                         \* weights to commit to, above Full too

WatcherIds == 1 .. MaxWatchers

ASSUME OverwatchAssumption ==
  /\ Multipliers \subseteq Nat \ {0} /\ Weights \subseteq Nat
  /\ Cutoffs \subseteq Nat
  /\ {OverwatchMinStakeBalance, MaxOverwatchNodes, OverwatchEpochEmissions} \subseteq Balance
  /\ FirstWatchers \in Seq(First) /\ MaxWatchers \in Nat
  /\ Len(FirstWatchers) <= MaxWatchers /\ Len(FirstWatchers) <= MaxOverwatchNodes

(* Powers are converted to u128, block numbers are u32, and a percentage   *)
(* for every node and subnet is far below u128.                            *)
ASSUME WidthAssumption ==
  /\ \A stake \in Balance : StakePower(stake) \in Balance
  /\ MaxBlock \in Balance
  /\ MaxWatchers * (Cardinality(Subnets) * Full) <= MaxBalance

VARIABLES
  OverwatchEpochLengthMultiplier, OverwatchCommitCutoffPercent,
  OverwatchNodes, TotalOverwatchNodes,    \* the nodes there are, and their number
  OverwatchNodeValidatorId,               \* uid -> validator, 0 if not given yet
  OverwatchNodeIdHotkey,                  \* uid -> its own hotkey, or NoKey
  OverwatchNodeStakeBalance, TotalOverwatchNodeStakeBalance,
  OverwatchValidatorWhitelist,
  OverwatchCommits, OverwatchReveals,     \* (epoch, uid, subnet) -> commit, weight
  OverwatchSubnetWeights,                 \* (epoch, subnet) -> weight
  paid                                    \* history: epoch -> what its nodes were paid

settingVars == <<OverwatchEpochLengthMultiplier, OverwatchCommitCutoffPercent>>
stakeVars == <<OverwatchNodeStakeBalance, TotalOverwatchNodeStakeBalance>>
nodesVars == <<OverwatchNodes, TotalOverwatchNodes, OverwatchNodeValidatorId>>
roundVars == <<OverwatchCommits, OverwatchReveals, OverwatchSubnetWeights, paid>>
watchVars == <<settingVars, nodesVars, OverwatchNodeIdHotkey, stakeVars,
               OverwatchValidatorWhitelist, roundVars>>
systemVars == <<allVars, watchVars>>

FirstIds == 1 .. Len(FirstWatchers)

OverwatchInit ==
  /\ NodeInit
  /\ OverwatchEpochLengthMultiplier \in Multipliers
  /\ OverwatchCommitCutoffPercent \in Cutoffs
  /\ OverwatchNodes = FirstIds /\ TotalOverwatchNodes = Len(FirstWatchers)
  /\ OverwatchNodeValidatorId =
       [n \in WatcherIds |-> IF n \in FirstIds THEN FirstWatchers[n] ELSE 0]
  /\ OverwatchNodeIdHotkey = [n \in WatcherIds |-> NoKey]
  /\ OverwatchNodeStakeBalance =
       [n \in WatcherIds |-> IF n \in FirstIds THEN OverwatchMinStakeBalance ELSE 0]
  /\ TotalOverwatchNodeStakeBalance = Len(FirstWatchers) * OverwatchMinStakeBalance
  /\ OverwatchValidatorWhitelist = First
  /\ OverwatchCommits = EmptyMap /\ OverwatchReveals = EmptyMap
  /\ OverwatchSubnetWeights = EmptyMap /\ paid = EmptyMap
--------------------------------------------------------------------------------
(***************************************************************************)
(* Overwatch epochs.                                                       *)
(***************************************************************************)
overwatch_epoch_length == EpochLength * OverwatchEpochLengthMultiplier

OverwatchEpochAt(b) == b \div overwatch_epoch_length
get_current_overwatch_epoch == OverwatchEpochAt(block)

in_overwatch_commit_period ==
  block < overwatch_epoch_length * get_current_overwatch_epoch
          + percent_mul(overwatch_epoch_length, OverwatchCommitCutoffPercent)
--------------------------------------------------------------------------------
(***************************************************************************)
(* Who a node answers to.                                                  *)
(***************************************************************************)
get_overwatch_node_associated_coldkey(n) == ValidatorColdkey[OverwatchNodeValidatorId[n]]

get_overwatch_node_associated_hotkey(n) ==
  IF OverwatchNodeIdHotkey[n] # NoKey THEN OverwatchNodeIdHotkey[n]
  ELSE ValidatorIdHotkey[OverwatchNodeValidatorId[n]]

IsColdkeyOf(a, n) ==
  OverwatchNodeValidatorId[n] # 0 /\ a = get_overwatch_node_associated_coldkey(n)

IsHotkeyOf(a, n) ==
  /\ OverwatchNodeValidatorId[n] # 0 /\ a = get_overwatch_node_associated_hotkey(n)
  /\ OverwatchNodeValidatorId[n] \in OverwatchValidatorWhitelist

percent_div(x, y) == IF y = 0 THEN 0 ELSE MulDiv(x, Full, y)

SubnetsOf(v) == {s \in Subnets : ValidatorSubnetNodes[v][s] \cap present[s] # {}}
Diversification(counted, active) ==
  IF Cardinality(counted) >= Cardinality(active) THEN Full
  ELSE percent_div(Cardinality(counted), Cardinality(active))

(* Which nodes are classified as validators and which subnets are active   *)
(* belongs to SubnetNodes and SubnetLifecycle: here, any of them may be.   *)
is_validator_overwatch_qualified_read_only(v) ==
  LET epoch == block \div EpochLength
  IN  /\ v \in DOMAIN ValidatorReputation
      /\ epoch > OverwatchMinAge
      /\ epoch - ValidatorReputation[v].start_epoch >= OverwatchMinAge
      /\ ValidatorReputation[v].score >= OverwatchMinRepScore
      /\ \E counted \in SUBSET SubnetsOf(v), active \in SUBSET (Subnets \cap live) :
           Diversification(counted, active) >= OverwatchMinDiversificationRatio
      /\ ValidatorReputation[v].average_attestation >= OverwatchMinAvgAttestationRatio
--------------------------------------------------------------------------------
(***************************************************************************)
(* Stake of overwatch nodes.                                               *)
(***************************************************************************)
increase_overwatch_node_stake(n, amount) ==
  /\ OverwatchNodeStakeBalance' = [OverwatchNodeStakeBalance EXCEPT ![n] = SatAdd(@, amount)]
  /\ TotalOverwatchNodeStakeBalance' = SatAdd(TotalOverwatchNodeStakeBalance, amount)

(* Mutant: the total is not reduced.                                       *)
DecreaseKeepsOverwatchTotal(n, amount) ==
  /\ OverwatchNodeStakeBalance' = [OverwatchNodeStakeBalance EXCEPT ![n] = SatSub(@, amount)]
  /\ UNCHANGED TotalOverwatchNodeStakeBalance

decrease_overwatch_node_stake(n, amount) ==
  /\ OverwatchNodeStakeBalance' = [OverwatchNodeStakeBalance EXCEPT ![n] = SatSub(@, amount)]
  /\ TotalOverwatchNodeStakeBalance' = SatSub(TotalOverwatchNodeStakeBalance, amount)

EnoughWith(n, amount) ==
  SatAdd(OverwatchNodeStakeBalance[n], amount) >= OverwatchMinStakeBalance

NextWatcherId == Cardinality({n \in WatcherIds : OverwatchNodeValidatorId[n] # 0}) + 1

register_overwatch_node(a, amount) ==
  LET n == NextWatcherId  v == ColdkeyValidatorId[a]
  IN  /\ Call /\ ~paused /\ n \in WatcherIds
      /\ v # 0 /\ ensure_canonical_validator_coldkey(a, v)
      /\ v \in OverwatchValidatorWhitelist
      /\ get_current_overwatch_epoch > 0
      /\ TotalOverwatchNodes < MaxOverwatchNodes
      /\ is_validator_overwatch_qualified_read_only(v)
      /\ amount # 0 /\ EnoughWith(n, amount) /\ can_withdraw(a, amount)
      /\ withdraw(a, amount)
      /\ increase_overwatch_node_stake(n, amount)
      /\ OverwatchNodeValidatorId' = [OverwatchNodeValidatorId EXCEPT ![n] = v]
      /\ OverwatchNodes' = OverwatchNodes \cup {n}
      /\ TotalOverwatchNodes' = TotalOverwatchNodes + 1
      /\ UNCHANGED <<poolVars, queueVars, bondVars, timeVars, histVars, paused, live, lastTx,
                     keyVars, nodeVars, settingVars, OverwatchNodeIdHotkey,
                     OverwatchValidatorWhitelist, roundVars>>

(* The stake of a node that is gone can be added to as well.               *)
add_overwatch_node_stake(a, n, amount) ==
  /\ Call /\ ~paused /\ IsColdkeyOf(a, n)
  /\ amount # 0 /\ EnoughWith(n, amount) /\ can_withdraw(a, amount)
  /\ withdraw(a, amount)
  /\ increase_overwatch_node_stake(n, amount)
  /\ UNCHANGED <<poolVars, queueVars, bondVars, timeVars, histVars, paused, live, lastTx,
                 keyVars, nodeVars, settingVars, nodesVars,
                 OverwatchNodeIdHotkey, OverwatchValidatorWhitelist, roundVars>>

remove_overwatch_node_stake(a, n, amount) ==
  /\ Call /\ ~paused /\ IsColdkeyOf(a, n)
  /\ amount > 0 /\ OverwatchNodeStakeBalance[n] >= amount
  /\ n \in OverwatchNodes =>
       SatSub(OverwatchNodeStakeBalance[n], amount) >= OverwatchMinStakeBalance
  /\ Unbond(a, StakeClaim, amount)
  /\ decrease_overwatch_node_stake(n, amount)
  /\ UNCHANGED <<poolVars, queueVars, timeVars, histVars, paused, live, lastTx,
                 keyVars, nodeVars, settingVars, nodesVars,
                 OverwatchNodeIdHotkey, OverwatchValidatorWhitelist, roundVars>>
--------------------------------------------------------------------------------
(***************************************************************************)
(* Removal, hotkeys and the collective's calls: none touches a balance.    *)
(***************************************************************************)
OnlyWatchers ==
  UNCHANGED <<poolVars, queueVars, bondVars, timeVars, histVars, paused, live, free, lastTx,
              keyVars, nodeVars, stakeVars, OverwatchNodeValidatorId>>

(* Mutant: the node goes, the number stays.                                *)
RemoveKeepsCount(n) ==
  OverwatchNodes' = OverwatchNodes \ {n} /\ UNCHANGED TotalOverwatchNodes

perform_remove_overwatch_node(n) ==
  /\ OverwatchNodes' = OverwatchNodes \ {n}
  /\ TotalOverwatchNodes' =
       IF n \in OverwatchNodes THEN SatSub(TotalOverwatchNodes, 1) ELSE TotalOverwatchNodes

remove_overwatch_node(a, n) ==
  /\ Call /\ ~paused /\ IsColdkeyOf(a, n) /\ n \in OverwatchNodes
  /\ perform_remove_overwatch_node(n)
  /\ OnlyWatchers
  /\ UNCHANGED <<settingVars, OverwatchNodeIdHotkey,
                 OverwatchValidatorWhitelist, roundVars>>

do_collective_remove_overwatch_node(n) ==
  /\ Call
  /\ perform_remove_overwatch_node(n)
  /\ OnlyWatchers
  /\ UNCHANGED <<settingVars, OverwatchNodeIdHotkey,
                 OverwatchValidatorWhitelist, roundVars>>

update_overwatch_hotkey(a, n, new) ==
  /\ Call /\ ~paused /\ IsColdkeyOf(a, n)
  /\ OverwatchNodeIdHotkey' = [OverwatchNodeIdHotkey EXCEPT ![n] = new]
  /\ OnlyWatchers
  /\ UNCHANGED <<settingVars, OverwatchNodes, TotalOverwatchNodes,
                 OverwatchValidatorWhitelist, roundVars>>

do_set_overwatch_validator_whitelist(v, value) ==
  /\ Call
  /\ OverwatchValidatorWhitelist' = IF value THEN OverwatchValidatorWhitelist \cup {v}
                                    ELSE OverwatchValidatorWhitelist \ {v}
  /\ OnlyWatchers
  /\ UNCHANGED <<settingVars, OverwatchNodes, TotalOverwatchNodes,
                 OverwatchNodeIdHotkey, roundVars>>

(* Another length renumbers the overwatch epochs.                          *)
do_set_overwatch_epoch_length_multiplier(value) ==
  /\ Call /\ value > 0
  /\ OverwatchEpochLengthMultiplier' = value
  /\ OnlyWatchers
  /\ UNCHANGED <<OverwatchCommitCutoffPercent, OverwatchNodes, TotalOverwatchNodes,
                 OverwatchNodeIdHotkey, OverwatchValidatorWhitelist, roundVars>>

(* A higher cutoff lets the epoch take commits again.                      *)
do_set_overwatch_commit_cutoff_percent(value) ==
  /\ Call /\ 100 * value <= 95 * Full
  /\ OverwatchCommitCutoffPercent' = value
  /\ OnlyWatchers
  /\ UNCHANGED <<OverwatchEpochLengthMultiplier, OverwatchNodes, TotalOverwatchNodes,
                 OverwatchNodeIdHotkey, OverwatchValidatorWhitelist, roundVars>>
--------------------------------------------------------------------------------
(***************************************************************************)
(* Commits and reveals.  hash_of is injective: a commit is the weight it   *)
(* hides, the salt is left out.  A list that names a subnet twice in a row *)
(* keeps the first entry and fails otherwise: what is left is a function.  *)
(***************************************************************************)
Votes == UNION {[S -> Weights] : S \in SUBSET Subnets \ {{}}}

(* The entries of f as those of node n in the current epoch.               *)
InThisEpoch(n, f) ==
  [k \in {<<get_current_overwatch_epoch, n, s>> : s \in DOMAIN f} |-> f[k[3]]]

With(f, g) == [k \in DOMAIN f \cup DOMAIN g |-> IF k \in DOMAIN g THEN g[k] ELSE f[k]]

commit_overwatch_subnet_weights(a, n, f) ==
  LET new == InThisEpoch(n, Restrict(f, DOMAIN f \cap live))
  IN  /\ Call /\ ~paused /\ IsHotkeyOf(a, n)
      /\ in_overwatch_commit_period
      /\ DOMAIN new # {} /\ DOMAIN new \cap DOMAIN OverwatchCommits = {}
      /\ OverwatchCommits' = With(OverwatchCommits, new)
      /\ OnlyWatchers
      /\ UNCHANGED <<settingVars, OverwatchNodes, TotalOverwatchNodes,
                     OverwatchNodeIdHotkey, OverwatchValidatorWhitelist, OverwatchReveals,
                     OverwatchSubnetWeights, paid>>

Reveals(n, f) ==
  LET new == InThisEpoch(n, f)
  IN  /\ \A k \in DOMAIN new :
           new[k] <= Full /\ k \in DOMAIN OverwatchCommits /\ OverwatchCommits[k] = new[k]
      /\ OverwatchReveals' = With(OverwatchReveals, new)
      /\ OnlyWatchers
      /\ UNCHANGED <<settingVars, OverwatchNodes, TotalOverwatchNodes,
                     OverwatchNodeIdHotkey, OverwatchValidatorWhitelist, OverwatchCommits,
                     OverwatchSubnetWeights, paid>>

(* Mutant: revealing is not kept to its period.                            *)
RevealAnytime(a, n, f) == Call /\ ~paused /\ IsHotkeyOf(a, n) /\ Reveals(n, f)

(* Neither the node nor the subnet need exist any more.                    *)
reveal_overwatch_subnet_weights(a, n, f) ==
  /\ Call /\ ~paused /\ IsHotkeyOf(a, n)
  /\ ~in_overwatch_commit_period
  /\ Reveals(n, f)
--------------------------------------------------------------------------------
(***************************************************************************)
(* Rewards.                                                                *)
(***************************************************************************)
AbsDiff(x, y) == IF x >= y THEN x - y ELSE y - x

(* Folding saturating_add over amounts: their sum, or the end of u128.     *)
SatSum(f, S) == SatAdd(0, SumFunctionOnSet(f, S))

calculate_overwatch_rewards(b) ==
  LET e == SatSub(OverwatchEpochAt(b), 1)
      heard == {k \in DOMAIN OverwatchReveals : k[1] = e /\ k[2] \in OverwatchNodes}
      nodes == {k[2] : k \in heard}
      power == [n \in nodes |-> StakePower(OverwatchNodeStakeBalance[n])]
      share == [n \in nodes |-> percent_div(power[n], SatSum(power, nodes))]
      judged == {k[3] : k \in heard}
      part == [k \in heard |-> percent_mul(OverwatchReveals[k], share[k[2]])]
      sum == [s \in judged |-> SatSum(part, {k \in heard : k[3] = s})]
      weight == [s \in judged |-> IF sum[s] > Full THEN Full ELSE sum[s]]
      close == [k \in heard |->
                  percent_mul(Full - AbsDiff(OverwatchReveals[k], weight[k[3]]), weight[k[3]])]
      score == [n \in nodes |-> SatSum(close, {k \in heard : k[2] = n})]
      total_score == SatSum(score, nodes)
      reward == [n \in nodes |->
                   percent_mul(percent_div(score[n], total_score), OverwatchEpochEmissions)]
      given == IF total_score = 0 THEN 0 ELSE SumFunction(reward)
  IN  /\ OverwatchSubnetWeights' =
           With(OverwatchSubnetWeights,
                [k \in {<<e, s>> : s \in judged} |-> weight[k[2]]])
      /\ OverwatchNodeStakeBalance' =
           [n \in WatcherIds |-> IF n \in nodes /\ total_score # 0
                                 THEN SatAdd(OverwatchNodeStakeBalance[n], reward[n])
                                 ELSE OverwatchNodeStakeBalance[n]]
      /\ TotalOverwatchNodeStakeBalance' = SatAdd(TotalOverwatchNodeStakeBalance, given)
      /\ minted' = minted + given
      /\ paid' = Put(paid, e, given + IF e \in DOMAIN paid THEN paid[e] ELSE 0)

(* Mutant: the second block of an overwatch epoch and every one after it.  *)
DueFromThenOn(b) == b - 1 >= overwatch_epoch_length /\ b % EpochLength # 0

OverwatchDue(b) == b - 1 >= overwatch_epoch_length /\ (b - 1) % overwatch_epoch_length = 0

(* A block the network is paused in pays nothing, and the epoch's turn     *)
(* does not come again.                                                    *)
OverwatchBlock ==
  /\ phase = "calls" /\ ~paused /\ block < MaxBlock /\ OverwatchDue(block + 1)
  /\ block' = block + 1
  /\ calculate_overwatch_rewards(block')
  /\ phase' = "swaps" /\ left' = MaxSwapQueueCallsPerBlock
  /\ UNCHANGED <<poolVars, queueVars, bondVars, dropped, short, npauses, paused, live, free,
                 lastTx, ncalls, keyVars, nodeVars, settingVars, nodesVars,
                 OverwatchNodeIdHotkey, OverwatchValidatorWhitelist, OverwatchCommits,
                 OverwatchReveals>>

OtherBlock ==
  /\ NewBlock /\ ~OverwatchDue(block + 1)
  /\ UNCHANGED <<keyVars, nodeVars, watchVars>>
--------------------------------------------------------------------------------
(* The precompile: amounts of stake saturate.                              *)
EvmOverwatchCalls1(a) ==
  \/ \E x \in EvmAmounts : register_overwatch_node(a, x)
  \/ \E n \in WatcherIds :
       \/ remove_overwatch_node(a, n)
       \/ \E h \in Accounts \cup {NoKey} : update_overwatch_hotkey(a, n, h)
       \/ \E f \in Votes : commit_overwatch_subnet_weights(a, n, f)

EvmOverwatchCalls2(a) ==
  \E n \in WatcherIds :
    \/ \E f \in Votes : reveal_overwatch_subnet_weights(a, n, f)
    \/ \E x \in EvmAmounts :
         add_overwatch_node_stake(a, n, x) \/ remove_overwatch_node_stake(a, n, x)

OverwatchCalls == \E a \in Accounts :
  \/ \E x \in StakeAmounts : register_overwatch_node(a, x)
  \/ \E n \in WatcherIds :
       \/ remove_overwatch_node(a, n)
       \/ \E h \in Accounts \cup {NoKey} : update_overwatch_hotkey(a, n, h)
       \/ \E f \in Votes : \/ commit_overwatch_subnet_weights(a, n, f)
                           \/ reveal_overwatch_subnet_weights(a, n, f)
       \/ \E x \in StakeAmounts :
            add_overwatch_node_stake(a, n, x) \/ remove_overwatch_node_stake(a, n, x)

CollectiveCalls ==
  \/ \E n \in WatcherIds : do_collective_remove_overwatch_node(n)
  \/ \E v \in Validators, value \in BOOLEAN : do_set_overwatch_validator_whitelist(v, value)
  \/ \E m \in Multipliers : do_set_overwatch_epoch_length_multiplier(m)
  \/ \E c \in Cutoffs : do_set_overwatch_commit_cutoff_percent(c)

(* What other components do meanwhile.                                     *)
Meanwhile ==
  \/ \E a, k \in Accounts, v \in Validators :
       /\ update_validator_coldkey(a, v, k) \/ update_validator_hotkey(a, v, k)
       /\ UNCHANGED <<nodeVars, watchVars>>
  \/ \E a \in Accounts : claim_unbondings(a) /\ UNCHANGED <<keyVars, nodeVars, watchVars>>
  \/ Removals /\ UNCHANGED watchVars
  \/ (do_pause \/ do_unpause) /\ UNCHANGED <<keyVars, nodeVars, watchVars>>

BlockHook ==
  \/ OverwatchBlock \/ OtherBlock
  \/ (NewBlockWhilePaused \/ HookDone) /\ UNCHANGED <<keyVars, nodeVars, watchVars>>

OverwatchNext ==
  \/ OverwatchCalls \/ CollectiveCalls \/ Meanwhile \/ BlockHook
  \/ \E a \in Accounts : EvmOverwatchCalls1(a) \/ EvmOverwatchCalls2(a)

OverwatchSpec == OverwatchInit /\ [][OverwatchNext]_systemVars
--------------------------------------------------------------------------------
(***************************************************************************)
(* Properties.                                                             *)
(***************************************************************************)
InWatchers == SumFunction(OverwatchNodeStakeBalance)

(* The counters the pallet reads are true: registrations, removals by the  *)
(* owner and by the collective keep TotalOverwatchNodes at the number of   *)
(* nodes, within its limit; no node that is there falls below the minimum  *)
(* stake, and the stake of every node, there or gone, has an owner.        *)
WatchersSound ==
  /\ TotalOverwatchNodes = Cardinality(OverwatchNodes)
  /\ TotalOverwatchNodes <= MaxOverwatchNodes
  /\ \A n \in OverwatchNodes : OverwatchNodeStakeBalance[n] >= OverwatchMinStakeBalance
  /\ \A n \in WatcherIds :
       OverwatchNodeStakeBalance[n] > 0 => \E a \in Accounts : IsColdkeyOf(a, n)

(* Every token is accounted for, those of overwatch stake too: whoever     *)
(* removes a node, its stake stays and can be unbonded, rewards are minted *)
(* once, and the total is the sum it stands for.                           *)
OverwatchAccounted ==
  /\ InAccounts + InPools + InLedgers + InQueue + InNodes + SumFunction(DelegateAccountStake)
         + InWatchers
       = Supply + SumFunction(InitialStake) + Len(FirstWatchers) * OverwatchMinStakeBalance
         + minted - dropped - lost
  /\ TotalOverwatchNodeStakeBalance = InWatchers
  /\ WatchersSound

(* A weight that counts is what its node committed to for that subnet and  *)
(* overwatch epoch.                                                        *)
RevealsMatchCommits == \A k \in DOMAIN OverwatchReveals :
  /\ k \in DOMAIN OverwatchCommits /\ OverwatchCommits[k] = OverwatchReveals[k]
  /\ OverwatchReveals[k] <= Full

(* It was chosen before any other was seen: while an epoch takes commits   *)
(* none of its weights is revealed.  Hotkeys may change hands, nodes be    *)
(* removed and the network be paused between commit and reveal.  It holds  *)
(* while the collective changes neither the length of the epochs nor the   *)
(* cutoff (Multipliers and Cutoffs have one value each).                   *)
RevealsHonest ==
  /\ RevealsMatchCommits
  /\ in_overwatch_commit_period =>
       \A k \in DOMAIN OverwatchReveals : k[1] # get_current_overwatch_epoch

(* An overwatch epoch is paid for once, after its end and within its       *)
(* emission.                                                               *)
EpochsPaidOnce == \A e \in DOMAIN paid :
  /\ paid[e] <= OverwatchEpochEmissions
  /\ paid[e] > 0 => e < get_current_overwatch_epoch

(* A subnet gets a weight of at most 100 %, and of at most what was        *)
(* revealed for it in that epoch, taken together.  The highest revealed is *)
(* no bound: the sum of the stakes' powers is cut off at u128, and from    *)
(* then on the shares of stake add up to more than the whole.              *)
RevealedFor(e, s) == {r \in DOMAIN OverwatchReveals : r[1] = e /\ r[3] = s}
WeightsRevealed == \A k \in DOMAIN OverwatchSubnetWeights :
  /\ OverwatchSubnetWeights[k] <= Full
  /\ OverwatchSubnetWeights[k]
       <= SumFunctionOnSet(OverwatchReveals, RevealedFor(k[1], k[2]))

(* Both: scores and rewards round so that they never add up to more than   *)
(* the whole, also when nodes have left meanwhile and when the powers of   *)
(* the stakes do not fit a u128.                                           *)
OverwatchPaidOnce == EpochsPaidOnce /\ WeightsRevealed
================================================================================

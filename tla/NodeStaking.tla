------------------------------ MODULE NodeStaking ------------------------------
(***************************************************************************)
(* The stake of subnet nodes and the balances of delegate accounts         *)
(* (stake/node_staking.rs, stake/delegate_account.rs, the staking part of  *)
(* registration, rewards and slashing), composed with the validators that  *)
(* own the nodes and with delegate staking: all of them unbond through one *)
(* ledger and are paid from one emission.                                  *)
(*                                                                         *)
(* What makes a node present belongs to SubnetNodes, what it is found by   *)
(* to PeerRegistry; here it comes, goes, and may be gone while the stake   *)
(* is still there.                                                         *)
(***************************************************************************)
EXTENDS ValidatorKeys

CONSTANTS
  StakeCooldownEpochs, SubnetMinStakeBalance, SubnetMaxStakeBalance,
  BurnAmount,                    \* calculate_burn_amount
  BaseSlashPercentage, MaxSlashAmount,
  FirstOwner, FirstStake,        \* owner of node 1 of each subnet in Init, or 0
  MaxNodes,                      \* bound: nodes registered with a subnet
  StakeAmounts, NodeRewards, AttestationDeltas, EvmWords

NodeIds == 1 .. MaxNodes

ASSUME NodeAssumption ==
  /\ {StakeCooldownEpochs, SubnetMinStakeBalance, SubnetMaxStakeBalance, BurnAmount,
      BaseSlashPercentage, MaxSlashAmount} \subseteq Nat /\ MaxNodes \in Nat \ {0}
  /\ FirstOwner \in [Subnets -> First \cup {0}] /\ FirstStake \in Balance
  /\ StakeAmounts \subseteq Balance /\ NodeRewards \subseteq Balance
  /\ AttestationDeltas \subseteq 0 .. Full
  /\ EvmWords \subseteq Nat

VARIABLES
  NodeSubnetStake, TotalSubnetStake, TotalStake,
  SubnetNodeValidatorId,         \* owner of a node, 0 if there never was one; kept for good
  present,                       \* SubnetNodeReputation: the nodes that are there
  ValidatorSubnetNodes,          \* the nodes of a validator by subnet
  DelegateAccountStake, TotalAccountDelegateStake,
  lost                           \* history: amounts slashed and burnt

nodeVars == <<NodeSubnetStake, TotalSubnetStake, TotalStake, SubnetNodeValidatorId, present,
              ValidatorSubnetNodes, DelegateAccountStake, TotalAccountDelegateStake,
              lost>>
allVars == <<vars, keyVars, nodeVars>>

FirstNode(s, n) == n = 1 /\ FirstOwner[s] # 0
InitialStake == [s \in Subnets |-> IF FirstOwner[s] # 0 THEN FirstStake ELSE 0]

NodeInit ==
  /\ Init /\ KeysInit
  /\ NodeSubnetStake = [s \in Subnets |->
       [n \in NodeIds |-> IF FirstNode(s, n) THEN FirstStake ELSE 0]]
  /\ TotalSubnetStake = InitialStake /\ TotalStake = SumFunction(InitialStake)
  /\ SubnetNodeValidatorId = [s \in Subnets |->
       [n \in NodeIds |-> IF FirstNode(s, n) THEN FirstOwner[s] ELSE 0]]
  /\ present = [s \in Subnets |-> {n \in NodeIds : FirstNode(s, n)}]
  /\ ValidatorSubnetNodes = [v \in Validators |-> [s \in Subnets |->
       {n \in NodeIds : FirstNode(s, n) /\ FirstOwner[s] = v}]]
  /\ DelegateAccountStake = [a \in Accounts |-> 0] /\ TotalAccountDelegateStake = 0
  /\ lost = 0
--------------------------------------------------------------------------------
(***************************************************************************)
(* Node stake.                                                             *)
(***************************************************************************)
increase_node_stake(s, n, amount) ==
  /\ NodeSubnetStake' = [NodeSubnetStake EXCEPT ![s][n] = SatAdd(@, amount)]
  /\ TotalSubnetStake' = [TotalSubnetStake EXCEPT ![s] = SatAdd(@, amount)]
  /\ TotalStake' = SatAdd(TotalStake, amount)

(* Mutant: the total of the network is not reduced.                        *)
DecreaseKeepsTotal(s, n, amount) ==
  /\ NodeSubnetStake' = [NodeSubnetStake EXCEPT ![s][n] = SatSub(@, amount)]
  /\ TotalSubnetStake' = [TotalSubnetStake EXCEPT ![s] = SatSub(@, amount)]
  /\ UNCHANGED TotalStake

decrease_node_stake(s, n, amount) ==
  /\ NodeSubnetStake' = [NodeSubnetStake EXCEPT ![s][n] = SatSub(@, amount)]
  /\ TotalSubnetStake' = [TotalSubnetStake EXCEPT ![s] = SatSub(@, amount)]
  /\ TotalStake' = SatSub(TotalStake, amount)

WithinLimits(stake) == stake >= SubnetMinStakeBalance /\ stake <= SubnetMaxStakeBalance

NextNodeId(s) == Cardinality({n \in NodeIds : SubnetNodeValidatorId[s][n] # 0}) + 1

Owns(a, s, n) ==
  LET v == SubnetNodeValidatorId[s][n] IN v # 0 /\ ValidatorColdkey[v] = a

(* do_register_subnet_node: the burn, the stake and the owner.  What is    *)
(* asked for saturates; burn and withdrawal fail by themselves if short.   *)
register_subnet_node(a, v, s, stake) ==
  LET n == NextNodeId(s)
  IN  /\ Call /\ ~paused /\ n \in NodeIds
      /\ ensure_canonical_validator_coldkey(a, v)
      /\ s \in live
      /\ stake # 0 /\ WithinLimits(SatAdd(NodeSubnetStake[s][n], stake))
      /\ can_withdraw(a, SatAdd(BurnAmount, stake))
      /\ ~exceeds_tx_rate_limit(a)
      /\ can_withdraw(a, BurnAmount + stake) /\ withdraw(a, BurnAmount + stake)
      /\ SubnetNodeValidatorId' = [SubnetNodeValidatorId EXCEPT ![s][n] = v]
      /\ increase_node_stake(s, n, stake)
      /\ present' = [present EXCEPT ![s] = @ \cup {n}]
      /\ ValidatorSubnetNodes' = [ValidatorSubnetNodes EXCEPT ![v][s] = @ \cup {n}]
      /\ lastTx' = [lastTx EXCEPT ![a] = block]
      /\ lost' = lost + BurnAmount
      /\ UNCHANGED <<poolVars, queueVars, bondVars, timeVars, histVars, paused, live, keyVars,
                     DelegateAccountStake, TotalAccountDelegateStake>>

(* The stake of a node that is gone can be added to as well.               *)
add_node_stake(a, s, n, amount) ==
  /\ Call /\ ~paused /\ s \in live /\ Owns(a, s, n)
  /\ amount # 0 /\ WithinLimits(SatAdd(NodeSubnetStake[s][n], amount))
  /\ can_withdraw(a, amount) /\ ~exceeds_tx_rate_limit(a)
  /\ withdraw(a, amount)
  /\ increase_node_stake(s, n, amount)
  /\ lastTx' = [lastTx EXCEPT ![a] = block]
  /\ UNCHANGED <<poolVars, queueVars, bondVars, timeVars, histVars, paused, live, keyVars,
                 SubnetNodeValidatorId, present, ValidatorSubnetNodes, DelegateAccountStake,
                 TotalAccountDelegateStake, lost>>

(* Mutant: the subnets that exist are dropped.                             *)
CleanDropsLive(v) ==
  [ValidatorSubnetNodes EXCEPT ![v] = [s \in Subnets |-> IF s \in live THEN {} ELSE @[s]]]

clean_validator_subnet_nodes(v) ==
  [ValidatorSubnetNodes EXCEPT ![v] = [s \in Subnets |-> IF s \in live THEN @[s] ELSE {}]]

StakeClaim == block + StakeCooldownEpochs * EpochLength

(* A node that is there keeps the minimum; the stake of one that is gone   *)
(* can be taken out, also when its subnet is gone.                         *)
remove_node_stake(a, s, n, amount) ==
  /\ Call /\ ~paused /\ Owns(a, s, n)
  /\ amount > 0 /\ NodeSubnetStake[s][n] >= amount
  /\ n \in present[s] => NodeSubnetStake[s][n] - amount >= SubnetMinStakeBalance
  /\ ~exceeds_tx_rate_limit(a)
  /\ Unbond(a, StakeClaim, amount)
  /\ ValidatorSubnetNodes' =
       IF n \notin present[s] /\ amount >= NodeSubnetStake[s][n]
       THEN clean_validator_subnet_nodes(SubnetNodeValidatorId[s][n])
       ELSE ValidatorSubnetNodes
  /\ decrease_node_stake(s, n, amount)
  /\ lastTx' = [lastTx EXCEPT ![a] = block]
  /\ UNCHANGED <<poolVars, queueVars, timeVars, histVars, paused, live, keyVars,
                 SubnetNodeValidatorId, present, DelegateAccountStake,
                 TotalAccountDelegateStake, lost>>
--------------------------------------------------------------------------------
(***************************************************************************)
(* Delegate accounts.                                                      *)
(***************************************************************************)
decrease_delegate_account_balance(a, amount) ==
  /\ DelegateAccountStake' = [DelegateAccountStake EXCEPT ![a] = SatSub(@, amount)]
  /\ TotalAccountDelegateStake' = SatSub(TotalAccountDelegateStake, amount)

remove_delegate_account_balance(a, amount) ==
  /\ Call /\ ~paused
  /\ amount > 0 /\ DelegateAccountStake[a] >= amount
  /\ Unbond(a, StakeClaim, amount)
  /\ decrease_delegate_account_balance(a, amount)
  /\ UNCHANGED <<poolVars, queueVars, timeVars, histVars, paused, live, lastTx, keyVars,
                 NodeSubnetStake, TotalSubnetStake, TotalStake, SubnetNodeValidatorId, present,
                 ValidatorSubnetNodes, lost>>
--------------------------------------------------------------------------------
(***************************************************************************)
(* Removals: a node leaves by its owner's call, by its reputation or by a  *)
(* vote; a subnet takes its nodes with it but not their stake, and leaves  *)
(* ValidatorSubnetNodes alone.                                             *)
(***************************************************************************)
(* Mutant: the validator's nodes still name the one that is gone.          *)
NodeLeavesMap(s, n) ==
  /\ Call /\ n \in present[s]
  /\ present' = [present EXCEPT ![s] = @ \ {n}]
  /\ UNCHANGED <<poolVars, queueVars, bondVars, timeVars, histVars, paused, live, free, lastTx,
                 keyVars, NodeSubnetStake, TotalSubnetStake, TotalStake, SubnetNodeValidatorId,
                 ValidatorSubnetNodes, DelegateAccountStake, TotalAccountDelegateStake, lost>>

perform_remove_subnet_node(s, n) ==
  /\ Call /\ n \in present[s]
  /\ present' = [present EXCEPT ![s] = @ \ {n}]
  /\ ValidatorSubnetNodes' =
       [ValidatorSubnetNodes EXCEPT ![SubnetNodeValidatorId[s][n]][s] = @ \ {n}]
  /\ UNCHANGED <<poolVars, queueVars, bondVars, timeVars, histVars, paused, live, free, lastTx,
                 keyVars, NodeSubnetStake, TotalSubnetStake, TotalStake, SubnetNodeValidatorId,
                 DelegateAccountStake, TotalAccountDelegateStake, lost>>

remove_subnet(s) ==
  /\ do_remove_subnet(s)
  /\ present' = [present EXCEPT ![s] = {}]
  /\ UNCHANGED <<keyVars, NodeSubnetStake, TotalSubnetStake, TotalStake, SubnetNodeValidatorId,
                 ValidatorSubnetNodes, DelegateAccountStake, TotalAccountDelegateStake, lost>>
--------------------------------------------------------------------------------
(***************************************************************************)
(* The emission step of a subnet: a node is rewarded, or the validator of  *)
(* a submission without consensus slashed; it may have left meanwhile.     *)
(***************************************************************************)
percent_mul(x, rate) == MulDiv(x, rate, Full)

(* The delegators of the validator come first, if there are any, then its  *)
(* delegate account; the node keeps the rest.                              *)
RewardNode(s, n, reward) ==
  LET v == SubnetNodeValidatorId[s][n]
      data == ValidatorsData[v]
      delegated == data.delegate_reward_rate # 0 /\ pool[v].shares # 0
      toPool == IF delegated THEN percent_mul(reward, data.delegate_reward_rate) ELSE 0
      to == data.delegate_account.account
      toAccount == IF to # NoKey
                   THEN percent_mul(SatSub(reward, toPool), data.delegate_account.rate) ELSE 0
      toNode == SatSub(SatSub(reward, toPool), toAccount)
  IN  /\ pool' = IF delegated THEN [pool EXCEPT ![v] = do_increase_delegate_stake(@, toPool)]
                 ELSE pool
      /\ total' = [total EXCEPT !["validator"] = SatAdd(@, toPool)]
      /\ DelegateAccountStake' =
           IF to # NoKey THEN [DelegateAccountStake EXCEPT ![to] = SatAdd(@, toAccount)]
           ELSE DelegateAccountStake
      /\ TotalAccountDelegateStake' = SatAdd(TotalAccountDelegateStake, toAccount)
      /\ increase_node_stake(s, n, toNode)
      /\ minted' = minted + toPool + toAccount + toNode
      /\ UNCHANGED lost

handle_validator_reward(s, n, reward) ==
  /\ increase_node_stake(s, n, reward)
  /\ minted' = minted + reward
  /\ UNCHANGED <<pool, total, DelegateAccountStake, TotalAccountDelegateStake, lost>>

get_slash_amount(stake, delta) ==
  LET amount == percent_mul(percent_mul(stake, BaseSlashPercentage), delta)
  IN  IF amount > MaxSlashAmount THEN MaxSlashAmount ELSE amount

(* The setter of BaseSlashPercentage checks nothing: above 100 % a slash   *)
(* may exceed the stake, and then the totals lose more than the node has.  *)
(* The removal of a node whose reputation falls below the minimum, which   *)
(* ends the code's function, is perform_remove_subnet_node, at any time.   *)
slash_validator(s, n, delta) ==
  LET stake == NodeSubnetStake[s][n]
      amount == get_slash_amount(stake, delta)
  IN  /\ decrease_node_stake(s, n, amount)
      /\ lost' = lost + (IF amount > stake THEN stake ELSE amount)
      /\ UNCHANGED <<pool, total, minted, DelegateAccountStake, TotalAccountDelegateStake>>

EmissionBlock ==
  /\ phase = "calls" /\ ~paused /\ block < MaxBlock
  /\ block' = block + 1
  /\ TakeNetFlows(block')
  /\ SlotOf(block') >= DesignatedEpochSlots
  /\ \E s \in Subnets \cap live : \E n \in NodeIds :
       /\ SubnetNodeValidatorId[s][n] # 0
       /\ \/ \E r \in NodeRewards : RewardNode(s, n, r) \/ handle_validator_reward(s, n, r)
          \/ \E d \in AttestationDeltas : slash_validator(s, n, d)
  /\ phase' = "swaps" /\ left' = MaxSwapQueueCallsPerBlock
  /\ UNCHANGED <<shares, queueVars, bondVars, dropped, short, npauses, paused, live, free,
                 lastTx, ncalls, keyVars, SubnetNodeValidatorId, present,
                 ValidatorSubnetNodes>>
--------------------------------------------------------------------------------
(***************************************************************************)
(* The precompiles for staking and for validators: the caller signs;       *)
(* amounts of stake saturate, rates must fit u128.                         *)
(***************************************************************************)
unique_saturated_into(word) == IF word > MaxBalance THEN MaxBalance ELSE word
EvmAmounts == {unique_saturated_into(word) : word \in EvmWords}

OnlyDelegates == UNCHANGED <<keyVars, nodeVars>>

EvmStakingCalls1(a) ==
  \/ \E s \in Subnets, n \in NodeIds, x \in EvmAmounts :
       add_node_stake(a, s, n, x) \/ remove_node_stake(a, s, n, x)
  \/ claim_unbondings(a) /\ OnlyDelegates
  \/ \E s \in Subnets, x \in EvmAmounts : add_delegate_stake(a, s, x) /\ OnlyDelegates

EvmStakingCalls2(a) ==
  \E s \in Subnets, x \in EvmAmounts :
    /\ \/ \E t \in Subnets : swap_from_subnet_to_subnet(a, s, t, x)
       \/ \E to \in Accounts : transfer_delegate_stake(a, to, s, x)
       \/ remove_delegate_stake(a, s, x)
       \/ donate_delegate_stake(a, s, x)
    /\ OnlyDelegates

EvmStakingCalls3(a) ==
  \E v \in Validators, x \in EvmAmounts :
    /\ \/ add_validator_delegate_stake(a, v, x)
       \/ \E w \in Validators : swap_from_validator_to_validator(a, v, w, x)
       \/ \E to \in Accounts : transfer_validator_delegate_stake(a, to, v, x)
       \/ remove_validator_delegate_stake(a, v, x)
       \/ donate_validator_delegate_stake(a, v, x)
    /\ OnlyDelegates

EvmStakingCalls4(a) ==
  \/ \E v \in Validators, s \in Subnets, x \in EvmAmounts :
       /\ swap_from_validator_to_subnet(a, v, s, x) \/ swap_from_subnet_to_validator(a, s, v, x)
       /\ OnlyDelegates
  \/ \E id \in DOMAIN calls, to \in Pools : update_swap_queue(a, id, to) /\ OnlyDelegates
  \/ \E x \in EvmAmounts : remove_delegate_account_balance(a, x)

try_u256_to_u128(words) == {word \in words : word <= MaxBalance}

EvmKeyCalls1(a) ==
  \E h \in Accounts, rate \in try_u256_to_u128(RegisterRates) :
    \/ register_validator(a, h, rate, NoDelegate)
    \/ \E d \in Accounts, r \in try_u256_to_u128(DelegateRates) :
         register_validator(a, h, rate, [account |-> d, rate |-> r])

EvmKeyCalls2(a) ==
  \E v \in Validators :
    \/ \E k \in Accounts : update_validator_coldkey(a, v, k) \/ update_validator_hotkey(a, v, k)
    \/ \E d \in Accounts \cup {NoKey}, r \in try_u256_to_u128(DelegateRates) \cup {Keep} :
         update_validator_delegate_account(a, v, d, r)
--------------------------------------------------------------------------------
NodeCalls == \E a \in Accounts :
  \/ \E s \in Subnets, x \in StakeAmounts :
       \/ \E v \in Validators : register_subnet_node(a, v, s, x)
       \/ \E n \in NodeIds : add_node_stake(a, s, n, x) \/ remove_node_stake(a, s, n, x)
  \/ \E x \in StakeAmounts : remove_delegate_account_balance(a, x)

Removals == \E s \in Subnets :
  remove_subnet(s) \/ \E n \in NodeIds : perform_remove_subnet_node(s, n)

EvmCalls == \E a \in Accounts :
  EvmStakingCalls1(a) \/ EvmStakingCalls2(a) \/ EvmStakingCalls3(a) \/ EvmStakingCalls4(a)

Hooks ==
  \/ EmissionBlock
  \/ Hook /\ OnlyDelegates

NodeNext ==
  \/ NodeCalls \/ Removals \/ EvmCalls \/ Hooks
  \/ KeyCalls /\ UNCHANGED nodeVars
  \/ (\E a \in Accounts : EvmKeyCalls1(a) \/ EvmKeyCalls2(a)) /\ UNCHANGED nodeVars

NodeSpec == NodeInit /\ [][NodeNext]_allVars
--------------------------------------------------------------------------------
(***************************************************************************)
(* Properties.                                                             *)
(***************************************************************************)
StakeOf(s) == SumFunction(NodeSubnetStake[s])
InNodes == SumFunction([s \in Subnets |-> StakeOf(s)])

(* Every token is accounted for across the components: what accounts,      *)
(* pools, ledgers, queued swaps, nodes and delegate accounts hold is the   *)
(* supply and what emissions paid, less what was slashed, burnt or dropped *)
(* by a swap.  The total of the delegate accounts is their sum, and no     *)
(* total of node stake is above the sum it stands for; it is that sum      *)
(* where a slash takes at most 100 %, which nothing but the choice of the  *)
(* collective ensures (do_set_base_slash_percentage).  No order of         *)
(* registrations, withdrawals, slashes, rewards to nodes that have left    *)
(* and removals of subnets breaks that.                                    *)
StakesAccounted ==
  /\ InAccounts + InPools + InLedgers + InQueue + InNodes + SumFunction(DelegateAccountStake)
       = Supply + SumFunction(InitialStake) + minted - dropped - lost
  /\ \A s \in Subnets : TotalSubnetStake[s] <= StakeOf(s)
  /\ TotalStake <= InNodes
  /\ BaseSlashPercentage <= Full =>
       (\A s \in Subnets : TotalSubnetStake[s] = StakeOf(s)) /\ TotalStake = InNodes
  /\ TotalAccountDelegateStake = SumFunction(DelegateAccountStake)

(* Stake can always be taken out again: whoever removed the node or the    *)
(* subnet, the stake of a node leads over its validator to the coldkey     *)
(* that may withdraw it; and the nodes a validator is known by in a subnet *)
(* that exists are those it has there.                                     *)
StakeReachable ==
  /\ \A s \in Subnets : \A n \in NodeIds :
       NodeSubnetStake[s][n] > 0 => \E a \in Accounts : Owns(a, s, n)
  /\ \A v \in Validators : \A s \in Subnets \cap live :
       ValidatorSubnetNodes[v][s] = {n \in present[s] : SubnetNodeValidatorId[s][n] = v}
================================================================================

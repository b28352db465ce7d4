---------------------------- MODULE OverwatchProofs -----------------------------
(***************************************************************************)
(* Proofs about Overwatch, for any number of accounts, validators,         *)
(* overwatch nodes, epochs and calls: the nodes are counted, staked and    *)
(* owned, what they reveal is what they committed to before, every token   *)
(* is accounted for, and an epoch is paid for once and within its emission.*)
(***************************************************************************)
EXTENDS Overwatch, NodeStakingProofs

USE DEF Balance
--------------------------------------------------------------------------------
(***************************************************************************)
(* Which steps reach what.                                                 *)
(***************************************************************************)
(* Calls of overwatch nodes and of the collective leave the keys, and      *)
(* whether a validator exists, alone.                                      *)
LEMMA WatchCallsKeep ==
  ASSUME \/ OverwatchCalls \/ CollectiveCalls \/ BlockHook
         \/ \E a \in Accounts : EvmOverwatchCalls1(a) \/ EvmOverwatchCalls2(a)
  PROVE  UNCHANGED <<keyVars, live>>
<1>1. ASSUME NEW a, NEW x, register_overwatch_node(a, x)
      PROVE  UNCHANGED <<keyVars, live>>
  BY <1>1 DEF register_overwatch_node
<1>2. ASSUME NEW a, NEW n, NEW x, add_overwatch_node_stake(a, n, x)
                                  \/ remove_overwatch_node_stake(a, n, x)
      PROVE  UNCHANGED <<keyVars, live>>
  BY <1>2 DEF add_overwatch_node_stake, remove_overwatch_node_stake
<1>3. OnlyWatchers => UNCHANGED <<keyVars, live>>
  BY DEF OnlyWatchers
<1>4. ASSUME NEW a, NEW n, NEW h, NEW f,
             \/ remove_overwatch_node(a, n) \/ update_overwatch_hotkey(a, n, h)
             \/ commit_overwatch_subnet_weights(a, n, f)
             \/ reveal_overwatch_subnet_weights(a, n, f)
      PROVE  UNCHANGED <<keyVars, live>>
  BY <1>3, <1>4 DEF remove_overwatch_node, update_overwatch_hotkey,
     commit_overwatch_subnet_weights, reveal_overwatch_subnet_weights, Reveals
<1>5. CASE CollectiveCalls
  BY <1>3, <1>5 DEF CollectiveCalls, do_collective_remove_overwatch_node,
     do_set_overwatch_validator_whitelist, do_set_overwatch_epoch_length_multiplier,
     do_set_overwatch_commit_cutoff_percent
<1>6. CASE BlockHook
  BY <1>6 DEF BlockHook, OverwatchBlock, OtherBlock, NewBlock, NewBlockWhilePaused, HookDone
<1>7. CASE OverwatchCalls
  BY <1>1, <1>2, <1>4, <1>7 DEF OverwatchCalls
<1>8. CASE \E a \in Accounts : EvmOverwatchCalls1(a) \/ EvmOverwatchCalls2(a)
  BY <1>1, <1>2, <1>4, <1>8 DEF EvmOverwatchCalls1, EvmOverwatchCalls2
<1> QED BY <1>5, <1>6, <1>7, <1>8

(* What happens meanwhile leaves the overwatch nodes and the time alone.   *)
LEMMA MeanwhileKeeps ==
  ASSUME Meanwhile
  PROVE  UNCHANGED <<watchVars, block>> /\ SameValidators
<1>1. ASSUME NEW a, NEW v, NEW k, update_validator_coldkey(a, v, k)
                                  \/ update_validator_hotkey(a, v, k)
      PROVE  UNCHANGED <<block, live>>
  BY <1>1 DEF update_validator_coldkey, update_validator_hotkey, KeyCall, timeVars
<1>2. ASSUME Removals
      PROVE  UNCHANGED block /\ SameValidators
  <2>1. UNCHANGED block
    BY <1>2 DEF Removals, remove_subnet, do_remove_subnet, perform_remove_subnet_node, timeVars
  <2> QED BY <1>2, <2>1, OthersKeepKeys
<1>3. ASSUME NEW a, claim_unbondings(a)
      PROVE  UNCHANGED <<block, live>>
  BY <1>3 DEF claim_unbondings, timeVars
<1>4. ASSUME do_pause \/ do_unpause
      PROVE  UNCHANGED <<block, live>>
  BY <1>4 DEF do_pause, do_unpause, timeVars
<1> QED BY <1>1, <1>2, <1>3, <1>4 DEF Meanwhile, SameValidators

(* No validator comes or goes.                                             *)
LEMMA StepValidators == [OverwatchNext]_systemVars => SameValidators
<1> SUFFICES ASSUME [OverwatchNext]_systemVars PROVE SameValidators
  OBVIOUS
<1>1. CASE Meanwhile
  BY <1>1, MeanwhileKeeps
<1>2. CASE UNCHANGED systemVars
  BY <1>2 DEF systemVars, allVars, vars, SameValidators
<1>3. CASE \/ OverwatchCalls \/ CollectiveCalls \/ BlockHook
           \/ \E a \in Accounts : EvmOverwatchCalls1(a) \/ EvmOverwatchCalls2(a)
  BY <1>3, WatchCallsKeep DEF SameValidators
<1> QED BY <1>1, <1>2, <1>3 DEF OverwatchNext

(* The keys agree here as well.                                            *)
LEMMA StepWatchKeys == KeyInv /\ [OverwatchNext]_systemVars => KeyInv'
<1> SUFFICES ASSUME KeyInv, [OverwatchNext]_systemVars PROVE KeyInv'
  OBVIOUS
<1>1. ASSUME UNCHANGED keyVars PROVE KeyInv'
  BY <1>1, StepValidators, KeyFrame DEF SameValidators
<1>2. CASE Meanwhile
  <2>1. Removals => UNCHANGED keyVars
    BY OthersKeepKeys
  <2> QED BY <1>1, <1>2, <2>1, ColdkeyKeys, HotkeyKeys DEF Meanwhile
<1>3. CASE UNCHANGED systemVars
  BY <1>1, <1>3 DEF systemVars, allVars
<1>4. CASE \/ OverwatchCalls \/ CollectiveCalls \/ BlockHook
           \/ \E a \in Accounts : EvmOverwatchCalls1(a) \/ EvmOverwatchCalls2(a)
  BY <1>1, <1>4, WatchCallsKeep
<1> QED BY <1>2, <1>3, <1>4 DEF OverwatchNext
--------------------------------------------------------------------------------
(***************************************************************************)
(* The nodes.                                                              *)
(***************************************************************************)
WatchTypes ==
  /\ OverwatchNodes \subseteq WatcherIds
  /\ OverwatchNodeValidatorId \in [WatcherIds -> Validators \cup {0}]
  /\ OverwatchNodeStakeBalance \in [WatcherIds -> Balance]

(* A uid that was given has a validator; one that was not has no stake.    *)
WatchersOwned == \A n \in WatcherIds :
  IF OverwatchNodeValidatorId[n] = 0
  THEN OverwatchNodeStakeBalance[n] = 0 /\ n \notin OverwatchNodes
  ELSE OverwatchNodeValidatorId[n] \in live

(* Uids are given in turn.                                                 *)
GivenUpto(k) == \A n \in WatcherIds : OverwatchNodeValidatorId[n] # 0 <=> n <= k
GivenInTurn == \E k \in 0 .. MaxWatchers : GivenUpto(k)

NodesCounted ==
  /\ TotalOverwatchNodes = Cardinality(OverwatchNodes)
  /\ TotalOverwatchNodes <= MaxOverwatchNodes

StakedEnough == \A n \in OverwatchNodes : OverwatchNodeStakeBalance[n] >= OverwatchMinStakeBalance

WatchInv == WatchTypes /\ WatchersOwned /\ GivenInTurn /\ NodesCounted /\ StakedEnough

(* There are finitely many uids.                                           *)
LEMMA FiniteWatchers == IsFiniteSet(WatcherIds)
<1>1. 1 \in Int /\ MaxWatchers \in Int
  BY OverwatchAssumption
<1> QED BY <1>1, FS_Interval DEF WatcherIds

(* There are finitely many overwatch nodes.                                *)
LEMMA WatchersFinite ==
  ASSUME WatchTypes
  PROVE  IsFiniteSet(OverwatchNodes) /\ Cardinality(OverwatchNodes) \in Nat
BY FiniteWatchers, FS_Subset, FS_CardinalityType DEF WatchTypes

(* Steps that leave the nodes and their stake alone.                       *)
LEMMA WatchFrame ==
  ASSUME WatchInv, SameValidators, UNCHANGED <<nodesVars, OverwatchNodeStakeBalance>>
  PROVE  WatchInv'
<1>1. WatchTypes' /\ GivenInTurn' /\ NodesCounted' /\ StakedEnough'
  BY DEF WatchInv, WatchTypes, GivenInTurn, GivenUpto, NodesCounted, StakedEnough, nodesVars
<1>2. WatchersOwned'
  BY DEF WatchInv, WatchTypes, WatchersOwned, SameValidators, nodesVars
<1> QED BY <1>1, <1>2 DEF WatchInv

(* The stake of nodes that were given becomes f.                           *)
LEMMA WatchStakes ==
  ASSUME WatchInv, SameValidators, UNCHANGED nodesVars,
         NEW f \in [WatcherIds -> Balance], OverwatchNodeStakeBalance' = f,
         \A n \in WatcherIds :
           /\ OverwatchNodeValidatorId[n] = 0 => f[n] = OverwatchNodeStakeBalance[n]
           /\ n \in OverwatchNodes => f[n] >= OverwatchMinStakeBalance
  PROVE  WatchInv'
<1>1. WatchTypes' /\ GivenInTurn' /\ NodesCounted'
  BY DEF WatchInv, WatchTypes, GivenInTurn, GivenUpto, NodesCounted, nodesVars
<1>2. WatchersOwned'
  BY DEF WatchInv, WatchTypes, WatchersOwned, SameValidators, nodesVars
<1>3. StakedEnough'
  <2>1. OverwatchNodes' = OverwatchNodes /\ OverwatchNodes \subseteq WatcherIds
    BY DEF WatchInv, WatchTypes, nodesVars
  <2>2. \A n \in OverwatchNodes : f[n] >= OverwatchMinStakeBalance
    BY <2>1
  <2> QED BY <2>1, <2>2 DEF StakedEnough
<1> QED BY <1>1, <1>2, <1>3 DEF WatchInv

(* Adding to a stake does not lower it.                                    *)
LEMMA SatAddGrows ==
  ASSUME NEW x \in Balance, NEW y \in Balance
  PROVE  SatAdd(x, y) >= x
  BY MaxBalanceAssumption DEF SatAdd

(* A new node has the next uid and at least the minimum stake.             *)
LEMMA RegisterWatcher ==
  ASSUME KeyInv, WatchInv, SameValidators, NEW a \in Accounts, NEW x,
         register_overwatch_node(a, x)
  PROVE  WatchInv'
<1>1. PICK k \in 0 .. MaxWatchers : GivenUpto(k)
  BY DEF WatchInv, GivenInTurn
<1>2. {n \in WatcherIds : OverwatchNodeValidatorId[n] # 0} = 1 .. k
  BY <1>1, OverwatchAssumption DEF GivenUpto, WatcherIds
<1>3. Cardinality(1 .. k) = k
  <2>1. Cardinality(1 .. k) = IF 1 > k THEN 0 ELSE k - 1 + 1
    BY OverwatchAssumption, FS_Interval
  <2> QED BY <2>1, OverwatchAssumption
<1>4. PICK n \in WatcherIds : n = k + 1 /\ n = NextWatcherId
  BY <1>2, <1>3 DEF register_overwatch_node, NextWatcherId
<1>5. PICK v : v = ColdkeyValidatorId[a]
  OBVIOUS
<1>6. PICK y \in Balance : y = SatAdd(OverwatchNodeStakeBalance[n], x)
  BY SatAddBalance
<1>7. /\ v # 0 /\ ValidatorColdkey[v] = a /\ live' = live
      /\ TotalOverwatchNodes < MaxOverwatchNodes
      /\ OverwatchNodeValidatorId' = [OverwatchNodeValidatorId EXCEPT ![n] = v]
      /\ OverwatchNodes' = OverwatchNodes \cup {n}
      /\ TotalOverwatchNodes' = TotalOverwatchNodes + 1
  BY <1>4, <1>5 DEF register_overwatch_node, ensure_canonical_validator_coldkey
<1>8. /\ y >= OverwatchMinStakeBalance
      /\ OverwatchNodeStakeBalance' = [OverwatchNodeStakeBalance EXCEPT ![n] = y]
  BY <1>4, <1>6 DEF register_overwatch_node, EnoughWith, increase_overwatch_node_stake
<1>9. v \in Validators /\ v \in live
  <2>1. v \in Validators
    BY <1>5, <1>7 DEF KeyInv, KeyTypes
  <2>2. a # NoKey
    BY KeysAssumption
  <2> QED BY <1>7, <2>1, <2>2 DEF KeyInv, KeysAgree
<1>10. OverwatchNodeValidatorId[n] = 0 /\ n \notin OverwatchNodes
  <2>1. OverwatchNodeValidatorId[n] = 0
    BY <1>1, <1>4, OverwatchAssumption DEF GivenUpto
  <2> QED BY <2>1 DEF WatchInv, WatchersOwned
<1>11. ASSUME NEW m \in WatcherIds
       PROVE  /\ OverwatchNodeValidatorId'[m] = IF m = n THEN v ELSE OverwatchNodeValidatorId[m]
              /\ OverwatchNodeStakeBalance'[m] = IF m = n THEN y ELSE OverwatchNodeStakeBalance[m]
  BY <1>7, <1>8 DEF WatchInv, WatchTypes
<1>12. WatchTypes'
  <2>1. OverwatchNodeValidatorId' \in [WatcherIds -> Validators \cup {0}]
    BY <1>7, <1>9 DEF WatchInv, WatchTypes
  <2>2. OverwatchNodeStakeBalance' \in [WatcherIds -> Balance]
    BY <1>8 DEF WatchInv, WatchTypes
  <2> QED BY <1>7, <2>1, <2>2 DEF WatchInv, WatchTypes
<1>13. WatchersOwned'
  <2> SUFFICES ASSUME NEW m \in WatcherIds
               PROVE  IF OverwatchNodeValidatorId'[m] = 0
                      THEN OverwatchNodeStakeBalance'[m] = 0 /\ m \notin OverwatchNodes'
                      ELSE OverwatchNodeValidatorId'[m] \in live'
    BY DEF WatchersOwned
  <2>1. IF OverwatchNodeValidatorId[m] = 0
        THEN OverwatchNodeStakeBalance[m] = 0 /\ m \notin OverwatchNodes
        ELSE OverwatchNodeValidatorId[m] \in live
    BY DEF WatchInv, WatchersOwned
  <2>2. CASE m = n
    BY <1>7, <1>9, <1>11, <2>2
  <2>3. CASE m # n
    BY <1>7, <1>11, <2>1, <2>3
  <2> QED BY <2>2, <2>3
<1>14. GivenInTurn'
  <2>1. k + 1 \in 0 .. MaxWatchers
    BY <1>4, OverwatchAssumption DEF WatcherIds
  <2>2. ASSUME NEW m \in WatcherIds
        PROVE  OverwatchNodeValidatorId'[m] # 0 <=> m <= k + 1
    <3>1. OverwatchNodeValidatorId[m] # 0 <=> m <= k
      BY <1>1 DEF GivenUpto
    <3>2. CASE m = n
      BY <1>4, <1>7, <1>11, <3>2 DEF WatcherIds
    <3>3. CASE m # n
      <4>1. m <= k + 1 <=> m <= k
        BY <1>4, <3>3, OverwatchAssumption DEF WatcherIds
      <4> QED BY <1>11, <3>1, <3>3, <4>1
    <3> QED BY <3>2, <3>3
  <2> QED BY <2>1, <2>2 DEF GivenInTurn, GivenUpto
<1>15. NodesCounted'
  <2>1. IsFiniteSet(OverwatchNodes) /\ Cardinality(OverwatchNodes) \in Nat
    BY WatchersFinite DEF WatchInv
  <2>2. Cardinality(OverwatchNodes') = Cardinality(OverwatchNodes) + 1
    BY <1>7, <1>10, <2>1, FS_AddElement
  <2>3. TotalOverwatchNodes = Cardinality(OverwatchNodes)
    BY DEF WatchInv, NodesCounted
  <2>4. MaxOverwatchNodes \in Nat
    BY OverwatchAssumption, MaxBalanceAssumption
  <2> QED BY <1>7, <2>1, <2>2, <2>3, <2>4 DEF NodesCounted
<1>16. StakedEnough'
  <2> SUFFICES ASSUME NEW m \in OverwatchNodes'
               PROVE  OverwatchNodeStakeBalance'[m] >= OverwatchMinStakeBalance
    BY DEF StakedEnough
  <2>1. m \in WatcherIds
    BY <1>12 DEF WatchTypes
  <2>2. CASE m = n
    BY <1>8, <1>11, <2>1, <2>2
  <2>3. CASE m # n
    BY <1>7, <1>11, <2>1, <2>3 DEF WatchInv, StakedEnough
  <2> QED BY <2>2, <2>3
<1> QED BY <1>12, <1>13, <1>14, <1>15, <1>16 DEF WatchInv

(* A coldkey adds to the stake of its node or takes from it.               *)
LEMMA WatcherStake ==
  ASSUME WatchInv, SameValidators, NEW a, NEW n \in WatcherIds, NEW x,
         add_overwatch_node_stake(a, n, x) \/ remove_overwatch_node_stake(a, n, x)
  PROVE  WatchInv'
<1>1. PICK y \in Balance :
        /\ OverwatchNodeStakeBalance' = [OverwatchNodeStakeBalance EXCEPT ![n] = y]
        /\ n \in OverwatchNodes => y >= OverwatchMinStakeBalance
  <2>1. CASE add_overwatch_node_stake(a, n, x)
    BY <2>1, SatAddBalance DEF add_overwatch_node_stake, EnoughWith,
       increase_overwatch_node_stake
  <2>2. CASE remove_overwatch_node_stake(a, n, x)
    BY <2>2, SatSubBalance DEF remove_overwatch_node_stake, decrease_overwatch_node_stake
  <2> QED BY <2>1, <2>2
<1>2. OverwatchNodeValidatorId[n] # 0 /\ UNCHANGED nodesVars
  BY DEF add_overwatch_node_stake, remove_overwatch_node_stake, IsColdkeyOf
<1>3. PICK f : f = [OverwatchNodeStakeBalance EXCEPT ![n] = y]
  OBVIOUS
<1>4. f \in [WatcherIds -> Balance]
  BY <1>3 DEF WatchInv, WatchTypes
<1>5. ASSUME NEW m \in WatcherIds
      PROVE  /\ OverwatchNodeValidatorId[m] = 0 => f[m] = OverwatchNodeStakeBalance[m]
             /\ m \in OverwatchNodes => f[m] >= OverwatchMinStakeBalance
  <2>1. f[m] = IF m = n THEN y ELSE OverwatchNodeStakeBalance[m]
    BY <1>3 DEF WatchInv, WatchTypes
  <2>2. m \in OverwatchNodes => OverwatchNodeStakeBalance[m] >= OverwatchMinStakeBalance
    BY DEF WatchInv, StakedEnough
  <2>3. CASE m = n
    BY <1>1, <1>2, <2>1, <2>3
  <2>4. CASE m # n
    BY <2>1, <2>2, <2>4
  <2> QED BY <2>3, <2>4
<1> QED BY <1>1, <1>2, <1>3, <1>4, <1>5, WatchStakes

(* A node leaves, by its owner's call or the collective's; its stake and   *)
(* its validator stay.                                                     *)
LEMMA WatcherLeaves ==
  ASSUME WatchInv, SameValidators, NEW n, perform_remove_overwatch_node(n),
         UNCHANGED <<OverwatchNodeStakeBalance, OverwatchNodeValidatorId>>
  PROVE  WatchInv'
<1>1. CASE n \notin OverwatchNodes
  <2>1. UNCHANGED nodesVars
    BY <1>1 DEF perform_remove_overwatch_node, nodesVars
  <2> QED BY <2>1, WatchFrame
<1>2. CASE n \in OverwatchNodes
  <2>1. /\ OverwatchNodes' = OverwatchNodes \ {n}
        /\ TotalOverwatchNodes' = SatSub(TotalOverwatchNodes, 1)
    BY <1>2 DEF perform_remove_overwatch_node
  <2>2. WatchTypes' /\ GivenInTurn'
    BY <2>1 DEF WatchInv, WatchTypes, GivenInTurn, GivenUpto
  <2>3. WatchersOwned'
    BY <2>1 DEF WatchInv, WatchTypes, WatchersOwned, SameValidators
  <2>4. NodesCounted'
    <3>1. IsFiniteSet(OverwatchNodes) /\ Cardinality(OverwatchNodes) \in Nat
      BY WatchersFinite DEF WatchInv
    <3>2. /\ Cardinality(OverwatchNodes') = Cardinality(OverwatchNodes) - 1
          /\ Cardinality(OverwatchNodes') \in Nat
      BY <1>2, <2>1, <3>1, FS_RemoveElement, FS_CardinalityType
    <3>3. /\ TotalOverwatchNodes = Cardinality(OverwatchNodes)
          /\ TotalOverwatchNodes <= MaxOverwatchNodes
      BY DEF WatchInv, NodesCounted
    <3>4. MaxOverwatchNodes \in Nat /\ MaxOverwatchNodes <= MaxBalance /\ MaxBalance \in Nat
      BY OverwatchAssumption, MaxBalanceAssumption
    <3>5. TotalOverwatchNodes' = TotalOverwatchNodes - 1
      BY <2>1, <3>1, <3>2, <3>3, <3>4 DEF SatSub
    <3> QED BY <3>1, <3>2, <3>3, <3>4, <3>5 DEF NodesCounted
  <2>5. StakedEnough'
    BY <2>1 DEF WatchInv, StakedEnough
  <2> QED BY <2>2, <2>3, <2>4, <2>5 DEF WatchInv
<1> QED BY <1>1, <1>2

(* Rewards only add to the stake of nodes that are there.                  *)
LEMMA WatcherRewards ==
  ASSUME WatchInv, SameValidators, OverwatchBlock
  PROVE  WatchInv'
<1>1. ASSUME NEW n \in WatcherIds
      PROVE  \/ OverwatchNodeStakeBalance'[n] = OverwatchNodeStakeBalance[n]
             \/ /\ n \in OverwatchNodes
                /\ \E r \in Balance :
                     OverwatchNodeStakeBalance'[n] = SatAdd(OverwatchNodeStakeBalance[n], r)
  <2>1. \A x, y : percent_mul(x, y) \in Balance
    BY MaxBalanceAssumption DEF percent_mul, MulDiv
  <2> QED BY <2>1 DEF OverwatchBlock, calculate_overwatch_rewards
<1>2. UNCHANGED nodesVars
  BY DEF OverwatchBlock
<1>3. PICK f : f = OverwatchNodeStakeBalance'
  OBVIOUS
<1>4. f \in [WatcherIds -> Balance]
  <2>1. DOMAIN f = WatcherIds /\ f = [n \in WatcherIds |-> f[n]]
    BY <1>3 DEF OverwatchBlock, calculate_overwatch_rewards
  <2>2. \A n \in WatcherIds : f[n] \in Balance
    BY <1>1, <1>3, SatAddBalance DEF WatchInv, WatchTypes
  <2> QED BY <2>1, <2>2
<1>5. ASSUME NEW n \in WatcherIds
      PROVE  /\ OverwatchNodeValidatorId[n] = 0 => f[n] = OverwatchNodeStakeBalance[n]
             /\ n \in OverwatchNodes => f[n] >= OverwatchMinStakeBalance
  <2>1. /\ OverwatchNodeStakeBalance[n] \in Balance
        /\ n \in OverwatchNodes => OverwatchNodeStakeBalance[n] >= OverwatchMinStakeBalance
        /\ OverwatchNodeValidatorId[n] = 0 => n \notin OverwatchNodes
    BY DEF WatchInv, WatchTypes, StakedEnough, WatchersOwned
  <2>2. CASE f[n] # OverwatchNodeStakeBalance[n]
    <3>1. PICK r \in Balance : n \in OverwatchNodes
                               /\ f[n] = SatAdd(OverwatchNodeStakeBalance[n], r)
      BY <1>1, <1>3, <2>2
    <3>2. f[n] >= OverwatchNodeStakeBalance[n] /\ f[n] \in Balance
      BY <2>1, <3>1, SatAddGrows, SatAddBalance
    <3>3. OverwatchMinStakeBalance \in Nat
      BY OverwatchAssumption, MaxBalanceAssumption
    <3>4. f[n] >= OverwatchMinStakeBalance
      BY <2>1, <3>1, <3>2, <3>3, MaxBalanceAssumption
    <3> QED BY <2>1, <3>1, <3>4
  <2>3. CASE f[n] = OverwatchNodeStakeBalance[n]
    BY <2>1, <2>3
  <2> QED BY <2>2, <2>3
<1> QED BY <1>2, <1>3, <1>4, <1>5, WatchStakes

(* The other calls of a node, of the collective and the other blocks.      *)
LEMMA OthersKeepWatchers ==
  ASSUME WatchInv, SameValidators,
         \/ OtherBlock
         \/ (NewBlockWhilePaused \/ HookDone) /\ UNCHANGED <<keyVars, nodeVars, watchVars>>
         \/ \E v, value : do_set_overwatch_validator_whitelist(v, value)
         \/ \E m : do_set_overwatch_epoch_length_multiplier(m)
                   \/ do_set_overwatch_commit_cutoff_percent(m)
         \/ \E a, n, h : update_overwatch_hotkey(a, n, h)
         \/ \E a, n, f : commit_overwatch_subnet_weights(a, n, f)
                         \/ reveal_overwatch_subnet_weights(a, n, f)
  PROVE  WatchInv'
<1>1. UNCHANGED <<nodesVars, OverwatchNodeStakeBalance>>
  BY DEF OtherBlock, watchVars, stakeVars, nodesVars, OnlyWatchers,
     do_set_overwatch_validator_whitelist, do_set_overwatch_epoch_length_multiplier,
     do_set_overwatch_commit_cutoff_percent, update_overwatch_hotkey, commit_overwatch_subnet_weights,
     reveal_overwatch_subnet_weights, Reveals
<1> QED BY <1>1, WatchFrame

(* Every step keeps the overwatch nodes sound.                             *)
LEMMA StepWatchers == KeyInv /\ WatchInv /\ [OverwatchNext]_systemVars => WatchInv'
<1> SUFFICES ASSUME KeyInv, WatchInv, [OverwatchNext]_systemVars PROVE WatchInv'
  OBVIOUS
<1>1. SameValidators
  BY StepValidators
<1>2. ASSUME NEW n, \/ \E a : remove_overwatch_node(a, n)
                    \/ do_collective_remove_overwatch_node(n)
      PROVE  WatchInv'
  <2>1. /\ perform_remove_overwatch_node(n)
        /\ UNCHANGED <<OverwatchNodeStakeBalance, OverwatchNodeValidatorId>>
    BY <1>2 DEF remove_overwatch_node, do_collective_remove_overwatch_node, OnlyWatchers,
       stakeVars
  <2> QED BY <1>1, <2>1, WatcherLeaves
<1>3. CASE OverwatchCalls
  BY <1>1, <1>2, <1>3, RegisterWatcher, WatcherStake, OthersKeepWatchers DEF OverwatchCalls
<1>4. CASE \E a \in Accounts : EvmOverwatchCalls1(a) \/ EvmOverwatchCalls2(a)
  BY <1>1, <1>2, <1>4, RegisterWatcher, WatcherStake, OthersKeepWatchers
     DEF EvmOverwatchCalls1, EvmOverwatchCalls2
<1>5. CASE CollectiveCalls
  BY <1>1, <1>2, <1>5, OthersKeepWatchers DEF CollectiveCalls
<1>6. CASE BlockHook
  BY <1>1, <1>6, WatcherRewards, OthersKeepWatchers DEF BlockHook
<1>7. CASE Meanwhile
  <2>1. UNCHANGED <<nodesVars, OverwatchNodeStakeBalance>>
    BY <1>7, MeanwhileKeeps DEF watchVars, stakeVars
  <2> QED BY <1>1, <2>1, WatchFrame
<1>8. CASE UNCHANGED systemVars
  <2>1. UNCHANGED <<nodesVars, OverwatchNodeStakeBalance>>
    BY <1>8 DEF systemVars, watchVars, stakeVars
  <2> QED BY <1>1, <2>1, WatchFrame
<1> QED BY <1>3, <1>4, <1>5, <1>6, <1>7, <1>8 DEF OverwatchNext

(* The network starts with sound overwatch nodes.                          *)
LEMMA InitWatchers == OverwatchInit => WatchInv
<1> SUFFICES ASSUME OverwatchInit PROVE WatchInv
  OBVIOUS
<1>1. PICK k \in Nat : /\ k = Len(FirstWatchers) /\ k <= MaxWatchers /\ k <= MaxOverwatchNodes
                       /\ MaxWatchers \in Nat /\ FirstIds = 1 .. k
  BY OverwatchAssumption DEF FirstIds
<1>2. \A n \in 1 .. k : FirstWatchers[n] \in First
  BY <1>1, OverwatchAssumption
<1>3. First \subseteq Validators /\ First \subseteq live /\ 0 \notin Validators
  BY KeysAssumption DEF First, OverwatchInit, NodeInit, Init
<1>4. OverwatchMinStakeBalance \in Balance /\ 0 \in Balance
  BY OverwatchAssumption, MaxBalanceAssumption
<1>5. /\ OverwatchNodes = 1 .. k /\ TotalOverwatchNodes = k
      /\ OverwatchNodeValidatorId =
           [n \in WatcherIds |-> IF n \in 1 .. k THEN FirstWatchers[n] ELSE 0]
      /\ OverwatchNodeStakeBalance =
           [n \in WatcherIds |-> IF n \in 1 .. k THEN OverwatchMinStakeBalance ELSE 0]
  BY <1>1 DEF OverwatchInit
<1>6. WatchTypes
  <2>1. OverwatchNodeValidatorId \in [WatcherIds -> Validators \cup {0}]
    BY <1>2, <1>3, <1>5
  <2>2. OverwatchNodeStakeBalance \in [WatcherIds -> Balance]
    BY <1>4, <1>5
  <2>3. OverwatchNodes \subseteq WatcherIds
    BY <1>1, <1>5 DEF WatcherIds
  <2> QED BY <2>1, <2>2, <2>3 DEF WatchTypes
<1>7. WatchersOwned
  BY <1>2, <1>3, <1>5 DEF WatchersOwned
<1>8. GivenInTurn
  <2>1. ASSUME NEW n \in WatcherIds
        PROVE  OverwatchNodeValidatorId[n] # 0 <=> n <= k
    <3>1. n \in 1 .. k <=> n <= k
      BY <1>1 DEF WatcherIds
    <3> QED BY <1>2, <1>3, <1>5, <3>1
  <2> QED BY <1>1, <2>1 DEF GivenInTurn, GivenUpto
<1>9. NodesCounted
  <2>0. 1 \in Int /\ k \in Int
    OBVIOUS
  <2>1. Cardinality(1 .. k) = IF 1 > k THEN 0 ELSE k - 1 + 1
    BY <2>0, FS_Interval
  <2>2. Cardinality(1 .. k) = k
    BY <1>1, <2>1
  <2> QED BY <1>1, <1>5, <2>2 DEF NodesCounted
<1>10. StakedEnough
  <2>1. 1 .. k \subseteq WatcherIds
    BY <1>1 DEF WatcherIds
  <2>2. OverwatchMinStakeBalance >= OverwatchMinStakeBalance
    BY <1>4, MaxBalanceAssumption
  <2> QED BY <1>5, <2>1, <2>2 DEF StakedEnough
<1> QED BY <1>6, <1>7, <1>8, <1>9, <1>10 DEF WatchInv

(* Each part of WatchersSound, from the invariants.                        *)
LEMMA WatchersFacts == KeyInv /\ WatchInv => WatchersSound
<1> SUFFICES ASSUME KeyInv, WatchInv PROVE WatchersSound
  OBVIOUS
<1>1. ASSUME NEW n \in WatcherIds, OverwatchNodeStakeBalance[n] > 0
      PROVE  \E a \in Accounts : IsColdkeyOf(a, n)
  <2>1. OverwatchNodeValidatorId[n] # 0
    BY <1>1 DEF WatchInv, WatchersOwned
  <2>2. PICK v \in Validators : v = OverwatchNodeValidatorId[n]
    BY <2>1 DEF WatchInv, WatchTypes
  <2>3. v \in live
    BY <2>1, <2>2 DEF WatchInv, WatchersOwned
  <2>4. ValidatorColdkey[v] \in Accounts
    BY <2>3, KeyFacts
  <2> QED BY <2>1, <2>2, <2>4 DEF IsColdkeyOf, get_overwatch_node_associated_coldkey
<1> QED BY <1>1 DEF WatchInv, NodesCounted, StakedEnough, WatchersSound

(***************************************************************************)
(* TotalOverwatchNodes is the number of overwatch nodes and within its     *)
(* limit, no node that is there is below the minimum stake, and the stake  *)
(* of every node, removed or not, has a coldkey that may take it, whatever *)
(* sequence of registrations, withdrawals, rewards, removals by owner and  *)
(* collective and replaced keys came before (overwatch_nodes/,             *)
(* stake/overwatch_node_staking.rs).                                       *)
(***************************************************************************)
THEOREM WatchersStaySound == OverwatchSpec => []WatchersSound
<1>1. OverwatchInit => KeyInv /\ WatchInv
  BY InitKeys, InitWatchers DEF OverwatchInit
<1>2. (KeyInv /\ WatchInv) /\ [OverwatchNext]_systemVars => (KeyInv /\ WatchInv)'
  BY StepWatchKeys, StepWatchers
<1> QED BY <1>1, <1>2, WatchersFacts, PTL DEF OverwatchSpec
--------------------------------------------------------------------------------
(***************************************************************************)
(* Commits and reveals.                                                    *)
(***************************************************************************)
(* What is revealed is what was committed to.                              *)
Committed ==
  /\ block \in Nat /\ OverwatchEpochLengthMultiplier \in Multipliers
  /\ OverwatchCommitCutoffPercent \in Cutoffs
  /\ RevealsMatchCommits

(* Nothing is revealed for an epoch to come, and for the present one only  *)
(* once it takes no commits.                                               *)
RevealedLate == \A k \in DOMAIN OverwatchReveals :
  /\ k[1] \in Nat /\ k[1] <= get_current_overwatch_epoch
  /\ k[1] = get_current_overwatch_epoch => ~in_overwatch_commit_period

roundFrame == <<block, settingVars, OverwatchCommits, OverwatchReveals>>

(* What the round of commits and reveals depends on.                       *)
LEMMA RoundFrame ==
  ASSUME UNCHANGED roundFrame
  PROVE  /\ Committed => Committed'
         /\ RevealedLate => RevealedLate'
  BY DEF roundFrame, settingVars, Committed, RevealsMatchCommits, RevealedLate, get_current_overwatch_epoch,
     OverwatchEpochAt, overwatch_epoch_length, in_overwatch_commit_period

(* An epoch is never shorter than a block, and the next block is of the    *)
(* same epoch or of a later one.                                           *)
LEMMA LengthPositive ==
  ASSUME Committed
  PROVE  overwatch_epoch_length \in Nat /\ overwatch_epoch_length > 0
<1>1. PICK m \in Nat : m = OverwatchEpochLengthMultiplier /\ m > 0
  BY OverwatchAssumption DEF Committed
<1>2. EpochLength \in Nat /\ EpochLength > 0
  BY StakingAssumption DEF DesignatedEpochSlots
<1>3. EpochLength * m \in Nat /\ EpochLength * m > 0
  BY <1>2, <1>1
<1> QED BY <1>1, <1>3 DEF overwatch_epoch_length

(* The overwatch epoch of the next block is the same or a later one.       *)
LEMMA NextEpoch ==
  ASSUME NEW b \in Nat, NEW L \in Nat, L > 0
  PROVE  /\ b \div L \in Nat /\ (b + 1) \div L \in Nat
         /\ b \div L <= (b + 1) \div L
<1>1. ASSUME NEW x \in Nat
      PROVE  /\ x \div L \in Nat
             /\ L * (x \div L) <= x
             /\ x < L * (x \div L) + L
  BY <1>1
<1>2. PICK q \in Nat, r \in Nat : q = b \div L /\ r = (b + 1) \div L
  BY <1>1
<1>3. L * q <= b /\ b + 1 < L * r + L
  BY <1>1, <1>2
<1>4. ASSUME r < q PROVE FALSE
  <2>1. PICK d \in Nat : q = r + 1 + d
    <3>1. q - r - 1 \in Nat /\ q = r + 1 + (q - r - 1)
      BY <1>4
    <3> QED BY <3>1
  <2>2. L * q = L * r + L + L * d /\ L * d >= 0
    BY <2>1
  <2>3. L * q \in Nat /\ L * r \in Nat /\ L * d \in Nat
    OBVIOUS
  <2> QED BY <1>3, <2>2, <2>3
<1> QED BY <1>2, <1>4

(* A commit adds to the commits.                                           *)
LEMMA CommitRound ==
  ASSUME Committed, NEW a, NEW n, NEW f, commit_overwatch_subnet_weights(a, n, f)
  PROVE  Committed' /\ (RevealedLate => RevealedLate')
<1>1. PICK new : /\ DOMAIN new \cap DOMAIN OverwatchCommits = {}
                 /\ OverwatchCommits' = With(OverwatchCommits, new)
  BY DEF commit_overwatch_subnet_weights
<1>2. UNCHANGED <<block, settingVars, OverwatchReveals>>
  BY DEF commit_overwatch_subnet_weights, OnlyWatchers, timeVars
<1>3. \A k \in DOMAIN OverwatchCommits :
        k \in DOMAIN OverwatchCommits' /\ OverwatchCommits'[k] = OverwatchCommits[k]
  BY <1>1 DEF With
<1>4. Committed'
  BY <1>2, <1>3 DEF Committed, RevealsMatchCommits, settingVars
<1>5. RevealedLate => RevealedLate'
  BY <1>2 DEF RevealedLate, get_current_overwatch_epoch, OverwatchEpochAt,
     overwatch_epoch_length, in_overwatch_commit_period, settingVars
<1> QED BY <1>4, <1>5

(* A reveal is of the present epoch.                                       *)
LEMMA RevealRound ==
  ASSUME Committed, NEW a, NEW n, NEW f, reveal_overwatch_subnet_weights(a, n, f)
  PROVE  Committed' /\ (RevealedLate => RevealedLate')
<1>1. PICK e : e = get_current_overwatch_epoch
  OBVIOUS
<1>2. PICK new : new = InThisEpoch(n, f)
  OBVIOUS
<1>3. /\ \A k \in DOMAIN new :
           new[k] <= Full /\ k \in DOMAIN OverwatchCommits /\ OverwatchCommits[k] = new[k]
      /\ OverwatchReveals' = With(OverwatchReveals, new)
      /\ ~in_overwatch_commit_period
      /\ UNCHANGED <<block, settingVars, OverwatchCommits>>
  BY <1>2 DEF reveal_overwatch_subnet_weights, Reveals, OnlyWatchers, timeVars
<1>4. \A k \in DOMAIN new : k[1] = e
  BY <1>1, <1>2 DEF InThisEpoch
<1>5. ASSUME NEW k \in DOMAIN OverwatchReveals'
      PROVE  \/ k \in DOMAIN new /\ OverwatchReveals'[k] = new[k]
             \/ k \in DOMAIN OverwatchReveals /\ OverwatchReveals'[k] = OverwatchReveals[k]
  BY <1>3 DEF With
<1>6. Committed'
  <2> SUFFICES ASSUME NEW k \in DOMAIN OverwatchReveals'
               PROVE  /\ k \in DOMAIN OverwatchCommits
                      /\ OverwatchCommits[k] = OverwatchReveals'[k]
                      /\ OverwatchReveals'[k] <= Full
    BY <1>3 DEF Committed, RevealsMatchCommits, settingVars
  <2> QED BY <1>3, <1>5 DEF Committed, RevealsMatchCommits
<1>7. e \in Nat
  BY <1>1, LengthPositive, NextEpoch
     DEF get_current_overwatch_epoch, OverwatchEpochAt, Committed
<1>8. e = get_current_overwatch_epoch' /\ in_overwatch_commit_period' = in_overwatch_commit_period
  BY <1>1, <1>3 DEF get_current_overwatch_epoch, OverwatchEpochAt, overwatch_epoch_length,
     in_overwatch_commit_period, settingVars
<1>9. ASSUME RevealedLate PROVE RevealedLate'
  <2> SUFFICES ASSUME NEW k \in DOMAIN OverwatchReveals'
               PROVE  k[1] \in Nat /\ k[1] <= e /\ (k[1] = e => ~in_overwatch_commit_period)
    BY <1>8 DEF RevealedLate
  <2>1. CASE k \in DOMAIN new
    BY <1>3, <1>4, <1>7, <2>1
  <2>2. CASE k \in DOMAIN OverwatchReveals
    BY <1>1, <1>9, <2>2 DEF RevealedLate
  <2> QED BY <1>5, <2>1, <2>2
<1> QED BY <1>6, <1>9

(* A block later the epoch still takes no commits, or it is another one.   *)
LEMMA BlockRound ==
  ASSUME Committed, block' = block + 1,
         UNCHANGED <<settingVars, OverwatchCommits, OverwatchReveals>>
  PROVE  Committed' /\ (RevealedLate => RevealedLate')
<1>1. Committed'
  BY DEF Committed, RevealsMatchCommits, settingVars
<1>2. PICK L \in Nat : L > 0 /\ L = overwatch_epoch_length /\ L = overwatch_epoch_length'
  BY LengthPositive DEF overwatch_epoch_length, settingVars
<1>3. block \in Nat
  BY DEF Committed
<1>4. PICK e \in Nat, d \in Nat : e = block \div L /\ d = (block + 1) \div L /\ e <= d
  BY <1>2, <1>3, NextEpoch
<1>5. get_current_overwatch_epoch = e /\ get_current_overwatch_epoch' = d
  BY <1>2, <1>4 DEF get_current_overwatch_epoch, OverwatchEpochAt
<1>6. PICK c \in Nat : c = percent_mul(L, OverwatchCommitCutoffPercent)
  BY MaxBalanceAssumption DEF percent_mul, MulDiv
<1>7. /\ in_overwatch_commit_period <=> block < L * e + c
      /\ in_overwatch_commit_period' <=> block + 1 < L * d + c
  BY <1>2, <1>5, <1>6 DEF in_overwatch_commit_period, settingVars
<1>8. ASSUME RevealedLate PROVE RevealedLate'
  <2> SUFFICES ASSUME NEW k \in DOMAIN OverwatchReveals
               PROVE  k[1] \in Nat /\ k[1] <= d /\ (k[1] = d => ~in_overwatch_commit_period')
    BY <1>5 DEF RevealedLate
  <2>1. k[1] \in Nat /\ k[1] <= e /\ (k[1] = e => ~in_overwatch_commit_period)
    BY <1>5, <1>8 DEF RevealedLate
  <2>2. k[1] <= d /\ (k[1] = d => e = d)
    BY <1>4, <2>1
  <2>3. ASSUME k[1] = d PROVE ~in_overwatch_commit_period'
    <3>1. e = d /\ ~(block < L * e + c)
      BY <1>7, <2>1, <2>2, <2>3
    <3>2. PICK x \in Nat : x = L * e
      OBVIOUS
    <3>3. ~(block + 1 < x + c)
      BY <1>3, <3>1, <3>2
    <3> QED BY <1>7, <3>1, <3>2, <3>3
  <2> QED BY <2>1, <2>2, <2>3
<1> QED BY <1>1, <1>8

(* Steps that leave the round alone.                                       *)
LEMMA OthersKeepRound ==
  ASSUME \/ Meanwhile
         \/ \E a, x : register_overwatch_node(a, x)
         \/ \E a, n, x : add_overwatch_node_stake(a, n, x) \/ remove_overwatch_node_stake(a, n, x)
         \/ \E a, n : remove_overwatch_node(a, n) \/ do_collective_remove_overwatch_node(n)
         \/ \E a, n, h : update_overwatch_hotkey(a, n, h)
         \/ \E v, value : do_set_overwatch_validator_whitelist(v, value)
         \/ HookDone /\ UNCHANGED <<keyVars, nodeVars, watchVars>>
         \/ UNCHANGED systemVars
  PROVE  UNCHANGED roundFrame
<1>1. CASE Meanwhile
  BY <1>1, MeanwhileKeeps DEF watchVars, roundVars, roundFrame
<1>2. CASE \E a, x : register_overwatch_node(a, x)
  BY <1>2 DEF register_overwatch_node, roundVars, roundFrame, timeVars
<1>3. CASE \E a, n, x : add_overwatch_node_stake(a, n, x) \/ remove_overwatch_node_stake(a, n, x)
  BY <1>3 DEF add_overwatch_node_stake, remove_overwatch_node_stake, roundVars, roundFrame,
     timeVars
<1>4. CASE \E a, n : remove_overwatch_node(a, n) \/ do_collective_remove_overwatch_node(n)
  BY <1>4 DEF remove_overwatch_node, do_collective_remove_overwatch_node, OnlyWatchers,
     roundVars, roundFrame, timeVars
<1>5. CASE \/ \E a, n, h : update_overwatch_hotkey(a, n, h)
           \/ \E v, value : do_set_overwatch_validator_whitelist(v, value)
  BY <1>5 DEF update_overwatch_hotkey, do_set_overwatch_validator_whitelist, OnlyWatchers,
     roundVars, roundFrame, timeVars
<1>6. CASE HookDone /\ UNCHANGED <<keyVars, nodeVars, watchVars>>
  BY <1>6 DEF HookDone, watchVars, roundVars, roundFrame
<1>7. CASE UNCHANGED systemVars
  BY <1>7 DEF systemVars, allVars, vars, watchVars, roundVars, roundFrame, timeVars
<1> QED BY <1>1, <1>2, <1>3, <1>4, <1>5, <1>6, <1>7

(* Any change of the settings keeps what was revealed to what was          *)
(* committed; the epochs and their parts mean the same only without it.    *)
LEMMA StepRound ==
  ASSUME Committed, [OverwatchNext]_systemVars
  PROVE  /\ Committed'
         /\ UNCHANGED settingVars => (RevealedLate => RevealedLate')
<1> DEFINE Goal == /\ Committed'
                   /\ UNCHANGED settingVars => (RevealedLate => RevealedLate')
<1> SUFFICES Goal
  OBVIOUS
<1>1. ASSUME UNCHANGED roundFrame PROVE Goal
  BY <1>1, RoundFrame
<1>2. ASSUME \/ \E m \in Multipliers : do_set_overwatch_epoch_length_multiplier(m)
             \/ \E c \in Cutoffs : do_set_overwatch_commit_cutoff_percent(c)
      PROVE  Goal
  <2>1. /\ Committed => OverwatchEpochLengthMultiplier' \in Multipliers
        /\ Committed => OverwatchCommitCutoffPercent' \in Cutoffs
        /\ UNCHANGED <<block, OverwatchCommits, OverwatchReveals>>
    BY <1>2 DEF do_set_overwatch_epoch_length_multiplier, do_set_overwatch_commit_cutoff_percent,
       OnlyWatchers, roundVars, timeVars, Committed
  <2>2. Committed'
    BY <2>1 DEF Committed, RevealsMatchCommits
  <2>3. CASE UNCHANGED settingVars
    <3>1. UNCHANGED roundFrame
      BY <2>1, <2>3 DEF roundFrame
    <3> QED BY <1>1, <3>1
  <2> QED BY <2>2, <2>3
<1>3. ASSUME NEW a, NEW n, NEW f, \/ commit_overwatch_subnet_weights(a, n, f)
                                  \/ reveal_overwatch_subnet_weights(a, n, f)
      PROVE  Goal
  BY <1>3, CommitRound, RevealRound
<1>4. CASE \/ OverwatchBlock \/ OtherBlock
           \/ NewBlockWhilePaused /\ UNCHANGED <<keyVars, nodeVars, watchVars>>
  <2>1. /\ block' = block + 1
        /\ UNCHANGED <<settingVars, OverwatchCommits, OverwatchReveals>>
    BY <1>4 DEF OverwatchBlock, OtherBlock, NewBlock, NewBlockWhilePaused, watchVars, roundVars
  <2> QED BY <2>1, BlockRound
<1> HIDE DEF Goal
<1>5. CASE OverwatchCalls
  BY <1>1, <1>3, <1>5, OthersKeepRound DEF OverwatchCalls
<1>6. CASE \E a \in Accounts : EvmOverwatchCalls1(a) \/ EvmOverwatchCalls2(a)
  BY <1>1, <1>3, <1>6, OthersKeepRound DEF EvmOverwatchCalls1, EvmOverwatchCalls2
<1>7. CASE CollectiveCalls
  BY <1>1, <1>2, <1>7, OthersKeepRound DEF CollectiveCalls
<1>8. CASE BlockHook
  BY <1>1, <1>4, <1>8, OthersKeepRound DEF BlockHook
<1>9. CASE Meanwhile \/ UNCHANGED systemVars
  BY <1>1, <1>9, OthersKeepRound
<1> QED BY <1>5, <1>6, <1>7, <1>8, <1>9 DEF OverwatchNext

(* Nothing is revealed at the start.                                       *)
LEMMA InitRound == OverwatchInit => Committed /\ RevealedLate
<1> SUFFICES ASSUME OverwatchInit PROVE Committed /\ RevealedLate
  OBVIOUS
<1>1. DOMAIN OverwatchReveals = {}
  BY DEF OverwatchInit, EmptyMap
<1>2. /\ block \in Nat /\ OverwatchEpochLengthMultiplier \in Multipliers
      /\ OverwatchCommitCutoffPercent \in Cutoffs
  BY StakingAssumption DEF OverwatchInit, NodeInit, Init
<1> QED BY <1>1, <1>2 DEF Committed, RevealsMatchCommits, RevealedLate

(***************************************************************************)
(* Whatever is revealed is what the same node committed to for the same    *)
(* subnet and epoch, also when the collective changes the length of the    *)
(* epochs or the cutoff in between (overwatch_nodes/: a commit is never overwritten and  *)
(* a reveal must match one).                                               *)
(***************************************************************************)
THEOREM RevealsAlwaysMatch == OverwatchSpec => []RevealsMatchCommits
<1>1. OverwatchInit => Committed
  BY InitRound
<1>2. Committed /\ [OverwatchNext]_systemVars => Committed'
  BY StepRound
<1>3. Committed => RevealsMatchCommits
  BY DEF Committed
<1> QED BY <1>1, <1>2, <1>3, PTL DEF OverwatchSpec

(***************************************************************************)
(* As long as the collective keeps the length of overwatch epochs and the  *)
(* cutoff within them, every weight that counts was fixed before any other *)
(* of its epoch could be seen: nothing is revealed for an epoch while it   *)
(* takes commits (overwatch_nodes/: in_overwatch_commit_period).           *)
(***************************************************************************)
THEOREM RevealsStayHonest ==
  ASSUME \A m, w \in Multipliers : m = w, \A c, d \in Cutoffs : c = d
  PROVE  OverwatchSpec => []RevealsHonest
<1> DEFINE I == Committed /\ RevealedLate
<1>1. OverwatchInit => I
  BY InitRound
<1>2. I /\ [OverwatchNext]_systemVars => I'
  <2> SUFFICES ASSUME Committed, RevealedLate, [OverwatchNext]_systemVars
               PROVE  Committed' /\ RevealedLate'
    OBVIOUS
  <2>1. Committed'
    BY StepRound
  <2>2. UNCHANGED settingVars
    BY <2>1 DEF Committed, settingVars
  <2> QED BY <2>2, StepRound
<1>3. I => RevealsHonest
  BY DEF Committed, RevealedLate, RevealsHonest
<1> QED BY <1>1, <1>2, <1>3, PTL DEF OverwatchSpec
--------------------------------------------------------------------------------
(***************************************************************************)
(* Every token is accounted for.                                           *)
(***************************************************************************)

(* What is staked for overwatch nodes, and each part of it.                *)
LEMMA InWatchersFacts ==
  ASSUME WatchTypes
  PROVE  /\ InWatchers \in Nat
         /\ InWatchers = SumFunctionOnSet(OverwatchNodeStakeBalance, WatcherIds)
         /\ \A n \in WatcherIds : /\ OverwatchNodeStakeBalance[n] \in Nat
                                  /\ OverwatchNodeStakeBalance[n] <= InWatchers
<1>1. /\ DOMAIN OverwatchNodeStakeBalance = WatcherIds
      /\ \A n \in WatcherIds : OverwatchNodeStakeBalance[n] \in Nat
  BY MaxBalanceAssumption DEF WatchTypes
<1>2. InWatchers = SumFunctionOnSet(OverwatchNodeStakeBalance, WatcherIds)
  BY <1>1, SumOver DEF InWatchers
<1> QED BY <1>1, <1>2, FiniteWatchers, SumOfNaturals

(* The stake of one overwatch node becomes x.                              *)
LEMMA WatchersChange ==
  ASSUME WatchTypes, NEW n \in WatcherIds, NEW x \in Balance,
         OverwatchNodeStakeBalance' = [OverwatchNodeStakeBalance EXCEPT ![n] = x]
  PROVE  InWatchers' = InWatchers - OverwatchNodeStakeBalance[n] + x
<1>1. /\ DOMAIN OverwatchNodeStakeBalance = WatcherIds
      /\ DOMAIN OverwatchNodeStakeBalance' = WatcherIds
      /\ \A m \in WatcherIds :
           /\ OverwatchNodeStakeBalance[m] \in Int /\ OverwatchNodeStakeBalance'[m] \in Int
           /\ m # n => OverwatchNodeStakeBalance'[m] = OverwatchNodeStakeBalance[m]
      /\ OverwatchNodeStakeBalance'[n] = x
  BY MaxBalanceAssumption DEF WatchTypes
<1>2. /\ InWatchers = SumFunctionOnSet(OverwatchNodeStakeBalance, WatcherIds)
      /\ InWatchers' = SumFunctionOnSet(OverwatchNodeStakeBalance', WatcherIds)
  BY <1>1, SumOver DEF InWatchers
<1>3. PICK f : f = OverwatchNodeStakeBalance
  OBVIOUS
<1>4. PICK g : g = OverwatchNodeStakeBalance'
  OBVIOUS
<1>5. \A m \in WatcherIds : f[m] \in Int /\ g[m] \in Int /\ (m # n => g[m] = f[m])
  BY <1>1, <1>3, <1>4
<1>6. SumFunctionOnSet(g, WatcherIds) = SumFunctionOnSet(f, WatcherIds) - f[n] + g[n]
  BY <1>5, FiniteWatchers, SumExcept
<1> QED BY <1>1, <1>2, <1>3, <1>4, <1>6

(* The total the pallet keeps is the sum it stands for.                    *)
WatchTotals == TotalOverwatchNodeStakeBalance = InWatchers

(* increase_overwatch_node_stake raises a node and the total alike.        *)
LEMMA IncreaseWatched ==
  ASSUME WatchTypes, WatchTotals, NEW n \in WatcherIds, NEW x \in Nat,
         InWatchers + x <= MaxBalance, increase_overwatch_node_stake(n, x)
  PROVE  WatchTotals' /\ InWatchers' = InWatchers + x
<1>1. /\ InWatchers \in Nat /\ OverwatchNodeStakeBalance[n] \in Nat
      /\ OverwatchNodeStakeBalance[n] <= InWatchers
  BY InWatchersFacts
<1>2. PICK old \in Nat : old = OverwatchNodeStakeBalance[n]
  BY <1>1
<1>3. old + x <= MaxBalance
  <2>1. \A i, j, m \in Nat : i <= j /\ j + x <= m => i + x <= m
    OBVIOUS
  <2> QED BY <1>1, <1>2, <2>1, MaxBalanceAssumption
<1>4. PICK y \in Balance : y = old + x
  BY <1>2, <1>3, MaxBalanceAssumption
<1>5. OverwatchNodeStakeBalance' = [OverwatchNodeStakeBalance EXCEPT ![n] = y]
  <2>1. SatAdd(OverwatchNodeStakeBalance[n], x) = y
    BY <1>2, <1>3, <1>4, Exact
  <2> QED BY <2>1 DEF increase_overwatch_node_stake
<1>6. InWatchers' = InWatchers - old + y
  BY <1>2, <1>5, WatchersChange
<1>7. InWatchers' = InWatchers + x
  BY <1>1, <1>4, <1>6
<1>8. TotalOverwatchNodeStakeBalance' = SatAdd(InWatchers, x)
  BY DEF increase_overwatch_node_stake, WatchTotals
<1> QED BY <1>1, <1>7, <1>8, Exact DEF WatchTotals

(* decrease_overwatch_node_stake lowers them alike.                        *)
LEMMA DecreaseWatched ==
  ASSUME WatchTypes, WatchTotals, NEW n \in WatcherIds, NEW x \in Nat,
         x <= OverwatchNodeStakeBalance[n], InWatchers <= MaxBalance,
         decrease_overwatch_node_stake(n, x)
  PROVE  WatchTotals' /\ InWatchers' = InWatchers - x /\ x <= InWatchers
<1>1. /\ InWatchers \in Nat /\ OverwatchNodeStakeBalance[n] \in Nat
      /\ OverwatchNodeStakeBalance[n] <= InWatchers
  BY InWatchersFacts
<1>2. PICK old \in Nat : old = OverwatchNodeStakeBalance[n]
  BY <1>1
<1>3. x <= old /\ x <= InWatchers /\ old <= MaxBalance
  BY <1>1, <1>2, MaxBalanceAssumption
<1>4. PICK y \in Balance : y = old - x
  BY <1>2, <1>3, MaxBalanceAssumption
<1>5. OverwatchNodeStakeBalance' = [OverwatchNodeStakeBalance EXCEPT ![n] = y]
  <2>1. SatSub(OverwatchNodeStakeBalance[n], x) = y
    BY <1>2, <1>3, <1>4, Exact
  <2> QED BY <2>1 DEF decrease_overwatch_node_stake
<1>6. InWatchers' = InWatchers - old + y
  BY <1>2, <1>5, WatchersChange
<1>7. InWatchers' = InWatchers - x
  BY <1>1, <1>4, <1>6
<1>8. TotalOverwatchNodeStakeBalance' = SatSub(InWatchers, x)
  BY DEF decrease_overwatch_node_stake, WatchTotals
<1> QED BY <1>1, <1>3, <1>7, <1>8, Exact DEF WatchTotals

(* The tokens in all parts of the system, those of overwatch stake too.    *)
WatchHeld == AllHeld + InWatchers

WatchBooks == NodeBooks /\ NodeTypes /\ WatchTypes /\ WatchTotals

WatchFits == WatchHeld <= MaxBalance /\ \A p \in Pools : pool[p].shares < MaxBalance

WatchStepFits ==
  /\ WatchHeld + (minted' - minted) <= MaxBalance
  /\ \A p \in Pools : pool'[p].shares < MaxBalance

WatchStep ==
  /\ NodeBooks' /\ WatchTotals'
  /\ WatchHeld' = WatchHeld + (minted' - minted) - (dropped' - dropped) - (lost' - lost)

(* Each part is within the whole.                                          *)
LEMMA WatchFacts ==
  ASSUME WatchBooks, WatchFits
  PROVE  /\ NodeFits /\ Held \in Nat /\ InWatchers \in Nat /\ AllHeld \in Nat
         /\ InNodes \in Nat /\ InDelegates \in Nat
         /\ Held + InWatchers <= MaxBalance /\ InWatchers <= MaxBalance
         /\ minted \in Nat /\ dropped \in Nat /\ lost \in Nat
<1>1. InWatchers \in Nat
  BY InWatchersFacts DEF WatchBooks
<1>2. InAccounts \in Nat /\ InPools \in Nat /\ InLedgers \in Nat /\ InQueue \in Nat
  BY HeldParts DEF WatchBooks, NodeBooks, Books
<1>3. Held \in Nat
  BY <1>2 DEF Held
<1>4. InNodes \in Nat /\ InDelegates \in Nat
  BY InNodesFacts, InDelegatesFacts DEF WatchBooks, NodeBooks, DelegateTotals
<1>5. AllHeld \in Nat /\ Held <= AllHeld
  BY <1>3, <1>4 DEF AllHeld
<1>6. \A h, k, w, m \in Nat : k <= h /\ h + w <= m => h <= m /\ w <= m /\ k + w <= m
  OBVIOUS
<1>7. AllHeld <= MaxBalance /\ InWatchers <= MaxBalance /\ Held + InWatchers <= MaxBalance
  BY <1>1, <1>3, <1>5, <1>6, MaxBalanceAssumption DEF WatchFits, WatchHeld
<1>8. NodeFits
  BY <1>7 DEF NodeFits, WatchFits
<1>9. minted \in Nat /\ dropped \in Nat /\ lost \in Nat
  BY DEF WatchBooks, NodeBooks, Books
<1> QED BY <1>1, <1>3, <1>4, <1>5, <1>7, <1>8, <1>9

(* A step of the rest of the system leaves the overwatch stake alone.      *)
LEMMA WatchersRest ==
  ASSUME WatchBooks, WatchFits, NodeStep, UNCHANGED stakeVars
  PROVE  WatchStep
<1>1. InWatchers' = InWatchers /\ WatchTotals'
  BY DEF stakeVars, InWatchers, WatchTotals, WatchBooks
<1>2. PICK i \in Int : i = minted' - minted
  BY WatchFacts DEF NodeStep, NodeBooks, Books
<1>3. PICK j \in Int : j = dropped' - dropped
  BY WatchFacts DEF NodeStep, NodeBooks, Books
<1>4. PICK k \in Int : k = lost' - lost
  BY WatchFacts DEF NodeStep, NodeBooks
<1>5. AllHeld' = AllHeld + i - j - k
  BY <1>2, <1>3, <1>4 DEF NodeStep
<1>6. AllHeld' + InWatchers = AllHeld + InWatchers + i - j - k
  BY <1>5, WatchFacts
<1>7. WatchHeld' = WatchHeld + (minted' - minted) - (dropped' - dropped) - (lost' - lost)
  BY <1>1, <1>2, <1>3, <1>4, <1>6 DEF WatchHeld
<1> QED BY <1>1, <1>7 DEF WatchStep, NodeStep

(* Tokens move between delegate staking and the overwatch stake.           *)
LEMMA WatchTogether ==
  ASSUME WatchBooks, WatchFits, NEW h \in Int, NEW w \in Int, HeldGains(h), WatchTotals',
         InWatchers' = InWatchers + w, UNCHANGED <<keyVars, nodeVars, dropped>>,
         h + w = minted' - minted
  PROVE  WatchStep
<1>1. NodeTotals' /\ InNodes' = InNodes
  BY SameNodes DEF WatchBooks, NodeBooks, nodeVars
<1>2. DelegateTotals' /\ InDelegates' = InDelegates
  BY SameDelegates DEF WatchBooks, NodeBooks, nodeVars
<1>3. DelegatesTyped' /\ lost' = lost /\ lost' \in Nat
  BY SameDelegatesTyped DEF WatchBooks, NodeBooks, nodeVars
<1>4. NodeBooks' /\ minted' \in Nat /\ dropped' = dropped
  BY <1>1, <1>2, <1>3 DEF NodeBooks, HeldGains, Books
<1>5. Held' = Held + h
  BY DEF HeldGains
<1>6. WatchHeld' = WatchHeld + (h + w)
  BY <1>1, <1>2, <1>5, WatchFacts DEF WatchHeld, AllHeld
<1>7. WatchHeld' = WatchHeld + (minted' - minted) - (dropped' - dropped) - (lost' - lost)
  <2>1. \A x, i, j, k \in Int : x + i = x + i - (j - j) - (k - k)
    OBVIOUS
  <2>2. WatchHeld \in Int /\ minted' - minted \in Int
    BY <1>4, WatchFacts DEF WatchHeld
  <2> QED BY <1>3, <1>4, <1>6, <2>1, <2>2, WatchFacts
<1> QED BY <1>4, <1>7 DEF WatchStep

--------------------------------------------------------------------------------
(***************************************************************************)
(* The steps.                                                              *)
(***************************************************************************)

(* An account pays for the stake of an overwatch node.                     *)
LEMMA WatcherPaid ==
  ASSUME WatchBooks, WatchFits, NEW a \in Accounts, NEW n \in WatcherIds, NEW x \in Balance,
         can_withdraw(a, x), withdraw(a, x), increase_overwatch_node_stake(n, x),
         UNCHANGED <<poolVars, queueVars, bondVars, timeVars, histVars, paused, live, lastTx,
                     keyVars, nodeVars>>
  PROVE  WatchStep
<1>1. x \in Nat
  BY MaxBalanceAssumption
<1>2. Books /\ LedgersBounded /\ Fits
  BY WatchFacts, NodeFacts DEF WatchBooks, NodeBooks
<1>3. x <= Held
  BY <1>1, <1>2, PaysAtMost
<1>4. HeldGains(0 - x)
  <2>1. lastTx' \in [Accounts -> Nat]
    BY <1>2 DEF Books, Inv, TypeOK, RestOK
  <2> QED BY <1>2, <2>1, PaymentBooks
<1>5. InWatchers + x <= MaxBalance
  <2>1. \A h, i, m \in Nat : x <= h /\ h + i <= m => i + x <= m
    BY <1>1
  <2> QED BY <1>3, <2>1, WatchFacts, MaxBalanceAssumption
<1>6. WatchTotals' /\ InWatchers' = InWatchers + x
  BY <1>1, <1>5, IncreaseWatched DEF WatchBooks
<1>7. minted' = minted /\ dropped' = dropped /\ (0 - x) + x = minted' - minted
  BY <1>1, WatchFacts DEF histVars
<1>8. 0 - x \in Int /\ x \in Int
  BY <1>1
<1> HIDE DEF Balance
<1> QED BY <1>4, <1>6, <1>7, <1>8, WatchTogether

(* A new node, and more stake for one.                                     *)
LEMMA WatcherPays ==
  ASSUME WatchBooks, WatchFits, NEW a \in Accounts, NEW n \in WatcherIds, NEW x \in Balance,
         register_overwatch_node(a, x) \/ add_overwatch_node_stake(a, n, x)
  PROVE  WatchStep
<1>1. CASE register_overwatch_node(a, x)
  <2>1. PICK m \in WatcherIds : m = NextWatcherId
    BY <1>1 DEF register_overwatch_node
  <2>2. /\ can_withdraw(a, x) /\ withdraw(a, x) /\ increase_overwatch_node_stake(m, x)
        /\ UNCHANGED <<poolVars, queueVars, bondVars, timeVars, histVars, paused, live, lastTx,
                       keyVars, nodeVars>>
    BY <1>1, <2>1 DEF register_overwatch_node
  <2> QED BY <2>2, WatcherPaid
<1>2. CASE add_overwatch_node_stake(a, n, x)
  <2>1. /\ can_withdraw(a, x) /\ withdraw(a, x) /\ increase_overwatch_node_stake(n, x)
        /\ UNCHANGED <<poolVars, queueVars, bondVars, timeVars, histVars, paused, live, lastTx,
                       keyVars, nodeVars>>
    BY <1>2 DEF add_overwatch_node_stake
  <2> QED BY <2>1, WatcherPaid
<1> QED BY <1>1, <1>2

(* Stake moves from an overwatch node to a ledger.                         *)
LEMMA WatcherUnbonds ==
  ASSUME WatchBooks, WatchFits, NEW a \in Accounts, NEW n \in WatcherIds, NEW x \in Balance,
         remove_overwatch_node_stake(a, n, x)
  PROVE  WatchStep
<1>1. /\ Unbond(a, StakeClaim, x) /\ decrease_overwatch_node_stake(n, x)
      /\ OverwatchNodeStakeBalance[n] >= x
      /\ UNCHANGED <<poolVars, queueVars, timeVars, histVars, paused, live, lastTx, keyVars,
                     nodeVars>>
  BY DEF remove_overwatch_node_stake
<1>2. x \in Nat /\ x <= OverwatchNodeStakeBalance[n]
  BY <1>1, MaxBalanceAssumption, InWatchersFacts DEF WatchBooks
<1>3. Books /\ LedgersBounded /\ Fits
  BY WatchFacts, NodeFacts DEF WatchBooks, NodeBooks
<1>4. WatchTotals' /\ InWatchers' = InWatchers - x /\ x <= InWatchers
  BY <1>1, <1>2, DecreaseWatched, WatchFacts DEF WatchBooks
<1>5. Held + x <= MaxBalance
  <2>1. \A h, i, m \in Nat : x <= i /\ h + i <= m => h + x <= m
    BY <1>2
  <2> QED BY <1>4, <2>1, WatchFacts, MaxBalanceAssumption
<1>6. PICK claim \in Nat : claim = StakeClaim
  BY <1>3, StakeClaimType
<1>7. HeldGains(x)
  <2>1. lastTx' \in [Accounts -> Nat]
    BY <1>1, <1>3 DEF Books, Inv, TypeOK, RestOK
  <2> QED BY <1>1, <1>3, <1>5, <1>6, <2>1, UnbondBooks
<1>8. minted' = minted /\ dropped' = dropped /\ x + (0 - x) = minted' - minted
  BY <1>1, <1>2, WatchFacts DEF histVars
<1>9. 0 - x \in Int /\ x \in Int /\ InWatchers' = InWatchers + (0 - x)
  BY <1>2, <1>4, WatchFacts
<1> HIDE DEF Balance
<1> QED BY <1>1, <1>4, <1>7, <1>8, <1>9, WatchTogether

(* What overwatch nodes are paid: r is what each gets, 0 for all others.   *)
LEMMA RewardsPaid ==
  ASSUME WatchTypes, OverwatchBlock
  PROVE  \E r \in [WatcherIds -> Balance] :
           /\ \A n \in WatcherIds :
                OverwatchNodeStakeBalance'[n] = SatAdd(OverwatchNodeStakeBalance[n], r[n])
           /\ DOMAIN OverwatchNodeStakeBalance' = WatcherIds
           /\ TotalOverwatchNodeStakeBalance' =
                SatAdd(TotalOverwatchNodeStakeBalance, SumFunctionOnSet(r, WatcherIds))
           /\ minted' = minted + SumFunctionOnSet(r, WatcherIds)
<1>1. \E nodes, score : \E reward \in [nodes -> Balance] :
        LET given == IF score = 0 THEN 0 ELSE SumFunction(reward)
        IN  /\ nodes \subseteq OverwatchNodes
            /\ OverwatchNodeStakeBalance' =
                 [n \in WatcherIds |-> IF n \in nodes /\ score # 0
                                       THEN SatAdd(OverwatchNodeStakeBalance[n], reward[n])
                                       ELSE OverwatchNodeStakeBalance[n]]
            /\ TotalOverwatchNodeStakeBalance' = SatAdd(TotalOverwatchNodeStakeBalance, given)
            /\ minted' = minted + given
  <2> DEFINE e == SatSub(OverwatchEpochAt(block'), 1)
             heard == {k \in DOMAIN OverwatchReveals : k[1] = e /\ k[2] \in OverwatchNodes}
             nodes == {k[2] : k \in heard}
             power == [n \in nodes |-> StakePower(OverwatchNodeStakeBalance[n])]
             share == [n \in nodes |-> percent_div(power[n], SatSum(power, nodes))]
             judged == {k[3] : k \in heard}
             part == [k \in heard |-> percent_mul(OverwatchReveals[k], share[k[2]])]
             sum == [s \in judged |-> SatSum(part, {k \in heard : k[3] = s})]
             weight == [s \in judged |-> IF sum[s] > Full THEN Full ELSE sum[s]]
             close == [k \in heard |->
                         percent_mul(Full - AbsDiff(OverwatchReveals[k], weight[k[3]]),
                                     weight[k[3]])]
             score == [n \in nodes |-> SatSum(close, {k \in heard : k[2] = n})]
             total_score == SatSum(score, nodes)
             reward == [n \in nodes |->
                          percent_mul(percent_div(score[n], total_score), OverwatchEpochEmissions)]
             given == IF total_score = 0 THEN 0 ELSE SumFunction(reward)
  <2>1. /\ OverwatchNodeStakeBalance' =
             [n \in WatcherIds |-> IF n \in nodes /\ total_score # 0
                                   THEN SatAdd(OverwatchNodeStakeBalance[n], reward[n])
                                   ELSE OverwatchNodeStakeBalance[n]]
        /\ TotalOverwatchNodeStakeBalance' = SatAdd(TotalOverwatchNodeStakeBalance, given)
        /\ minted' = minted + given
    BY Zenon DEF OverwatchBlock, calculate_overwatch_rewards
  <2>2. nodes \subseteq OverwatchNodes
    OBVIOUS
  <2>3. \A x, y : percent_mul(x, y) \in Balance
    BY MaxBalanceAssumption DEF percent_mul, MulDiv
  <2>4. reward \in [nodes -> Balance]
    <3> HIDE DEF nodes, score, total_score, Balance
    <3> QED BY <2>3
  <2> HIDE DEF nodes, total_score, reward
  <2> QED BY <2>1, <2>2, <2>4
<1>2. PICK nodes, score : \E reward \in [nodes -> Balance] :
        LET given == IF score = 0 THEN 0 ELSE SumFunction(reward)
        IN  /\ nodes \subseteq OverwatchNodes
            /\ OverwatchNodeStakeBalance' =
                 [n \in WatcherIds |-> IF n \in nodes /\ score # 0
                                       THEN SatAdd(OverwatchNodeStakeBalance[n], reward[n])
                                       ELSE OverwatchNodeStakeBalance[n]]
            /\ TotalOverwatchNodeStakeBalance' = SatAdd(TotalOverwatchNodeStakeBalance, given)
            /\ minted' = minted + given
  BY <1>1
<1>3. PICK reward, given :
        /\ reward \in [nodes -> Balance]
        /\ given = IF score = 0 THEN 0 ELSE SumFunction(reward)
        /\ nodes \subseteq OverwatchNodes
        /\ OverwatchNodeStakeBalance' =
             [n \in WatcherIds |-> IF n \in nodes /\ score # 0
                                   THEN SatAdd(OverwatchNodeStakeBalance[n], reward[n])
                                   ELSE OverwatchNodeStakeBalance[n]]
        /\ TotalOverwatchNodeStakeBalance' = SatAdd(TotalOverwatchNodeStakeBalance, given)
        /\ minted' = minted + given
  BY <1>2
<1>4. nodes \subseteq WatcherIds /\ 0 \in Balance /\ reward \in [nodes -> Balance]
  BY <1>3, MaxBalanceAssumption DEF WatchTypes
<1>5. PICK r : r = [n \in WatcherIds |-> IF n \in nodes /\ score # 0 THEN reward[n] ELSE 0]
  OBVIOUS
<1>6. r \in [WatcherIds -> Balance]
  BY <1>4, <1>5
<1>7. SumFunctionOnSet(r, WatcherIds) = given
  <2>1. CASE score = 0
    <3>1. \A n \in WatcherIds : r[n] = 0
      BY <1>5, <2>1
    <3> QED BY <1>3, <2>1, <3>1, FiniteWatchers, SumOfZeros
  <2>2. CASE score # 0
    <3>1. \A n \in WatcherIds \cap nodes : reward[n] \in Int /\ r[n] = reward[n]
      BY <1>4, <1>5, <2>2, MaxBalanceAssumption
    <3>2. \A n \in WatcherIds \ nodes : r[n] = 0
      BY <1>5
    <3>3. nodes \cap WatcherIds = nodes
      BY <1>4
    <3>4. SumFunctionOnSet(r, WatcherIds) = SumFunctionOnSet(reward, nodes \cap WatcherIds)
      BY <3>1, <3>2, FiniteWatchers, SumOfSome
    <3>5. SumFunction(reward) = SumFunctionOnSet(reward, nodes)
      BY <1>4, SumOver
    <3> QED BY <1>3, <2>2, <3>3, <3>4, <3>5
  <2> QED BY <2>1, <2>2
<1>8. ASSUME NEW n \in WatcherIds
      PROVE  OverwatchNodeStakeBalance'[n] = SatAdd(OverwatchNodeStakeBalance[n], r[n])
  <2>1. OverwatchNodeStakeBalance[n] \in Balance
    BY DEF WatchTypes
  <2>2. SatAdd(OverwatchNodeStakeBalance[n], 0) = OverwatchNodeStakeBalance[n]
    BY <2>1, MaxBalanceAssumption DEF SatAdd
  <2> HIDE DEF Balance
  <2> QED BY <1>3, <1>5, <2>2
<1>9. DOMAIN OverwatchNodeStakeBalance' = WatcherIds
  BY <1>3
<1> QED BY <1>3, <1>6, <1>7, <1>8, <1>9

(* A block that pays the overwatch nodes.                                  *)
LEMMA WatchersRewarded ==
  ASSUME WatchBooks, WatchFits, WatchStepFits, OverwatchBlock
  PROVE  WatchStep
<1>1. PICK r \in [WatcherIds -> Balance] :
        /\ \A n \in WatcherIds :
             OverwatchNodeStakeBalance'[n] = SatAdd(OverwatchNodeStakeBalance[n], r[n])
        /\ DOMAIN OverwatchNodeStakeBalance' = WatcherIds
        /\ TotalOverwatchNodeStakeBalance' =
             SatAdd(TotalOverwatchNodeStakeBalance, SumFunctionOnSet(r, WatcherIds))
        /\ minted' = minted + SumFunctionOnSet(r, WatcherIds)
  BY RewardsPaid DEF WatchBooks
<1>2. \A n \in WatcherIds : r[n] \in Nat
  BY MaxBalanceAssumption
<1>3. /\ SumFunctionOnSet(r, WatcherIds) \in Nat
      /\ \A n \in WatcherIds : r[n] <= SumFunctionOnSet(r, WatcherIds)
  BY <1>2, FiniteWatchers, SumOfNaturals
<1>4. PICK given \in Nat : given = SumFunctionOnSet(r, WatcherIds)
  BY <1>3
<1>5. minted' \in Nat /\ minted' - minted = given
  BY <1>1, <1>4, WatchFacts
<1>6. InWatchers + given <= MaxBalance
  <2>1. AllHeld + InWatchers + given <= MaxBalance
    BY <1>5 DEF WatchStepFits, WatchHeld
  <2>2. \A h, i, m \in Nat : h + i + given <= m => i + given <= m
    OBVIOUS
  <2> QED BY <2>1, <2>2, WatchFacts, MaxBalanceAssumption
<1>7. PICK f : f = OverwatchNodeStakeBalance
  OBVIOUS
<1>8. PICK g : g = OverwatchNodeStakeBalance'
  OBVIOUS
<1>9. ASSUME NEW n \in WatcherIds
      PROVE  f[n] \in Int /\ r[n] \in Int /\ g[n] = f[n] + r[n]
  <2>1. PICK i \in Nat, j \in Nat : /\ i = f[n] /\ j = r[n] /\ i <= InWatchers /\ j <= given
    BY <1>2, <1>3, <1>4, <1>7, InWatchersFacts DEF WatchBooks
  <2>2. i + j <= MaxBalance
    <3>1. \A w, m \in Nat : i <= w /\ w + given <= m => i + j <= m
      BY <2>1
    <3> QED BY <1>6, <2>1, <3>1, WatchFacts, MaxBalanceAssumption
  <2>3. g[n] = SatAdd(i, j)
    BY <1>1, <1>7, <1>8, <2>1
  <2> QED BY <2>1, <2>2, <2>3, Exact
<1>10. SumFunctionOnSet(g, WatcherIds) = SumFunctionOnSet(f, WatcherIds) + given
  BY <1>4, <1>9, FiniteWatchers, SumOfSums
<1>11. InWatchers' = InWatchers + given
  <2>1. InWatchers = SumFunctionOnSet(f, WatcherIds)
    BY <1>7, InWatchersFacts DEF WatchBooks
  <2>2. InWatchers' = SumFunctionOnSet(g, WatcherIds)
    BY <1>1, <1>8, SumOver DEF InWatchers
  <2> QED BY <1>10, <2>1, <2>2
<1>12. WatchTotals'
  <2>1. TotalOverwatchNodeStakeBalance' = SatAdd(InWatchers, given)
    BY <1>1, <1>4 DEF WatchBooks, WatchTotals
  <2> QED BY <1>6, <1>11, <2>1, Exact, WatchFacts DEF WatchTotals
<1>13. Books /\ LedgersBounded /\ Fits
  BY WatchFacts, NodeFacts DEF WatchBooks, NodeBooks
<1>14. /\ ~paused /\ block' = block + 1 /\ phase' = "swaps" /\ left' \in Nat
       /\ UNCHANGED <<poolVars, queueVars, bondVars, dropped, paused, live, free, lastTx,
                      keyVars, nodeVars>>
  BY StakingAssumption DEF OverwatchBlock
<1>15. HeldGains(0)
  <2>1. PoolsOK'
    BY <1>13, <1>14, FrameType DEF Books, Inv
  <2>2. /\ InPools' = InPools /\ \A k \in Kinds : total'[k] = KindTotal(k)'
        /\ \A q \in Pools : FairStep(q)
    BY <1>13, <1>14, SamePools DEF poolVars
  <2>3. InPools' = InPools + 0 /\ 0 \in Int
    BY <1>13, <2>2, BookFacts
  <2> QED BY <1>5, <1>13, <1>14, <2>1, <2>2, <2>3, BlockBooks
<1>16. 0 \in Int /\ given \in Int /\ 0 + given = minted' - minted
  BY <1>5
<1> HIDE DEF Balance
<1> QED BY <1>11, <1>12, <1>14, <1>15, <1>16, WatchTogether

(* Calls that leave every balance alone.                                   *)
LEMMA WatchersQuiet ==
  ASSUME WatchBooks, WatchFits, OnlyWatchers
  PROVE  WatchStep
<1>1. live' \subseteq Pools
  BY DEF WatchBooks, NodeBooks, Books, Inv, TypeOK, RestOK, OnlyWatchers
<1>2. DelegatesTyped'
  BY SameDelegatesTyped DEF WatchBooks, NodeBooks, OnlyWatchers
<1>3. /\ UNCHANGED <<poolVars, queueVars, bondVars, timeVars, histVars, paused, free, lastTx>>
      /\ UNCHANGED <<NodeSubnetStake, TotalSubnetStake, TotalStake, DelegateAccountStake,
                     TotalAccountDelegateStake, lost>>
      /\ UNCHANGED stakeVars
  BY DEF OnlyWatchers, nodeVars
<1>4. NodeStep
  BY <1>1, <1>2, <1>3, QuietStep, WatchFacts DEF WatchBooks
<1> QED BY <1>3, <1>4, WatchersRest

(* Claims, pauses and blocks that pay nothing are steps of delegate        *)
(* staking that transfer nothing.                                          *)
LEMMA WatchersStill ==
  ASSUME WatchBooks, WatchFits, WatchStepFits, UNCHANGED <<keyVars, nodeVars, watchVars>>,
         \/ \E a \in Accounts : claim_unbondings(a)
         \/ do_pause \/ do_unpause
         \/ NewBlock \/ NewBlockWhilePaused \/ HookDone
         \/ UNCHANGED vars
  PROVE  WatchStep
<1>1. [NoTransfer]_vars /\ [AnyNext]_vars
  BY DEF NoTransfer, AnyNext, AnyCall, AnyWithdrawal, Hook, Environment
<1>2. minted' \in Nat
  BY <1>1, MintedType, WatchFacts
<1>3. NodeStepFits
  <2>1. PICK i \in Int : i = minted' - minted
    BY <1>2, WatchFacts
  <2>2. \A h, w, m \in Nat : h + w + i <= m => h + i <= m
    OBVIOUS
  <2>3. AllHeld + InWatchers + i <= MaxBalance
    BY <2>1 DEF WatchStepFits, WatchHeld
  <2>4. AllHeld + i <= MaxBalance
    BY <2>2, <2>3, WatchFacts, MaxBalanceAssumption
  <2> QED BY <2>1, <2>4 DEF NodeStepFits, WatchStepFits
<1>4. NodeStep
  BY <1>1, <1>3, DelegateStep, WatchFacts DEF WatchBooks, OnlyDelegates
<1> QED BY <1>4, WatchersRest DEF watchVars

(* What other components do meanwhile.                                     *)
LEMMA MeanwhileStep ==
  ASSUME WatchBooks, KeyTypes, WatchFits, WatchStepFits, Meanwhile
  PROVE  WatchStep
<1>1. CASE \E a, k \in Accounts, v \in Validators :
             /\ update_validator_coldkey(a, v, k) \/ update_validator_hotkey(a, v, k)
             /\ UNCHANGED <<nodeVars, watchVars>>
  <2>1. KeyCalls /\ UNCHANGED <<nodeVars, watchVars>>
    BY <1>1 DEF KeyCalls
  <2>2. NodeStep
    BY <2>1, KeyStep, WatchFacts DEF WatchBooks
  <2> QED BY <2>1, <2>2, WatchersRest DEF watchVars
<1>2. CASE Removals /\ UNCHANGED watchVars
  <2>1. NodeStep
    BY <1>2, RemovalStep, WatchFacts DEF WatchBooks
  <2> QED BY <1>2, <2>1, WatchersRest DEF watchVars
<1>3. CASE \E a \in Accounts : claim_unbondings(a) /\ UNCHANGED <<keyVars, nodeVars, watchVars>>
  BY <1>3, WatchersStill
<1>4. CASE (do_pause \/ do_unpause) /\ UNCHANGED <<keyVars, nodeVars, watchVars>>
  BY <1>4, WatchersStill
<1> QED BY <1>1, <1>2, <1>3, <1>4 DEF Meanwhile

(* Every step moves tokens between the parts, mints or burns them.         *)
LEMMA WatchNextStep ==
  ASSUME WatchBooks, KeyTypes, WatchFits, WatchStepFits, [OverwatchNext]_systemVars
  PROVE  WatchStep
<1>1. StakeAmounts \subseteq Balance /\ EvmAmounts \subseteq Balance
  BY NodeAssumption, EvmAmountsFit
<1> HIDE DEF Balance
<1>2. ASSUME NEW n \in WatcherIds, NEW a, NEW h, NEW f,
             \/ remove_overwatch_node(a, n) \/ update_overwatch_hotkey(a, n, h)
             \/ commit_overwatch_subnet_weights(a, n, f)
             \/ reveal_overwatch_subnet_weights(a, n, f)
      PROVE  WatchStep
  BY <1>2, WatchersQuiet DEF remove_overwatch_node, update_overwatch_hotkey,
     commit_overwatch_subnet_weights, reveal_overwatch_subnet_weights, Reveals
<1>3. ASSUME NEW a \in Accounts, NEW x \in Balance, register_overwatch_node(a, x)
      PROVE  WatchStep
  <2>1. NextWatcherId \in WatcherIds
    BY <1>3 DEF register_overwatch_node
  <2> QED BY <1>3, <2>1, WatcherPays
<1>4. ASSUME NEW a \in Accounts, NEW n \in WatcherIds, NEW x \in Balance,
             add_overwatch_node_stake(a, n, x) \/ remove_overwatch_node_stake(a, n, x)
      PROVE  WatchStep
  BY <1>4, WatcherPays, WatcherUnbonds
<1>5. CASE OverwatchCalls
  BY <1>1, <1>2, <1>3, <1>4, <1>5 DEF OverwatchCalls
<1>6. CASE \E a \in Accounts : EvmOverwatchCalls1(a) \/ EvmOverwatchCalls2(a)
  BY <1>1, <1>2, <1>3, <1>4, <1>6 DEF EvmOverwatchCalls1, EvmOverwatchCalls2
<1>7. CASE CollectiveCalls
  BY <1>7, WatchersQuiet DEF CollectiveCalls, do_collective_remove_overwatch_node,
     do_set_overwatch_validator_whitelist, do_set_overwatch_epoch_length_multiplier,
     do_set_overwatch_commit_cutoff_percent
<1>8. CASE BlockHook
  BY <1>8, WatchersRewarded, WatchersStill DEF BlockHook, OtherBlock
<1>9. CASE UNCHANGED systemVars
  BY <1>9, WatchersStill DEF systemVars, allVars
<1> QED BY <1>5, <1>6, <1>7, <1>8, <1>9, MeanwhileStep DEF OverwatchNext

(* What was minted stays a number.                                         *)
LEMMA WatchMinted ==
  ASSUME minted \in Nat, WatchTypes, [OverwatchNext]_systemVars
  PROVE  minted' \in Nat
<1>1. OnlyWatchers => minted' = minted
  BY DEF OnlyWatchers, histVars
<1>2. ASSUME NEW a, NEW n, NEW x, NEW h, NEW f,
             \/ register_overwatch_node(a, x)
             \/ add_overwatch_node_stake(a, n, x) \/ remove_overwatch_node_stake(a, n, x)
             \/ remove_overwatch_node(a, n) \/ update_overwatch_hotkey(a, n, h)
             \/ commit_overwatch_subnet_weights(a, n, f)
             \/ reveal_overwatch_subnet_weights(a, n, f)
      PROVE  minted' = minted
  BY <1>1, <1>2 DEF register_overwatch_node, add_overwatch_node_stake,
     remove_overwatch_node_stake, remove_overwatch_node, update_overwatch_hotkey,
     commit_overwatch_subnet_weights, reveal_overwatch_subnet_weights, Reveals, histVars
<1>3. CASE OverwatchCalls \/ \E a \in Accounts : EvmOverwatchCalls1(a) \/ EvmOverwatchCalls2(a)
  BY <1>2, <1>3 DEF OverwatchCalls, EvmOverwatchCalls1, EvmOverwatchCalls2
<1>4. CASE CollectiveCalls
  BY <1>1, <1>4 DEF CollectiveCalls, do_collective_remove_overwatch_node,
     do_set_overwatch_validator_whitelist, do_set_overwatch_epoch_length_multiplier,
     do_set_overwatch_commit_cutoff_percent
<1>5. CASE OverwatchBlock
  <2>1. PICK r \in [WatcherIds -> Balance] : minted' = minted + SumFunctionOnSet(r, WatcherIds)
    BY <1>5, RewardsPaid
  <2>2. \A n \in WatcherIds : r[n] \in Nat
    BY MaxBalanceAssumption
  <2>3. SumFunctionOnSet(r, WatcherIds) \in Nat
    BY <2>2, FiniteWatchers, SumOfNaturals
  <2> QED BY <2>1, <2>3
<1>6. CASE OtherBlock \/ NewBlockWhilePaused \/ HookDone
  BY <1>6, MintedType DEF OtherBlock, AnyNext, Hook
<1>7. CASE Meanwhile
  <2>1. ASSUME NEW a, NEW v, NEW k, update_validator_coldkey(a, v, k)
                                    \/ update_validator_hotkey(a, v, k)
        PROVE  minted' = minted
    BY <2>1 DEF update_validator_coldkey, update_validator_hotkey, KeyCall, histVars
  <2>2. Removals => minted' = minted
    BY DEF Removals, remove_subnet, do_remove_subnet, perform_remove_subnet_node, histVars
  <2>3. \A a \in Accounts : claim_unbondings(a) => minted' \in Nat
    BY MintedType DEF AnyNext, AnyCall, AnyWithdrawal
  <2>4. do_pause \/ do_unpause => minted' \in Nat
    BY MintedType DEF AnyNext, Environment
  <2> QED BY <1>7, <2>1, <2>2, <2>3, <2>4 DEF Meanwhile
<1>8. CASE UNCHANGED systemVars
  BY <1>8 DEF systemVars, allVars, vars, histVars
<1> QED BY <1>3, <1>4, <1>5, <1>6, <1>7, <1>8 DEF OverwatchNext, BlockHook

(* The nodes of the subnets stay as they are, but for removals.            *)
LEMMA StepWatchNodes == NodeInv /\ [OverwatchNext]_systemVars => NodeInv'
<1> SUFFICES ASSUME NodeInv, [OverwatchNext]_systemVars PROVE NodeInv'
  OBVIOUS
<1>1. ASSUME UNCHANGED <<nodeVars, live>> PROVE NodeInv'
  BY <1>1, NodeFrame DEF nodeVars, SameValidators
<1>2. ASSUME NEW a, NEW x, register_overwatch_node(a, x)
      PROVE  UNCHANGED <<nodeVars, live>>
  BY <1>2 DEF register_overwatch_node
<1>3. ASSUME NEW a, NEW n, NEW x, add_overwatch_node_stake(a, n, x)
                                  \/ remove_overwatch_node_stake(a, n, x)
      PROVE  UNCHANGED <<nodeVars, live>>
  BY <1>3 DEF add_overwatch_node_stake, remove_overwatch_node_stake
<1>4. OnlyWatchers => UNCHANGED <<nodeVars, live>>
  BY DEF OnlyWatchers
<1>5. ASSUME NEW a, NEW n, NEW h, NEW f,
             \/ remove_overwatch_node(a, n) \/ update_overwatch_hotkey(a, n, h)
             \/ commit_overwatch_subnet_weights(a, n, f)
             \/ reveal_overwatch_subnet_weights(a, n, f)
      PROVE  UNCHANGED <<nodeVars, live>>
  BY <1>4, <1>5 DEF remove_overwatch_node, update_overwatch_hotkey,
     commit_overwatch_subnet_weights, reveal_overwatch_subnet_weights, Reveals
<1>6. CASE CollectiveCalls
  BY <1>1, <1>4, <1>6 DEF CollectiveCalls, do_collective_remove_overwatch_node,
     do_set_overwatch_validator_whitelist, do_set_overwatch_epoch_length_multiplier,
     do_set_overwatch_commit_cutoff_percent
<1>7. CASE BlockHook
  BY <1>1, <1>7 DEF BlockHook, OverwatchBlock, OtherBlock, NewBlock, NewBlockWhilePaused,
     HookDone
<1>8. CASE OverwatchCalls \/ \E a \in Accounts : EvmOverwatchCalls1(a) \/ EvmOverwatchCalls2(a)
  BY <1>1, <1>2, <1>3, <1>5, <1>8 DEF OverwatchCalls, EvmOverwatchCalls1, EvmOverwatchCalls2
<1>9. CASE Meanwhile
  <2>1. CASE Removals
    BY <2>1, SubnetKeepsNodes, LeavingKeepsNodes DEF Removals
  <2>2. ASSUME NEW a, NEW v, NEW k, update_validator_coldkey(a, v, k)
                                    \/ update_validator_hotkey(a, v, k)
        PROVE  UNCHANGED live
    BY <2>2 DEF update_validator_coldkey, update_validator_hotkey, KeyCall
  <2>3. ASSUME NEW a, claim_unbondings(a) \/ do_pause \/ do_unpause
        PROVE  UNCHANGED live
    BY <2>3 DEF claim_unbondings, do_pause, do_unpause
  <2> QED BY <1>1, <1>9, <2>1, <2>2, <2>3 DEF Meanwhile
<1>10. CASE UNCHANGED systemVars
  BY <1>1, <1>10 DEF systemVars, allVars, vars
<1> QED BY <1>6, <1>7, <1>8, <1>9, <1>10 DEF OverwatchNext

(* The first overwatch stakes.                                             *)
LEMMA InitWatched ==
  ASSUME OverwatchInit
  PROVE  /\ WatchTotals /\ InWatchers = Len(FirstWatchers) * OverwatchMinStakeBalance
         /\ Len(FirstWatchers) * OverwatchMinStakeBalance \in Nat
<1>1. WatchTypes
  BY InitWatchers DEF WatchInv
<1>2. PICK k \in Nat : k = Len(FirstWatchers) /\ k <= MaxWatchers /\ FirstIds = 1 .. k
  BY OverwatchAssumption DEF FirstIds
<1>3. PICK c \in Nat : c = OverwatchMinStakeBalance
  BY OverwatchAssumption, MaxBalanceAssumption
<1>4. PICK f : f = OverwatchNodeStakeBalance
  OBVIOUS
<1>5. f = [n \in WatcherIds |-> IF n \in 1 .. k THEN c ELSE 0]
  BY <1>2, <1>3, <1>4 DEF OverwatchInit
<1>6. 1 .. k \subseteq WatcherIds /\ \A n \in WatcherIds : f[n] \in Int
  BY <1>2, <1>5, OverwatchAssumption DEF WatcherIds
<1>7. SumFunctionOnSet(f, WatcherIds)
        = SumFunctionOnSet(f, 1 .. k) + SumFunctionOnSet(f, WatcherIds \ (1 .. k))
  BY <1>6, FiniteWatchers, SumSplit
<1>8. IsFiniteSet(1 .. k) /\ IsFiniteSet(WatcherIds \ (1 .. k))
  BY <1>6, FiniteWatchers, FS_Subset
<1>9. SumFunctionOnSet(f, WatcherIds \ (1 .. k)) = 0
  <2>1. \A n \in WatcherIds \ (1 .. k) : f[n] = 0
    BY <1>5
  <2> QED BY <1>8, <2>1, SumOfZeros
<1>10. SumFunctionOnSet(f, 1 .. k) = k * c
  <2>1. \A n \in 1 .. k : f[n] = c
    BY <1>5, <1>6
  <2>2. SumFunctionOnSet(f, 1 .. k) = Cardinality(1 .. k) * c
    BY <1>8, <2>1, SumConstant
  <2>3. 1 \in Int /\ k \in Int
    OBVIOUS
  <2>4. Cardinality(1 .. k) = IF 1 > k THEN 0 ELSE k - 1 + 1
    BY <2>3, FS_Interval
  <2>5. Cardinality(1 .. k) = k
    BY <2>4
  <2> QED BY <2>2, <2>5
<1>11. k * c \in Nat
  OBVIOUS
<1>12. InWatchers = k * c
  <2>1. InWatchers = SumFunctionOnSet(f, WatcherIds)
    BY <1>1, <1>4, InWatchersFacts
  <2> QED BY <1>7, <1>9, <1>10, <1>11, <2>1
<1> QED BY <1>2, <1>3, <1>11, <1>12 DEF OverwatchInit, WatchTotals

(* What there is at the start.                                             *)
FirstTokens ==
  Supply + SumFunction(InitialStake) + Len(FirstWatchers) * OverwatchMinStakeBalance

(* No sum reaches the end of u128: the tokens there ever were fit, and the *)
(* shares of every pool stay below it.                                     *)
WatchUnsaturated ==
  /\ FirstTokens + minted <= MaxBalance
  /\ \A p \in Pools : pool[p].shares < MaxBalance

WatchersHold == WatchHeld = FirstTokens + minted - dropped - lost

WatchBooksInv ==
  NodeBooks /\ WatchTotals /\ KeyInv /\ NodeInv /\ WatchInv /\ WatchersHold

(* Every step keeps them.                                                  *)
LEMMA WatchBooksStep ==
  ASSUME WatchBooksInv, WatchUnsaturated, WatchUnsaturated', FirstTokens \in Nat,
         [OverwatchNext]_systemVars
  PROVE  WatchBooksInv'
<1>1. WatchBooks /\ KeyTypes /\ WatchTypes
  BY DEF WatchBooksInv, WatchBooks, NodeInv, KeyInv, WatchInv
<1>2. minted \in Nat /\ dropped \in Nat /\ lost \in Nat
  BY DEF WatchBooksInv, NodeBooks, Books
<1>3. minted' \in Nat
  BY <1>1, <1>2, WatchMinted
<1>4. PICK S \in Nat : S = FirstTokens
  OBVIOUS
<1>5. FirstTokens' = S
  BY <1>4 DEF FirstTokens, Supply
<1>6. /\ WatchHeld = S + minted - dropped - lost
      /\ S + minted <= MaxBalance /\ S + minted' <= MaxBalance
  BY <1>4, <1>5 DEF WatchBooksInv, WatchersHold, WatchUnsaturated
<1>7. \A i, j, k, l, m \in Nat : i + j <= m => i + j - k - l <= m
  OBVIOUS
<1>8. WatchFits
  <2>1. WatchHeld <= MaxBalance
    BY <1>2, <1>6, <1>7, MaxBalanceAssumption
  <2> QED BY <2>1 DEF WatchFits, WatchUnsaturated
<1>9. WatchStepFits
  <2>1. WatchHeld + (minted' - minted) = S + minted' - dropped - lost
    BY <1>2, <1>3, <1>6
  <2>2. WatchHeld + (minted' - minted) <= MaxBalance
    BY <1>2, <1>3, <1>6, <1>7, <2>1, MaxBalanceAssumption
  <2> QED BY <2>2 DEF WatchStepFits, WatchUnsaturated
<1>10. WatchStep
  BY <1>1, <1>8, <1>9, WatchNextStep
<1>11. WatchersHold'
  <2>1. /\ WatchHeld' = WatchHeld + (minted' - minted) - (dropped' - dropped) - (lost' - lost)
        /\ dropped' \in Nat /\ lost' \in Nat
    BY <1>10 DEF WatchStep, NodeBooks, Books
  <2>2. WatchHeld' = S + minted' - dropped' - lost'
    BY <1>2, <1>3, <1>6, <2>1
  <2> QED BY <1>5, <2>2 DEF WatchersHold
<1>12. KeyInv' /\ NodeInv' /\ WatchInv'
  BY StepWatchKeys, StepWatchNodes, StepWatchers DEF WatchBooksInv
<1> QED BY <1>10, <1>11, <1>12 DEF WatchBooksInv, WatchStep

(***************************************************************************)
(* Every token is accounted for, those of overwatch stake too: nodes that  *)
(* register, add and withdraw stake, leave or are removed move it between  *)
(* accounts, overwatch stake and unbonding ledgers, each reward is minted  *)
(* once into the stake of its node, and TotalOverwatchNodeStakeBalance is  *)
(* the sum it stands for, while no sum reaches the end of u128             *)
(* (stake/overwatch_node_staking.rs, overwatch_nodes/).                    *)
(***************************************************************************)
THEOREM OverwatchStaysAccounted ==
  OverwatchSpec /\ []WatchUnsaturated => []OverwatchAccounted
<1>1. OverwatchInit => WatchBooksInv /\ FirstTokens \in Nat
  <2> SUFFICES ASSUME OverwatchInit PROVE WatchBooksInv /\ FirstTokens \in Nat
    OBVIOUS
  <2>1. NodeInit
    BY DEF OverwatchInit
  <2>2. /\ NodeBooks /\ AllHeld = Supply + SumFunction(InitialStake)
        /\ Supply \in Nat /\ minted = 0 /\ dropped = 0 /\ lost = 0
    BY <2>1, InitNodeBooks
  <2>3. SumFunction(InitialStake) \in Nat
    BY <2>1, InitTotals
  <2>4. /\ WatchTotals /\ InWatchers = Len(FirstWatchers) * OverwatchMinStakeBalance
        /\ Len(FirstWatchers) * OverwatchMinStakeBalance \in Nat
    BY InitWatched
  <2>5. FirstTokens \in Nat /\ WatchHeld = FirstTokens
    BY <2>2, <2>3, <2>4 DEF FirstTokens, WatchHeld
  <2>6. WatchersHold
    BY <2>2, <2>5 DEF WatchersHold
  <2> QED BY <2>1, <2>2, <2>4, <2>5, <2>6, InitKeys, InitNodes, InitWatchers DEF WatchBooksInv
<1>2. (WatchBooksInv /\ FirstTokens \in Nat) /\ WatchUnsaturated /\ WatchUnsaturated'
        /\ [OverwatchNext]_systemVars => (WatchBooksInv /\ FirstTokens \in Nat)'
  BY WatchBooksStep DEF FirstTokens, Supply
<1>3. WatchBooksInv => OverwatchAccounted
  <2> SUFFICES ASSUME WatchBooksInv PROVE OverwatchAccounted
    OBVIOUS
  <2>1. WatchTotals /\ WatchersHold
    BY DEF WatchBooksInv
  <2>2. InAccounts + InPools + InLedgers + InQueue + InNodes + SumFunction(DelegateAccountStake)
          + InWatchers = WatchHeld
    BY DEF WatchHeld, AllHeld, Held, InDelegates
  <2>3. WatchersSound
    BY WatchersFacts DEF WatchBooksInv
  <2> QED BY <2>1, <2>2, <2>3 DEF WatchersHold, FirstTokens, WatchTotals, OverwatchAccounted
<1> QED BY <1>1, <1>2, <1>3, PTL DEF OverwatchSpec
--------------------------------------------------------------------------------
(***************************************************************************)
(* Payments: shares of a whole.                                            *)
(***************************************************************************)

(* A quotient is rounded down, also where it is cut off at u128.           *)
LEMMA MulDivBelow ==
  ASSUME NEW x \in Nat, NEW y \in Nat, NEW z \in Nat, z > 0
  PROVE  MulDiv(x, y, z) \in Nat /\ z * MulDiv(x, y, z) <= x * y
<1>1. PICK p \in Nat : p = x * y
  OBVIOUS
<1>2. PICK q \in Nat : q = p \div z /\ z * q <= p
  BY <1>1, FloorDiv
<1>3. PICK m \in Nat : m = MulDiv(x, y, z) /\ m <= q
  <2>1. CASE q \in Balance
    BY <1>1, <1>2, <2>1 DEF MulDiv
  <2>2. CASE q \notin Balance
    BY <1>1, <1>2, <2>2, MaxBalanceAssumption DEF MulDiv
  <2> QED BY <2>1, <2>2
<1>4. z * m <= z * q
  BY <1>2, <1>3, Product
<1>5. PICK i \in Nat, j \in Nat : i = z * m /\ j = z * q
  OBVIOUS
<1> QED BY <1>1, <1>2, <1>3, <1>4, <1>5

(* The whole is at least one.                                              *)
LEMMA FullPositive == Full \in Nat /\ Full > 0
BY KeysAssumption

(* A part of a part.                                                       *)
LEMMA PercentBelow ==
  ASSUME NEW x \in Nat, NEW y \in Nat
  PROVE  percent_mul(x, y) \in Nat /\ Full * percent_mul(x, y) <= x * y
BY FullPositive, MulDivBelow DEF percent_mul

(* Cancelling a factor.                                                    *)
LEMMA Cancel ==
  ASSUME NEW x \in Nat, NEW y \in Nat, NEW z \in Nat, z > 0, z * x <= z * y
  PROVE  x <= y
<1> SUFFICES ASSUME x >= y + 1 PROVE FALSE
  OBVIOUS
<1>1. z * (y + 1) <= z * x
  BY Product
<1>2. z * (y + 1) = z * y + z
  OBVIOUS
<1>3. PICK i \in Nat, j \in Nat : i = z * x /\ j = z * y
  OBVIOUS
<1> QED BY <1>1, <1>2, <1>3

(* Saturating sums are at most the sum, and the sum where it fits.         *)
LEMMA SatSumFacts ==
  ASSUME NEW f, NEW S, IsFiniteSet(S), \A x \in S : f[x] \in Nat
  PROVE  /\ SatSum(f, S) \in Nat /\ SatSum(f, S) <= SumFunctionOnSet(f, S)
         /\ SumFunctionOnSet(f, S) <= MaxBalance => SatSum(f, S) = SumFunctionOnSet(f, S)
<1>1. PICK t \in Nat : t = SumFunctionOnSet(f, S)
  BY SumOfNaturals
<1>2. SatAdd(0, t) \in Nat /\ SatAdd(0, t) <= t /\ (t <= MaxBalance => SatAdd(0, t) = t)
  BY MaxBalanceAssumption DEF SatAdd
<1> QED BY <1>1, <1>2 DEF SatSum

(* The shares that parts have in their sum add up to at most the whole.    *)
LEMMA SharesOfWhole ==
  ASSUME NEW f, NEW S, IsFiniteSet(S), \A x \in S : f[x] \in Nat,
         NEW t, t = SumFunctionOnSet(f, S),
         NEW g, \A x \in S : g[x] = percent_div(f[x], t)
  PROVE  /\ \A x \in S : g[x] \in Nat
         /\ SumFunctionOnSet(g, S) \in Nat /\ SumFunctionOnSet(g, S) <= Full
<1>1. t \in Nat
  BY SumOfNaturals
<1>2. CASE t = 0
  <2>1. \A x \in S : g[x] = 0
    BY <1>2 DEF percent_div
  <2>2. SumFunctionOnSet(g, S) = 0
    BY <2>1, SumOfZeros
  <2> QED BY <2>1, <2>2, FullPositive
<1>3. CASE t # 0
  <2>1. ASSUME NEW x \in S
        PROVE  g[x] \in Nat /\ t * g[x] <= Full * f[x]
    <3>1. PICK y \in Nat : y = f[x]
      OBVIOUS
    <3>2. PICK m \in Nat : m = MulDiv(y, Full, t) /\ t * m <= y * Full
      <4>1. t \in Nat /\ Full \in Nat /\ t > 0
        BY <1>1, <1>3, FullPositive
      <4>2. MulDiv(y, Full, t) \in Nat /\ t * MulDiv(y, Full, t) <= y * Full
        BY <4>1, MulDivBelow, Zenon
      <4> QED BY <4>2, Zenon
    <3>3. g[x] = m
      BY <1>3, <3>1, <3>2 DEF percent_div
    <3>4. y * Full = Full * y
      BY FullPositive
    <3>5. t * m <= Full * y
      BY <3>2, <3>4
    <3> QED BY <3>1, <3>3, <3>5
  <2>2. SumFunctionOnSet(g, S) \in Nat
    BY <2>1, SumOfNaturals
  <2>3. \A x \in S : g[x] \in Int /\ f[x] \in Int /\ t * g[x] <= Full * f[x]
    BY <2>1
  <2>4. t * SumFunctionOnSet(g, S) <= Full * SumFunctionOnSet(f, S)
    BY <1>1, <2>3, FullPositive, SumOrdered
  <2>5. PICK u \in Nat : u = SumFunctionOnSet(g, S)
    BY <2>2
  <2>6. t * u <= t * Full
    <3>1. Full * t = t * Full
      BY <1>1, FullPositive
    <3> QED BY <2>4, <2>5, <3>1
  <2>7. u <= Full
    BY <1>1, <1>3, <2>6, Cancel, FullPositive
  <2> QED BY <2>1, <2>5, <2>7
<1> QED BY <1>2, <1>3

(* Parts of x by shares that add up to at most the whole are at most x.    *)
LEMMA PartsOf ==
  ASSUME NEW g, NEW S, IsFiniteSet(S), \A n \in S : g[n] \in Nat,
         SumFunctionOnSet(g, S) <= Full, NEW x \in Nat,
         NEW h, \A n \in S : h[n] = percent_mul(g[n], x)
  PROVE  SumFunctionOnSet(h, S) \in Nat /\ SumFunctionOnSet(h, S) <= x
<1>1. ASSUME NEW n \in S
      PROVE  h[n] \in Nat /\ g[n] \in Int /\ h[n] \in Int /\ Full * h[n] <= x * g[n]
  <2>1. PICK y \in Nat : y = g[n]
    OBVIOUS
  <2>2. percent_mul(y, x) \in Nat /\ Full * percent_mul(y, x) <= y * x
    BY PercentBelow
  <2>3. y * x = x * y
    OBVIOUS
  <2> QED BY <2>1, <2>2, <2>3
<1>2. SumFunctionOnSet(h, S) \in Nat /\ SumFunctionOnSet(g, S) \in Nat
  BY <1>1, SumOfNaturals
<1>3. Full * SumFunctionOnSet(h, S) <= x * SumFunctionOnSet(g, S)
  BY <1>1, FullPositive, SumOrdered
<1>4. PICK u \in Nat, v \in Nat : u = SumFunctionOnSet(h, S) /\ v = SumFunctionOnSet(g, S)
  BY <1>2
<1>5. Full * u <= Full * x
  <2>1. x * v <= x * Full
    BY <1>4, FullPositive, Product
  <2>2. x * Full = Full * x
    BY FullPositive
  <2>3. PICK i \in Nat, j \in Nat, k \in Nat : i = Full * u /\ j = x * v /\ k = Full * x
    BY FullPositive
  <2> QED BY <1>3, <1>4, <2>1, <2>2, <2>3
<1>6. u <= x
  BY <1>5, Cancel, FullPositive
<1> QED BY <1>4, <1>6

(* A sum over keys is at most the sum over what they lead to, where no two *)
(* lead to the same.                                                       *)
LEMMA SumOverImage ==
  ASSUME NEW K, NEW N, IsFiniteSet(K), IsFiniteSet(N), NEW m \in [K -> N],
         \A j, k \in K : m[j] = m[k] => j = k,
         NEW f, \A n \in N : f[n] \in Nat, NEW g, \A k \in K : g[k] = f[m[k]]
  PROVE  SumFunctionOnSet(g, K) <= SumFunctionOnSet(f, N)
<1> DEFINE Image(T) == {m[k] : k \in T}
           E(T) == SumFunctionOnSet(g, T)
           F(T) == SumFunctionOnSet(f, T)
           G == {T \in SUBSET K : E(T) = F(Image(T))}
<1>1. ASSUME NEW T \in SUBSET K, \A U \in SUBSET T : U # T => U \in G
      PROVE  T \in G
  <2>1. CASE T = {}
    <3>1. Image(T) = {}
      BY <2>1
    <3> QED BY <2>1, <3>1, SumOfNone
  <2>2. CASE T # {}
    <3>1. IsFiniteSet(T) /\ Pick(T) \in T /\ Rest(T) \in G /\ Rest(T) \in SUBSET T
      BY <1>1, <2>2, RestSmaller, FS_Subset
    <3>2. E(T) = g[Pick(T)] + E(Rest(T))
      BY <2>2, <3>1, SumStep
    <3>3. PICK n \in N : n = m[Pick(T)] /\ n \in Image(T)
      BY <3>1
    <3>4. Image(T) \ {n} = Image(Rest(T))
      <4>1. Rest(T) = T \ {Pick(T)}
        BY DEF Rest
      <4> QED BY <3>1, <3>3, <4>1
    <3>5. IsFiniteSet(Image(T)) /\ \A x \in Image(T) : f[x] \in Int
      <4>1. Image(T) \subseteq N
        OBVIOUS
      <4> QED BY <4>1, FS_Subset
    <3> HIDE DEF Image
    <3>6. F(Image(T)) = f[n] + F(Image(T) \ {n})
      BY <3>3, <3>5, SumAnyOrder
    <3>7. E(Rest(T)) = F(Image(Rest(T))) /\ g[Pick(T)] = f[n]
      BY <3>1, <3>3
    <3> QED BY <3>2, <3>4, <3>6, <3>7
  <2> QED BY <2>1, <2>2
<1> HIDE DEF G
<1>2. K \in G
  BY <1>1, FiniteInduction
<1>3. E(K) = F(Image(K)) /\ Image(K) \in SUBSET N
  BY <1>2 DEF G
<1> HIDE DEF Image
<1>4. F(Image(K)) <= F(N)
  BY <1>3, SumOfNaturals
<1> QED BY <1>3, <1>4

(* A closeness is at most the whole.                                       *)
LEMMA CloseBelow ==
  ASSUME NEW r \in Nat, NEW w \in Nat, r <= Full, w <= Full
  PROVE  LET p == percent_mul(Full - AbsDiff(r, w), w) IN p \in Nat /\ p <= Full
<1>1. PICK d \in Nat : d = AbsDiff(r, w) /\ d <= Full
  <2>1. CASE r >= w
    <3>1. r - w \in Nat /\ r - w <= Full
      BY <2>1, FullPositive
    <3> QED BY <2>1, <3>1 DEF AbsDiff
  <2>2. CASE ~(r >= w)
    <3>1. w - r \in Nat /\ w - r <= Full
      BY <2>2, FullPositive
    <3> QED BY <2>2, <3>1 DEF AbsDiff
  <2> QED BY <2>1, <2>2
<1>2. PICK x \in Nat : x = Full - d /\ x <= Full
  <2>1. Full - d \in Nat /\ Full - d <= Full
    BY <1>1, FullPositive
  <2> QED BY <2>1
<1>3. PICK p \in Nat : p = percent_mul(x, w) /\ Full * p <= x * w
  <2>1. percent_mul(x, w) \in Nat /\ Full * percent_mul(x, w) <= x * w
    BY PercentBelow
  <2> QED BY <2>1, Zenon
<1>4. x * w <= Full * w /\ Full * w <= Full * Full
  BY <1>2, FullPositive, Product
<1>5. PICK h \in Nat, i \in Nat, j \in Nat, k \in Nat :
        h = Full * p /\ i = x * w /\ j = Full * w /\ k = Full * Full
  BY FullPositive
<1>6. Full * p <= Full * Full
  BY <1>3, <1>4, <1>5
<1>7. p <= Full
  BY <1>6, FullPositive, Cancel
<1> QED BY <1>1, <1>2, <1>3, <1>7

(* A sum of numbers up to c, one for each of some of S, is at most c for   *)
(* each of S.                                                              *)
LEMMA SumBound ==
  ASSUME NEW K, NEW S, IsFiniteSet(K), IsFiniteSet(S), NEW m \in [K -> S],
         \A j, k \in K : m[j] = m[k] => j = k,
         NEW c \in Nat, NEW f, \A k \in K : f[k] \in Nat /\ f[k] <= c
  PROVE  /\ SumFunctionOnSet(f, K) \in Nat /\ Cardinality(S) \in Nat
         /\ SumFunctionOnSet(f, K) <= Cardinality(S) * c
<1>1. PICK g : g = [k \in K |-> c]
  OBVIOUS
<1>2. PICK h : h = [s \in S |-> c]
  OBVIOUS
<1>3. /\ SumFunctionOnSet(f, K) \in Nat /\ SumFunctionOnSet(g, K) \in Nat
      /\ SumFunctionOnSet(h, S) \in Nat
  BY <1>1, <1>2, SumOfNaturals
<1>4. 1 * SumFunctionOnSet(f, K) <= 1 * SumFunctionOnSet(g, K)
  <2>1. \A k \in K : f[k] \in Int /\ g[k] \in Int /\ 1 * f[k] <= 1 * g[k]
    BY <1>1
  <2>2. 1 \in Nat
    OBVIOUS
  <2> QED BY <2>1, <2>2, SumOrdered
<1>5. SumFunctionOnSet(g, K) <= SumFunctionOnSet(h, S)
  <2>1. (\A s \in S : h[s] \in Nat) /\ \A k \in K : g[k] = h[m[k]]
    BY <1>1, <1>2
  <2> QED BY <2>1, SumOverImage
<1>6. SumFunctionOnSet(h, S) = Cardinality(S) * c
  <2>1. \A s \in S : h[s] = c
    BY <1>2
  <2> QED BY <2>1, SumConstant
<1>7. Cardinality(S) \in Nat
  BY FS_CardinalityType
<1>8. PICK i \in Nat, j \in Nat, k \in Nat :
        /\ i = SumFunctionOnSet(f, K) /\ j = SumFunctionOnSet(g, K)
        /\ k = SumFunctionOnSet(h, S)
  BY <1>3
<1>9. i <= k
  BY <1>4, <1>5, <1>8
<1> QED BY <1>6, <1>7, <1>8, <1>9

(* A share in a total that is at least as large is at most the whole, and  *)
(* a part of an amount by such a share is at most the amount.              *)
LEMMA ShareBelow ==
  ASSUME NEW x \in Nat, NEW t \in Nat, x <= t
  PROVE  percent_div(x, t) \in Nat /\ percent_div(x, t) <= Full
<1>1. CASE t = 0
  BY <1>1, FullPositive DEF percent_div
<1>2. CASE t # 0
  <2>1. PICK m \in Nat : m = percent_div(x, t) /\ t * m <= x * Full
    <3>1. Full \in Nat /\ t > 0
      BY <1>2, FullPositive
    <3>2. MulDiv(x, Full, t) \in Nat /\ t * MulDiv(x, Full, t) <= x * Full
      BY <3>1, MulDivBelow, Zenon
    <3> QED BY <1>2, <3>2 DEF percent_div
  <2>2. x * Full <= t * Full
    BY FullPositive, Product
  <2>3. PICK i \in Nat, j \in Nat, k \in Nat : i = t * m /\ j = x * Full /\ k = t * Full
    BY FullPositive
  <2>4. t * m <= t * Full
    BY <2>1, <2>2, <2>3
  <2>5. m <= Full
    BY <1>2, <2>4, Cancel, FullPositive
  <2> QED BY <2>1, <2>5
<1> QED BY <1>1, <1>2

(* A part of an amount by a share of at most the whole.                    *)
LEMMA PartBelow ==
  ASSUME NEW x \in Nat, NEW y \in Nat, y <= Full
  PROVE  percent_mul(x, y) \in Nat /\ percent_mul(x, y) <= x
<1>1. PICK p \in Nat : p = percent_mul(x, y) /\ Full * p <= x * y
  <2>1. percent_mul(x, y) \in Nat /\ Full * percent_mul(x, y) <= x * y
    BY PercentBelow
  <2> QED BY <2>1, Zenon
<1>2. x * y <= x * Full /\ x * Full = Full * x
  BY FullPositive, Product
<1>3. PICK i \in Nat, j \in Nat, k \in Nat : i = Full * p /\ j = x * y /\ k = Full * x
  BY FullPositive
<1>4. Full * p <= Full * x
  BY <1>1, <1>2, <1>3
<1>5. p <= x
  BY <1>4, Cancel, FullPositive
<1> QED BY <1>1, <1>5

(* The parts that stakes have in what is revealed, and the weight w of a   *)
(* subnet that those of K add up to.                                       *)
Weighed(heard, nodes, R, power, share, part, K, w) ==
  /\ IsFiniteSet(heard) /\ IsFiniteSet(nodes)
  /\ \A k \in heard : k[2] \in nodes /\ R[k] \in Nat
  /\ \A n \in nodes : power[n] \in Nat /\ power[n] <= MaxBalance
  /\ \A n \in nodes : share[n] = percent_div(power[n], SatSum(power, nodes))
  /\ \A k \in heard : part[k] = percent_mul(R[k], share[k[2]])
  /\ K \in SUBSET heard
  /\ w = IF SatSum(part, K) > Full THEN Full ELSE SatSum(part, K)

(* The weight a subnet gets is at most the whole and at most all that was  *)
(* revealed for it, also where the total of the powers is cut off: no      *)
(* single power is above the total then either.                            *)
LEMMA FairWeight ==
  ASSUME NEW heard, NEW nodes, NEW R, NEW power, NEW share, NEW part, NEW K, NEW w,
         Weighed(heard, nodes, R, power, share, part, K, w)
  PROVE  /\ w \in Nat /\ w <= Full
         /\ SumFunctionOnSet(R, K) \in Nat /\ w <= SumFunctionOnSet(R, K)
<1> SUFFICES ASSUME IsFiniteSet(heard), IsFiniteSet(nodes),
                    \A k \in heard : k[2] \in nodes /\ R[k] \in Nat,
                    \A n \in nodes : power[n] \in Nat /\ power[n] <= MaxBalance,
                    \A n \in nodes : share[n] = percent_div(power[n], SatSum(power, nodes)),
                    \A k \in heard : part[k] = percent_mul(R[k], share[k[2]]),
                    K \in SUBSET heard,
                    NEW sum, sum = SatSum(part, K),
                    w = IF sum > Full THEN Full ELSE sum
             PROVE  /\ w \in Nat /\ w <= Full
                    /\ SumFunctionOnSet(R, K) \in Nat /\ w <= SumFunctionOnSet(R, K)
  BY Zenon DEF Weighed
<1>1. IsFiniteSet(K) /\ \A k \in K : k \in heard
  BY FS_Subset
<1>2. PICK t \in Nat : t = SatSum(power, nodes) /\ \A n \in nodes : power[n] <= t
  <2>1. PICK p \in Nat : p = SumFunctionOnSet(power, nodes) /\ \A n \in nodes : power[n] <= p
    BY SumOfNaturals
  <2>2. SatAdd(0, p) \in Nat /\ \A x \in Nat : x <= p /\ x <= MaxBalance => x <= SatAdd(0, p)
    BY MaxBalanceAssumption DEF SatAdd
  <2> QED BY <2>1, <2>2 DEF SatSum
<1>3. ASSUME NEW n \in nodes PROVE share[n] \in Nat /\ share[n] <= Full
  <2>1. PICK x \in Nat : x = power[n] /\ x <= t
    BY <1>2
  <2>2. percent_div(x, t) \in Nat /\ percent_div(x, t) <= Full
    BY <2>1, ShareBelow
  <2> QED BY <1>2, <2>1, <2>2
<1>4. ASSUME NEW k \in K PROVE part[k] \in Nat /\ R[k] \in Nat /\ part[k] <= R[k]
  <2>1. PICK x \in Nat, y \in Nat : x = R[k] /\ y = share[k[2]] /\ y <= Full
    BY <1>1, <1>3
  <2>2. percent_mul(x, y) \in Nat /\ percent_mul(x, y) <= x
    BY <2>1, PartBelow
  <2> QED BY <1>1, <2>1, <2>2
<1>5. /\ sum \in Nat /\ sum <= SumFunctionOnSet(part, K)
      /\ SumFunctionOnSet(part, K) \in Nat /\ SumFunctionOnSet(R, K) \in Nat
  BY <1>1, <1>4, SatSumFacts, SumOfNaturals
<1>6. w \in Nat /\ w <= Full /\ w <= sum
  <2>1. CASE sum > Full
    BY <1>5, <2>1, FullPositive
  <2>2. CASE ~(sum > Full)
    BY <1>5, <2>2, FullPositive
  <2> QED BY <2>1, <2>2
<1>7. 1 * SumFunctionOnSet(part, K) <= 1 * SumFunctionOnSet(R, K)
  <2>1. \A k \in K : part[k] \in Int /\ R[k] \in Int /\ 1 * part[k] <= 1 * R[k]
    BY <1>4
  <2>2. 1 \in Nat
    OBVIOUS
  <2> QED BY <1>1, <2>1, <2>2, SumOrdered
<1>8. PICK i \in Nat, j \in Nat : i = SumFunctionOnSet(part, K) /\ j = SumFunctionOnSet(R, K)
  BY <1>5
<1> QED BY <1>5, <1>6, <1>7, <1>8

(* The scores of the nodes, and what each is rewarded with.                *)
Scored(heard, nodes, close, score, all, reward) ==
  /\ IsFiniteSet(heard) /\ nodes \subseteq WatcherIds
  /\ \A k \in heard : k[3] \in Subnets /\ close[k] \in Nat /\ close[k] <= Full
  /\ \A j, k \in heard : j[2] = k[2] /\ j[3] = k[3] => j = k
  /\ \A n \in nodes : score[n] = SatSum(close, {k \in heard : k[2] = n})
  /\ all = SatSum(score, nodes)
  /\ \A n \in nodes : reward[n] = percent_mul(percent_div(score[n], all),
                                              OverwatchEpochEmissions)

(* What is paid out is at most the emission of the epoch.                  *)
LEMMA FairRewards ==
  ASSUME NEW heard, NEW nodes, NEW close, NEW score, NEW all, NEW reward,
         Scored(heard, nodes, close, score, all, reward)
  PROVE  /\ SumFunctionOnSet(reward, nodes) \in Nat
         /\ SumFunctionOnSet(reward, nodes) <= OverwatchEpochEmissions
<1> SUFFICES ASSUME IsFiniteSet(heard), nodes \subseteq WatcherIds,
                    \A k \in heard : k[3] \in Subnets /\ close[k] \in Nat /\ close[k] <= Full,
                    \A j, k \in heard : j[2] = k[2] /\ j[3] = k[3] => j = k,
                    \A n \in nodes : score[n] = SatSum(close, {k \in heard : k[2] = n}),
                    all = SatSum(score, nodes),
                    \A n \in nodes : reward[n] = percent_mul(percent_div(score[n], all),
                                                             OverwatchEpochEmissions)
             PROVE  /\ SumFunctionOnSet(reward, nodes) \in Nat
                    /\ SumFunctionOnSet(reward, nodes) <= OverwatchEpochEmissions
  BY Zenon DEF Scored
<1>1. PICK c \in Nat : c = Cardinality(Subnets) * Full
  <2>1. Cardinality(Subnets) \in Nat
    BY StakingAssumption, FS_CardinalityType
  <2> QED BY <2>1, FullPositive
<1>2. ASSUME NEW n \in nodes PROVE score[n] \in Nat /\ score[n] <= c
  <2>1. PICK K : K = {k \in heard : k[2] = n}
    OBVIOUS
  <2>2. IsFiniteSet(K) /\ \A k \in K : k \in heard /\ k[2] = n
    BY <2>1, FS_Subset
  <2>3. PICK m : m = [k \in K |-> k[3]]
    OBVIOUS
  <2>4. /\ m \in [K -> Subnets]
        /\ \A k \in K : close[k] \in Nat /\ close[k] <= Full
        /\ \A j, k \in K : m[j] = m[k] => j = k
    BY <2>2, <2>3
  <2>5. SumFunctionOnSet(close, K) \in Nat /\ SumFunctionOnSet(close, K) <= c
    BY <1>1, <2>2, <2>4, FullPositive, StakingAssumption, SumBound
  <2>6. SatSum(close, K) \in Nat /\ SatSum(close, K) <= SumFunctionOnSet(close, K)
    BY <2>2, <2>4, SatSumFacts
  <2>7. \A x, y \in Nat : x <= y /\ y <= c => x <= c
    OBVIOUS
  <2>8. score[n] = SatSum(close, K)
    BY <2>1
  <2> QED BY <2>5, <2>6, <2>7, <2>8
<1>3. IsFiniteSet(nodes)
  BY FiniteWatchers, FS_Subset
<1>4. all = SumFunctionOnSet(score, nodes)
  <2>1. PICK m : m = [n \in nodes |-> n]
    OBVIOUS
  <2>2. /\ m \in [nodes -> WatcherIds]
        /\ \A j, k \in nodes : m[j] = m[k] => j = k
    BY <2>1
  <2>3. /\ SumFunctionOnSet(score, nodes) \in Nat
        /\ SumFunctionOnSet(score, nodes) <= Cardinality(WatcherIds) * c
    BY <1>2, <1>3, <2>2, FiniteWatchers, SumBound
  <2>4. Cardinality(WatcherIds) = MaxWatchers
    <3>1. 1 \in Int /\ MaxWatchers \in Int /\ MaxWatchers \in Nat
      BY OverwatchAssumption
    <3> QED BY <3>1, FS_Interval DEF WatcherIds
  <2>5. SumFunctionOnSet(score, nodes) <= MaxBalance
    <3>1. MaxWatchers * c <= MaxBalance /\ MaxWatchers \in Nat /\ MaxBalance \in Nat
      BY <1>1, WidthAssumption, OverwatchAssumption, MaxBalanceAssumption
    <3>2. PICK p \in Nat : p = MaxWatchers * c
      BY <3>1
    <3> QED BY <2>3, <2>4, <3>1, <3>2
  <2> QED BY <1>2, <1>3, <2>5, SatSumFacts
<1>5. PICK g : g = [n \in nodes |-> percent_div(score[n], all)]
  OBVIOUS
<1>6. /\ \A n \in nodes : g[n] \in Nat
      /\ SumFunctionOnSet(g, nodes) <= Full
  <2>1. /\ \A n \in nodes : score[n] \in Nat
        /\ \A n \in nodes : g[n] = percent_div(score[n], all)
    BY <1>2, <1>5
  <2> QED BY <1>3, <1>4, <2>1, SharesOfWhole
<1>7. \A n \in nodes : reward[n] = percent_mul(g[n], OverwatchEpochEmissions)
  BY <1>5
<1>8. OverwatchEpochEmissions \in Nat
  BY OverwatchAssumption, MaxBalanceAssumption
<1> QED BY <1>3, <1>6, <1>7, <1>8, PartsOf

(* What is revealed is a weight of a node for a subnet in an epoch.        *)
TypedReveals(R) == \A k \in DOMAIN R :
  /\ \E e \in Nat, n \in WatcherIds, s \in Subnets : k = <<e, n, s>>
  /\ R[k] \in Nat
RevealsTyped == TypedReveals(OverwatchReveals)

(* The keys of R for epoch e and subnet s.                                 *)
KeysFor(R, e, s) == {r \in DOMAIN R : r[1] = e /\ r[3] = s}

(* A weight of epoch k[1] for subnet k[2] is within what it may be.        *)
WeightWithin(R, k, w) ==
  w \in Nat /\ w <= Full /\ w <= SumFunctionOnSet(R, KeysFor(R, k[1], k[2]))
WeightsWithin == \A k \in DOMAIN OverwatchSubnetWeights :
  WeightWithin(OverwatchReveals, k, OverwatchSubnetWeights[k])

(* H holds keys of the epoch e.                                            *)
OfEpoch(H, e) == \A k \in H : \E n \in WatcherIds, s \in Subnets : k = <<e, n, s>>

(* The keys of an epoch: one for a node and a subnet, finitely many.       *)
LEMMA KeysOfEpoch ==
  ASSUME NEW H, NEW e, OfEpoch(H, e)
  PROVE  /\ IsFiniteSet(H)
         /\ \A j, k \in H : j[2] = k[2] /\ j[3] = k[3] => j = k
<1> SUFFICES ASSUME \A k \in H : \E n \in WatcherIds, s \in Subnets : k = <<e, n, s>>
             PROVE  /\ IsFiniteSet(H)
                    /\ \A j, k \in H : j[2] = k[2] /\ j[3] = k[3] => j = k
  BY DEF OfEpoch
<1>1. ASSUME NEW j \in H, NEW k \in H, j[2] = k[2], j[3] = k[3]
      PROVE  j = k
  <2>1. PICK n \in WatcherIds, s \in Subnets : j = <<e, n, s>>
    OBVIOUS
  <2>2. PICK m \in WatcherIds, t \in Subnets : k = <<e, m, t>>
    OBVIOUS
  <2> QED BY <1>1, <2>1, <2>2
<1>2. PICK T : T = WatcherIds \X Subnets
  OBVIOUS
<1>3. IsFiniteSet(T)
  BY <1>2, FiniteWatchers, StakingAssumption, FS_Product
<1>4. PICK f : f = [k \in H |-> <<k[2], k[3]>>]
  OBVIOUS
<1>5. ASSUME NEW k \in H PROVE f[k] \in T /\ f[k] = <<k[2], k[3]>>
  <2>1. PICK n \in WatcherIds, s \in Subnets : k = <<e, n, s>>
    OBVIOUS
  <2> QED BY <1>2, <1>4, <2>1
<1>6. f \in [H -> T]
  BY <1>4, <1>5
<1>7. f \in Injection(H, T)
  <2>1. ASSUME NEW j \in H, NEW k \in H, f[j] = f[k] PROVE j = k
    <3>1. j[2] = k[2] /\ j[3] = k[3]
      BY <1>5, <2>1
    <3> QED BY <1>1, <3>1
  <2> QED BY <1>6, <2>1 DEF Injection, IsInjective
<1> QED BY <1>1, <1>3, <1>7, FS_Injection

(* What is revealed for a subnet in an epoch is a finite set of numbers.   *)
LEMMA RevealedFinite ==
  ASSUME NEW R, TypedReveals(R), NEW e, NEW s
  PROVE  /\ IsFiniteSet(KeysFor(R, e, s)) /\ \A r \in KeysFor(R, e, s) : R[r] \in Nat
         /\ SumFunctionOnSet(R, KeysFor(R, e, s)) \in Nat
         /\ \A K \in SUBSET KeysFor(R, e, s) :
              /\ SumFunctionOnSet(R, K) \in Nat
              /\ SumFunctionOnSet(R, K) <= SumFunctionOnSet(R, KeysFor(R, e, s))
<1>1. PICK M : M = KeysFor(R, e, s)
  OBVIOUS
<1>2. ASSUME NEW r \in M
      PROVE  /\ \E n \in WatcherIds, u \in Subnets : r = <<e, n, u>>
             /\ R[r] \in Nat
  <2>1. r \in DOMAIN R /\ r[1] = e
    BY <1>1 DEF KeysFor
  <2>2. PICK d \in Nat, n \in WatcherIds, u \in Subnets : r = <<d, n, u>>
    BY <2>1 DEF TypedReveals
  <2>3. R[r] \in Nat
    BY <2>1 DEF TypedReveals
  <2> QED BY <2>1, <2>2, <2>3
<1>3. OfEpoch(M, e)
  BY <1>2 DEF OfEpoch
<1>4. IsFiniteSet(M)
  BY <1>3, KeysOfEpoch
<1>5. /\ SumFunctionOnSet(R, M) \in Nat
      /\ \A K \in SUBSET M : SumFunctionOnSet(R, K) \in Nat
                             /\ SumFunctionOnSet(R, K) <= SumFunctionOnSet(R, M)
  BY <1>2, <1>4, SumOfNaturals
<1> QED BY <1>1, <1>2, <1>4, <1>5

(* A payment is within the emission, and the weights it sets are within    *)
(* what was revealed.                                                      *)
LEMMA EpochPaid ==
  ASSUME WatchTypes, RevealsTyped, RevealsMatchCommits, OverwatchBlock
  PROVE  \E e, new : \E given \in Nat :
           /\ e = SatSub(OverwatchEpochAt(block'), 1)
           /\ given <= OverwatchEpochEmissions
           /\ paid' = Put(paid, e, given + IF e \in DOMAIN paid THEN paid[e] ELSE 0)
           /\ OverwatchSubnetWeights' = With(OverwatchSubnetWeights, new)
           /\ \A k \in DOMAIN new : WeightWithin(OverwatchReveals, k, new[k])
<1> DEFINE e == SatSub(OverwatchEpochAt(block'), 1)
           R == OverwatchReveals
           Nodes == OverwatchNodes
           Stakes == OverwatchNodeStakeBalance
           heard == {k \in DOMAIN R : k[1] = e /\ k[2] \in Nodes}
           nodes == {k[2] : k \in heard}
           power == [n \in nodes |-> StakePower(Stakes[n])]
           share == [n \in nodes |-> percent_div(power[n], SatSum(power, nodes))]
           judged == {k[3] : k \in heard}
           part == [k \in heard |-> percent_mul(R[k], share[k[2]])]
           sum == [s \in judged |-> SatSum(part, {k \in heard : k[3] = s})]
           weight == [s \in judged |-> IF sum[s] > Full THEN Full ELSE sum[s]]
           close == [k \in heard |->
                       percent_mul(Full - AbsDiff(R[k], weight[k[3]]), weight[k[3]])]
           score == [n \in nodes |-> SatSum(close, {k \in heard : k[2] = n})]
           total_score == SatSum(score, nodes)
           reward == [n \in nodes |->
                        percent_mul(percent_div(score[n], total_score), OverwatchEpochEmissions)]
           given == IF total_score = 0 THEN 0 ELSE SumFunction(reward)
           new == [k \in {<<e, s>> : s \in judged} |-> weight[k[2]]]
<1>3. /\ OverwatchSubnetWeights' = With(OverwatchSubnetWeights, new)
      /\ paid' = Put(paid, e, given + IF e \in DOMAIN paid THEN paid[e] ELSE 0)
  BY Zenon DEF OverwatchBlock, calculate_overwatch_rewards
<1> HIDE DEF e
<1>4. ASSUME NEW k \in heard
      PROVE  /\ \E n \in WatcherIds, s \in Subnets : k = <<e, n, s>>
             /\ k \in DOMAIN R /\ R[k] \in Nat /\ R[k] <= Full
             /\ k[2] \in WatcherIds /\ k[2] \in Nodes /\ k[3] \in Subnets
  <2>1. k \in DOMAIN OverwatchReveals /\ k[1] = e /\ k[2] \in Nodes
    OBVIOUS
  <2>2. PICK d \in Nat, n \in WatcherIds, s \in Subnets : k = <<d, n, s>>
    BY <2>1 DEF RevealsTyped, TypedReveals
  <2>3. k = <<e, n, s>> /\ k[2] = n /\ k[3] = s
    BY <2>1, <2>2
  <2>4. R[k] \in Nat /\ R[k] <= Full
    BY <2>1 DEF RevealsTyped, TypedReveals, RevealsMatchCommits
  <2> QED BY <2>1, <2>3, <2>4
<1>5. /\ IsFiniteSet(heard)
      /\ \A j, k \in heard : j[2] = k[2] /\ j[3] = k[3] => j = k
  <2>1. \A k \in heard : \E n \in WatcherIds, s \in Subnets : k = <<e, n, s>>
    BY <1>4
  <2> HIDE DEF heard
  <2>2. PICK H, d : H = heard /\ d = e
    OBVIOUS
  <2>3. OfEpoch(H, d)
    BY <2>1, <2>2 DEF OfEpoch
  <2>4. /\ IsFiniteSet(H)
        /\ \A j, k \in H : j[2] = k[2] /\ j[3] = k[3] => j = k
    BY <2>3, KeysOfEpoch
  <2> QED BY <2>2, <2>4
<1>6. /\ nodes \subseteq WatcherIds /\ nodes \subseteq Nodes
      /\ \A k \in heard : k[2] \in nodes /\ k[3] \in judged
  BY <1>4
<1>7. \A s \in judged : \E k \in heard : k[3] = s
  OBVIOUS
<1> HIDE DEF heard, nodes, judged
<1>8. IsFiniteSet(nodes)
  BY <1>6, FiniteWatchers, FS_Subset
<1>9. \A n \in nodes : power[n] \in Nat /\ power[n] <= MaxBalance
  <2>1. Nodes \subseteq WatcherIds /\ Stakes \in [WatcherIds -> Balance]
    BY DEF WatchTypes
  <2>2. \A n \in WatcherIds : StakePower(Stakes[n]) \in Balance
    BY <2>1, WidthAssumption
  <2> QED BY <1>6, <2>2, MaxBalanceAssumption
<1>10. ASSUME NEW s \in judged
       PROVE  /\ weight[s] \in Nat /\ weight[s] <= Full
              /\ LET K == {k \in heard : k[3] = s}
                 IN  SumFunctionOnSet(R, K) \in Nat /\ weight[s] <= SumFunctionOnSet(R, K)
  <2>1. PICK K : K = {k \in heard : k[3] = s}
    OBVIOUS
  <2>2. PICK x, w : x = SatSum(part, K) /\ w = (IF x > Full THEN Full ELSE x)
    OBVIOUS
  <2>3. weight[s] = w
    <3> HIDE DEF part
    <3> QED BY <2>1, <2>2
  <2>4. /\ \A n \in nodes : share[n] = percent_div(power[n], SatSum(power, nodes))
        /\ \A k \in heard : part[k] = percent_mul(R[k], share[k[2]])
        /\ \A k \in heard : R[k] \in Nat
        /\ K \in SUBSET heard
    <3>1. \A n \in nodes : share[n] = percent_div(power[n], SatSum(power, nodes))
      <4> HIDE DEF power
      <4> QED OBVIOUS
    <3>2. \A k \in heard : part[k] = percent_mul(R[k], share[k[2]])
      <4> HIDE DEF share
      <4> QED OBVIOUS
    <3> HIDE DEF share, part
    <3> QED BY <1>4, <2>1, <3>1, <3>2
  <2> HIDE DEF power, share, part, weight
  <2>5. PICK H, N, P, Q, S, T : H = heard /\ N = nodes /\ P = R /\ Q = power /\ S = share
                                /\ T = part
    OBVIOUS
  <2>6. Weighed(heard, nodes, R, power, share, part, K, w)
    BY <1>5, <1>6, <1>8, <1>9, <2>2, <2>4, Zenon DEF Weighed
  <2> HIDE DEF R
  <2>7. Weighed(H, N, P, Q, S, T, K, w)
    BY <2>5, <2>6
  <2>8. /\ w \in Nat /\ w <= Full
        /\ SumFunctionOnSet(P, K) \in Nat /\ w <= SumFunctionOnSet(P, K)
    BY <2>7, FairWeight, Zenon
  <2> QED BY <2>1, <2>3, <2>5, <2>8
<1> HIDE DEF weight
<1>11. ASSUME NEW k \in heard PROVE close[k] \in Nat /\ close[k] <= Full
  <2>0. k[3] \in judged /\ R[k] \in Nat /\ R[k] <= Full
    BY <1>4, <1>6
  <2>1. PICK r \in Nat, w \in Nat : r = R[k] /\ w = weight[k[3]] /\ r <= Full /\ w <= Full
    <3>1. weight[k[3]] \in Nat /\ weight[k[3]] <= Full
      BY <1>10, <2>0, Zenon
    <3> QED BY <2>0, <3>1
  <2>2. close[k] = percent_mul(Full - AbsDiff(r, w), w)
    BY <2>1
  <2> HIDE DEF close
  <2>3. LET p == percent_mul(Full - AbsDiff(r, w), w) IN p \in Nat /\ p <= Full
    BY <2>1, CloseBelow
  <2> QED BY <2>2, <2>3
<1>12. /\ SumFunctionOnSet(reward, nodes) \in Nat
       /\ SumFunctionOnSet(reward, nodes) <= OverwatchEpochEmissions
  <2>1. \A n \in nodes : score[n] = SatSum(close, {k \in heard : k[2] = n})
    <3> HIDE DEF close
    <3> QED OBVIOUS
  <2>2. \A n \in nodes : reward[n] = percent_mul(percent_div(score[n], total_score),
                                                 OverwatchEpochEmissions)
    <3> HIDE DEF score, total_score
    <3> QED OBVIOUS
  <2>3. total_score = SatSum(score, nodes)
    <3> HIDE DEF score
    <3> QED OBVIOUS
  <2>4. \A k \in heard : k[3] \in Subnets
    BY <1>4
  <2> HIDE DEF close, score, total_score, reward
  <2>5. PICK H, N, C, S, T, P : H = heard /\ N = nodes /\ C = close /\ S = score
                                /\ T = total_score /\ P = reward
    OBVIOUS
  <2>6. Scored(heard, nodes, close, score, total_score, reward)
    BY <1>5, <1>6, <1>11, <2>1, <2>2, <2>3, <2>4, Zenon DEF Scored
  <2>7. Scored(H, N, C, S, T, P)
    BY <2>5, <2>6
  <2>8. /\ SumFunctionOnSet(P, N) \in Nat
        /\ SumFunctionOnSet(P, N) <= OverwatchEpochEmissions
    BY <2>7, FairRewards, Zenon
  <2> QED BY <2>5, <2>8
<1>13. given \in Nat /\ given <= OverwatchEpochEmissions
  <2>1. SumFunction(reward) = SumFunctionOnSet(reward, nodes)
    <3>1. DOMAIN reward = nodes
      <4> HIDE DEF score, total_score
      <4> QED OBVIOUS
    <3> HIDE DEF reward
    <3> QED BY <3>1, SumOver
  <2>2. OverwatchEpochEmissions \in Nat
    BY OverwatchAssumption, MaxBalanceAssumption
  <2> HIDE DEF reward, total_score
  <2> QED BY <1>12, <2>1, <2>2
<1>14. ASSUME NEW k \in DOMAIN new PROVE WeightWithin(OverwatchReveals, k, new[k])
  <2>1. PICK s \in judged : k = <<e, s>> /\ new[k] = weight[s] /\ k[1] = e /\ k[2] = s
    OBVIOUS
  <2>2. PICK K, M, f : /\ K = {j \in heard : j[3] = s} /\ f = OverwatchReveals
                       /\ M = KeysFor(f, e, s)
    OBVIOUS
  <2>3. K \in SUBSET M
    BY <2>2 DEF heard, KeysFor
  <2>4. TypedReveals(f)
    BY <2>2 DEF RevealsTyped
  <2>5. /\ SumFunctionOnSet(f, M) \in Nat /\ SumFunctionOnSet(f, K) \in Nat
        /\ SumFunctionOnSet(f, K) <= SumFunctionOnSet(f, M)
    BY <2>2, <2>3, <2>4, RevealedFinite
  <2>6. /\ weight[s] \in Nat /\ weight[s] <= Full /\ weight[s] <= SumFunctionOnSet(f, K)
    BY <1>10, <2>1, <2>2
  <2>7. weight[s] <= SumFunctionOnSet(f, M)
    BY <2>5, <2>6
  <2> QED BY <2>1, <2>2, <2>6, <2>7 DEF WeightWithin
<1> HIDE DEF given, new
<1>15. PICK new2 : new2 = new
  OBVIOUS
<1>16. PICK g \in Nat : g = given /\ g <= OverwatchEpochEmissions
  BY <1>13
<1>17. PICK d : d = e /\ d = SatSub(OverwatchEpochAt(block'), 1)
  BY DEF e
<1> QED BY <1>3, <1>14, <1>15, <1>16, <1>17

(* Every payment was made in the second block of an overwatch epoch, for   *)
(* the epoch before, and within the emission.                              *)
PaidInTurn == \A e \in DOMAIN paid :
  /\ e \in Nat /\ paid[e] \in Nat /\ paid[e] <= OverwatchEpochEmissions
  /\ \E i \in Nat : /\ i * overwatch_epoch_length + 1 <= block
                    /\ e + 1 = (i * overwatch_epoch_length + 1) \div overwatch_epoch_length

(* Division keeps the order, and strictly so a divisor later.              *)
LEMMA DivOrder ==
  ASSUME NEW x \in Nat, NEW y \in Nat, NEW L \in Nat, L > 0
  PROVE  /\ x \div L \in Nat /\ y \div L \in Nat
         /\ x <= y => x \div L <= y \div L
         /\ x + L <= y => x \div L + 1 <= y \div L
<1>1. PICK q \in Nat, r \in Nat : /\ q = x \div L /\ L * q <= x
                                  /\ r = y \div L /\ y < L * r + L
  BY FloorDiv
<1>2. PICK m \in Nat, n \in Nat : m = L * q /\ n = L * r
  OBVIOUS
<1>3. ASSUME x <= y PROVE q <= r
  <2> SUFFICES ASSUME r + 1 <= q PROVE FALSE
    OBVIOUS
  <2>1. L * (r + 1) <= L * q /\ L * (r + 1) = L * r + L
    BY Product
  <2> QED BY <1>1, <1>2, <1>3, <2>1
<1>4. ASSUME x + L <= y PROVE q + 1 <= r
  <2> SUFFICES ASSUME r <= q PROVE FALSE
    OBVIOUS
  <2>1. L * r <= L * q
    BY Product
  <2> QED BY <1>1, <1>2, <1>4, <2>1
<1> QED BY <1>1, <1>3, <1>4

(* The block that pays is the second of an overwatch epoch.                *)
LEMMA SecondBlock ==
  ASSUME NEW b \in Nat, NEW L \in Nat, L > 0, b - 1 >= L, (b - 1) % L = 0
  PROVE  \E i \in Nat : b = i * L + 1
<1>1. PICK c \in Nat : c = b - 1
  <2>1. b - 1 \in Nat
    OBVIOUS
  <2> QED BY <2>1
<1>2. PICK i \in Nat : i = c \div L
  BY FloorDiv
<1>3. c % L = 0
  BY <1>1
<1>4. c = L * i
  BY <1>2, <1>3
<1>5. L * i = i * L
  OBVIOUS
<1>6. c = i * L
  BY <1>4, <1>5
<1>7. b = c + 1
  BY <1>1
<1> QED BY <1>6, <1>7

(* Two such blocks are an epoch apart.                                     *)
LEMMA EpochApart ==
  ASSUME NEW i \in Nat, NEW j \in Nat, NEW L \in Nat, NEW b \in Nat,
         i * L + 1 <= b, b + 1 = j * L + 1
  PROVE  i * L + 1 + L <= b + 1
<1>1. PICK m \in Nat, n \in Nat : m = i * L /\ n = j * L
  OBVIOUS
<1>2. i + 1 <= j
  <2> SUFFICES ASSUME j <= i PROVE FALSE
    OBVIOUS
  <2>1. j * L <= i * L
    BY Product
  <2> QED BY <1>1, <2>1
<1>3. (i + 1) * L <= j * L /\ (i + 1) * L = i * L + L
  BY <1>2, Product
<1> QED BY <1>1, <1>3

(* Every state that payments depend on, and what leaves it alone.          *)
payFrame == <<OverwatchReveals, OverwatchSubnetWeights, paid>>

(* Steps that pay nothing and reveal nothing.                              *)
LEMMA NothingPaid ==
  ASSUME UNCHANGED payFrame, UNCHANGED OverwatchEpochLengthMultiplier, Committed,
         block' = block \/ block' = block + 1
  PROVE  /\ PaidInTurn => PaidInTurn'
         /\ WeightsWithin => WeightsWithin'
         /\ RevealsTyped => RevealsTyped'
<1>1. overwatch_epoch_length' = overwatch_epoch_length
  BY DEF overwatch_epoch_length
<1>2. PICK L \in Nat, b \in Nat : L = overwatch_epoch_length /\ b = block
  BY LengthPositive DEF Committed
<1>3. L = overwatch_epoch_length' /\ (block' = b \/ block' = b + 1)
  BY <1>1, <1>2
<1>4. ASSUME PaidInTurn PROVE PaidInTurn'
  <2> SUFFICES ASSUME NEW e \in DOMAIN paid
               PROVE  /\ e \in Nat /\ paid[e] \in Nat /\ paid[e] <= OverwatchEpochEmissions
                      /\ \E i \in Nat : i * L + 1 <= block' /\ e + 1 = (i * L + 1) \div L
    BY <1>3 DEF PaidInTurn, payFrame
  <2>1. /\ e \in Nat /\ paid[e] \in Nat /\ paid[e] <= OverwatchEpochEmissions
        /\ \E i \in Nat : i * L + 1 <= b /\ e + 1 = (i * L + 1) \div L
    BY <1>2, <1>4 DEF PaidInTurn
  <2>2. PICK i \in Nat : i * L + 1 <= b /\ e + 1 = (i * L + 1) \div L
    BY <2>1
  <2>3. PICK x \in Nat : x = i * L + 1 /\ x <= b
    BY <2>2
  <2>4. x <= b + 1
    BY <2>3
  <2>5. x <= block'
    BY <1>3, <2>3, <2>4
  <2> QED BY <2>1, <2>2, <2>3, <2>5
<1>5. WeightsWithin => WeightsWithin'
  BY DEF WeightsWithin, WeightWithin, payFrame
<1>6. RevealsTyped => RevealsTyped'
  BY DEF RevealsTyped, TypedReveals, payFrame
<1> QED BY <1>4, <1>5, <1>6

(* A reveal adds to what is revealed, and keeps what was.                  *)
LEMMA RevealKeeps ==
  ASSUME Committed, NEW a, NEW n \in WatcherIds, NEW f \in Votes,
         reveal_overwatch_subnet_weights(a, n, f)
  PROVE  /\ PaidInTurn => PaidInTurn'
         /\ RevealsTyped /\ WeightsWithin => WeightsWithin'
         /\ RevealsTyped => RevealsTyped'
<1>1. PICK e : e = get_current_overwatch_epoch
  OBVIOUS
<1>2. PICK new : new = InThisEpoch(n, f)
  OBVIOUS
<1>3. /\ \A k \in DOMAIN new : k \in DOMAIN OverwatchCommits /\ OverwatchCommits[k] = new[k]
      /\ OverwatchReveals' = With(OverwatchReveals, new)
      /\ UNCHANGED <<block, OverwatchEpochLengthMultiplier, OverwatchSubnetWeights, paid>>
  BY <1>2 DEF reveal_overwatch_subnet_weights, Reveals, OnlyWatchers, timeVars, settingVars
<1>4. ASSUME NEW k \in DOMAIN OverwatchReveals'
      PROVE  \/ k \in DOMAIN new /\ OverwatchReveals'[k] = new[k]
             \/ k \in DOMAIN OverwatchReveals /\ OverwatchReveals'[k] = OverwatchReveals[k]
  BY <1>3 DEF With
<1>5. ASSUME NEW k \in DOMAIN OverwatchReveals
      PROVE  k \in DOMAIN OverwatchReveals' /\ OverwatchReveals'[k] = OverwatchReveals[k]
  <2>1. k \in DOMAIN OverwatchReveals'
    BY <1>3 DEF With
  <2>2. k \in DOMAIN new => new[k] = OverwatchReveals[k]
    BY <1>3 DEF Committed, RevealsMatchCommits
  <2> QED BY <1>4, <2>1, <2>2
<1>6. e \in Nat
  BY <1>1, LengthPositive, NextEpoch
     DEF get_current_overwatch_epoch, OverwatchEpochAt, Committed
<1>7. DOMAIN f \subseteq Subnets /\ \A s \in DOMAIN f : f[s] \in Nat
  <2>1. PICK S \in SUBSET Subnets : f \in [S -> Weights]
    BY DEF Votes
  <2>2. DOMAIN f = S /\ Weights \subseteq Nat
    BY <2>1, OverwatchAssumption
  <2> QED BY <2>1, <2>2
<1>8. ASSUME NEW k \in DOMAIN new
      PROVE  /\ \E d \in Nat, m \in WatcherIds, s \in Subnets : k = <<d, m, s>>
             /\ new[k] \in Nat
  <2>1. PICK s \in DOMAIN f : k = <<e, n, s>>
    BY <1>1, <1>2 DEF InThisEpoch
  <2>2. new[k] = f[k[3]]
    BY <1>2 DEF InThisEpoch
  <2>3. new[k] = f[s]
    BY <2>1, <2>2
  <2> QED BY <1>6, <1>7, <2>1, <2>3
<1>9. RevealsTyped => RevealsTyped'
  BY <1>4, <1>8 DEF RevealsTyped, TypedReveals
<1>10. ASSUME RevealsTyped, WeightsWithin PROVE WeightsWithin'
  <2>1. PICK R, P : R = OverwatchReveals /\ P = OverwatchReveals'
    OBVIOUS
  <2>2. TypedReveals(R) /\ TypedReveals(P)
    BY <1>9, <1>10, <2>1 DEF RevealsTyped
  <2>3. \A k \in DOMAIN R : k \in DOMAIN P /\ P[k] = R[k]
    BY <1>5, <2>1
  <2> SUFFICES ASSUME NEW k \in DOMAIN OverwatchSubnetWeights, NEW w,
                      w = OverwatchSubnetWeights[k], WeightWithin(R, k, w)
               PROVE  WeightWithin(P, k, w)
    BY <1>3, <1>10, <2>1 DEF WeightsWithin
  <2>4. PICK d, u : d = k[1] /\ u = k[2]
    OBVIOUS
  <2>5. PICK K, M : K = KeysFor(R, d, u) /\ M = KeysFor(P, d, u)
    OBVIOUS
  <2>6. K \in SUBSET M /\ \A x \in K : R[x] = P[x]
    BY <2>3, <2>5 DEF KeysFor
  <2>7. IsFiniteSet(K) /\ SumFunctionOnSet(R, K) \in Nat
    BY <2>2, <2>5, RevealedFinite
  <2>8. SumFunctionOnSet(R, K) = SumFunctionOnSet(P, K)
    BY <2>6, <2>7, SumEqual
  <2>9. SumFunctionOnSet(P, M) \in Nat /\ SumFunctionOnSet(P, K) <= SumFunctionOnSet(P, M)
    BY <2>2, <2>5, <2>6, RevealedFinite
  <2>10. w \in Nat /\ w <= Full /\ w <= SumFunctionOnSet(R, K)
    BY <2>4, <2>5 DEF WeightWithin
  <2>11. w <= SumFunctionOnSet(P, M)
    BY <2>7, <2>8, <2>9, <2>10
  <2> QED BY <2>4, <2>5, <2>10, <2>11 DEF WeightWithin
<1>11. PaidInTurn => PaidInTurn'
  BY <1>3 DEF PaidInTurn, overwatch_epoch_length
<1> QED BY <1>9, <1>10, <1>11

(* A payment is for an epoch that nobody was paid for yet.                 *)
LEMMA PaymentInTurn ==
  ASSUME Committed, WatchTypes, RevealsTyped, PaidInTurn, OverwatchBlock
  PROVE  /\ PaidInTurn' /\ RevealsTyped'
         /\ WeightsWithin => WeightsWithin'
<1>1. PICK e, new : \E given \in Nat :
        /\ e = SatSub(OverwatchEpochAt(block'), 1)
        /\ given <= OverwatchEpochEmissions
        /\ paid' = Put(paid, e, given + IF e \in DOMAIN paid THEN paid[e] ELSE 0)
        /\ OverwatchSubnetWeights' = With(OverwatchSubnetWeights, new)
        /\ \A k \in DOMAIN new : WeightWithin(OverwatchReveals, k, new[k])
  BY EpochPaid DEF Committed
<1>2. PICK given \in Nat :
        /\ e = SatSub(OverwatchEpochAt(block'), 1)
        /\ given <= OverwatchEpochEmissions
        /\ paid' = Put(paid, e, given + IF e \in DOMAIN paid THEN paid[e] ELSE 0)
        /\ OverwatchSubnetWeights' = With(OverwatchSubnetWeights, new)
        /\ \A k \in DOMAIN new : WeightWithin(OverwatchReveals, k, new[k])
  BY <1>1
<1>3. UNCHANGED <<OverwatchReveals, OverwatchEpochLengthMultiplier>>
  BY DEF OverwatchBlock, settingVars
<1>4. PICK L \in Nat, b \in Nat : L = overwatch_epoch_length /\ L > 0 /\ b = block
  BY LengthPositive DEF Committed
<1>5. L = overwatch_epoch_length'
  BY <1>3, <1>4 DEF overwatch_epoch_length
<1>6. /\ block' = b + 1 /\ b < MaxBlock /\ (b + 1) - 1 >= L /\ ((b + 1) - 1) % L = 0
  BY <1>4 DEF OverwatchBlock, OverwatchDue
<1>7. PICK j \in Nat : b + 1 = j * L + 1
  <2>1. b + 1 \in Nat
    OBVIOUS
  <2> QED BY <1>4, <1>6, <2>1, SecondBlock
<1>8. e \in Nat /\ e + 1 = (b + 1) \div L
  <2>1. PICK q \in Nat : q = (b + 1) \div L /\ L * q <= b + 1 /\ b + 1 < L * q + L
    BY <1>4, FloorDiv
  <2>2. q >= 1
    <3> SUFFICES ASSUME q = 0 PROVE FALSE
      OBVIOUS
    <3>1. L * q = 0
      OBVIOUS
    <3> QED BY <1>6, <2>1, <3>1
  <2>3. q <= b + 1
    <3>1. 1 * q <= L * q
      BY <1>4, Product
    <3>2. PICK m \in Nat : m = L * q
      OBVIOUS
    <3> QED BY <2>1, <3>1, <3>2
  <2>4. q - 1 \in Balance
    <3>1. MaxBlock \in Nat /\ MaxBlock <= MaxBalance /\ MaxBalance \in Nat
      BY WidthAssumption, MaxBalanceAssumption
    <3> QED BY <1>6, <2>2, <2>3, <3>1
  <2>5. e = q - 1
    <3>1. e = SatSub(q, 1)
      BY <1>2, <1>4, <1>6, <2>1 DEF OverwatchEpochAt
    <3> QED BY <2>4, <3>1 DEF SatSub
  <2> QED BY <2>1, <2>2, <2>5
<1>9. ASSUME NEW d \in DOMAIN paid PROVE d # e
  <2>1. PICK i \in Nat : d \in Nat /\ i * L + 1 <= b /\ d + 1 = (i * L + 1) \div L
    BY <1>4 DEF PaidInTurn
  <2>2. PICK x \in Nat, y \in Nat : x = i * L + 1 /\ y = b + 1
    OBVIOUS
  <2>3. x + L <= y
    BY <1>7, <2>1, <2>2, EpochApart
  <2>4. x \div L + 1 <= y \div L /\ x \div L \in Nat /\ y \div L \in Nat
    BY <1>4, <2>3, DivOrder
  <2> QED BY <1>8, <2>1, <2>2, <2>4
<1>10. paid' = Put(paid, e, given)
  <2>1. e \notin DOMAIN paid
    BY <1>9
  <2>2. given + 0 = given
    OBVIOUS
  <2> QED BY <1>2, <2>1, <2>2
<1>11. PaidInTurn'
  <2> SUFFICES ASSUME NEW d \in DOMAIN paid'
               PROVE  /\ d \in Nat /\ paid'[d] \in Nat /\ paid'[d] <= OverwatchEpochEmissions
                      /\ \E i \in Nat : i * L + 1 <= b + 1 /\ d + 1 = (i * L + 1) \div L
    BY <1>5, <1>6 DEF PaidInTurn
  <2>1. CASE d = e
    <3>1. paid'[d] = given
      BY <1>10, <2>1 DEF Put
    <3>2. j * L + 1 <= b + 1 /\ d + 1 = (j * L + 1) \div L
      BY <1>7, <1>8, <2>1
    <3> QED BY <1>2, <1>8, <2>1, <3>1, <3>2
  <2>2. CASE d # e
    <3>1. d \in DOMAIN paid /\ paid'[d] = paid[d]
      BY <1>10, <2>2 DEF Put
    <3>2. /\ d \in Nat /\ paid[d] \in Nat /\ paid[d] <= OverwatchEpochEmissions
          /\ \E i \in Nat : i * L + 1 <= b /\ d + 1 = (i * L + 1) \div L
      BY <1>4, <3>1 DEF PaidInTurn
    <3>3. PICK i \in Nat : i * L + 1 <= b /\ d + 1 = (i * L + 1) \div L
      BY <3>2
    <3>4. i * L + 1 <= b + 1
      <4>1. PICK x \in Nat : x = i * L + 1
        OBVIOUS
      <4> QED BY <3>3, <4>1
    <3> QED BY <3>1, <3>2, <3>3, <3>4
  <2> QED BY <2>1, <2>2
<1>12. ASSUME WeightsWithin PROVE WeightsWithin'
  <2> SUFFICES ASSUME NEW k \in DOMAIN OverwatchSubnetWeights'
               PROVE  WeightWithin(OverwatchReveals, k, OverwatchSubnetWeights'[k])
    BY <1>3 DEF WeightsWithin
  <2>1. \/ k \in DOMAIN new /\ OverwatchSubnetWeights'[k] = new[k]
        \/ /\ k \in DOMAIN OverwatchSubnetWeights
           /\ OverwatchSubnetWeights'[k] = OverwatchSubnetWeights[k]
    BY <1>2 DEF With
  <2> QED BY <1>2, <1>12, <2>1 DEF WeightsWithin
<1>13. RevealsTyped'
  BY <1>3 DEF RevealsTyped, TypedReveals
<1> QED BY <1>11, <1>12, <1>13

(* What a step can do to reveals and payments.                             *)
LEMMA PaySteps ==
  ASSUME [OverwatchNext]_systemVars
  PROVE  \/ OverwatchBlock
         \/ \E a \in Accounts, n \in WatcherIds, f \in Votes :
              reveal_overwatch_subnet_weights(a, n, f)
         \/ UNCHANGED payFrame /\ (block' = block \/ block' = block + 1)
<1> DEFINE Goal == \/ OverwatchBlock
                   \/ \E a \in Accounts, n \in WatcherIds, f \in Votes :
                        reveal_overwatch_subnet_weights(a, n, f)
                   \/ UNCHANGED payFrame /\ (block' = block \/ block' = block + 1)
<1> SUFFICES Goal
  OBVIOUS
<1>1. ASSUME UNCHANGED <<roundVars, block>> PROVE Goal
  BY <1>1 DEF roundVars, payFrame
<1>2. ASSUME NEW a \in Accounts, NEW n \in WatcherIds, NEW f \in Votes,
             reveal_overwatch_subnet_weights(a, n, f)
      PROVE  Goal
  BY <1>2
<1>3. ASSUME NEW a, NEW n, NEW f, commit_overwatch_subnet_weights(a, n, f) PROVE Goal
  BY <1>3 DEF commit_overwatch_subnet_weights, OnlyWatchers, timeVars, payFrame
<1>4. ASSUME OverwatchBlock PROVE Goal
  BY <1>4
<1>5. ASSUME \/ OtherBlock
             \/ NewBlockWhilePaused /\ UNCHANGED <<keyVars, nodeVars, watchVars>>
      PROVE  Goal
  BY <1>5 DEF OtherBlock, NewBlock, NewBlockWhilePaused, watchVars, roundVars, payFrame
<1> HIDE DEF Goal
<1>6. ASSUME NEW a, NEW n, NEW x, \/ register_overwatch_node(a, x)
                                  \/ add_overwatch_node_stake(a, n, x)
                                  \/ remove_overwatch_node_stake(a, n, x)
      PROVE  Goal
  <2>1. UNCHANGED <<roundVars, block>>
    BY <1>6 DEF register_overwatch_node, add_overwatch_node_stake, remove_overwatch_node_stake,
       timeVars
  <2> QED BY <1>1, <2>1
<1>7. ASSUME NEW a, NEW n, NEW x,
             \/ remove_overwatch_node(a, n) \/ do_collective_remove_overwatch_node(n)
             \/ update_overwatch_hotkey(a, n, x)
             \/ do_set_overwatch_validator_whitelist(n, x)
             \/ do_set_overwatch_epoch_length_multiplier(x)
             \/ do_set_overwatch_commit_cutoff_percent(x)
      PROVE  Goal
  <2>1. UNCHANGED <<roundVars, block>>
    BY <1>7 DEF remove_overwatch_node, do_collective_remove_overwatch_node,
       update_overwatch_hotkey, do_set_overwatch_validator_whitelist,
       do_set_overwatch_epoch_length_multiplier, do_set_overwatch_commit_cutoff_percent,
       OnlyWatchers, timeVars
  <2> QED BY <1>1, <2>1
<1>8. CASE OverwatchCalls
  BY <1>2, <1>3, <1>6, <1>7, <1>8 DEF OverwatchCalls
<1>9. CASE \E a \in Accounts : EvmOverwatchCalls1(a) \/ EvmOverwatchCalls2(a)
  BY <1>2, <1>3, <1>6, <1>7, <1>9 DEF EvmOverwatchCalls1, EvmOverwatchCalls2
<1>10. CASE CollectiveCalls
  BY <1>7, <1>10 DEF CollectiveCalls
<1>11. CASE Meanwhile
  <2>1. UNCHANGED <<roundVars, block>>
    BY <1>11, MeanwhileKeeps DEF watchVars
  <2> QED BY <1>1, <2>1
<1>12. CASE HookDone /\ UNCHANGED <<keyVars, nodeVars, watchVars>>
  <2>1. UNCHANGED <<roundVars, block>>
    BY <1>12 DEF HookDone, watchVars
  <2> QED BY <1>1, <2>1
<1>13. CASE UNCHANGED systemVars
  <2>1. UNCHANGED <<roundVars, block>>
    BY <1>13 DEF systemVars, allVars, vars, watchVars, timeVars
  <2> QED BY <1>1, <2>1
<1>14. CASE BlockHook
  BY <1>4, <1>5, <1>12, <1>14 DEF BlockHook
<1> QED BY <1>8, <1>9, <1>10, <1>11, <1>13, <1>14 DEF OverwatchNext

(* Payments are made in turn, whatever the step.                           *)
LEMMA StepPaid ==
  ASSUME Committed, WatchTypes, RevealsTyped, PaidInTurn,
         OverwatchEpochLengthMultiplier' = OverwatchEpochLengthMultiplier,
         [OverwatchNext]_systemVars
  PROVE  /\ PaidInTurn' /\ RevealsTyped'
         /\ WeightsWithin => WeightsWithin'
BY PaySteps, PaymentInTurn, RevealKeeps, NothingPaid

(* Nothing is paid at the start.                                           *)
LEMMA InitPaid == OverwatchInit => PaidInTurn /\ WeightsWithin /\ RevealsTyped
BY DEF OverwatchInit, EmptyMap, PaidInTurn, WeightsWithin, RevealsTyped, TypedReveals

(* What is in turn is after the end of its epoch.                          *)
LEMMA PaidFacts == Committed /\ PaidInTurn => EpochsPaidOnce
<1> SUFFICES ASSUME Committed, PaidInTurn PROVE EpochsPaidOnce
  OBVIOUS
<1>1. PICK L \in Nat, b \in Nat : L = overwatch_epoch_length /\ L > 0 /\ b = block
  BY LengthPositive DEF Committed
<1>2. ASSUME NEW e \in DOMAIN paid
      PROVE  paid[e] <= OverwatchEpochEmissions /\ e < get_current_overwatch_epoch
  <2>1. PICK i \in Nat : e \in Nat /\ i * L + 1 <= b /\ e + 1 = (i * L + 1) \div L
    BY <1>1 DEF PaidInTurn
  <2>2. PICK x \in Nat : x = i * L + 1
    OBVIOUS
  <2>3. x \div L <= b \div L /\ x \div L \in Nat /\ b \div L \in Nat
    BY <1>1, <2>1, <2>2, DivOrder
  <2>4. e < b \div L
    BY <2>1, <2>2, <2>3
  <2> QED BY <1>1, <2>4 DEF PaidInTurn, get_current_overwatch_epoch, OverwatchEpochAt
<1> QED BY <1>2 DEF EpochsPaidOnce

(* The inductive invariant of payments.                                    *)
PayInv ==
  KeyInv /\ WatchInv /\ Committed /\ PaidInTurn /\ RevealsTyped /\ WeightsWithin

(* It holds at the start.                                                  *)
LEMMA InitPayments == OverwatchInit => PayInv
  BY InitKeys, InitWatchers, InitRound, InitPaid DEF OverwatchInit, PayInv

(* Every step keeps it, as long as the length of the epochs is one.        *)
LEMMA StepPayments ==
  ASSUME \A m, w \in Multipliers : m = w, PayInv, [OverwatchNext]_systemVars
  PROVE  PayInv'
<1>1. KeyInv' /\ WatchInv' /\ Committed'
  BY StepWatchKeys, StepWatchers, StepRound DEF PayInv
<1>2. OverwatchEpochLengthMultiplier' = OverwatchEpochLengthMultiplier
  BY <1>1 DEF PayInv, Committed
<1>3. PaidInTurn' /\ RevealsTyped' /\ WeightsWithin'
  BY <1>2, StepPaid DEF PayInv, WatchInv
<1> QED BY <1>1, <1>3 DEF PayInv

(***************************************************************************)
(* As long as the collective keeps the length of overwatch epochs, every   *)
(* overwatch epoch is paid for once, after its end and within its          *)
(* emission, and no subnet gets a weight above 100 % or above what was     *)
(* revealed for it, taken together: whatever the stakes, their powers and  *)
(* the weights, also where the sum of the powers is cut off at u128        *)
(* (slot.rs calculate_overwatch_rewards, lib.rs on_initialize).            *)
(***************************************************************************)
THEOREM OverwatchStaysPaidOnce ==
  ASSUME \A m, w \in Multipliers : m = w
  PROVE  OverwatchSpec => []OverwatchPaidOnce
<1>1. PayInv /\ [OverwatchNext]_systemVars => PayInv'
  BY StepPayments
<1>2. PayInv => OverwatchPaidOnce
  <2>1. PayInv => EpochsPaidOnce
    BY PaidFacts DEF PayInv
  <2>2. PayInv => WeightsRevealed
    BY DEF PayInv, WeightsWithin, WeightWithin, WeightsRevealed, KeysFor, RevealedFor
  <2> QED BY <2>1, <2>2 DEF OverwatchPaidOnce
<1> QED BY <1>1, <1>2, InitPayments, PTL DEF OverwatchSpec
================================================================================

------------------------- MODULE OwnerParametersProofs -------------------------
(***************************************************************************)
(* Proofs about OwnerParameters, for any subnets, owners, votes, values,   *)
(* bounds of the calls and length of an epoch.                             *)
(*                                                                         *)
(* The invariant OwnerInv has two parts.  NetOK: every parameter of the    *)
(* network is within its type, each lower bound is below its upper bound,  *)
(* and no divisor is 0; it is proved of each row of the tables of setters, *)
(* for a row is a plain item, a pair of bounds, or one of ten with checks  *)
(* of their own; the width of an argument is that of the items it is       *)
(* written to.  And of a subnet: its parameters are within their widths,   *)
(* and its schedule holds factors for every name and at most one pending   *)
(* change, so that what Over leaves in place is what was there.            *)
(***************************************************************************)
EXTENDS OwnerParameters, FiniteSetTheorems, TLAPS

Items == DOMAIN NetDefaults
Switches == {"TxPause", "RequireSubnetRegistrationWhitelist"}
Divisors == {"OverwatchEpochLengthMultiplier", "DelegateStakeSubnetRemovalInterval",
             "MaxSubnetRemovalInterval"}

(* The upper bound of each lower bound.                                    *)
Upper == [
  MinSubnetRegistrationEpochs |-> "SubnetRegistrationEpochs",
  MinChurnLimit |-> "MaxChurnLimit", MinChurnLimitMultiplier |-> "MaxChurnLimitMultiplier",
  MinQueueEpochs |-> "MaxQueueEpochs",
  MinIncludedClassificationEpochs |-> "MaxIncludedClassificationEpochs",
  MinSubnetMinStake |-> "MaxSubnetMinStake",
  MinDelegateStakePercentage |-> "MaxDelegateStakePercentage",
  MinMaxRegisteredNodes |-> "MaxMaxRegisteredNodes", MinSubnetNodes |-> "MaxSubnetNodes",
  MinNodeBurnRate |-> "MaxNodeBurnRate",
  MinMinSubnetNodeReputation |-> "MaxMinSubnetNodeReputation",
  MinNodeReputationFactor |-> "MaxNodeReputationFactor"]
Lower == DOMAIN Upper
Bounds == Lower \cup {Upper[l] : l \in Lower}

(* The lower bounds of 128 bits.                                           *)
WideLower == {"MinSubnetMinStake", "MinDelegateStakePercentage", "MinNodeBurnRate",
              "MinMinSubnetNodeReputation", "MinNodeReputationFactor"}

(* The items of 128 bits, and the two of 64.                               *)
Wide == UNION {g.u128 : g \in ItemGroups}
Middle == {"ValidatorRewardK", "AttestorRewardExponent"}

(* The largest value of an item.                                           *)
Limit(i) == IF i \in Switches THEN 1
            ELSE IF i = "MaximumHooksWeightV2" THEN MaxBlockWeight
            ELSE IF i \in Middle THEN U64Max
            ELSE IF i \in Wide THEN U128Max ELSE U32Max

(* The parameters are within their types, ordered and not zero where the   *)
(* hooks divide by them.                                                   *)
NetOK(n) ==
  /\ DOMAIN n = Items
  /\ \A i \in Items : n[i] \in 0 .. Limit(i)
  /\ \A l \in Lower : n[l] < n[Upper[l]]
  /\ \A i \in Divisors : n[i] > 0

(* The items that any number may be written to.                            *)
Plain == Items \ (Switches \cup {"MaximumHooksWeightV2"} \cup Divisors \cup Bounds)

(* Those of them that are of 32 and of 128 bits.                           *)
Plain32 == {i \in Plain : Limit(i) = U32Max}
Plain128 == {i \in Plain : Limit(i) = U128Max}

(* A row that is let through leaves the parameters so.                     *)
NetRowOK(row) == row.ok => NetOK(Over(row.writes, net))

FactorSets == [Factors -> 0 .. Full]
Changes == [epoch : Int, factors : FactorSets]

(* A schedule has factors in force and at most one pending change.         *)
ScheduleOK(sch) ==
  /\ sch \in [current : FactorSets, pending : SUBSET Changes]
  /\ \A p, q \in sch.pending : p = q

OwnItems == DOMAIN OwnDefaults
OwnLimit(i) == IF i \in WideItems THEN U128Max ELSE U32Max
OwnValues == {f \in [OwnItems -> Nat] : \A i \in OwnItems : f[i] <= OwnLimit(i)}
Results == {"none", "Ok", "Refused", "BadOrigin", "OutOfBounds"}

OwnerInv ==
  /\ NetOK(net) /\ result \in Results
  /\ own \in [Subnets -> OwnValues]
  /\ DOMAIN schedule = Subnets
  /\ \A s \in Subnets : ScheduleOK(schedule[s])
  /\ emergency \subseteq Subnets
  /\ block \in Nat /\ block < StartBlock + MaxEpochs * EpochLength + EpochLength
  /\ budget \in 0 .. Budget

--------------------------------------------------------------------------------
(***************************************************************************)
(* Functions laid over each other, and the names of the items.             *)
(***************************************************************************)
LEMMA OverDomain ==
  ASSUME NEW f, NEW g
  PROVE  DOMAIN Over(f, g) = DOMAIN f \cup DOMAIN g
BY DEF Over

(* Laying three functions over each other needs no brackets.               *)
LEMMA OverAssociative ==
  ASSUME NEW f, NEW g, NEW h
  PROVE  Over(f, Over(g, h)) = Over(Over(f, g), h)
BY DEF Over

(* A percentage of the weight of a block is at most that weight.           *)
LEMMA ShareOfBlock ==
  ASSUME NEW v \in 0 .. 100
  PROVE  (v * MaxBlockWeight) \div 100 \in 0 .. MaxBlockWeight
<1>1. MaxBlockWeight \in Nat
  BY ParametersAssumption
<1>2. v * MaxBlockWeight \in Nat /\ v * MaxBlockWeight <= 100 * MaxBlockWeight
  BY <1>1
<1> DEFINE y == v * MaxBlockWeight
<1> HIDE DEF y
<1>3. y \in Nat /\ y <= 100 * MaxBlockWeight
  BY <1>2 DEF y
<1>4. y \div 100 \in 0 .. MaxBlockWeight
  BY <1>1, <1>3
<1> QED
  BY <1>4 DEF y

(* The items by the records that give their defaults.                      *)
LEMMA ItemNames ==
  Items = DOMAIN NetDefaults1 \cup DOMAIN NetDefaults2 \cup DOMAIN NetDefaults3
            \cup DOMAIN NetDefaults4 \cup DOMAIN NetDefaults5 \cup DOMAIN NetDefaults6
            \cup DOMAIN NetDefaults7
<1> DEFINE d6 == Over(NetDefaults6, NetDefaults7)
           d5 == Over(NetDefaults5, d6)
           d4 == Over(NetDefaults4, d5)
           d3 == Over(NetDefaults3, d4)
           d2 == Over(NetDefaults2, d3)
<1>1. DOMAIN d6 = DOMAIN NetDefaults6 \cup DOMAIN NetDefaults7
  BY OverDomain
<1>2. DOMAIN d5 = DOMAIN NetDefaults5 \cup DOMAIN d6
  BY OverDomain
<1>3. DOMAIN d4 = DOMAIN NetDefaults4 \cup DOMAIN d5
  BY OverDomain
<1>4. DOMAIN d3 = DOMAIN NetDefaults3 \cup DOMAIN d4
  BY OverDomain
<1>5. DOMAIN d2 = DOMAIN NetDefaults2 \cup DOMAIN d3
  BY OverDomain
<1>6. Items = DOMAIN NetDefaults1 \cup DOMAIN d2
  BY OverDomain DEF Items, NetDefaults
<1> HIDE DEF d2, d3, d4, d5, d6
<1> QED
  BY <1>1, <1>2, <1>3, <1>4, <1>5, <1>6

(* The items of 128 bits by the records that name them.                    *)
LEMMA WideNames ==
  Wide = NetItems1.u128 \cup NetItems2.u128 \cup NetItems3.u128 \cup NetItems4.u128
           \cup NetItems5.u128 \cup NetItems6.u128 \cup NetItems7.u128 \cup NetItems8.u128
           \cup NetItems9.u128 \cup NetItems10.u128 \cup NetItems11.u128 \cup NetItems12.u128
           \cup NetItems13.u128
BY DEF Wide, ItemGroups

(* The width of the arguments of a call.                                   *)
LEMMA CallWidth ==
  ASSUME NEW name, NEW n \in 0 .. U128Max, Converts(name, n), NEW g \in EvmGroups
  PROVE  /\ name \in g.u32 => n \in 0 .. U32Max
         /\ name \in g.u64 => n \in 0 .. U64Max
BY ParametersAssumption DEF Converts, try_u256_to_u32, try_u256_to_u64

(* The bounds are items, and no two pairs share one.                       *)
LEMMA BoundsApart ==
  /\ \A l \in Lower : Upper[l] \notin Lower
  /\ \A l, m \in Lower : Upper[l] = Upper[m] => l = m
<1>1. \A l \in Lower : Upper[l] \notin Lower
  BY DEF Lower, Upper
<1>2. \A l, m \in Lower : Upper[l] = Upper[m] => l = m
  BY DEF Lower, Upper
<1> QED
  BY <1>1, <1>2

(* The bounds, the switches and the divisors are parameters.               *)
LEMMA BoundsItems == Bounds \subseteq Items /\ Switches \subseteq Items /\ Divisors \subseteq Items
<1>1. \A l \in Lower : l \in Items /\ Upper[l] \in Items
  BY ItemNames DEF Lower, Upper, NetDefaults2, NetDefaults3, NetDefaults4, NetDefaults5, NetDefaults6
<1>2. Switches \subseteq Items /\ Divisors \subseteq Items
  BY ItemNames DEF NetDefaults1, NetDefaults5, Switches, Divisors
<1> QED
  BY <1>1, <1>2 DEF Bounds

(* The bounds of a pair are of the same width.                             *)
LEMMA PairLimits ==
  /\ \A l \in WideLower : l \in Lower /\ Limit(l) = U128Max /\ Limit(Upper[l]) = U128Max
  /\ \A l \in Lower \ WideLower : Limit(l) = U32Max /\ Limit(Upper[l]) = U32Max
<1>1. \A l \in WideLower : l \in Lower /\ l \in Wide /\ Upper[l] \in Wide
  BY WideNames DEF WideLower, Lower, Upper,
     NetItems3, NetItems4, NetItems6
<1>2. \A l \in Lower \ WideLower : l \notin Wide /\ Upper[l] \notin Wide
  BY WideNames DEF WideLower, Lower, Upper,
     NetItems1, NetItems2, NetItems3, NetItems4, NetItems5, NetItems6, NetItems7,
     NetItems8, NetItems9, NetItems10, NetItems11, NetItems12, NetItems13
<1>3. \A l \in Lower : {l, Upper[l]} \cap (Switches \cup Middle \cup {"MaximumHooksWeightV2"}) = {}
  BY DEF Lower, Upper, Switches, Middle
<1> QED
  BY <1>1, <1>2, <1>3 DEF Limit

(* The divisors are of 32 bits.                                            *)
LEMMA DivisorLimits == \A i \in Divisors \cup {"MinSubnetRemovalInterval"} : Limit(i) = U32Max
BY WideNames DEF Divisors, Limit, Switches, Middle,
   NetItems1, NetItems2, NetItems3, NetItems4, NetItems5, NetItems6, NetItems7,
   NetItems8, NetItems9, NetItems10, NetItems11, NetItems12, NetItems13

(* Writing one item.                                                       *)
LEMMA OneWritten ==
  ASSUME NEW n, NetOK(n), NEW item \in Items, NEW v \in 0 .. Limit(item),
         item \in Divisors => v > 0,
         item \in Lower => v < n[Upper[item]],
         \A l \in Lower : Upper[l] = item => n[l] < v
  PROVE  NetOK(Over(Item(item, v), n))
<1> DEFINE new == Over(Item(item, v), n)
<1>1. DOMAIN new = Items
  BY DEF Over, Item, NetOK
<1>2. \A i \in Items : new[i] = IF i = item THEN v ELSE n[i]
  BY DEF Over, Item, NetOK
<1> HIDE DEF new
<1>3. \A i \in Items : new[i] \in 0 .. Limit(i)
  BY <1>2 DEF NetOK
<1>4. \A l \in Lower : new[l] < new[Upper[l]]
  <2> SUFFICES ASSUME NEW l \in Lower PROVE new[l] < new[Upper[l]]
    OBVIOUS
  <2>1. l \in Items /\ Upper[l] \in Items /\ Upper[l] # l
    BY BoundsItems, BoundsApart DEF Bounds
  <2>2. n[l] < n[Upper[l]]
    BY DEF NetOK
  <2>3. new[l] = (IF l = item THEN v ELSE n[l])
        /\ new[Upper[l]] = (IF Upper[l] = item THEN v ELSE n[Upper[l]])
    BY <1>2, <2>1
  <2> QED
    BY <2>1, <2>2, <2>3
<1>5. \A i \in Divisors : new[i] > 0
  <2>1. \A i \in Divisors : i \in Items /\ n[i] > 0
    BY BoundsItems DEF NetOK
  <2> QED
    BY <1>2, <2>1
<1> QED
  BY <1>1, <1>3, <1>4, <1>5 DEF NetOK, new

(* Writing a plain item.                                                   *)
LEMMA PlainWritten ==
  ASSUME NEW n, NetOK(n), NEW item \in Plain, NEW v \in 0 .. Limit(item)
  PROVE  NetOK(Over(Item(item, v), n))
<1>1. item \in Items /\ item \notin Divisors /\ item \notin Lower
  BY DEF Plain, Bounds
<1>2. \A l \in Lower : Upper[l] # item
  BY DEF Plain, Bounds
<1> QED
  BY <1>1, <1>2, OneWritten

(* A setter of one item, with the checks its item needs.                   *)
LEMMA CheckedRow ==
  ASSUME NetOK(net), NEW item \in Items, NEW v, NEW ok,
         ok => /\ v \in 0 .. Limit(item)
               /\ item \in Divisors => v > 0
               /\ item \in Lower => v < net[Upper[item]]
               /\ \A l \in Lower : Upper[l] = item => net[l] < v
  PROVE  NetRowOK(Sets(item, v, ok))
<1>1. CASE ok
  <2>1. NetOK(Over(Item(item, v), net))
    BY <1>1, OneWritten
  <2> QED
    BY <2>1 DEF NetRowOK, Sets
<1>2. CASE ~ok
  BY <1>2 DEF NetRowOK, Sets
<1> QED
  BY <1>1, <1>2

(* A setter of a plain item.                                               *)
LEMMA PlainRow ==
  ASSUME NetOK(net), NEW item \in Plain, NEW v \in 0 .. Limit(item), NEW ok
  PROVE  NetRowOK(Sets(item, v, ok))
<1>1. NetOK(Over(Item(item, v), net))
  BY PlainWritten
<1> QED
  BY <1>1 DEF NetRowOK, Sets

(* Setters of plain items of 32 and of 128 bits.                           *)
LEMMA PlainRow32 ==
  ASSUME NetOK(net), NEW item \in Plain32, NEW v \in 0 .. U32Max, NEW ok
  PROVE  NetRowOK(Sets(item, v, ok))
<1>1. item \in Plain /\ Limit(item) = U32Max
  BY DEF Plain32
<1> QED
  BY <1>1, PlainRow

LEMMA PlainRow128 ==
  ASSUME NetOK(net), NEW item \in Plain128, NEW v \in 0 .. U128Max, NEW ok
  PROVE  NetRowOK(Sets(item, v, ok))
<1>1. item \in Plain /\ Limit(item) = U128Max
  BY DEF Plain128
<1> QED
  BY <1>1, PlainRow

(* A setter of a pair of bounds.                                           *)
LEMMA PairRow ==
  ASSUME NetOK(net), NEW low \in Lower,
         NEW v \in 0 .. Limit(low), NEW w \in 0 .. Limit(Upper[low]),
         NEW ok, ok => v < w
  PROVE  NetRowOK(SetsBoth(low, v, Upper[low], w, ok))
<1> SUFFICES ASSUME ok PROVE NetOK(Over(SetsBoth(low, v, Upper[low], w, ok).writes, net))
  BY DEF NetRowOK, SetsBoth
<1> DEFINE high == Upper[low]
           writes == Over(Item(low, v), Item(high, w))
           new == Over(writes, net)
<1>1. low \in Items /\ high \in Items /\ low # high /\ high \notin Lower
  BY BoundsItems, BoundsApart DEF Bounds
<1>2. DOMAIN writes = {low, high} /\ writes[low] = v /\ writes[high] = w
  BY <1>1 DEF Over, Item
<1> HIDE DEF writes
<1>3. DOMAIN new = Items
  BY <1>1, <1>2 DEF Over, NetOK
<1>4. \A i \in Items : new[i] = IF i = low THEN v ELSE IF i = high THEN w ELSE net[i]
  BY <1>1, <1>2 DEF Over, NetOK
<1> HIDE DEF new
<1>5. low \notin Divisors /\ high \notin Divisors
  BY DEF Lower, Upper, Divisors
<1>6. \A i \in Items : new[i] \in 0 .. Limit(i)
  BY <1>4 DEF NetOK
<1>7. \A l \in Lower : new[l] < new[Upper[l]]
  <2> SUFFICES ASSUME NEW l \in Lower PROVE new[l] < new[Upper[l]]
    OBVIOUS
  <2>1. l \in Items /\ Upper[l] \in Items /\ Upper[l] \notin Lower /\ (Upper[l] = high => l = low)
    BY BoundsItems, BoundsApart DEF Bounds
  <2>2. net[l] < net[Upper[l]]
    BY DEF NetOK
  <2>3. CASE l = low
    <3>1. new[l] = v /\ new[Upper[l]] = w /\ v < w
      BY <1>1, <1>4, <2>3
    <3> QED
      BY <3>1
  <2>4. CASE l # low
    <3>1. l # high /\ Upper[l] # low /\ Upper[l] # high
      BY <1>1, <2>1, <2>4
    <3>2. new[l] = net[l] /\ new[Upper[l]] = net[Upper[l]]
      BY <1>4, <2>1, <2>4, <3>1
    <3> QED
      BY <2>2, <3>2
  <2> QED
    BY <2>3, <2>4
<1>8. \A i \in Divisors : new[i] > 0
  <2>1. \A i \in Divisors : i \in Items /\ net[i] > 0 /\ i # low /\ i # high
    BY <1>5, BoundsItems DEF NetOK
  <2> QED
    BY <1>4, <2>1
<1>9. NetOK(new)
  BY <1>3, <1>6, <1>7, <1>8 DEF NetOK
<1>10. SetsBoth(low, v, Upper[low], w, ok).writes = writes
  BY DEF SetsBoth, writes
<1> QED
  BY <1>9, <1>10 DEF new

(* Setters of pairs of 32 and of 128 bits.                                 *)
LEMMA PairRow32 ==
  ASSUME NetOK(net), NEW low \in Lower \ WideLower,
         NEW v \in 0 .. U32Max, NEW w \in 0 .. U32Max, NEW ok, ok => v < w
  PROVE  NetRowOK(SetsBoth(low, v, Upper[low], w, ok))
<1>1. low \in Lower /\ Limit(low) = U32Max /\ Limit(Upper[low]) = U32Max
  BY PairLimits
<1> QED
  BY <1>1, PairRow

LEMMA PairRow128 ==
  ASSUME NetOK(net), NEW low \in WideLower,
         NEW v \in 0 .. U128Max, NEW w \in 0 .. U128Max, NEW ok, ok => v < w
  PROVE  NetRowOK(SetsBoth(low, v, Upper[low], w, ok))
<1>1. low \in Lower /\ Limit(low) = U128Max /\ Limit(Upper[low]) = U128Max
  BY PairLimits
<1> QED
  BY <1>1, PairRow

(* The setters of limits keep the parameters sound.                        *)
LEMMA LimitRows ==
  ASSUME NetOK(net), NEW v \in 0 .. U128Max, NEW w \in 0 .. U128Max, NEW x \in 0 .. U128Max,
         NEW name \in DOMAIN LimitSetters(v, w, x), Converts(name, v), Converts(name, w)
  PROVE  NetRowOK(LimitSetters(v, w, x)[name])
<1> DEFINE row(n) == LimitSetters(v, w, x)[n]
<1>w. name \in {"set_max_subnets", "set_max_bootnodes",
                "set_max_subnet_bootnodes_access", "set_max_pause_epochs",
                "set_registration_cost_delay_blocks",
                "set_min_idle_classification_epochs", "set_churn_limits",
                "set_churn_limit_multipliers", "set_queue_epochs"}
        => v \in 0 .. U32Max /\ w \in 0 .. U32Max
  BY CallWidth DEF EvmGroups, EvmSetters1, EvmSetters2, EvmSetters7
<1>1. {"SubnetOwnerPercentage", "MaxSubnets", "MaxBootnodes", "MaxSubnetBootnodeAccess",
       "MaxSubnetPauseEpochs", "MinRegistrationCost", "RegistrationCostDecayBlocks",
       "RegistrationCostAlpha", "NewRegistrationCostMultiplier",
       "MaxMinDelegateStakeMultiplier", "MinIdleClassificationEpochs"} \subseteq Plain
  BY ItemNames DEF Plain, Bounds, Lower, Upper, Switches, Divisors,
     NetDefaults3, NetDefaults6
<1>p. /\ {"MaxSubnets", "MaxBootnodes", "MaxSubnetBootnodeAccess",
        "MaxSubnetPauseEpochs", "RegistrationCostDecayBlocks",
        "MinIdleClassificationEpochs"} \subseteq Plain32
      /\ {"SubnetOwnerPercentage", "MinRegistrationCost", "RegistrationCostAlpha",
        "NewRegistrationCostMultiplier", "MaxMinDelegateStakeMultiplier"} \subseteq Plain128
  BY <1>1, WideNames DEF Plain32, Plain128, Limit, Switches, Middle,
     NetItems1, NetItems2, NetItems3, NetItems4, NetItems5, NetItems6, NetItems7,
     NetItems8, NetItems9, NetItems10, NetItems11, NetItems12, NetItems13
<1>2. NetRowOK(row("set_subnet_owner_percentage"))
  BY <1>p, PlainRow128 DEF LimitSetters
<1>3. name = "set_max_subnets" => NetRowOK(row("set_max_subnets"))
  BY <1>p, <1>w, PlainRow32 DEF LimitSetters
<1>4. name = "set_max_bootnodes" => NetRowOK(row("set_max_bootnodes"))
  BY <1>p, <1>w, PlainRow32 DEF LimitSetters
<1>5. name = "set_max_subnet_bootnodes_access" => NetRowOK(row("set_max_subnet_bootnodes_access"))
  BY <1>p, <1>w, PlainRow32 DEF LimitSetters
<1>6. name = "set_max_pause_epochs" => NetRowOK(row("set_max_pause_epochs"))
  BY <1>p, <1>w, PlainRow32 DEF LimitSetters
<1>7. NetRowOK(row("set_min_registration_cost"))
  BY <1>p, PlainRow128 DEF LimitSetters
<1>8. name = "set_registration_cost_delay_blocks"
        => NetRowOK(row("set_registration_cost_delay_blocks"))
  BY <1>p, <1>w, PlainRow32 DEF LimitSetters
<1>9. NetRowOK(row("set_registration_cost_alpha"))
  BY <1>p, PlainRow128 DEF LimitSetters
<1>10. NetRowOK(row("set_new_registration_cost_multiplier"))
  BY <1>p, PlainRow128 DEF LimitSetters
<1>11. NetRowOK(row("set_max_min_delegate_stake_multiplier"))
  BY <1>p, PlainRow128 DEF LimitSetters
<1>12. name = "set_min_idle_classification_epochs"
        => NetRowOK(row("set_min_idle_classification_epochs"))
  BY <1>p, <1>w, PlainRow32 DEF LimitSetters
<1>13. /\ {"MinChurnLimit", "MinChurnLimitMultiplier", "MinQueueEpochs"} \subseteq Lower \ WideLower
      /\ Upper["MinChurnLimit"] = "MaxChurnLimit"
      /\ Upper["MinChurnLimitMultiplier"] = "MaxChurnLimitMultiplier"
      /\ Upper["MinQueueEpochs"] = "MaxQueueEpochs"
  BY DEF Lower, Upper, WideLower
<1>14. name = "set_churn_limits" => NetRowOK(row("set_churn_limits"))
  BY <1>13, <1>w, PairRow32 DEF LimitSetters
<1>15. name = "set_churn_limit_multipliers" => NetRowOK(row("set_churn_limit_multipliers"))
  BY <1>13, <1>w, PairRow32 DEF LimitSetters
<1>16. name = "set_queue_epochs" => NetRowOK(row("set_queue_epochs"))
  BY <1>13, <1>w, PairRow32 DEF LimitSetters
<1>17. NetRowOK(row("pause"))
  <2>1. /\ "TxPause" \in Items \ (Divisors \cup Lower) /\ Limit("TxPause") = 1
        /\ \A l \in Lower : Upper[l] # "TxPause"
    BY BoundsItems DEF Switches, Divisors, Lower, Upper, Limit
  <2>2. NetOK(Over(Item("TxPause", 1), net))
    BY <2>1, OneWritten
  <2> QED
    BY <2>2 DEF LimitSetters, Sets, NetRowOK
<1>18. NetRowOK(row("unpause"))
  <2>1. /\ "TxPause" \in Items \ (Divisors \cup Lower) /\ Limit("TxPause") = 1
        /\ \A l \in Lower : Upper[l] # "TxPause"
    BY BoundsItems DEF Switches, Divisors, Lower, Upper, Limit
  <2>2. NetOK(Over(Item("TxPause", 0), net))
    BY <2>1, OneWritten
  <2> QED
    BY <2>2 DEF LimitSetters, Sets, NetRowOK
<1>19. name \in {"pause", "unpause", "set_subnet_owner_percentage", "set_max_subnets",
               "set_max_bootnodes", "set_max_subnet_bootnodes_access",
               "set_max_pause_epochs", "set_min_registration_cost",
               "set_registration_cost_delay_blocks", "set_registration_cost_alpha",
               "set_new_registration_cost_multiplier",
               "set_max_min_delegate_stake_multiplier", "set_churn_limits",
               "set_churn_limit_multipliers", "set_queue_epochs",
               "set_min_idle_classification_epochs"}
  BY DEF LimitSetters
<1> HIDE DEF row
<1>20. NetRowOK(row(name))
  BY <1>2, <1>3, <1>4, <1>5, <1>6, <1>7, <1>8, <1>9, <1>10, <1>11, <1>12, <1>14, <1>15, <1>16,
     <1>17, <1>18, <1>19
<1> QED
  BY <1>20 DEF row

(* The setters of stakes and rewards keep the parameters sound.            *)
LEMMA StakeRows ==
  ASSUME NetOK(net), NEW v \in 0 .. U128Max, NEW w \in 0 .. U128Max, NEW x \in 0 .. U128Max,
         NEW name \in DOMAIN StakeSetters(v, w, x), Converts(name, v), Converts(name, w)
  PROVE  NetRowOK(StakeSetters(v, w, x)[name])
<1> DEFINE row(n) == StakeSetters(v, w, x)[n]
<1>w. name \in {"set_max_idle_classification_epochs",
                "set_subnet_activation_enactment_epochs",
                "set_subnet_delegate_stake_rewards_update_period",
                "set_included_classification_epochs",
                "set_min_max_registered_nodes"}
        => v \in 0 .. U32Max /\ w \in 0 .. U32Max
  BY CallWidth DEF EvmGroups, EvmSetters2, EvmSetters3
<1>1. {"MaxIdleClassificationEpochs", "SubnetEnactmentEpochs",
       "MaxSubnetDelegateStakeRewardsPercentageChange",
       "SubnetDelegateStakeRewardsUpdatePeriod", "MinAttestationPercentage",
       "SuperMajorityAttestationRatio", "BaseValidatorReward", "BaseSlashPercentage",
       "MaxSlashAmount", "ValidatorReputationIncreaseFactor"} \subseteq Plain
  BY ItemNames DEF Plain, Bounds, Lower, Upper, Switches, Divisors,
     NetDefaults2, NetDefaults3, NetDefaults4
<1>p. /\ {"MaxIdleClassificationEpochs", "SubnetEnactmentEpochs",
        "SubnetDelegateStakeRewardsUpdatePeriod"} \subseteq Plain32
      /\ {"MaxSubnetDelegateStakeRewardsPercentageChange", "MinAttestationPercentage",
        "SuperMajorityAttestationRatio", "BaseValidatorReward",
        "BaseSlashPercentage", "MaxSlashAmount",
        "ValidatorReputationIncreaseFactor"} \subseteq Plain128
  BY <1>1, WideNames DEF Plain32, Plain128, Limit, Switches, Middle,
     NetItems1, NetItems2, NetItems3, NetItems4, NetItems5, NetItems6, NetItems7,
     NetItems8, NetItems9, NetItems10, NetItems11, NetItems12, NetItems13
<1>2. name = "set_max_idle_classification_epochs"
        => NetRowOK(row("set_max_idle_classification_epochs"))
  BY <1>p, <1>w, PlainRow32 DEF StakeSetters
<1>3. name = "set_subnet_activation_enactment_epochs"
        => NetRowOK(row("set_subnet_activation_enactment_epochs"))
  BY <1>p, <1>w, PlainRow32 DEF StakeSetters
<1>4. NetRowOK(row("set_max_subnet_delegate_stake_rewards_percentage_change"))
  BY <1>p, PlainRow128 DEF StakeSetters
<1>5. name = "set_subnet_delegate_stake_rewards_update_period"
        => NetRowOK(row("set_subnet_delegate_stake_rewards_update_period"))
  BY <1>p, <1>w, PlainRow32 DEF StakeSetters
<1>6. NetRowOK(row("set_min_attestation_percentage"))
  BY <1>p, PlainRow128 DEF StakeSetters
<1>7. NetRowOK(row("set_super_majority_attestation_ratio"))
  BY <1>p, PlainRow128 DEF StakeSetters
<1>8. NetRowOK(row("set_base_validator_reward"))
  BY <1>p, PlainRow128 DEF StakeSetters
<1>9. NetRowOK(row("set_base_slash_percentage"))
  BY <1>p, PlainRow128 DEF StakeSetters
<1>10. NetRowOK(row("set_max_slash_amount"))
  BY <1>p, PlainRow128 DEF StakeSetters
<1>11. NetRowOK(row("set_reputation_increase_factor"))
  BY <1>p, PlainRow128 DEF StakeSetters
<1>12. /\ {"MinIncludedClassificationEpochs", "MinMaxRegisteredNodes"} \subseteq Lower \ WideLower
      /\ {"MinSubnetMinStake", "MinDelegateStakePercentage"} \subseteq WideLower
      /\ Upper["MinIncludedClassificationEpochs"] = "MaxIncludedClassificationEpochs"
      /\ Upper["MinSubnetMinStake"] = "MaxSubnetMinStake"
      /\ Upper["MinDelegateStakePercentage"] = "MaxDelegateStakePercentage"
      /\ Upper["MinMaxRegisteredNodes"] = "MaxMaxRegisteredNodes"
  BY DEF Lower, Upper, WideLower
<1>13. name = "set_included_classification_epochs"
        => NetRowOK(row("set_included_classification_epochs"))
  BY <1>12, <1>w, PairRow32 DEF StakeSetters
<1>14. NetRowOK(row("set_subnet_stakes"))
  BY <1>12, PairRow128 DEF StakeSetters
<1>15. NetRowOK(row("set_delegate_stake_percentages"))
  BY <1>12, PairRow128 DEF StakeSetters
<1>16. name = "set_min_max_registered_nodes" => NetRowOK(row("set_min_max_registered_nodes"))
  BY <1>12, <1>w, PairRow32 DEF StakeSetters
<1>17. name \in {"set_max_idle_classification_epochs",
               "set_subnet_activation_enactment_epochs",
               "set_included_classification_epochs", "set_subnet_stakes",
               "set_delegate_stake_percentages", "set_min_max_registered_nodes",
               "set_max_subnet_delegate_stake_rewards_percentage_change",
               "set_subnet_delegate_stake_rewards_update_period",
               "set_min_attestation_percentage",
               "set_super_majority_attestation_ratio", "set_base_validator_reward",
               "set_base_slash_percentage", "set_max_slash_amount",
               "set_reputation_increase_factor"}
  BY DEF StakeSetters
<1> HIDE DEF row
<1>18. NetRowOK(row(name))
  BY <1>2, <1>3, <1>4, <1>5, <1>6, <1>7, <1>8, <1>9, <1>10, <1>11, <1>13, <1>14, <1>15, <1>16, <1>17
<1> QED
  BY <1>18 DEF row

(* The setters of overwatch nodes keep the parameters sound.               *)
LEMMA OverwatchRows ==
  ASSUME NetOK(net), NEW v \in 0 .. U128Max, NEW w \in 0 .. U128Max, NEW x \in 0 .. U128Max,
         NEW name \in DOMAIN OverwatchSetters(v, w, x), Converts(name, v), Converts(name, w)
  PROVE  NetRowOK(OverwatchSetters(v, w, x)[name])
<1> DEFINE row(n) == OverwatchSetters(v, w, x)[n]
<1>w. name \in {"set_node_reward_rate_update_period", "set_max_overwatch_nodes",
                "set_overwatch_min_age", "set_tx_rate_limit",
                "set_min_max_subnet_node", "set_overwatch_epoch_length_multiplier"}
        => v \in 0 .. U32Max /\ w \in 0 .. U32Max
  BY CallWidth DEF EvmGroups, EvmSetters4, EvmSetters5
<1>1. {"ValidatorReputationDecreaseFactor", "NetworkMaxStakeBalance",
       "MinDelegateStakeDeposit", "NodeRewardRateUpdatePeriod", "MaxRewardRateDecrease",
       "SubnetDistributionPower", "DelegateStakeWeightFactor",
       "InflationSigmoidSteepness", "MaxOverwatchNodes", "OverwatchCommitCutoffPercent",
       "OverwatchMinDiversificationRatio", "OverwatchMinRepScore",
       "OverwatchMinAvgAttestationRatio", "OverwatchMinAge", "OverwatchMinStakeBalance",
       "TxRateLimit"} \subseteq Plain
  BY ItemNames DEF Plain, Bounds, Lower, Upper, Switches, Divisors,
     NetDefaults1, NetDefaults2, NetDefaults3, NetDefaults4, NetDefaults5, NetDefaults6
<1>p. /\ {"NodeRewardRateUpdatePeriod", "MaxOverwatchNodes", "OverwatchMinAge",
        "TxRateLimit"} \subseteq Plain32
      /\ {"ValidatorReputationDecreaseFactor", "NetworkMaxStakeBalance",
        "MinDelegateStakeDeposit", "MaxRewardRateDecrease",
        "SubnetDistributionPower", "DelegateStakeWeightFactor",
        "InflationSigmoidSteepness", "OverwatchCommitCutoffPercent",
        "OverwatchMinDiversificationRatio", "OverwatchMinRepScore",
        "OverwatchMinAvgAttestationRatio", "OverwatchMinStakeBalance"} \subseteq Plain128
  BY <1>1, WideNames DEF Plain32, Plain128, Limit, Switches, Middle,
     NetItems1, NetItems2, NetItems3, NetItems4, NetItems5, NetItems6, NetItems7,
     NetItems8, NetItems9, NetItems10, NetItems11, NetItems12, NetItems13
<1>2. NetRowOK(row("set_reputation_decrease_factor"))
  <2>1. row("set_reputation_decrease_factor") = Sets("ValidatorReputationDecreaseFactor", v, v <= Full)
    BY DEF OverwatchSetters
  <2>2. NetRowOK(Sets("ValidatorReputationDecreaseFactor", v, v <= Full))
    BY <1>p, PlainRow128
  <2> QED
    BY <2>1, <2>2
<1>3. NetRowOK(row("set_network_max_stake_balance"))
  <2>1. row("set_network_max_stake_balance") = Sets("NetworkMaxStakeBalance", v, TRUE)
    BY DEF OverwatchSetters
  <2>2. NetRowOK(Sets("NetworkMaxStakeBalance", v, TRUE))
    BY <1>p, PlainRow128
  <2> QED
    BY <2>1, <2>2
<1>4. NetRowOK(row("set_min_delegate_stake_deposit"))
  <2>1. row("set_min_delegate_stake_deposit") = Sets("MinDelegateStakeDeposit", v, v >= 1000)
    BY DEF OverwatchSetters
  <2>2. NetRowOK(Sets("MinDelegateStakeDeposit", v, v >= 1000))
    BY <1>p, PlainRow128
  <2> QED
    BY <2>1, <2>2
<1>5. name = "set_node_reward_rate_update_period"
        => NetRowOK(row("set_node_reward_rate_update_period"))
  <2>1. row("set_node_reward_rate_update_period") = Sets("NodeRewardRateUpdatePeriod", v, TRUE)
    BY DEF OverwatchSetters
  <2>2. name = "set_node_reward_rate_update_period"
          => NetRowOK(Sets("NodeRewardRateUpdatePeriod", v, TRUE))
    BY <1>p, <1>w, PlainRow32
  <2> QED
    BY <2>1, <2>2
<1>6. NetRowOK(row("set_max_reward_rate_decrease"))
  <2>1. row("set_max_reward_rate_decrease") = Sets("MaxRewardRateDecrease", v, TRUE)
    BY DEF OverwatchSetters
  <2>2. NetRowOK(Sets("MaxRewardRateDecrease", v, TRUE))
    BY <1>p, PlainRow128
  <2> QED
    BY <2>1, <2>2
<1>7. NetRowOK(row("set_subnet_distribution_power"))
  <2>1. row("set_subnet_distribution_power") = Sets("SubnetDistributionPower", v, TRUE)
    BY DEF OverwatchSetters
  <2>2. NetRowOK(Sets("SubnetDistributionPower", v, TRUE))
    BY <1>p, PlainRow128
  <2> QED
    BY <2>1, <2>2
<1>8. NetRowOK(row("set_delegate_stake_weight_factor"))
  <2>1. row("set_delegate_stake_weight_factor") = Sets("DelegateStakeWeightFactor", v, v <= Full)
    BY DEF OverwatchSetters
  <2>2. NetRowOK(Sets("DelegateStakeWeightFactor", v, v <= Full))
    BY <1>p, PlainRow128
  <2> QED
    BY <2>1, <2>2
<1>9. NetRowOK(row("set_inflation_sigmoid_steepness"))
  <2>1. row("set_inflation_sigmoid_steepness") = Sets("InflationSigmoidSteepness", v, TRUE)
    BY DEF OverwatchSetters
  <2>2. NetRowOK(Sets("InflationSigmoidSteepness", v, TRUE))
    BY <1>p, PlainRow128
  <2> QED
    BY <2>1, <2>2
<1>10. name = "set_max_overwatch_nodes" => NetRowOK(row("set_max_overwatch_nodes"))
  <2>1. row("set_max_overwatch_nodes") = Sets("MaxOverwatchNodes", v, TRUE)
    BY DEF OverwatchSetters
  <2>2. name = "set_max_overwatch_nodes" => NetRowOK(Sets("MaxOverwatchNodes", v, TRUE))
    BY <1>p, <1>w, PlainRow32
  <2> QED
    BY <2>1, <2>2
<1>11. NetRowOK(row("set_overwatch_commit_cutoff_percent"))
  <2>1. row("set_overwatch_commit_cutoff_percent") = Sets("OverwatchCommitCutoffPercent", v, v <= 950)
    BY DEF OverwatchSetters
  <2>2. NetRowOK(Sets("OverwatchCommitCutoffPercent", v, v <= 950))
    BY <1>p, PlainRow128
  <2> QED
    BY <2>1, <2>2
<1>12. NetRowOK(row("set_overwatch_min_diversification_ratio"))
  <2>1. row("set_overwatch_min_diversification_ratio") = Sets("OverwatchMinDiversificationRatio", v, TRUE)
    BY DEF OverwatchSetters
  <2>2. NetRowOK(Sets("OverwatchMinDiversificationRatio", v, TRUE))
    BY <1>p, PlainRow128
  <2> QED
    BY <2>1, <2>2
<1>13. NetRowOK(row("set_overwatch_min_rep_score"))
  <2>1. row("set_overwatch_min_rep_score") = Sets("OverwatchMinRepScore", v, TRUE)
    BY DEF OverwatchSetters
  <2>2. NetRowOK(Sets("OverwatchMinRepScore", v, TRUE))
    BY <1>p, PlainRow128
  <2> QED
    BY <2>1, <2>2
<1>14. NetRowOK(row("set_overwatch_min_avg_attestation_ratio"))
  <2>1. row("set_overwatch_min_avg_attestation_ratio") = Sets("OverwatchMinAvgAttestationRatio", v, TRUE)
    BY DEF OverwatchSetters
  <2>2. NetRowOK(Sets("OverwatchMinAvgAttestationRatio", v, TRUE))
    BY <1>p, PlainRow128
  <2> QED
    BY <2>1, <2>2
<1>15. name = "set_overwatch_min_age" => NetRowOK(row("set_overwatch_min_age"))
  <2>1. row("set_overwatch_min_age") = Sets("OverwatchMinAge", v, TRUE)
    BY DEF OverwatchSetters
  <2>2. name = "set_overwatch_min_age" => NetRowOK(Sets("OverwatchMinAge", v, TRUE))
    BY <1>p, <1>w, PlainRow32
  <2> QED
    BY <2>1, <2>2
<1>16. NetRowOK(row("set_overwatch_min_stake_balance"))
  <2>1. row("set_overwatch_min_stake_balance") = Sets("OverwatchMinStakeBalance", v, TRUE)
    BY DEF OverwatchSetters
  <2>2. NetRowOK(Sets("OverwatchMinStakeBalance", v, TRUE))
    BY <1>p, PlainRow128
  <2> QED
    BY <2>1, <2>2
<1>17. name = "set_tx_rate_limit" => NetRowOK(row("set_tx_rate_limit"))
  <2>1. row("set_tx_rate_limit") = Sets("TxRateLimit", v, TRUE)
    BY DEF OverwatchSetters
  <2>2. name = "set_tx_rate_limit" => NetRowOK(Sets("TxRateLimit", v, TRUE))
    BY <1>p, <1>w, PlainRow32
  <2> QED
    BY <2>1, <2>2
<1>18. /\ {"MinSubnetNodes"} \subseteq Lower \ WideLower
      /\ Upper["MinSubnetNodes"] = "MaxSubnetNodes"
  BY DEF Lower, Upper, WideLower
<1>19. name = "set_min_max_subnet_node" => NetRowOK(row("set_min_max_subnet_node"))
  <2>1. row("set_min_max_subnet_node") = SetsBoth("MinSubnetNodes", v, "MaxSubnetNodes", w, v < w /\ v > 0)
    BY DEF OverwatchSetters
  <2>2. name = "set_min_max_subnet_node"
          => NetRowOK(SetsBoth("MinSubnetNodes", v, "MaxSubnetNodes", w, v < w /\ v > 0))
    BY <1>18, <1>w, PairRow32
  <2> QED
    BY <2>1, <2>2
<1>20. name = "set_overwatch_epoch_length_multiplier"
        => NetRowOK(row("set_overwatch_epoch_length_multiplier"))
  <2> DEFINE i == "OverwatchEpochLengthMultiplier"
  <2>1. i \in Items \ Lower /\ \A l \in Lower : Upper[l] # i
    BY BoundsItems DEF Divisors, Lower, Upper
  <2>2. Limit(i) = U32Max
    BY DivisorLimits DEF Divisors
  <2>3. name = "set_overwatch_epoch_length_multiplier" => NetRowOK(Sets(i, v, v > 0))
    BY <1>w, <2>1, <2>2, CheckedRow
  <2> QED
    BY <2>3 DEF OverwatchSetters
<1>21. name \in {"set_reputation_decrease_factor", "set_network_max_stake_balance",
               "set_min_delegate_stake_deposit", "set_node_reward_rate_update_period",
               "set_max_reward_rate_decrease", "set_subnet_distribution_power",
               "set_delegate_stake_weight_factor", "set_inflation_sigmoid_steepness",
               "set_max_overwatch_nodes", "set_overwatch_epoch_length_multiplier",
               "set_overwatch_commit_cutoff_percent",
               "set_overwatch_min_diversification_ratio",
               "set_overwatch_min_rep_score",
               "set_overwatch_min_avg_attestation_ratio", "set_overwatch_min_age",
               "set_overwatch_min_stake_balance", "set_min_max_subnet_node",
               "set_tx_rate_limit"}
  BY DEF OverwatchSetters
<1> HIDE DEF row
<1>22. NetRowOK(row(name))
  BY <1>2, <1>3, <1>4, <1>5, <1>6, <1>7, <1>8, <1>9, <1>10, <1>11, <1>12, <1>13, <1>14, <1>15,
     <1>16, <1>17, <1>19, <1>20, <1>21
<1> QED
  BY <1>22 DEF row

(* The setters of cooldowns keep the parameters sound.                     *)
LEMMA CooldownRows ==
  ASSUME NetOK(net), NEW v \in 0 .. U128Max, NEW w \in 0 .. U128Max, NEW x \in 0 .. U128Max,
         NEW name \in DOMAIN CooldownSetters(v, w, x), Converts(name, v), Converts(name, w)
  PROVE  NetRowOK(CooldownSetters(v, w, x)[name])
<1> DEFINE row(n) == CooldownSetters(v, w, x)[n]
<1>w. name \in {"set_min_active_node_stake_epochs",
                "set_delegate_stake_cooldown_epochs",
                "set_node_delegate_stake_cooldown_epochs",
                "set_min_stake_cooldown_epochs", "set_max_unbondings",
                "set_min_subnet_registration_epochs",
                "set_subnet_registration_epochs", "set_maximum_hooks_weight"}
        => v \in 0 .. U32Max /\ w \in 0 .. U32Max
  BY CallWidth DEF EvmGroups, EvmSetters5, EvmSetters6
<1>1. {"MinSubnetDelegateStakeFactor", "MinActiveNodeStakeEpochs",
       "DelegateStakeCooldownEpochs", "NodeDelegateStakeCooldownEpochs",
       "StakeCooldownEpochs", "MaxUnbondings", "InflationSigmoidMidpoint",
       "BaseNodeBurnAmount"} \subseteq Plain
  BY ItemNames DEF Plain, Bounds, Lower, Upper, Switches, Divisors,
     NetDefaults2, NetDefaults3, NetDefaults6
<1>p. /\ {"MinActiveNodeStakeEpochs", "DelegateStakeCooldownEpochs",
        "NodeDelegateStakeCooldownEpochs", "StakeCooldownEpochs", "MaxUnbondings"} \subseteq Plain32
      /\ {"MinSubnetDelegateStakeFactor", "InflationSigmoidMidpoint",
        "BaseNodeBurnAmount"} \subseteq Plain128
  BY <1>1, WideNames DEF Plain32, Plain128, Limit, Switches, Middle,
     NetItems1, NetItems2, NetItems3, NetItems4, NetItems5, NetItems6, NetItems7,
     NetItems8, NetItems9, NetItems10, NetItems11, NetItems12, NetItems13
<1>2. NetRowOK(row("set_min_subnet_delegate_stake_factor"))
  BY <1>p, PlainRow128 DEF CooldownSetters
<1>3. name = "set_min_active_node_stake_epochs" => NetRowOK(row("set_min_active_node_stake_epochs"))
  BY <1>p, <1>w, PlainRow32 DEF CooldownSetters
<1>4. name = "set_delegate_stake_cooldown_epochs"
        => NetRowOK(row("set_delegate_stake_cooldown_epochs"))
  BY <1>p, <1>w, PlainRow32 DEF CooldownSetters
<1>5. name = "set_node_delegate_stake_cooldown_epochs"
        => NetRowOK(row("set_node_delegate_stake_cooldown_epochs"))
  BY <1>p, <1>w, PlainRow32 DEF CooldownSetters
<1>6. name = "set_min_stake_cooldown_epochs" => NetRowOK(row("set_min_stake_cooldown_epochs"))
  BY <1>p, <1>w, PlainRow32 DEF CooldownSetters
<1>7. name = "set_max_unbondings" => NetRowOK(row("set_max_unbondings"))
  BY <1>p, <1>w, PlainRow32 DEF CooldownSetters
<1>8. NetRowOK(row("set_sigmoid_midpoint"))
  BY <1>p, PlainRow128 DEF CooldownSetters
<1>9. NetRowOK(row("set_base_node_burn_amount"))
  BY <1>p, PlainRow128 DEF CooldownSetters
<1>10. name = "set_min_subnet_registration_epochs"
        => NetRowOK(row("set_min_subnet_registration_epochs"))
  <2> DEFINE i == "MinSubnetRegistrationEpochs"
  <2>1. /\ i \in Lower /\ Upper[i] = "SubnetRegistrationEpochs" /\ i \in Items \ Divisors
        /\ \A l \in Lower : Upper[l] # i
    BY BoundsItems DEF Divisors, Bounds, Lower, Upper
  <2>2. Limit(i) = U32Max
    BY <2>1, PairLimits DEF WideLower
  <2> QED
    BY <1>w, <2>1, <2>2, CheckedRow DEF CooldownSetters
<1>11. name = "set_subnet_registration_epochs" => NetRowOK(row("set_subnet_registration_epochs"))
  <2> DEFINE i == "SubnetRegistrationEpochs"
  <2>1. /\ Upper["MinSubnetRegistrationEpochs"] = i /\ "MinSubnetRegistrationEpochs" \in Lower
        /\ i \notin Lower \cup Divisors
    BY DEF Divisors, Lower, Upper
  <2>2. i \in Items
    BY <2>1, BoundsItems DEF Bounds
  <2>3. \A l \in Lower : Upper[l] = i => l = "MinSubnetRegistrationEpochs"
    BY <2>1, BoundsApart
  <2>4. net["MinSubnetRegistrationEpochs"] \in Int
    BY <2>1, BoundsItems DEF NetOK, Bounds
  <2>5. Limit(i) = U32Max
    BY <2>1, PairLimits DEF WideLower
  <2> QED
    BY <1>w, <2>1, <2>2, <2>3, <2>4, <2>5, CheckedRow DEF CooldownSetters
<1>12. name = "set_maximum_hooks_weight" => NetRowOK(row("set_maximum_hooks_weight"))
  <2> DEFINE i == "MaximumHooksWeightV2"
             share == (v * MaxBlockWeight) \div 100
  <2>1. i \notin Divisors \cup Lower /\ Limit(i) = MaxBlockWeight /\ \A l \in Lower : Upper[l] # i
    BY DEF Switches, Divisors, Lower, Upper, Limit
  <2>2. i \in Items
    BY ItemNames DEF NetDefaults6
  <2>3. v > 0 /\ v <= 100 => share \in 0 .. MaxBlockWeight
    BY ShareOfBlock
  <2> QED
    BY <2>1, <2>2, <2>3, CheckedRow DEF CooldownSetters
<1>13. name \in {"set_min_subnet_delegate_stake_factor",
               "set_min_subnet_registration_epochs", "set_subnet_registration_epochs",
               "set_min_active_node_stake_epochs",
               "set_delegate_stake_cooldown_epochs",
               "set_node_delegate_stake_cooldown_epochs",
               "set_min_stake_cooldown_epochs", "set_max_unbondings",
               "set_sigmoid_midpoint", "set_maximum_hooks_weight",
               "set_base_node_burn_amount"}
  BY DEF CooldownSetters
<1> HIDE DEF row
<1>14. NetRowOK(row(name))
  BY <1>2, <1>3, <1>4, <1>5, <1>6, <1>7, <1>8, <1>9, <1>10, <1>11, <1>12, <1>13
<1> QED
  BY <1>14 DEF row

(* The setters of rewards and intervals keep the parameters sound.         *)
LEMMA RewardRows ==
  ASSUME NetOK(net), NEW v \in 0 .. U128Max, NEW w \in 0 .. U128Max, NEW x \in 0 .. U128Max,
         NEW name \in DOMAIN RewardSetters(v, w, x), Converts(name, v), Converts(name, w)
  PROVE  NetRowOK(RewardSetters(v, w, x)[name])
<1> DEFINE row(n) == RewardSetters(v, w, x)[n]
<1>w. name \in {"set_subnet_pause_cooldown_epochs",
                "set_max_swap_queue_calls_per_block",
                "set_delegate_stake_subnet_removal_interval",
                "set_subnet_removal_intervals"}
        => v \in 0 .. U32Max /\ w \in 0 .. U32Max
  BY CallWidth DEF EvmGroups, EvmSetters1, EvmSetters2
<1>1. {"SubnetPauseCooldownEpochs", "MaxSwapQueueCallsPerBlock",
       "MaxSubnetNodeMinWeightDecreaseReputationThreshold", "ValidatorRewardK",
       "ValidatorRewardMidpoint", "AttestorRewardExponent", "AttestorMinRewardFactor"} \subseteq Plain
  BY ItemNames DEF Plain, Bounds, Lower, Upper, Switches, Divisors,
     NetDefaults2, NetDefaults6
<1>p. /\ {"SubnetPauseCooldownEpochs", "MaxSwapQueueCallsPerBlock"} \subseteq Plain32
      /\ {"MaxSubnetNodeMinWeightDecreaseReputationThreshold",
        "ValidatorRewardMidpoint", "AttestorMinRewardFactor"} \subseteq Plain128
  BY <1>1, WideNames DEF Plain32, Plain128, Limit, Switches, Middle,
     NetItems1, NetItems2, NetItems3, NetItems4, NetItems5, NetItems6, NetItems7,
     NetItems8, NetItems9, NetItems10, NetItems11, NetItems12, NetItems13
<1>m. /\ name \in {"set_validator_reward_k", "set_attestor_reward_exponent"} => v \in 0 .. U64Max
      /\ \A i \in {"ValidatorRewardK", "AttestorRewardExponent"} : i \in Plain /\ Limit(i) = U64Max
  <2>1. name \in {"set_validator_reward_k", "set_attestor_reward_exponent"} => v \in 0 .. U64Max
    BY CallWidth DEF EvmGroups, EvmSetters6
  <2> QED
    BY <1>1, <2>1 DEF Limit, Switches, Middle
<1>2. name = "set_subnet_pause_cooldown_epochs" => NetRowOK(row("set_subnet_pause_cooldown_epochs"))
  BY <1>p, <1>w, PlainRow32 DEF RewardSetters
<1>3. name = "set_max_swap_queue_calls_per_block"
        => NetRowOK(row("set_max_swap_queue_calls_per_block"))
  BY <1>p, <1>w, PlainRow32 DEF RewardSetters
<1>4. NetRowOK(row("set_max_subnet_node_min_weight_decrease_reputation_threshold"))
  BY <1>p, PlainRow128 DEF RewardSetters
<1>5. name = "set_validator_reward_k" => NetRowOK(row("set_validator_reward_k"))
  BY <1>m, PlainRow DEF RewardSetters
<1>6. NetRowOK(row("set_validator_reward_midpoint"))
  BY <1>p, PlainRow128 DEF RewardSetters
<1>7. name = "set_attestor_reward_exponent" => NetRowOK(row("set_attestor_reward_exponent"))
  BY <1>m, PlainRow DEF RewardSetters
<1>8. NetRowOK(row("set_attestor_min_reward_factor"))
  BY <1>p, PlainRow128 DEF RewardSetters
<1>9. /\ {"MinNodeBurnRate", "MinMinSubnetNodeReputation", "MinNodeReputationFactor"} \subseteq WideLower
      /\ Upper["MinNodeBurnRate"] = "MaxNodeBurnRate"
      /\ Upper["MinMinSubnetNodeReputation"] = "MaxMinSubnetNodeReputation"
      /\ Upper["MinNodeReputationFactor"] = "MaxNodeReputationFactor"
  BY DEF Lower, Upper, WideLower
<1>10. NetRowOK(row("set_node_burn_rates"))
  BY <1>9, PairRow128 DEF RewardSetters
<1>11. NetRowOK(row("set_min_max_node_reputation"))
  BY <1>9, PairRow128 DEF RewardSetters
<1>12. NetRowOK(row("set_min_max_node_reputation_factor"))
  BY <1>9, PairRow128 DEF RewardSetters
<1>13. name = "set_delegate_stake_subnet_removal_interval"
        => NetRowOK(row("set_delegate_stake_subnet_removal_interval"))
  <2> DEFINE i == "DelegateStakeSubnetRemovalInterval"
  <2>1. i \in Items \ Lower /\ \A l \in Lower : Upper[l] # i
    BY BoundsItems DEF Divisors, Lower, Upper
  <2>2. Limit(i) = U32Max
    BY DivisorLimits DEF Divisors
  <2> QED
    BY <1>w, <2>1, <2>2, CheckedRow DEF RewardSetters
<1>14. name = "set_subnet_removal_intervals" => NetRowOK(row("set_subnet_removal_intervals"))
  <2> DEFINE low == "MinSubnetRemovalInterval"
             high == "MaxSubnetRemovalInterval"
  <2> HAVE name = "set_subnet_removal_intervals"
  <2>1. low \in Plain /\ high \in Items \ Lower /\ \A l \in Lower : Upper[l] # high
    BY ItemNames DEF Plain, Bounds, Lower, Upper, Switches, Divisors, NetDefaults5
  <2>4. Limit(low) = U32Max /\ Limit(high) = U32Max
    BY DivisorLimits DEF Divisors
  <2>2. CASE ~(v < w)
    BY <2>2 DEF RewardSetters, SetsBoth, NetRowOK
  <2>3. CASE v < w
    <3>1. NetOK(Over(Item(high, w), net))
      BY <1>w, <2>1, <2>3, <2>4, OneWritten
    <3>2. NetOK(Over(Item(low, v), Over(Item(high, w), net)))
      BY <1>w, <2>1, <2>4, <3>1, PlainWritten
    <3>3. Over(Item(low, v), Over(Item(high, w), net)) = Over(Over(Item(low, v), Item(high, w)), net)
      BY OverAssociative
    <3> QED
      BY <3>2, <3>3 DEF RewardSetters, SetsBoth, NetRowOK
  <2> QED
    BY <2>2, <2>3
<1>15. name \in {"set_node_burn_rates", "set_delegate_stake_subnet_removal_interval",
               "set_subnet_removal_intervals", "set_subnet_pause_cooldown_epochs",
               "set_max_swap_queue_calls_per_block",
               "set_max_subnet_node_min_weight_decrease_reputation_threshold",
               "set_validator_reward_k", "set_validator_reward_midpoint",
               "set_attestor_reward_exponent", "set_attestor_min_reward_factor",
               "set_min_max_node_reputation", "set_min_max_node_reputation_factor"}
  BY DEF RewardSetters
<1> HIDE DEF row
<1>16. NetRowOK(row(name))
  BY <1>2, <1>3, <1>4, <1>5, <1>6, <1>7, <1>8, <1>10, <1>11, <1>12, <1>13, <1>14, <1>15
<1> QED
  BY <1>16 DEF row

(* The setters of reputation keep the parameters sound.                    *)
LEMMA ReputationRows ==
  ASSUME NetOK(net), NEW v \in 0 .. U128Max, NEW w \in 0 .. U128Max, NEW x \in 0 .. U128Max,
         NEW name \in DOMAIN ReputationSetters(v, w, x), Converts(name, v), Converts(name, w)
  PROVE  NetRowOK(ReputationSetters(v, w, x)[name])
<1> DEFINE row(n) == ReputationSetters(v, w, x)[n]
<1>w. name \in {"set_max_emergency_subnet_nodes"}
        => v \in 0 .. U32Max /\ w \in 0 .. U32Max
  BY CallWidth DEF EvmGroups, EvmSetters7
<1>1. {"MinSubnetReputation", "NotInConsensusSubnetReputationFactor",
       "MaxPauseEpochsSubnetReputationFactor", "LessThanMinNodesSubnetReputationFactor",
       "ValidatorAbsentSubnetReputationFactor", "InConsensusSubnetReputationFactor",
       "OverwatchWeightFactor", "MaxEmergencyValidatorEpochsMultiplier",
       "MaxEmergencySubnetNodes", "OverwatchStakeWeightFactor"} \subseteq Plain
  BY ItemNames DEF Plain, Bounds, Lower, Upper, Switches, Divisors,
     NetDefaults1, NetDefaults5, NetDefaults6
<1>p. /\ {"MaxEmergencySubnetNodes"} \subseteq Plain32
      /\ {"MinSubnetReputation", "NotInConsensusSubnetReputationFactor",
        "MaxPauseEpochsSubnetReputationFactor",
        "LessThanMinNodesSubnetReputationFactor",
        "ValidatorAbsentSubnetReputationFactor",
        "InConsensusSubnetReputationFactor", "OverwatchWeightFactor",
        "MaxEmergencyValidatorEpochsMultiplier", "OverwatchStakeWeightFactor"} \subseteq Plain128
  BY <1>1, WideNames DEF Plain32, Plain128, Limit, Switches, Middle,
     NetItems1, NetItems2, NetItems3, NetItems4, NetItems5, NetItems6, NetItems7,
     NetItems8, NetItems9, NetItems10, NetItems11, NetItems12, NetItems13
<1>2. NetRowOK(row("set_min_subnet_reputation"))
  BY <1>p, PlainRow128 DEF ReputationSetters
<1>3. NetRowOK(row("set_not_in_consensus_subnet_reputation_factor"))
  BY <1>p, PlainRow128 DEF ReputationSetters
<1>4. NetRowOK(row("set_max_pause_epochs_subnet_reputation_factor"))
  BY <1>p, PlainRow128 DEF ReputationSetters
<1>5. NetRowOK(row("set_less_than_min_nodes_subnet_reputation_factor"))
  BY <1>p, PlainRow128 DEF ReputationSetters
<1>6. NetRowOK(row("set_validator_proposal_absent_subnet_reputation_factor"))
  BY <1>p, PlainRow128 DEF ReputationSetters
<1>7. NetRowOK(row("set_in_consensus_subnet_reputation_factor"))
  BY <1>p, PlainRow128 DEF ReputationSetters
<1>8. NetRowOK(row("set_overwatch_weight_factor"))
  BY <1>p, PlainRow128 DEF ReputationSetters
<1>9. NetRowOK(row("set_max_emergency_validator_epochs_multiplier"))
  BY <1>p, PlainRow128 DEF ReputationSetters
<1>10. name = "set_max_emergency_subnet_nodes" => NetRowOK(row("set_max_emergency_subnet_nodes"))
  BY <1>p, <1>w, PlainRow32 DEF ReputationSetters
<1>11. NetRowOK(row("set_overwatch_stake_weight_factor"))
  BY <1>p, PlainRow128 DEF ReputationSetters
<1>12. name \in {"set_min_subnet_reputation",
               "set_not_in_consensus_subnet_reputation_factor",
               "set_max_pause_epochs_subnet_reputation_factor",
               "set_less_than_min_nodes_subnet_reputation_factor",
               "set_validator_proposal_absent_subnet_reputation_factor",
               "set_in_consensus_subnet_reputation_factor",
               "set_overwatch_weight_factor",
               "set_max_emergency_validator_epochs_multiplier",
               "set_max_emergency_subnet_nodes", "set_overwatch_stake_weight_factor"}
  BY DEF ReputationSetters
<1> HIDE DEF row
<1>13. NetRowOK(row(name))
  BY <1>2, <1>3, <1>4, <1>5, <1>6, <1>7, <1>8, <1>9, <1>10, <1>11, <1>12
<1> QED
  BY <1>13 DEF row

(* The setters of weights keep the parameters sound.                       *)
LEMMA WeightRows ==
  ASSUME NetOK(net), NEW v \in 0 .. U128Max, NEW w \in 0 .. U128Max, NEW x \in 0 .. U128Max,
         NEW name \in DOMAIN WeightSetters(v, w, x), Converts(name, v), Converts(name, w)
  PROVE  NetRowOK(WeightSetters(v, w, x)[name])
<1> DEFINE row(n) == WeightSetters(v, w, x)[n]
<1>1. {"DefaultOverwatchSubnetWeight"} \subseteq Plain
  BY ItemNames DEF Plain, Bounds, Lower, Upper, Switches, Divisors,
     NetDefaults7
<1>p. {"DefaultOverwatchSubnetWeight"} \subseteq Plain128
  BY <1>1, WideNames DEF Plain32, Plain128, Limit, Switches, Middle,
     NetItems1, NetItems2, NetItems3, NetItems4, NetItems5, NetItems6, NetItems7,
     NetItems8, NetItems9, NetItems10, NetItems11, NetItems12, NetItems13
<1>2. NetRowOK(row("set_default_overwatch_subnet_weight"))
  BY <1>p, PlainRow128 DEF WeightSetters
<1>3. NetRowOK(row("set_subnet_weight_factors"))
  <2> DEFINE writes == [delegate_stake |-> v, node_count |-> w, net_flow |-> x]
             one == Over(Item("delegate_stake", v), net)
             two == Over(Item("node_count", w), one)
  <2>1. {"delegate_stake", "node_count", "net_flow"} \subseteq Plain
    BY ItemNames DEF Plain, Bounds, Lower, Upper, Switches, Divisors, NetDefaults7
  <2>6. \A i \in {"delegate_stake", "node_count", "net_flow"} : Limit(i) = U128Max
    BY WideNames DEF Limit, Switches, Middle, NetItems4
  <2>2. NetOK(one)
    BY <2>1, <2>6, PlainWritten
  <2>3. NetOK(two)
    BY <2>1, <2>2, <2>6, PlainWritten
  <2>4. NetOK(Over(Item("net_flow", x), two))
    BY <2>1, <2>3, <2>6, PlainWritten
  <2>5. Over(writes, net) = Over(Item("net_flow", x), two)
    BY DEF Over, Item
  <2> QED
    BY <2>4, <2>5 DEF WeightSetters, NetRowOK
<1>4. name \in {"set_subnet_weight_factors", "set_default_overwatch_subnet_weight"}
  BY DEF WeightSetters
<1> HIDE DEF row
<1>5. NetRowOK(row(name))
  BY <1>2, <1>3, <1>4
<1> QED
  BY <1>5 DEF row

(* The setters of switch keep the parameters sound.                        *)
LEMMA SwitchRows ==
  ASSUME NetOK(net), NEW v \in 0 .. U128Max, NEW w \in 0 .. U128Max, NEW x \in 0 .. U128Max,
         NEW name \in DOMAIN SwitchSetters(v, w, x), Converts(name, v), Converts(name, w)
  PROVE  NetRowOK(SwitchSetters(v, w, x)[name])
<1> DEFINE row(n) == SwitchSetters(v, w, x)[n]
<1>1. NetRowOK(row("update_require_subnet_registration_whitelist"))
  <2> DEFINE i == "RequireSubnetRegistrationWhitelist"
  <2>1. i \in Items \ (Divisors \cup Lower) /\ Limit(i) = 1 /\ \A l \in Lower : Upper[l] # i
    BY BoundsItems DEF Switches, Divisors, Lower, Upper, Limit
  <2>2. CASE v \in {0, 1}
    <3>1. v \in 0 .. Limit(i)
      BY <2>1, <2>2
    <3>2. NetOK(Over(Item(i, v), net))
      BY <2>1, <3>1, OneWritten
    <3> QED
      BY <3>2 DEF SwitchSetters, Sets, NetRowOK
  <2>3. CASE v \notin {0, 1}
    BY <2>3 DEF SwitchSetters, Sets, NetRowOK
  <2> QED
    BY <2>2, <2>3
<1>2. name \in {"update_require_subnet_registration_whitelist"}
  BY DEF SwitchSetters
<1> HIDE DEF row
<1>3. NetRowOK(row(name))
  BY <1>1, <1>2
<1> QED
  BY <1>3 DEF row

--------------------------------------------------------------------------------
(***************************************************************************)
(* The calls of the collective.                                            *)
(***************************************************************************)
(* The names of the rows of the tables.                                    *)
SetterNames(v, w, x) ==
  DOMAIN LimitSetters(v, w, x) \cup DOMAIN StakeSetters(v, w, x)
    \cup DOMAIN OverwatchSetters(v, w, x) \cup DOMAIN CooldownSetters(v, w, x)
    \cup DOMAIN RewardSetters(v, w, x) \cup DOMAIN ReputationSetters(v, w, x)
    \cup DOMAIN WeightSetters(v, w, x) \cup DOMAIN SwitchSetters(v, w, x)

(* The calls of the collective that set no parameter.                      *)
Others == {"collective_remove_subnet", "collective_remove_subnet_node",
       "collective_remove_overwatch_node", "set_overwatch_validator_whitelist",
       "collective_set_coldkey_overwatch_node_eligibility", "update_subnet_registrant"}

(* Every call that sets a parameter has a row.                             *)
LEMMA CallsHaveRows ==
  ASSUME NEW v, NEW w, NEW x
  PROVE  AdminCalls \subseteq SetterNames(v, w, x)
<1> DEFINE names(g) == (g.majority \cup g.super) \ Others
           rows == SetterNames(v, w, x)
<1>1. names(Origins1) \subseteq rows
  BY DEF Origins1, Others, SetterNames, LimitSetters, StakeSetters, OverwatchSetters,
         CooldownSetters, RewardSetters, ReputationSetters, WeightSetters, SwitchSetters
<1>2. names(Origins2) \subseteq rows
  BY DEF Origins2, Others, SetterNames, LimitSetters, StakeSetters, OverwatchSetters,
         CooldownSetters, RewardSetters, ReputationSetters, WeightSetters, SwitchSetters
<1>3. names(Origins3) \subseteq rows
  BY DEF Origins3, Others, SetterNames, LimitSetters, StakeSetters, OverwatchSetters,
         CooldownSetters, RewardSetters, ReputationSetters, WeightSetters, SwitchSetters
<1>4. names(Origins4) \subseteq rows
  BY DEF Origins4, Others, SetterNames, LimitSetters, StakeSetters, OverwatchSetters,
         CooldownSetters, RewardSetters, ReputationSetters, WeightSetters, SwitchSetters
<1>5. names(Origins5) \subseteq rows
  BY DEF Origins5, Others, SetterNames, LimitSetters, StakeSetters, OverwatchSetters,
         CooldownSetters, RewardSetters, ReputationSetters, WeightSetters, SwitchSetters
<1>6. names(Origins6) \subseteq rows
  BY DEF Origins6, Others, SetterNames, LimitSetters, StakeSetters, OverwatchSetters,
         CooldownSetters, RewardSetters, ReputationSetters, WeightSetters, SwitchSetters
<1>7. \A n \in AdminCalls : \E g \in OriginGroups : n \in names(g)
  BY DEF AdminCalls, MajorityCalls, SuperMajorityCalls, Others
<1> HIDE DEF rows, names
<1>8. \A g \in OriginGroups : names(g) \subseteq rows
  BY <1>1, <1>2, <1>3, <1>4, <1>5, <1>6 DEF OriginGroups
<1>9. AdminCalls \subseteq rows
  BY <1>7, <1>8
<1> QED
  BY <1>9 DEF rows

(* The row of a call that has one.                                         *)
LEMMA SetterRow ==
  ASSUME NetOK(net), NEW call, call.v \in 0 .. U128Max, call.w \in 0 .. U128Max,
         call.x \in 0 .. U128Max, call.name \in AdminCalls,
         Converts(call.name, call.v), Converts(call.name, call.w)
  PROVE  NetRowOK(Setter(call))
<1> DEFINE has(table) == call.name \in DOMAIN table
      limit == LimitSetters(call.v, call.w, call.x)
      stake == StakeSetters(call.v, call.w, call.x)
      overwatch == OverwatchSetters(call.v, call.w, call.x)
      cooldown == CooldownSetters(call.v, call.w, call.x)
      reward == RewardSetters(call.v, call.w, call.x)
      reputation == ReputationSetters(call.v, call.w, call.x)
      weight == WeightSetters(call.v, call.w, call.x)
      switch == SwitchSetters(call.v, call.w, call.x)
<1>1. /\ has(limit) => NetRowOK(limit[call.name])
      /\ has(stake) => NetRowOK(stake[call.name])
      /\ has(overwatch) => NetRowOK(overwatch[call.name])
      /\ has(cooldown) => NetRowOK(cooldown[call.name])
  BY LimitRows, StakeRows, OverwatchRows, CooldownRows
<1>2. /\ has(reward) => NetRowOK(reward[call.name])
      /\ has(reputation) => NetRowOK(reputation[call.name])
      /\ has(weight) => NetRowOK(weight[call.name])
      /\ has(switch) => NetRowOK(switch[call.name])
  BY RewardRows, ReputationRows, WeightRows, SwitchRows
<1>3. \/ has(limit) \/ has(stake) \/ has(overwatch) \/ has(cooldown)
      \/ has(reward) \/ has(reputation) \/ has(weight) \/ has(switch)
  BY CallsHaveRows DEF SetterNames
<1> QED
  BY <1>1, <1>2, <1>3 DEF Setter

(* A call of the collective leaves the parameters sound.                   *)
LEMMA Dispatched ==
  ASSUME NetOK(net), NEW origin, NEW call, call.v \in 0 .. U128Max, call.w \in 0 .. U128Max,
         call.x \in 0 .. U128Max, call.name \in AdminCalls,
         Converts(call.name, call.v), Converts(call.name, call.w), Dispatch(origin, call)
  PROVE  NetOK(net') /\ result' \in {"Ok", "Refused", "BadOrigin"}
<1> DEFINE setter == Setter(call)
<1>1. NetRowOK(setter)
  BY SetterRow
<1>2. CASE ~MayCall(origin, call.name)
  <2>1. result' = "BadOrigin" /\ net' = net
    BY <1>2 DEF Dispatch
  <2> QED
    BY <2>1
<1>3. CASE MayCall(origin, call.name) /\ ~setter.ok
  <2>1. result' = "Refused" /\ net' = net
    BY <1>3 DEF Dispatch
  <2> QED
    BY <2>1
<1>4. CASE MayCall(origin, call.name) /\ setter.ok
  <2>1. result' = "Ok" /\ net' = Over(setter.writes, net)
    BY <1>4 DEF Dispatch
  <2>2. NetOK(Over(setter.writes, net))
    BY <1>1, <1>4 DEF NetRowOK
  <2> QED
    BY <2>1, <2>2
<1> QED
  BY <1>2, <1>3, <1>4

(* A signed account is no vote of the collective: whatever it calls        *)
(* through the precompile changes nothing.                                 *)
LEMMA EvmDispatched ==
  ASSUME NEW call, EvmDispatch(call)
  PROVE  UNCHANGED net /\ result' \in {"BadOrigin", "OutOfBounds"}
<1>1. ~MayCall(Origin("Signed"), call.name)
  BY DEF MayCall, EnsureProportionAtLeast, Origin
<1>2. Dispatch(Origin("Signed"), call) => UNCHANGED net /\ result' = "BadOrigin"
  BY <1>1 DEF Dispatch
<1> QED
  BY <1>2 DEF EvmDispatch

(* A value of two functions laid over each other.                          *)
LEMMA OverValue ==
  ASSUME NEW f, NEW g, NEW i \in DOMAIN f \cup DOMAIN g
  PROVE  Over(f, g)[i] = IF i \in DOMAIN f THEN f[i] ELSE g[i]
BY DEF Over

(* The default of an item comes from the first record that has it.         *)
LEMMA DefaultValue ==
  ASSUME NEW i \in Items
  PROVE  NetDefaults[i] = IF i \in DOMAIN NetDefaults1 THEN NetDefaults1[i]
                          ELSE IF i \in DOMAIN NetDefaults2 THEN NetDefaults2[i]
                          ELSE IF i \in DOMAIN NetDefaults3 THEN NetDefaults3[i]
                          ELSE IF i \in DOMAIN NetDefaults4 THEN NetDefaults4[i]
                          ELSE IF i \in DOMAIN NetDefaults5 THEN NetDefaults5[i]
                          ELSE IF i \in DOMAIN NetDefaults6 THEN NetDefaults6[i]
                          ELSE NetDefaults7[i]
<1> DEFINE d6 == Over(NetDefaults6, NetDefaults7)
           d5 == Over(NetDefaults5, d6)
           d4 == Over(NetDefaults4, d5)
           d3 == Over(NetDefaults3, d4)
           d2 == Over(NetDefaults2, d3)
<1>1. DOMAIN d6 = DOMAIN NetDefaults6 \cup DOMAIN NetDefaults7
  BY OverDomain
<1>2. i \in DOMAIN d6 => d6[i] = IF i \in DOMAIN NetDefaults6 THEN NetDefaults6[i] ELSE NetDefaults7[i]
  <2> HIDE DEF d6, d5, d4, d3, d2
  <2> QED
    BY <1>1, OverValue DEF d6
<1>3. DOMAIN d5 = DOMAIN NetDefaults5 \cup DOMAIN d6
  BY OverDomain
<1>4. i \in DOMAIN d5 => d5[i] = IF i \in DOMAIN NetDefaults5 THEN NetDefaults5[i] ELSE d6[i]
  <2> HIDE DEF d6, d5, d4, d3, d2
  <2> QED
    BY <1>3, OverValue DEF d5
<1>5. DOMAIN d4 = DOMAIN NetDefaults4 \cup DOMAIN d5
  BY OverDomain
<1>6. i \in DOMAIN d4 => d4[i] = IF i \in DOMAIN NetDefaults4 THEN NetDefaults4[i] ELSE d5[i]
  <2> HIDE DEF d6, d5, d4, d3, d2
  <2> QED
    BY <1>5, OverValue DEF d4
<1>7. DOMAIN d3 = DOMAIN NetDefaults3 \cup DOMAIN d4
  BY OverDomain
<1>8. i \in DOMAIN d3 => d3[i] = IF i \in DOMAIN NetDefaults3 THEN NetDefaults3[i] ELSE d4[i]
  <2> HIDE DEF d6, d5, d4, d3, d2
  <2> QED
    BY <1>7, OverValue DEF d3
<1>9. DOMAIN d2 = DOMAIN NetDefaults2 \cup DOMAIN d3
  BY OverDomain
<1>10. i \in DOMAIN d2 => d2[i] = IF i \in DOMAIN NetDefaults2 THEN NetDefaults2[i] ELSE d3[i]
  <2> HIDE DEF d6, d5, d4, d3, d2
  <2> QED
    BY <1>9, OverValue DEF d2
<1>11. Items = DOMAIN NetDefaults1 \cup DOMAIN d2
  BY OverDomain DEF Items, NetDefaults
<1>12. NetDefaults[i] = IF i \in DOMAIN NetDefaults1 THEN NetDefaults1[i] ELSE d2[i]
  <2>1. NetDefaults = Over(NetDefaults1, d2)
    BY DEF NetDefaults
  <2> HIDE DEF d6, d5, d4, d3, d2
  <2> QED
    BY <1>11, <2>1, OverValue
<1> HIDE DEF d2, d3, d4, d5, d6
<1> QED
  BY <1>1, <1>2, <1>3, <1>4, <1>5, <1>6, <1>7, <1>8, <1>9, <1>10, <1>11, <1>12

(* The defaults are sound.                                                 *)
LEMMA DefaultsSound == NetOK(NetDefaults)
<1>1. /\ U32Max \in Nat /\ U32Max >= 438290 /\ EpochLength \in 0 .. U32Max
      /\ EpochsPerYear \in 0 .. U32Max /\ InitialTxRateLimit \in 0 .. U32Max
      /\ EpochsPerYear >= 365
      /\ MaximumHooksWeight \in 0 .. MaxBlockWeight
  BY ParametersAssumption
<1>0. \A i : i \notin Switches \cup {"MaximumHooksWeightV2"} => Limit(i) \in Nat /\ U32Max <= Limit(i)
  BY ParametersAssumption DEF Limit
<1>2. /\ \A k \in {4, 12, 52, 104, 365} : EpochsPerYear \div k \in 0 .. U32Max
      /\ EpochLength \div 4 \in 0 .. U32Max
  BY <1>1
<1>3. \A i \in DOMAIN NetDefaults1 : NetDefaults1[i] \in 0 .. Limit(i)
  <2>1. Limit("TxPause") = 1 /\ Limit("RequireSubnetRegistrationWhitelist") = 1
    BY DEF Limit, Switches
  <2>2. \A i \in {"OverwatchWeightFactor", "TxRateLimit"} : Limit(i) \in Nat /\ U32Max <= Limit(i)
    BY <1>0 DEF Switches
  <2> QED
    BY <1>1, <2>1, <2>2 DEF NetDefaults1
<1>4. \A i \in DOMAIN NetDefaults2 : NetDefaults2[i] \in 0 .. Limit(i)
  <2> DEFINE p == EpochsPerYear \div 365
             q == EpochsPerYear \div 52
             r == EpochsPerYear \div 104
  <2>1. p \in 0 .. U32Max /\ q \in 0 .. U32Max /\ r \in 0 .. U32Max
    BY <1>2
  <2> HIDE DEF p, q, r
  <2>2. \A i \in DOMAIN NetDefaults2 : NetDefaults2[i] \in 0 .. U32Max
    BY <1>1, <2>1 DEF NetDefaults2, p, q, r
  <2>3. \A i \in DOMAIN NetDefaults2 : i \notin Switches \cup {"MaximumHooksWeightV2"}
    BY DEF NetDefaults2, Switches
  <2> QED
    BY <1>0, <1>1, <2>2, <2>3
<1>5. \A i \in DOMAIN NetDefaults3 : NetDefaults3[i] \in 0 .. Limit(i)
  <2>2. \A i \in DOMAIN NetDefaults3 : NetDefaults3[i] \in 0 .. U32Max
    BY <1>1, <1>2 DEF NetDefaults3
  <2>3. \A i \in DOMAIN NetDefaults3 : i \notin Switches \cup {"MaximumHooksWeightV2"}
    BY DEF NetDefaults3, Switches
  <2> QED
    BY <1>0, <1>1, <2>2, <2>3
<1>6. \A i \in DOMAIN NetDefaults4 : NetDefaults4[i] \in 0 .. Limit(i)
  <2>2. \A i \in DOMAIN NetDefaults4 : NetDefaults4[i] \in 0 .. U32Max
    BY <1>1 DEF NetDefaults4
  <2>3. \A i \in DOMAIN NetDefaults4 : i \notin Switches \cup {"MaximumHooksWeightV2"}
    BY DEF NetDefaults4, Switches
  <2> QED
    BY <1>0, <1>1, <2>2, <2>3
<1>7. \A i \in DOMAIN NetDefaults5 : NetDefaults5[i] \in 0 .. Limit(i)
  <2>2. \A i \in DOMAIN NetDefaults5 : NetDefaults5[i] \in 0 .. U32Max
    BY <1>1 DEF NetDefaults5
  <2>3. \A i \in DOMAIN NetDefaults5 : i \notin Switches \cup {"MaximumHooksWeightV2"}
    BY DEF NetDefaults5, Switches
  <2> QED
    BY <1>0, <1>1, <2>2, <2>3
<1>8. \A i \in DOMAIN NetDefaults6 : NetDefaults6[i] \in 0 .. Limit(i)
  <2>2. \A i \in DOMAIN NetDefaults6 \ {"MaximumHooksWeightV2"} : NetDefaults6[i] \in 0 .. U32Max
    BY <1>1, <1>2 DEF NetDefaults6
  <2>3. \A i \in DOMAIN NetDefaults6 \ {"MaximumHooksWeightV2"} : i \notin Switches
    BY DEF NetDefaults6, Switches
  <2>4. /\ NetDefaults6["MaximumHooksWeightV2"] = MaximumHooksWeight
        /\ Limit("MaximumHooksWeightV2") = MaxBlockWeight
    BY DEF NetDefaults6, Limit, Switches
  <2> QED
    BY <1>0, <1>1, <2>2, <2>3, <2>4
<1>9. \A i \in DOMAIN NetDefaults7 : NetDefaults7[i] \in 0 .. Limit(i)
  <2>1. \A i \in DOMAIN NetDefaults7 : i \notin Switches \cup {"MaximumHooksWeightV2"}
    BY DEF NetDefaults7, Switches
  <2>2. \A i \in DOMAIN NetDefaults7 : NetDefaults7[i] \in 0 .. U32Max
    BY <1>1 DEF NetDefaults7
  <2> QED
    BY <1>0, <1>1, <2>1, <2>2
<1>10. \A i \in Items : NetDefaults[i] \in 0 .. Limit(i)
  <2> SUFFICES ASSUME NEW i \in Items PROVE NetDefaults[i] \in 0 .. Limit(i)
    OBVIOUS
  <2> QED
    BY <1>3, <1>4, <1>5, <1>6, <1>7, <1>8, <1>9, DefaultValue, ItemNames
<1>11. \A l \in Lower : NetDefaults[l] < NetDefaults[Upper[l]]
  <2>1. /\ NetDefaults["MinSubnetRegistrationEpochs"] = EpochsPerYear \div 365
        /\ NetDefaults["SubnetRegistrationEpochs"] = EpochsPerYear \div 52
        /\ NetDefaults["MinSubnetNodes"] = 3 /\ NetDefaults["MaxSubnetNodes"] = 256
    BY DefaultValue, BoundsItems DEF Bounds, Lower, Upper, NetDefaults1, NetDefaults2
  <2>2. /\ NetDefaults["MinChurnLimit"] = 1 /\ NetDefaults["MaxChurnLimit"] = 64
        /\ NetDefaults["MinChurnLimitMultiplier"] = 1
        /\ NetDefaults["MaxChurnLimitMultiplier"] = EpochsPerYear \div 52
        /\ NetDefaults["MinQueueEpochs"] = 3
        /\ NetDefaults["MaxQueueEpochs"] = EpochsPerYear \div 12
        /\ NetDefaults["MinIncludedClassificationEpochs"] = 1
        /\ NetDefaults["MaxIncludedClassificationEpochs"] = EpochsPerYear \div 52
        /\ NetDefaults["MinSubnetMinStake"] = 1000 /\ NetDefaults["MaxSubnetMinStake"] = 2500
    BY DefaultValue, ItemNames DEF NetDefaults1, NetDefaults2, NetDefaults3
  <2>3. /\ NetDefaults["MinDelegateStakePercentage"] = 50
        /\ NetDefaults["MaxDelegateStakePercentage"] = 950
        /\ NetDefaults["MinMaxRegisteredNodes"] = 1 /\ NetDefaults["MaxMaxRegisteredNodes"] = 64
    BY DefaultValue, ItemNames DEF NetDefaults1, NetDefaults2, NetDefaults3, NetDefaults4
  <2>4. /\ NetDefaults["MinMinSubnetNodeReputation"] = 50
        /\ NetDefaults["MaxMinSubnetNodeReputation"] = 500
        /\ NetDefaults["MinNodeReputationFactor"] = 50
        /\ NetDefaults["MaxNodeReputationFactor"] = 500
    <3> DEFINE four == {"MinMinSubnetNodeReputation", "MaxMinSubnetNodeReputation",
                        "MinNodeReputationFactor", "MaxNodeReputationFactor"}
    <3>1. four \cap (DOMAIN NetDefaults1 \cup DOMAIN NetDefaults2 \cup DOMAIN NetDefaults3
                       \cup DOMAIN NetDefaults4) = {}
      BY DEF NetDefaults1, NetDefaults2, NetDefaults3, NetDefaults4
    <3>2. /\ four \subseteq DOMAIN NetDefaults5
          /\ NetDefaults5["MinMinSubnetNodeReputation"] = 50
          /\ NetDefaults5["MaxMinSubnetNodeReputation"] = 500
          /\ NetDefaults5["MinNodeReputationFactor"] = 50
          /\ NetDefaults5["MaxNodeReputationFactor"] = 500
      BY DEF NetDefaults5
    <3>3. \A i \in four : NetDefaults[i] = NetDefaults5[i]
      <4> HIDE DEF four
      <4> QED BY <3>1, <3>2, DefaultValue, ItemNames
    <3> QED BY <3>2, <3>3
  <2>5. NetDefaults["MinNodeBurnRate"] = 1000 /\ NetDefaults["MaxNodeBurnRate"] = 5000
    <3>1. {"MinNodeBurnRate", "MaxNodeBurnRate"} \cap
            (DOMAIN NetDefaults1 \cup DOMAIN NetDefaults2 \cup DOMAIN NetDefaults3
               \cup DOMAIN NetDefaults4 \cup DOMAIN NetDefaults5) = {}
      BY DEF NetDefaults1, NetDefaults2, NetDefaults3, NetDefaults4, NetDefaults5
    <3>2. /\ {"MinNodeBurnRate", "MaxNodeBurnRate"} \subseteq DOMAIN NetDefaults6
          /\ NetDefaults6["MinNodeBurnRate"] = 1000 /\ NetDefaults6["MaxNodeBurnRate"] = 5000
      BY DEF NetDefaults6
    <3> QED
      BY <3>1, <3>2, DefaultValue, ItemNames
  <2>6. /\ EpochsPerYear \div 365 < EpochsPerYear \div 52 /\ EpochsPerYear \div 52 > 1
        /\ EpochsPerYear \div 12 > 3
    BY <1>1
  <2> QED
    BY <2>1, <2>2, <2>3, <2>4, <2>5, <2>6 DEF Lower, Upper
<1>12. \A i \in Divisors : NetDefaults[i] > 0
  <2>1. \A i \in Divisors : NetDefaults[i] = NetDefaults5[i]
    BY DefaultValue, BoundsItems
    DEF Divisors, NetDefaults1, NetDefaults2, NetDefaults3, NetDefaults4, NetDefaults5
  <2> QED
    BY <2>1 DEF Divisors, NetDefaults5
<1> QED
  BY <1>10, <1>11, <1>12 DEF NetOK, Items

(* Sound parameters are of their types, ordered and not zero where the     *)
(* hooks divide by them.                                                   *)
LEMMA SoundParameters ==
  ASSUME NetOK(net), result \in {"none", "Ok", "Refused", "BadOrigin", "OutOfBounds"}
  PROVE  ParamTypeOK /\ PairsOrdered /\ DivisorsPositive
<1>1. ASSUME NEW g \in ItemGroups
      PROVE  /\ g.bool \subseteq Switches
             /\ g.u32 \subseteq Items \ (Switches \cup Middle \cup {"MaximumHooksWeightV2"})
             /\ g.u32 \cap Wide = {}
             /\ g.u64 \subseteq Items /\ g.u64 \subseteq Middle \cup {"MaximumHooksWeightV2"}
             /\ g.u128 \subseteq Items
  <2> DEFINE Typed(h) == /\ h.bool \subseteq Switches
                         /\ h.u32 \subseteq Items \ (Switches \cup Middle \cup {"MaximumHooksWeightV2"})
                         /\ h.u64 \subseteq Items /\ h.u64 \subseteq Middle \cup {"MaximumHooksWeightV2"}
                         /\ h.u128 \subseteq Items
             Apart(h) == h.u32 \cap Wide = {}
  <2>1. Typed(NetItems1)
    BY ItemNames DEF NetItems1, Switches, Middle,
                     NetDefaults1, NetDefaults2, NetDefaults3, NetDefaults4,
                     NetDefaults5, NetDefaults6, NetDefaults7
  <2>2. Typed(NetItems2)
    BY ItemNames DEF NetItems2, Switches, Middle,
                     NetDefaults1, NetDefaults2, NetDefaults3, NetDefaults4,
                     NetDefaults5, NetDefaults6, NetDefaults7
  <2>3. Typed(NetItems3)
    BY ItemNames DEF NetItems3, Switches, Middle,
                     NetDefaults1, NetDefaults2, NetDefaults3, NetDefaults4,
                     NetDefaults5, NetDefaults6, NetDefaults7
  <2>4. Typed(NetItems4)
    BY ItemNames DEF NetItems4, Switches, Middle,
                     NetDefaults1, NetDefaults2, NetDefaults3, NetDefaults4,
                     NetDefaults5, NetDefaults6, NetDefaults7
  <2>5. Typed(NetItems5)
    BY ItemNames DEF NetItems5, Switches, Middle,
                     NetDefaults1, NetDefaults2, NetDefaults3, NetDefaults4,
                     NetDefaults5, NetDefaults6, NetDefaults7
  <2>6. Typed(NetItems6)
    BY ItemNames DEF NetItems6, Switches, Middle,
                     NetDefaults1, NetDefaults2, NetDefaults3, NetDefaults4,
                     NetDefaults5, NetDefaults6, NetDefaults7
  <2>7. Typed(NetItems7)
    BY ItemNames DEF NetItems7, Switches, Middle,
                     NetDefaults1, NetDefaults2, NetDefaults3, NetDefaults4,
                     NetDefaults5, NetDefaults6, NetDefaults7
  <2>8. Typed(NetItems8)
    BY ItemNames DEF NetItems8, Switches, Middle,
                     NetDefaults1, NetDefaults2, NetDefaults3, NetDefaults4,
                     NetDefaults5, NetDefaults6, NetDefaults7
  <2>9. Typed(NetItems9)
    BY ItemNames DEF NetItems9, Switches, Middle,
                     NetDefaults1, NetDefaults2, NetDefaults3, NetDefaults4,
                     NetDefaults5, NetDefaults6, NetDefaults7
  <2>10. Typed(NetItems10)
    BY ItemNames DEF NetItems10, Switches, Middle,
                     NetDefaults1, NetDefaults2, NetDefaults3, NetDefaults4,
                     NetDefaults5, NetDefaults6, NetDefaults7
  <2>11. Typed(NetItems11)
    BY ItemNames DEF NetItems11, Switches, Middle,
                     NetDefaults1, NetDefaults2, NetDefaults3, NetDefaults4,
                     NetDefaults5, NetDefaults6, NetDefaults7
  <2>12. Typed(NetItems12)
    BY ItemNames DEF NetItems12, Switches, Middle,
                     NetDefaults1, NetDefaults2, NetDefaults3, NetDefaults4,
                     NetDefaults5, NetDefaults6, NetDefaults7
  <2>13. Typed(NetItems13)
    BY ItemNames DEF NetItems13, Switches, Middle,
                     NetDefaults1, NetDefaults2, NetDefaults3, NetDefaults4,
                     NetDefaults5, NetDefaults6, NetDefaults7
  <2>15. /\ Apart(NetItems1) /\ Apart(NetItems2) /\ Apart(NetItems3) /\ Apart(NetItems4)
         /\ Apart(NetItems5) /\ Apart(NetItems6) /\ Apart(NetItems7) /\ Apart(NetItems8)
         /\ Apart(NetItems9) /\ Apart(NetItems10) /\ Apart(NetItems11) /\ Apart(NetItems12)
         /\ Apart(NetItems13)
    BY WideNames
    DEF NetItems1, NetItems2, NetItems3, NetItems4, NetItems5, NetItems6, NetItems7,
        NetItems8, NetItems9, NetItems10, NetItems11, NetItems12, NetItems13
  <2> HIDE DEF Typed, Apart
  <2>14. Typed(g)
    BY <2>1, <2>2, <2>3, <2>4, <2>5, <2>6, <2>7, <2>8, <2>9, <2>10, <2>11, <2>12, <2>13
    DEF ItemGroups
  <2>16. Apart(g)
    BY <2>15 DEF ItemGroups
  <2> QED
    BY <2>14, <2>16 DEF Typed, Apart
<1>2. /\ U32Max \in Nat /\ U64Max \in Nat /\ U128Max \in Nat /\ MaxBlockWeight \in Nat
      /\ 1 <= U32Max /\ U32Max <= U64Max /\ U64Max <= U128Max /\ MaxBlockWeight <= U64Max
  BY ParametersAssumption
<1>3. \A i \in Items : net[i] \in 0 .. Limit(i)
  BY DEF NetOK
<1>4. /\ \A i \in Switches : i \in Items /\ Limit(i) = 1
      /\ \A i \in Items \ (Switches \cup Middle \cup Wide \cup {"MaximumHooksWeightV2"}) :
           Limit(i) = U32Max
      /\ \A i \in Middle \cup {"MaximumHooksWeightV2"} : Limit(i) \in Nat /\ Limit(i) <= U64Max
      /\ \A i \in Items : Limit(i) \in Nat /\ Limit(i) <= U128Max
  <2>1. \A i \in Switches : i \in Items /\ Limit(i) = 1
    BY BoundsItems DEF Limit
  <2>2. \A i \in Items \ (Switches \cup Middle \cup Wide \cup {"MaximumHooksWeightV2"}) :
          Limit(i) = U32Max
    BY DEF Limit
  <2>3. \A i \in Middle \cup {"MaximumHooksWeightV2"} : Limit(i) \in Nat /\ Limit(i) <= U64Max
    BY <1>2 DEF Limit, Middle, Switches
  <2>4. \A i \in Items : Limit(i) \in Nat /\ Limit(i) <= U128Max
    BY <1>2 DEF Limit
  <2> QED
    BY <2>1, <2>2, <2>3, <2>4
<1>5. ASSUME NEW g \in ItemGroups
      PROVE  Fits(g.bool, 1) /\ Fits(g.u32, U32Max) /\ Fits(g.u64, U64Max) /\ Fits(g.u128, U128Max)
  <2>1. Fits(g.bool, 1)
    BY <1>1, <1>3, <1>4 DEF Fits
  <2>2. Fits(g.u32, U32Max)
    BY <1>1, <1>3, <1>4 DEF Fits
  <2>3. Fits(g.u64, U64Max)
    <3> SUFFICES ASSUME NEW i \in g.u64 PROVE net[i] \in 0 .. U64Max
      BY DEF Fits
    <3>1. i \in Items /\ i \in Middle \cup {"MaximumHooksWeightV2"}
      BY <1>1
    <3>2. net[i] \in 0 .. Limit(i) /\ Limit(i) \in Nat /\ Limit(i) <= U64Max
      BY <1>3, <1>4, <3>1
    <3> QED
      BY <1>2, <3>2
  <2>4. Fits(g.u128, U128Max)
    <3> SUFFICES ASSUME NEW i \in g.u128 PROVE net[i] \in 0 .. U128Max
      BY DEF Fits
    <3>1. net[i] \in 0 .. Limit(i) /\ Limit(i) \in Nat /\ Limit(i) <= U128Max
      BY <1>1, <1>3, <1>4
    <3> QED
      BY <1>2, <3>1
  <2> QED
    BY <2>1, <2>2, <2>3, <2>4
<1>6. net.MaximumHooksWeightV2 <= MaxBlockWeight
  <2>1. "MaximumHooksWeightV2" \in Items /\ Limit("MaximumHooksWeightV2") = MaxBlockWeight
    BY ItemNames DEF NetDefaults6, Limit, Switches
  <2>2. net["MaximumHooksWeightV2"] \in 0 .. MaxBlockWeight
    BY <1>3, <2>1
  <2> QED
    BY <1>2, <2>2
<1>7. ParamTypeOK
  BY <1>5, <1>6 DEF ParamTypeOK, NetOK, Items
<1>8. PairsOrdered
  <2>1. \A l \in Lower : Ordered(l, Upper[l])
    BY DEF NetOK, Ordered
  <2> QED
    BY <2>1 DEF Lower, Upper, PairsOrdered
<1>9. DivisorsPositive
  BY DEF NetOK, Divisors, DivisorsPositive
<1> QED
  BY <1>7, <1>8, <1>9

--------------------------------------------------------------------------------
(***************************************************************************)
(* The schedule of the factors.                                            *)
(***************************************************************************)
(* The epoch of a subnet is an integer.                                    *)
LEMMA EpochType ==
  ASSUME NEW s \in Subnets, block \in Nat
  PROVE  SubnetEpoch(s) \in Int
<1>1. SubnetSlot[s] \in Int /\ EpochLength \in Int /\ EpochLength > 0
  BY OwnerAssumption, ParametersAssumption
<1>2. block - SubnetSlot[s] \in Int
  BY <1>1
<1> QED
  BY <1>1, <1>2 DEF SubnetEpoch

(* The pending change of a schedule is the one CHOOSE finds.               *)
LEMMA ThePending ==
  ASSUME NEW sch, ScheduleOK(sch), NEW p \in sch.pending
  PROVE  (CHOOSE q \in sch.pending : TRUE) = p
BY DEF ScheduleOK

(* Putting a due change in force leaves a schedule, judges the epoch by    *)
(* the same factors, and keeps the latest ones.                            *)
LEMMA MaturedSchedule ==
  ASSUME NEW sch, ScheduleOK(sch), NEW e \in Int
  PROVE  /\ ScheduleOK(Matured(sch, e))
         /\ Matured(sch, e).current = factors_for_epoch(sch, e)
         /\ Latest(Matured(sch, e)) = Latest(sch)
         /\ Latest(sch) \in FactorSets
<1>1. CASE \E p \in sch.pending : p.epoch <= e
  <2> PICK p \in sch.pending : p.epoch <= e
    BY <1>1
  <2>1. (CHOOSE q \in sch.pending : TRUE) = p
    BY ThePending
  <2>2. p \in Changes /\ p.factors \in FactorSets
    BY DEF ScheduleOK, Changes
  <2>3. factors_for_epoch(sch, e) = p.factors /\ Latest(sch) = p.factors
    BY <1>1, <2>1 DEF factors_for_epoch, Latest
  <2>4. Matured(sch, e) = [current |-> p.factors, pending |-> {}]
    BY <1>1, <2>3 DEF Matured
  <2>5. ScheduleOK(Matured(sch, e))
    BY <2>2, <2>4 DEF ScheduleOK
  <2>6. Latest(Matured(sch, e)) = p.factors
    BY <2>4 DEF Latest
  <2> QED
    BY <2>2, <2>3, <2>4, <2>5, <2>6
<1>2. CASE ~ \E p \in sch.pending : p.epoch <= e
  <2>1. Matured(sch, e) = sch /\ factors_for_epoch(sch, e) = sch.current
    BY <1>2 DEF Matured, factors_for_epoch
  <2>2. Latest(sch) \in FactorSets
    <3>1. CASE sch.pending = {}
      BY <3>1 DEF ScheduleOK, Latest
    <3>2. CASE sch.pending # {}
      <4> PICK p \in sch.pending : TRUE
        BY <3>2
      <4>1. (CHOOSE q \in sch.pending : TRUE) = p
        BY ThePending
      <4>2. p \in Changes /\ p.factors \in FactorSets
        BY DEF ScheduleOK, Changes
      <4> QED
        BY <3>2, <4>1, <4>2 DEF Latest
    <3> QED
      BY <3>1, <3>2
  <2> QED
    BY <2>1, <2>2
<1> QED
  BY <1>1, <1>2

(* The updates of a call: factors that exist, and their new values.        *)
Updates(updates) == \E F \in SUBSET Factors : updates \in [F -> Nat]

(* What a factor update does to the schedule of a subnet: judged by the    *)
(* factors of before in the present epoch, and only the factors it names   *)
(* changed.                                                                *)
LEMMA UpdatedSchedule ==
  ASSUME OwnerInv, NEW s \in Subnets, NEW who, NEW updates, Updates(updates),
         do_owner_update_reputation_factors(who, s, updates),
         NEW r \in Subnets
  PROVE  /\ ScheduleOK(schedule'[r])
         /\ factors_for_epoch(schedule'[r], SubnetEpoch(r))
              = factors_for_epoch(schedule[r], SubnetEpoch(r))
         /\ r \in emergency => PenaltiesOf(Latest(schedule'[r])) = PenaltiesOf(Latest(schedule[r]))
         /\ DOMAIN schedule' = Subnets
<1> DEFINE e == SubnetEpoch(s)
           sch == Matured(schedule[s], e)
           latest == Over(updates, Latest(sch))
           ok == /\ ~is_paused /\ who = OwnerOf[s]
                 /\ DOMAIN updates # {}
                 /\ requires_no_emergency_validators(updates) => s \notin emergency
                 /\ \A f \in DOMAIN updates : validate_reputation_factor_update(updates[f])
           change == [epoch |-> e + Cooldown, factors |-> latest]
           new == [current |-> sch.current, pending |-> {change}]
<1>1. ScheduleOK(schedule[s]) /\ ScheduleOK(schedule[r]) /\ DOMAIN schedule = Subnets
  BY DEF OwnerInv
<1>2. e \in Int
  BY EpochType DEF OwnerInv
<1>3. /\ ScheduleOK(sch) /\ sch.current = factors_for_epoch(schedule[s], e)
      /\ Latest(sch) = Latest(schedule[s]) /\ Latest(sch) \in FactorSets
  BY <1>1, <1>2, MaturedSchedule
<1>4. schedule' = IF ok THEN [schedule EXCEPT ![s] = [sch EXCEPT !.pending = {change}]] ELSE schedule
  BY DEF do_owner_update_reputation_factors
<1>5. sch = [current |-> sch.current, pending |-> sch.pending]
  BY <1>3 DEF ScheduleOK
<1>6. [sch EXCEPT !.pending = {change}] = new
  BY <1>5
<1>7. CASE ~ok \/ r # s
  <2>1. schedule'[r] = schedule[r] /\ DOMAIN schedule' = Subnets
    BY <1>1, <1>4, <1>7
  <2> QED
    BY <1>1, <2>1
<1>8. CASE ok /\ r = s
  <2>1. schedule'[r] = new /\ DOMAIN schedule' = Subnets
    BY <1>1, <1>4, <1>6, <1>8
  <2>2. PICK F \in SUBSET Factors : updates \in [F -> Nat]
    BY DEF Updates
  <2>3. DOMAIN updates = F /\ DOMAIN Latest(sch) = Factors
    BY <1>3, <2>2 DEF FactorSets
  <2>4. \A f \in F : updates[f] \in 0 .. Full
    <3> SUFFICES ASSUME NEW f \in F PROVE updates[f] \in 0 .. Full
      OBVIOUS
    <3>1. updates[f] \in Nat
      BY <2>2
    <3>2. f \in DOMAIN updates
      BY <2>3
    <3>3. validate_reputation_factor_update(updates[f])
      BY <1>8, <3>2
    <3> QED
      BY <3>1, <3>3 DEF validate_reputation_factor_update, Full
  <2>5. latest = [f \in Factors |-> IF f \in F THEN updates[f] ELSE Latest(sch)[f]]
    <3>1. F \cup Factors = Factors
      BY <2>2
    <3> QED
      BY <2>3, <3>1 DEF Over
  <2>6. latest \in FactorSets
    BY <1>3, <2>4, <2>5 DEF FactorSets
  <2>7. Cooldown \in Int /\ Cooldown >= 1
    BY OwnerAssumption DEF Cooldown
  <2>8. change \in Changes
    <3> HIDE DEF latest, e
    <3> QED
      BY <1>2, <2>6, <2>7 DEF Changes
  <2>9. ScheduleOK(new)
    <3> HIDE DEF change
    <3> QED
      BY <1>3, <2>8 DEF ScheduleOK
  <2>10. factors_for_epoch(new, e) = sch.current
    <3>1. ~(change.epoch <= e)
      <4> HIDE DEF e, latest
      <4> QED
        BY <1>2, <2>7
    <3> HIDE DEF change
    <3> QED
      BY <3>1 DEF factors_for_epoch
  <2>11. Latest(new) = latest
    <3>1. (CHOOSE p \in {change} : TRUE) = change
      <4> HIDE DEF change
      <4> QED
        OBVIOUS
    <3>2. new.pending = {change} /\ {change} # {}
      OBVIOUS
    <3>3. change.factors = latest
      OBVIOUS
    <3> HIDE DEF change, latest, new
    <3> QED
      BY <3>1, <3>2, <3>3 DEF Latest
  <2>12. ASSUME s \in emergency
         PROVE  PenaltiesOf(latest) = PenaltiesOf(Latest(sch))
    <3>1. ~requires_no_emergency_validators(updates)
      BY <1>8, <2>12
    <3>2. \A f \in Penalties : f \notin F /\ f \in Factors
      BY <2>3, <3>1 DEF requires_no_emergency_validators, Penalties
    <3>3. \A f \in Penalties : latest[f] = Latest(sch)[f]
      <4> HIDE DEF sch
      <4> QED
        BY <2>5, <3>2
    <3> QED
      BY <3>3 DEF PenaltiesOf
  <2> QED
    <3> HIDE DEF sch, new, latest, ok
    <3> QED
      BY <1>3, <1>8, <2>1, <2>9, <2>10, <2>11, <2>12
<1> QED
  BY <1>7, <1>8
--------------------------------------------------------------------------------
(***************************************************************************)
(* The setters of an owner.                                                *)
(***************************************************************************)
(* A row of the table writes items of a subnet, with numbers; it puts      *)
(* neither the maximum of registered nodes above the target of             *)
(* registrations nor the target above the maximum.                         *)
RowOK(s, row) ==
  /\ DOMAIN row.writes \subseteq OwnItems
  /\ row.ok => \A i \in DOMAIN row.writes : row.writes[i] \in 0 .. OwnLimit(i)
  /\ row.ok /\ "MaxRegisteredNodes" \in DOMAIN row.writes
       => row.writes["MaxRegisteredNodes"] <= own[s]["TargetNodeRegistrationsPerEpoch"]
  /\ row.ok /\ "TargetNodeRegistrationsPerEpoch" \in DOMAIN row.writes
       => row.writes["TargetNodeRegistrationsPerEpoch"] <= own[s]["MaxRegisteredNodes"]

(* The items of a subnet are of 32 bits at least.                          *)
LEMMA OwnWidth ==
  ASSUME NEW i
  PROVE  OwnLimit(i) \in Nat /\ U32Max \in Nat /\ U32Max <= OwnLimit(i) /\ OwnLimit(i) <= U128Max
BY ParametersAssumption DEF OwnLimit

(* A setter of one item that is neither the maximum nor the target.        *)
LEMMA SetsRow ==
  ASSUME NEW s, NEW item \in OwnItems \ {"MaxRegisteredNodes", "TargetNodeRegistrationsPerEpoch"},
         NEW v \in Nat, NEW ok, ok => v <= U32Max
  PROVE  RowOK(s, Sets(item, v, ok))
BY OwnWidth DEF RowOK, Sets, Item

(* One of an item of 128 bits.                                             *)
LEMMA SetsWideRow ==
  ASSUME NEW s, NEW item \in OwnItems \cap WideItems, NEW v \in Nat, NEW ok, ok => v <= U128Max
  PROVE  RowOK(s, Sets(item, v, ok))
<1>1. OwnLimit(item) = U128Max /\ U128Max \in Nat
  BY ParametersAssumption DEF OwnLimit
<1>2. item \notin {"MaxRegisteredNodes", "TargetNodeRegistrationsPerEpoch"}
  BY DEF WideItems
<1> QED
  BY <1>1, <1>2 DEF RowOK, Sets, Item

(* The setter of the target of registrations stays below the maximum.      *)
LEMMA SetsTargetRow ==
  ASSUME NEW s, NEW v \in Nat, NEW ok, "TargetNodeRegistrationsPerEpoch" \in OwnItems,
         ok => v <= U32Max, ok => v <= own[s]["MaxRegisteredNodes"]
  PROVE  RowOK(s, Sets("TargetNodeRegistrationsPerEpoch", v, ok))
BY OwnWidth DEF RowOK, Sets, Item

(* A setter of two such items.                                             *)
LEMMA SetsBothRow ==
  ASSUME NEW s, NEW low \in OwnItems \ {"MaxRegisteredNodes", "TargetNodeRegistrationsPerEpoch"},
         NEW high \in OwnItems \ {"MaxRegisteredNodes", "TargetNodeRegistrationsPerEpoch"},
         NEW v \in Nat, NEW w \in Nat, NEW ok, ok => v <= OwnLimit(low) /\ w <= OwnLimit(high)
  PROVE  RowOK(s, SetsBoth(low, v, high, w, ok))
BY OwnWidth DEF RowOK, SetsBoth, Item, Over

(* The upper bounds of the collective within which an owner sets.          *)
OwnersMaxima == {"MaxChurnLimit", "MaxChurnLimitMultiplier", "MaxQueueEpochs",
                 "MaxIdleClassificationEpochs", "MaxIncludedClassificationEpochs",
                 "MaxMaxRegisteredNodes"}
WideMaxima == {"NetworkMaxStakeBalance", "MaxSubnetNodeMinWeightDecreaseReputationThreshold"}

(* They are numbers of 32 bits, but for two of 128.                        *)
LEMMA OwnersBounds ==
  ASSUME NetOK(net)
  PROVE  /\ U32Max \in Nat /\ U32Max >= Full /\ U128Max \in Nat
         /\ \A i \in OwnersMaxima : net[i] \in 0 .. U32Max
         /\ \A i \in WideMaxima : net[i] \in 0 .. U128Max
<1>1. \A i \in OwnersMaxima \cup WideMaxima : i \in Items
  BY ItemNames DEF OwnersMaxima, WideMaxima, NetDefaults2, NetDefaults3, NetDefaults4, NetDefaults6
<1>2. \A i \in OwnersMaxima : Limit(i) = U32Max
  BY WideNames
  DEF Limit, Switches, Middle, OwnersMaxima, NetItems1, NetItems2, NetItems3, NetItems4,
      NetItems5, NetItems6, NetItems7, NetItems8, NetItems9, NetItems10, NetItems11,
      NetItems12, NetItems13
<1>3. \A i \in WideMaxima : Limit(i) = U128Max
  BY WideNames DEF Limit, Switches, Middle, WideMaxima, NetItems3, NetItems4
<1>4. \A i \in OwnersMaxima : net[i] \in 0 .. U32Max
  BY <1>1, <1>2 DEF NetOK
<1>5. \A i \in WideMaxima : net[i] \in 0 .. U128Max
  BY <1>1, <1>3 DEF NetOK
<1> QED
  BY <1>4, <1>5, ParametersAssumption DEF Full

(* A value within two bounds of the collective has 32 bits.                *)
LEMMA WithinBound ==
  ASSUME NetOK(net), NEW v \in Nat, NEW low, NEW high \in OwnersMaxima
  PROVE  Within(v, low, high) => v <= U32Max
BY OwnersBounds DEF Within

(* Every row of the table for the epochs and the churn limits is of that ki*)
LEMMA OwnerEpochSettersRows ==
  ASSUME NetOK(net), own \in [Subnets -> OwnValues], NEW s \in Subnets,
         NEW v \in Nat, NEW w \in Nat, block \in 0 .. U32Max,
         NEW name \in DOMAIN OwnerEpochSetters(s, v, w)
  PROVE  RowOK(s, OwnerEpochSetters(s, v, w)[name])
<1> DEFINE row(n) == OwnerEpochSetters(s, v, w)[n]
<1>1. RowOK(s, row("owner_update_churn_limit"))
  <2>1. Within(v, "MinChurnLimit", "MaxChurnLimit") => v <= U32Max
    BY WithinBound DEF OwnersMaxima
  <2> QED
    BY <2>1, SetsRow DEF OwnerEpochSetters, OwnItems, OwnDefaults
<1>2. RowOK(s, row("owner_update_churn_limit_multiplier"))
  <2>1. Within(v, "MinChurnLimitMultiplier", "MaxChurnLimitMultiplier") => v <= U32Max
    BY WithinBound DEF OwnersMaxima
  <2> QED
    BY <2>1, SetsRow DEF OwnerEpochSetters, OwnItems, OwnDefaults
<1>3. RowOK(s, row("owner_update_registration_queue_epochs"))
  <2>1. Within(v, "MinQueueEpochs", "MaxQueueEpochs") => v <= U32Max
    BY WithinBound DEF OwnersMaxima
  <2> QED
    BY <2>1, SetsRow DEF OwnerEpochSetters, OwnItems, OwnDefaults
<1>4. RowOK(s, row("owner_update_idle_classification_epochs"))
  <2>1. Within(v, "MinIdleClassificationEpochs", "MaxIdleClassificationEpochs") => v <= U32Max
    BY WithinBound DEF OwnersMaxima
  <2> QED
    BY <2>1, SetsRow DEF OwnerEpochSetters, OwnItems, OwnDefaults
<1>5. RowOK(s, row("owner_update_included_classification_epochs"))
  <2>1. Within(v, "MinIncludedClassificationEpochs", "MaxIncludedClassificationEpochs") => v <= U32Max
    BY WithinBound DEF OwnersMaxima
  <2> QED
    BY <2>1, SetsRow DEF OwnerEpochSetters, OwnItems, OwnDefaults
<1>6. name \in {"owner_update_churn_limit",
               "owner_update_churn_limit_multiplier",
               "owner_update_registration_queue_epochs",
               "owner_update_idle_classification_epochs",
               "owner_update_included_classification_epochs"}
  BY DEF OwnerEpochSetters
<1> HIDE DEF row
<1>7. RowOK(s, row(name))
  BY <1>1, <1>2, <1>3, <1>4, <1>5, <1>6
<1> QED
  BY <1>7 DEF row

(* Every row of the table for the stakes and the nodes is of that kind.    *)
LEMMA OwnerStakeSettersRows ==
  ASSUME NetOK(net), own \in [Subnets -> OwnValues], NEW s \in Subnets,
         NEW v \in Nat, NEW w \in Nat, block \in 0 .. U32Max,
         NEW name \in DOMAIN OwnerStakeSetters(s, v, w)
  PROVE  RowOK(s, OwnerStakeSetters(s, v, w)[name])
<1> DEFINE row(n) == OwnerStakeSetters(s, v, w)[n]
<1>1. RowOK(s, row("owner_update_min_max_stake"))
  <2> DEFINE ok == /\ v <= w /\ Within(v, "MinSubnetMinStake", "MaxSubnetMinStake")
                   /\ w <= net.NetworkMaxStakeBalance
  <2>1. ok => v <= U128Max /\ w <= U128Max
    <3>1. net["NetworkMaxStakeBalance"] \in 0 .. U128Max /\ U128Max \in Nat
      BY OwnersBounds DEF WideMaxima
    <3> QED
      BY <3>1
  <2>4. OwnLimit("SubnetMinStakeBalance") = U128Max /\ OwnLimit("SubnetMaxStakeBalance") = U128Max
    BY DEF OwnLimit, WideItems
  <2>2. RowOK(s, SetsBoth("SubnetMinStakeBalance", v, "SubnetMaxStakeBalance", w, ok))
    <3> HIDE DEF ok
    <3> QED
      BY <2>1, <2>4, SetsBothRow DEF OwnItems, OwnDefaults
  <2>3. row("owner_update_min_max_stake")
          = SetsBoth("SubnetMinStakeBalance", v, "SubnetMaxStakeBalance", w, ok)
    BY DEF OwnerStakeSetters
  <2> QED
    BY <2>2, <2>3
<1>2. RowOK(s, row("owner_update_delegate_stake_percentage"))
  <2> DEFINE ok == /\ PeriodOver(s)
                   /\ Distance(own[s].SubnetDelegateStakeRewardsPercentage, v)
                        <= net.MaxSubnetDelegateStakeRewardsPercentageChange
                   /\ Within(v, "MinDelegateStakePercentage", "MaxDelegateStakePercentage")
                   /\ v <= Full
  <2>1. ok => v <= Full
    OBVIOUS
  <2>2. row("owner_update_delegate_stake_percentage")
          = SetsBoth("LastSubnetDelegateStakeRewardsUpdate", block,
                     "SubnetDelegateStakeRewardsPercentage", v, ok)
    BY DEF OwnerStakeSetters
  <2> HIDE DEF ok
  <2>3. U32Max \in Nat /\ U32Max >= Full /\ block \in Nat /\ block <= U32Max
    BY OwnersBounds
  <2>4. ok => /\ block <= OwnLimit("LastSubnetDelegateStakeRewardsUpdate")
              /\ v <= OwnLimit("SubnetDelegateStakeRewardsPercentage")
    BY <2>1, <2>3, OwnWidth DEF Full
  <2>5. RowOK(s, SetsBoth("LastSubnetDelegateStakeRewardsUpdate", block,
                          "SubnetDelegateStakeRewardsPercentage", v, ok))
    <3>1. PICK b \in Nat : b = block
      BY <2>3
    <3>2. RowOK(s, SetsBoth("LastSubnetDelegateStakeRewardsUpdate", b,
                            "SubnetDelegateStakeRewardsPercentage", v, ok))
      BY <2>3, <2>4, <3>1, SetsBothRow DEF OwnItems, OwnDefaults
    <3> QED
      BY <3>1, <3>2
  <2> QED
    BY <2>2, <2>5
<1>3. RowOK(s, row("owner_update_max_registered_nodes"))
  <2>1. RegisteredAllowed(s, v) => v <= U32Max /\ v <= own[s]["TargetNodeRegistrationsPerEpoch"]
    BY WithinBound DEF RegisteredAllowed, OwnersMaxima
  <2> QED
    BY <2>1, OwnWidth DEF OwnerStakeSetters, RowOK, Sets, Item, OwnItems, OwnDefaults
<1>4. name \in {"owner_update_min_max_stake",
               "owner_update_delegate_stake_percentage",
               "owner_update_max_registered_nodes"}
  BY DEF OwnerStakeSetters
<1> HIDE DEF row
<1>5. RowOK(s, row(name))
  BY <1>1, <1>2, <1>3, <1>4
<1> QED
  BY <1>5 DEF row

(* Every row of the table for registration and reputation is of that kind. *)
LEMMA OwnerNodeSettersRows ==
  ASSUME NetOK(net), own \in [Subnets -> OwnValues], NEW s \in Subnets,
         NEW v \in Nat, NEW w \in Nat, block \in 0 .. U32Max,
         NEW name \in DOMAIN OwnerNodeSetters(s, v, w),
         name = "owner_update_queue_immunity_epochs" => v <= U32Max
  PROVE  RowOK(s, OwnerNodeSetters(s, v, w)[name])
<1> DEFINE row(n) == OwnerNodeSetters(s, v, w)[n]
<1>0. /\ "NodeBurnRateAlpha" \in OwnItems /\ "QueueImmunityEpochs" \in OwnItems
      /\ "MinSubnetNodeReputation" \in OwnItems
      /\ "SubnetNodeMinWeightDecreaseReputationThreshold" \in OwnItems
  BY DEF OwnItems, OwnDefaults
<1>1. RowOK(s, row("owner_update_target_node_registrations_per_epoch"))
  <2> DEFINE ok == v <= own[s].MaxRegisteredNodes /\ v > 0
  <2>1. own[s]["MaxRegisteredNodes"] \in 0 .. U32Max /\ U32Max \in Nat
    <3>1. own[s] \in OwnValues /\ "MaxRegisteredNodes" \in OwnItems
      BY DEF OwnItems, OwnDefaults
    <3>2. OwnLimit("MaxRegisteredNodes") = U32Max
      BY DEF OwnLimit, WideItems
    <3> QED
      BY <3>1, <3>2, ParametersAssumption DEF OwnValues
  <2>2. ok => v <= U32Max
    BY <2>1
  <2>3. row("owner_update_target_node_registrations_per_epoch")
          = Sets("TargetNodeRegistrationsPerEpoch", v, ok)
    BY DEF OwnerNodeSetters
  <2>4. "TargetNodeRegistrationsPerEpoch" \in OwnItems
    BY DEF OwnItems, OwnDefaults
  <2>5. ok => v <= own[s]["MaxRegisteredNodes"]
    OBVIOUS
  <2> HIDE DEF row, ok
  <2> QED
    BY <2>2, <2>3, <2>4, <2>5, SetsTargetRow
<1>2. RowOK(s, row("owner_update_node_burn_rate_alpha"))
  <2>1. v <= Full => v <= U32Max
    BY OwnersBounds DEF Full
  <2>2. row("owner_update_node_burn_rate_alpha") = Sets("NodeBurnRateAlpha", v, v <= Full)
    BY DEF OwnerNodeSetters
  <2> HIDE DEF row
  <2> QED
    BY <1>0, <2>1, <2>2, SetsRow
<1>3. v <= U32Max => RowOK(s, row("owner_update_queue_immunity_epochs"))
  <2>1. row("owner_update_queue_immunity_epochs") = Sets("QueueImmunityEpochs", v, TRUE)
    BY DEF OwnerNodeSetters
  <2> HIDE DEF row
  <2> QED
    BY <1>0, <2>1, SetsRow
<1>4. RowOK(s, row("owner_update_min_subnet_node_reputation"))
  <2> DEFINE ok == /\ v <= Full
                   /\ Within(v, "MinMinSubnetNodeReputation", "MaxMinSubnetNodeReputation")
  <2>1. ok => v <= U32Max
    BY OwnersBounds DEF Full
  <2>2. row("owner_update_min_subnet_node_reputation") = Sets("MinSubnetNodeReputation", v, ok)
    BY DEF OwnerNodeSetters
  <2> HIDE DEF row, ok
  <2> QED
    BY <1>0, <2>1, <2>2, SetsRow
<1>5. RowOK(s, row("owner_update_subnet_node_min_weight_decrease_reputation_threshold"))
  <2> DEFINE ok == v <= net.MaxSubnetNodeMinWeightDecreaseReputationThreshold
  <2>1. net["MaxSubnetNodeMinWeightDecreaseReputationThreshold"] \in 0 .. U128Max /\ U128Max \in Nat
    BY OwnersBounds DEF WideMaxima
  <2>2. ok => v <= U128Max
    BY <2>1
  <2>4. "SubnetNodeMinWeightDecreaseReputationThreshold" \in WideItems
    BY DEF WideItems
  <2>3. row("owner_update_subnet_node_min_weight_decrease_reputation_threshold")
          = Sets("SubnetNodeMinWeightDecreaseReputationThreshold", v, ok)
    BY DEF OwnerNodeSetters
  <2> HIDE DEF row, ok
  <2> QED
    BY <1>0, <2>2, <2>3, <2>4, SetsWideRow
<1>6. name \in {"owner_update_target_node_registrations_per_epoch",
               "owner_update_node_burn_rate_alpha",
               "owner_update_queue_immunity_epochs",
               "owner_update_min_subnet_node_reputation",
               "owner_update_subnet_node_min_weight_decrease_reputation_threshold"}
  BY DEF OwnerNodeSetters
<1> HIDE DEF row
<1>7. RowOK(s, row(name))
  BY <1>1, <1>2, <1>3, <1>4, <1>5, <1>6
<1> QED
  BY <1>7 DEF row

(* Every row an owner can call is of that kind.                            *)
LEMMA OwnerRow ==
  ASSUME NetOK(net), own \in [Subnets -> OwnValues], NEW s \in Subnets,
         NEW v \in Nat, NEW w \in Nat, block \in 0 .. U32Max, NEW name \in OwnerCalls,
         name = "owner_update_queue_immunity_epochs" => v <= U32Max
  PROVE  RowOK(s, OwnerSetters(s, v, w)[name])
<1> DEFINE E == OwnerEpochSetters(s, v, w)
           S == OwnerStakeSetters(s, v, w)
           N == OwnerNodeSetters(s, v, w)
<1>1. name \in DOMAIN E \cup DOMAIN S \cup DOMAIN N
  BY DEF OwnerCalls, OwnerCalls1, OwnerCalls2, OwnerCalls3, OwnerEpochSetters,
         OwnerStakeSetters, OwnerNodeSetters
<1>2. OwnerSetters(s, v, w) = Over(E, Over(S, N))
  BY DEF OwnerSetters
<1>3. name \in DOMAIN E => RowOK(s, E[name])
  BY OwnerEpochSettersRows
<1>4. name \in DOMAIN S => RowOK(s, S[name])
  BY OwnerStakeSettersRows
<1>5. name \in DOMAIN N => RowOK(s, N[name])
  BY OwnerNodeSettersRows
<1> HIDE DEF E, S, N
<1>6. OwnerSetters(s, v, w)[name]
        = IF name \in DOMAIN E THEN E[name] ELSE IF name \in DOMAIN S THEN S[name] ELSE N[name]
  BY <1>1, <1>2 DEF Over
<1> QED
  BY <1>1, <1>3, <1>4, <1>5, <1>6

(* The block is a number of 32 bits.                                       *)
LEMMA BlockType ==
  ASSUME OwnerInv
  PROVE  block \in 0 .. U32Max
<1> DEFINE m == MaxEpochs * EpochLength
<1>1. (MaxEpochs + 1) * EpochLength = m + EpochLength /\ m \in Nat
  BY OwnerAssumption, ParametersAssumption
<1>2. StartBlock + (m + EpochLength) <= U32Max
  BY <1>1, OwnerAssumption
<1>3. block \in Nat /\ block < StartBlock + m + EpochLength
  BY DEF OwnerInv
<1>4. StartBlock \in Nat /\ EpochLength \in Nat /\ U32Max \in Nat
  BY OwnerAssumption, ParametersAssumption
<1> HIDE DEF m
<1> QED
  BY <1>1, <1>2, <1>3, <1>4

(* What a setter does to the parameters of a subnet.                       *)
LEMMA OwnerDispatched ==
  ASSUME OwnerInv, NEW s \in Subnets, NEW who, NEW call, call.name \in OwnerCalls,
         call.v \in Nat, call.w \in Nat, OwnerDispatch(who, s, call),
         call.name = "owner_update_queue_immunity_epochs" => call.v <= U32Max
  PROVE  /\ own' \in [Subnets -> OwnValues]
         /\ \A r \in Subnets : Ceiling(r)' <= Ceiling(r)
         /\ UNCHANGED <<net, schedule, emergency>> /\ result' \in Results
<1> DEFINE row == OwnerSetters(s, call.v, call.w)[call.name]
           ok == ~is_paused /\ who = OwnerOf[s] /\ row.ok
<1>1. RowOK(s, row)
  BY OwnerRow, BlockType DEF OwnerInv
<1>2. /\ own' = (IF ok THEN [own EXCEPT ![s] = Over(row.writes, own[s])] ELSE own)
      /\ UNCHANGED <<net, schedule, emergency>>
      /\ result' = IF ok THEN "Ok" ELSE "Refused"
  BY DEF OwnerDispatch
<1>3. result' \in Results
  BY <1>2 DEF Results
<1>4. own \in [Subnets -> [OwnItems -> Nat]] /\ \A r \in Subnets : own[r] \in OwnValues
  BY DEF OwnerInv, OwnValues
<1>5. "MaxRegisteredNodes" \in OwnItems /\ "TargetNodeRegistrationsPerEpoch" \in OwnItems
  BY DEF OwnItems, OwnDefaults
<1> HIDE DEF row
<1>6. \A r \in Subnets : Ceiling(r) <= Ceiling(r)
  BY <1>4, <1>5 DEF Ceiling
<1>7. CASE ~ok
  <2>1. own' = own
    BY <1>2, <1>7
  <2>2. \A r \in Subnets : Ceiling(r)' = Ceiling(r)
    BY <2>1 DEF Ceiling
  <2> QED
    BY <1>2, <1>3, <1>6, <2>1, <2>2 DEF OwnerInv
<1>8. CASE ok
  <2> DEFINE new == Over(row.writes, own[s])
  <2>1. own' = [own EXCEPT ![s] = new]
    BY <1>2, <1>8
  <2>2. own[s] \in OwnValues /\ DOMAIN own[s] = OwnItems
    BY <1>4
  <2>3. new = [i \in OwnItems |-> IF i \in DOMAIN row.writes THEN row.writes[i] ELSE own[s][i]]
    <3>1. DOMAIN row.writes \cup DOMAIN own[s] = OwnItems
      BY <1>1, <2>2 DEF RowOK
    <3> QED
      BY <3>1 DEF Over
  <2>5. \A i \in OwnItems : new[i] = IF i \in DOMAIN row.writes THEN row.writes[i] ELSE own[s][i]
    BY <2>3
  <2>4. new \in OwnValues
    <3>1. \A i \in DOMAIN row.writes : row.writes[i] \in Nat /\ row.writes[i] <= OwnLimit(i)
      BY <1>1, <1>8, OwnWidth DEF RowOK
    <3>2. \A i \in OwnItems : own[s][i] \in Nat /\ own[s][i] <= OwnLimit(i)
      BY <2>2 DEF OwnValues
    <3>3. \A i \in OwnItems : new[i] \in Nat /\ new[i] <= OwnLimit(i)
      <4> HIDE DEF new
      <4> QED
        BY <2>5, <3>1, <3>2
    <3> QED
      BY <2>3, <3>3 DEF OwnValues
  <2> HIDE DEF new
  <2>6. own' \in [Subnets -> OwnValues]
    BY <2>1, <2>4 DEF OwnerInv
  <2>7. ASSUME NEW r \in Subnets
        PROVE  Ceiling(r)' <= Ceiling(r)
    <3>1. CASE r = s
      <4> DEFINE m == own[s]["MaxRegisteredNodes"]
                 t == own[s]["TargetNodeRegistrationsPerEpoch"]
      <4>1. own'[r] = new /\ m \in Nat /\ t \in Nat
        BY <1>4, <1>5, <2>1, <3>1
      <4>2. new["MaxRegisteredNodes"] = m \/ new["MaxRegisteredNodes"] <= t
        BY <1>1, <1>5, <1>8, <2>5 DEF RowOK
      <4>3. new["TargetNodeRegistrationsPerEpoch"] = t \/ new["TargetNodeRegistrationsPerEpoch"] <= m
        BY <1>1, <1>5, <1>8, <2>5 DEF RowOK
      <4>4. new["MaxRegisteredNodes"] \in Nat /\ new["TargetNodeRegistrationsPerEpoch"] \in Nat
        BY <1>5, <2>4 DEF OwnValues
      <4>5. Ceiling(s) = IF m > t THEN m ELSE t
        BY DEF Ceiling
      <4>6. Ceiling(s)' = IF new["MaxRegisteredNodes"] > new["TargetNodeRegistrationsPerEpoch"]
                          THEN new["MaxRegisteredNodes"] ELSE new["TargetNodeRegistrationsPerEpoch"]
        BY <3>1, <4>1 DEF Ceiling
      <4> HIDE DEF m, t
      <4> QED
        BY <3>1, <4>1, <4>2, <4>3, <4>4, <4>5, <4>6
    <3>2. CASE r # s
      <4>1. own'[r] = own[r]
        BY <1>4, <2>1, <3>2
      <4>2. Ceiling(r)' = Ceiling(r)
        BY <4>1 DEF Ceiling
      <4> QED
        BY <1>6, <4>2
    <3> QED
      BY <3>1, <3>2
  <2> QED
    BY <1>2, <1>3, <2>6, <2>7
<1> QED
  BY <1>7, <1>8
--------------------------------------------------------------------------------
(***************************************************************************)
(* The steps.                                                              *)
(***************************************************************************)
(* A call names one of the functions given, with arguments from S or 0.    *)
LEMMA ArgumentsType ==
  ASSUME NEW names, NEW S, NEW c \in Arguments(Callable(names), S)
  PROVE  /\ c.name \in names /\ c.v \in S \cup {0} /\ c.w \in S \cup {0} /\ c.x \in S \cup {0}
         /\ c = Call(c.name, c.v, c.w, c.x)
<1> DEFINE pairs(n) == {Call(n, v, w, 0) : v \in S, w \in S}
           three(n) == {Call(n, v, w, v) : v \in S, w \in S}
           single(n) == {Call(n, v, 0, 0) : v \in S}
<1>1. PICK n \in names : c \in pairs(n) \/ c \in three(n) \/ c \in single(n)
  BY DEF Arguments, Callable
<1>2. CASE c \in pairs(n)
  BY <1>2 DEF Call
<1>3. CASE c \in three(n)
  BY <1>3 DEF Call
<1>4. CASE c \in single(n)
  BY <1>4 DEF Call
<1> QED
  BY <1>1, <1>2, <1>3, <1>4

(* What a step keeps and what it changes: the invariant, and the three     *)
(* action properties.                                                      *)
StepOK ==
  /\ OwnerInv'
  /\ \A s \in Subnets : Ceiling(s)' <= Ceiling(s)
  /\ \A s \in Subnets : factors_for_epoch(schedule'[s], SubnetEpoch(s))
                         = factors_for_epoch(schedule[s], SubnetEpoch(s))
  /\ \A s \in emergency : PenaltiesOf(Latest(schedule'[s])) = PenaltiesOf(Latest(schedule[s]))

(* The ceiling is a number.                                                *)
LEMMA CeilingType ==
  ASSUME own \in [Subnets -> OwnValues], NEW s \in Subnets
  PROVE  Ceiling(s) \in Nat
<1>1. "MaxRegisteredNodes" \in OwnItems /\ "TargetNodeRegistrationsPerEpoch" \in OwnItems
  BY DEF OwnItems, OwnDefaults
<1> QED
  BY <1>1 DEF Ceiling, OwnValues

(* What holds of the network and of the clock after a step.                *)
RestOK ==
  /\ NetOK(net') /\ result' \in Results
  /\ block' \in Nat /\ block' < StartBlock + MaxEpochs * EpochLength + EpochLength
  /\ budget' \in 0 .. Budget

(* A step that leaves the parameters and the schedules of subnets alone.   *)
LEMMA OwnUnchanged ==
  ASSUME OwnerInv, UNCHANGED <<own, schedule>>, emergency' \subseteq Subnets, RestOK
  PROVE  StepOK
<1>1. \A s \in Subnets : Ceiling(s)' = Ceiling(s)
  BY DEF Ceiling
<1>2. \A s \in Subnets : Ceiling(s) \in Nat
  BY CeilingType DEF OwnerInv
<1>3. \A s \in Subnets : Ceiling(s)' <= Ceiling(s)
  BY <1>1, <1>2
<1>4. OwnerInv'
  BY DEF OwnerInv, RestOK
<1> QED
  BY <1>3, <1>4 DEF StepOK

(* A setter of an owner.                                                   *)
LEMMA OwnerSetStep ==
  ASSUME OwnerInv, NEW s \in Subnets, NEW who, NEW call, call.name \in OwnerCalls,
         call.v \in Nat, call.w \in Nat, OwnerDispatch(who, s, call), UNCHANGED block,
         call.name = "owner_update_queue_immunity_epochs" => call.v <= U32Max,
         budget' \in 0 .. Budget
  PROVE  StepOK
<1>1. /\ own' \in [Subnets -> OwnValues]
      /\ \A r \in Subnets : Ceiling(r)' <= Ceiling(r)
      /\ UNCHANGED <<net, schedule, emergency>> /\ result' \in Results
  BY OwnerDispatched
<1>2. OwnerInv'
  BY <1>1 DEF OwnerInv
<1> QED
  BY <1>1, <1>2 DEF StepOK

(* An update of factors.                                                   *)
LEMMA UpdateStep ==
  ASSUME OwnerInv, NEW s \in Subnets, NEW who, NEW updates, Updates(updates),
         do_owner_update_reputation_factors(who, s, updates), UNCHANGED block,
         budget' \in 0 .. Budget
  PROVE  StepOK
<1>1. \A r \in Subnets :
        /\ ScheduleOK(schedule'[r])
        /\ factors_for_epoch(schedule'[r], SubnetEpoch(r))
             = factors_for_epoch(schedule[r], SubnetEpoch(r))
        /\ r \in emergency => PenaltiesOf(Latest(schedule'[r])) = PenaltiesOf(Latest(schedule[r]))
  BY UpdatedSchedule
<1>2. DOMAIN schedule' = Subnets
  BY UpdatedSchedule
<1>3. UNCHANGED <<net, own, emergency>> /\ result' \in {"Ok", "Refused"}
  BY DEF do_owner_update_reputation_factors
<1>4. \A r \in Subnets : Ceiling(r)' = Ceiling(r)
  BY <1>3 DEF Ceiling
<1>5. \A r \in Subnets : Ceiling(r) \in Nat
  BY CeilingType DEF OwnerInv
<1>6. \A r \in Subnets : Ceiling(r)' <= Ceiling(r)
  BY <1>4, <1>5
<1>7. result' \in Results
  BY <1>3 DEF Results
<1>8. OwnerInv'
  BY <1>1, <1>2, <1>3, <1>7 DEF OwnerInv
<1>9. emergency \subseteq Subnets
  BY DEF OwnerInv
<1> QED
  BY <1>1, <1>6, <1>8, <1>9 DEF StepOK

(* A call spends from the budget, which does not run below 0.              *)
LEMMA Spent ==
  ASSUME budget \in 0 .. Budget, NEW name, Spend(name)
  PROVE  budget' \in 0 .. Budget /\ UNCHANGED block
<1>1. Budget \in Nat /\ Budget > 0
  BY OwnerAssumption
<1>2. budget > 0
  <2>1. Callable({name}) # {}
    BY DEF Spend
  <2> QED
    BY <1>1, <2>1 DEF Callable
<1>3. budget' \in {budget, budget - 1, 0}
  BY DEF Spend
<1>4. UNCHANGED block
  BY DEF Spend
<1> QED
  BY <1>1, <1>2, <1>3, <1>4

(* Every step is of that kind.                                             *)
LEMMA OwnerStep ==
  ASSUME OwnerInv, [Next]_vars
  PROVE  StepOK
<1>1. /\ EvmValues \subseteq Nat /\ Values \subseteq 0 .. U128Max /\ FactorValues \subseteq Nat
      /\ TouchedFactors \subseteq Factors /\ U128Max \in Nat /\ EpochLength \in Nat /\ U32Max \in Nat
  BY OwnerAssumption, ParametersAssumption
<1>2. /\ block \in Nat /\ block < StartBlock + MaxEpochs * EpochLength + EpochLength
      /\ emergency \subseteq Subnets /\ NetOK(net) /\ result \in Results /\ budget \in 0 .. Budget
  BY DEF OwnerInv
<1>3. \A n \in Nat : unique_saturated_into(n) \in Nat
  BY <1>1 DEF unique_saturated_into
<1>4. CASE CollectiveCalls
  <2>1. PICK c \in Arguments(Callable(AdminCalls), Values), vote \in Votes :
          /\ \A n \in {c.v, c.w, c.x} : Converts(c.name, n)
          /\ Dispatch(Members(vote[1], vote[2]), c) /\ Spend(c.name) /\ UNCHANGED ownVars
    BY <1>4 DEF CollectiveCalls
  <2>2. /\ c.name \in AdminCalls
        /\ c.v \in 0 .. U128Max /\ c.w \in 0 .. U128Max /\ c.x \in 0 .. U128Max
    <3>1. /\ c.name \in AdminCalls /\ c.v \in Values \cup {0} /\ c.w \in Values \cup {0}
          /\ c.x \in Values \cup {0}
      BY ArgumentsType
    <3>2. \A n \in Values \cup {0} : n \in 0 .. U128Max
      BY <1>1
    <3> QED
      BY <3>1, <3>2
  <2>3. NetOK(net') /\ result' \in {"Ok", "Refused", "BadOrigin"}
    BY <1>2, <2>1, <2>2, Dispatched
  <2>4. RestOK
    BY <1>2, <2>1, <2>3, Spent DEF RestOK, Results
  <2>5. UNCHANGED <<own, schedule, emergency>>
    BY <2>1 DEF ownVars
  <2> QED
    BY <1>2, <2>4, <2>5, OwnUnchanged
<1>5. CASE EvmAdminCalls
  <2>1. PICK c \in Arguments(Callable(AdminCalls), EvmValues) :
          EvmDispatch(c) /\ Spend(c.name) /\ UNCHANGED ownVars
    BY <1>5 DEF EvmAdminCalls
  <2>2. UNCHANGED net /\ result' \in {"BadOrigin", "OutOfBounds"}
    BY <2>1, EvmDispatched
  <2>3. RestOK
    BY <1>2, <2>1, <2>2, Spent DEF RestOK, Results
  <2>4. UNCHANGED <<own, schedule, emergency>>
    BY <2>1 DEF ownVars
  <2> QED
    BY <1>2, <2>3, <2>4, OwnUnchanged
<1>6. CASE OwnerSets
  <2>1. PICK s \in Subnets, who \in Accounts, c \in Arguments(Callable(OwnerCalls), Values) :
          /\ Narrow(c.name) => c.v <= U32Max
          /\ OwnerDispatch(who, s, c) /\ Spend(c.name)
    BY <1>6 DEF OwnerSets
  <2>2. c.name \in OwnerCalls /\ c.v \in 0 .. U128Max /\ c.w \in 0 .. U128Max
    <3>1. c.name \in OwnerCalls /\ c.v \in Values \cup {0} /\ c.w \in Values \cup {0}
      BY ArgumentsType
    <3>2. \A n \in Values \cup {0} : n \in 0 .. U128Max
      BY <1>1
    <3> QED
      BY <3>1, <3>2
  <2>3. /\ c.v \in Nat /\ c.w \in Nat
        /\ c.name = "owner_update_queue_immunity_epochs" => c.v <= U32Max
    <3>1. Narrow("owner_update_queue_immunity_epochs")
      BY DEF Narrow, EvmOwnerGroups, EvmOwnerCalls3
    <3> QED
      BY <1>1, <2>1, <2>2, <3>1
  <2>4. budget' \in 0 .. Budget /\ UNCHANGED block
    BY <1>2, <2>1, Spent
  <2> QED
    BY <2>1, <2>2, <2>3, <2>4, OwnerSetStep
<1>7. CASE EvmOwnerSets
  <2>1. PICK s \in Subnets, who \in Accounts, c \in Arguments(Callable(OwnerCalls), EvmValues) :
          EvmOwnerDispatch(who, s, c) /\ Spend(c.name)
    BY <1>7 DEF EvmOwnerSets
  <2>2. c.name \in OwnerCalls /\ c.v \in Nat /\ c.w \in Nat
    <3>1. c.name \in OwnerCalls /\ c.v \in EvmValues \cup {0} /\ c.w \in EvmValues \cup {0}
      BY ArgumentsType
    <3>2. \A n \in EvmValues \cup {0} : n \in Nat
      BY <1>1
    <3> QED
      BY <3>1, <3>2
  <2> DEFINE d == [c EXCEPT !.v = unique_saturated_into(@), !.w = unique_saturated_into(@)]
             narrow == Narrow(c.name)
  <2>3. c = Call(c.name, c.v, c.w, c.x)
    BY ArgumentsType
  <2>4. d.name = c.name /\ d.v = unique_saturated_into(c.v) /\ d.w = unique_saturated_into(c.w)
    BY <2>3 DEF Call
  <2>5. d.name \in OwnerCalls /\ d.v \in Nat /\ d.w \in Nat
    BY <1>3, <2>2, <2>4
  <2>6. c.name = "owner_update_queue_immunity_epochs" => narrow
    BY DEF Narrow, EvmOwnerGroups, EvmOwnerCalls3
  <2> HIDE DEF d, narrow
  <2>7. budget' \in 0 .. Budget /\ UNCHANGED block
    BY <1>2, <2>1, Spent
  <2>8. CASE narrow /\ c.v > U32Max
    <3>1. result' = "OutOfBounds" /\ UNCHANGED <<net, ownVars>>
      BY <2>1, <2>8 DEF EvmOwnerDispatch, narrow
    <3>2. RestOK
      BY <1>2, <2>7, <3>1 DEF RestOK, Results
    <3>3. UNCHANGED <<own, schedule, emergency>>
      BY <3>1 DEF ownVars
    <3> QED
      BY <1>2, <3>2, <3>3, OwnUnchanged
  <2>9. CASE narrow /\ ~(c.v > U32Max)
    <3>1. OwnerDispatch(who, s, c) /\ c.v <= U32Max
      BY <1>1, <2>1, <2>2, <2>9 DEF EvmOwnerDispatch, narrow
    <3> QED
      BY <2>1, <2>2, <2>7, <3>1, OwnerSetStep
  <2>10. CASE ~narrow
    <3>1. OwnerDispatch(who, s, d)
      BY <2>1, <2>10 DEF EvmOwnerDispatch, narrow, d
    <3>2. d.name # "owner_update_queue_immunity_epochs"
      BY <2>4, <2>6, <2>10
    <3> QED
      BY <2>5, <2>7, <3>1, <3>2, OwnerSetStep
  <2> QED
    BY <2>8, <2>9, <2>10
<1>8. CASE UpdateFactors
  <2>1. PICK s \in Subnets, who \in Accounts, F \in SUBSET TouchedFactors :
          \E u \in [F -> FactorValues] :
            /\ do_owner_update_reputation_factors(who, s, u)
            /\ Spend("owner_update_reputation_factors")
    BY <1>8 DEF UpdateFactors
  <2>2. PICK u \in [F -> FactorValues] :
          /\ do_owner_update_reputation_factors(who, s, u)
          /\ Spend("owner_update_reputation_factors")
    BY <2>1
  <2>3. u \in [F -> Nat] /\ F \in SUBSET Factors
    BY <1>1
  <2>4. Updates(u)
    BY <2>3 DEF Updates
  <2>5. budget' \in 0 .. Budget /\ UNCHANGED block
    BY <1>2, <2>2, Spent
  <2> QED
    BY <2>2, <2>4, <2>5, UpdateStep
<1>9. CASE EvmUpdateFactors
  <2>1. PICK s \in Subnets, who \in Accounts, f \in TouchedFactors, word \in EvmValues :
          EvmUpdateFactor(who, s, f, word) /\ Spend("owner_update_reputation_factors")
    BY <1>9 DEF EvmUpdateFactors
  <2> DEFINE u == Item(f, unique_saturated_into(word))
  <2>2. do_owner_update_reputation_factors(who, s, u)
    BY <2>1 DEF EvmUpdateFactor
  <2>3. u \in [{f} -> Nat] /\ {f} \in SUBSET Factors
    BY <1>1, <1>3 DEF Item
  <2>4. Updates(u)
    BY <2>3 DEF Updates
  <2>5. budget' \in 0 .. Budget /\ UNCHANGED block
    BY <1>2, <2>1, Spent
  <2> HIDE DEF u
  <2> QED
    BY <2>2, <2>4, <2>5, UpdateStep
<1>10. CASE Emergencies
  <2>1. UNCHANGED <<paramVars, own, schedule, block, budget>> /\ emergency' \subseteq Subnets
    BY <1>2, <1>10 DEF Emergencies, SetEmergency, ClearEmergency
  <2>2. RestOK
    BY <1>2, <2>1 DEF RestOK, paramVars
  <2> QED
    BY <2>1, <2>2, OwnUnchanged
<1>11. CASE NewEpoch
  <2>1. /\ UNCHANGED <<paramVars, own, schedule, emergency, budget>>
        /\ block' = block + EpochLength /\ block < StartBlock + MaxEpochs * EpochLength
    BY <1>11 DEF NewEpoch, ownVars
  <2>2. block' \in Nat /\ block' < StartBlock + MaxEpochs * EpochLength + EpochLength
    <3> DEFINE m == MaxEpochs * EpochLength
    <3>1. m \in Nat /\ StartBlock \in Nat
      BY <1>1, OwnerAssumption
    <3> HIDE DEF m
    <3>2. block' \in Nat /\ block' < StartBlock + m + EpochLength
      BY <1>1, <1>2, <2>1, <3>1 DEF m
    <3> QED
      BY <3>2 DEF m
  <2>3. RestOK
    BY <1>2, <2>1, <2>2 DEF RestOK, paramVars
  <2> QED
    BY <1>2, <2>1, <2>3, OwnUnchanged
<1>12. CASE UNCHANGED vars
  <2>1. UNCHANGED <<paramVars, own, schedule, emergency, block, budget>>
    BY <1>12 DEF vars, ownVars
  <2>2. RestOK
    BY <1>2, <2>1 DEF RestOK, paramVars
  <2> QED
    BY <1>2, <2>1, <2>2, OwnUnchanged
<1> QED
  BY <1>4, <1>5, <1>6, <1>7, <1>8, <1>9, <1>10, <1>11, <1>12 DEF Next

(* The parameters and schedules the network starts with.                   *)
LEMMA OwnerInit ==
  ASSUME Init
  PROVE  OwnerInv
<1>1. U32Max \in Nat /\ U32Max >= 438290 /\ EpochLength \in Nat /\ EpochLength >= 4
  BY ParametersAssumption
<1>2. OwnDefaults \in OwnValues
  <2>1. OwnDefaults \in [OwnItems -> 0 .. U32Max]
    BY <1>1 DEF OwnDefaults, OwnItems
  <2>2. \A i \in OwnItems : OwnDefaults[i] \in Nat /\ OwnDefaults[i] <= OwnLimit(i)
    BY <1>1, <2>1, OwnWidth
  <2>3. OwnDefaults \in [OwnItems -> Nat]
    BY <1>1, <2>1
  <2> QED
    BY <2>2, <2>3 DEF OwnValues
<1>3. DefaultFactors \in FactorSets
  BY DEF DefaultFactors, FactorSets, Full
<1>4. ScheduleOK([current |-> DefaultFactors, pending |-> {}])
  BY <1>3 DEF ScheduleOK
<1>5. own \in [Subnets -> OwnValues]
  BY <1>2 DEF Init
<1>6. DOMAIN schedule = Subnets /\ \A s \in Subnets : ScheduleOK(schedule[s])
  BY <1>4 DEF Init
<1>7. emergency \subseteq Subnets /\ block = StartBlock /\ budget = Budget
  BY DEF Init
<1>8. NetOK(net) /\ result \in Results
  BY DefaultsSound DEF Init, ParamInit, Results
<1>9. block \in Nat /\ block < StartBlock + MaxEpochs * EpochLength + EpochLength
  <2> DEFINE m == MaxEpochs * EpochLength
  <2>1. m \in Nat /\ StartBlock \in Nat
    BY <1>1, OwnerAssumption
  <2> HIDE DEF m
  <2>2. block \in Nat /\ block < StartBlock + m + EpochLength
    BY <1>1, <1>7, <2>1
  <2> QED
    BY <2>2 DEF m
<1>10. budget \in 0 .. Budget
  BY <1>7, OwnerAssumption
<1> QED
  BY <1>5, <1>6, <1>7, <1>8, <1>9, <1>10 DEF OwnerInv

(* The parameters of the network and of the subnets stay sound, and a      *)
(* schedule keeps factors for every name and at most one pending change.   *)
THEOREM OwnerInvariant == Spec => []OwnerInv
<1>1. Init => OwnerInv
  BY OwnerInit
<1>2. OwnerInv /\ [Next]_vars => OwnerInv'
  BY OwnerStep DEF StepOK
<1> QED
  BY <1>1, <1>2, PTL DEF Spec

(* Whatever the collective, the precompile and the owners set, in any      *)
(* order and over the whole width of each argument: every parameter holds  *)
(* a value of its type, none of the twelve pairs of bounds that are        *)
(* checked is the wrong way round, and none of the network's three         *)
(* intervals the hooks divide by is 0.                                     *)
THEOREM ParametersStaySound == Spec => []ParametersSound
<1>1. ASSUME OwnerInv
      PROVE  ParametersSound
  <2>1. ParamTypeOK /\ PairsOrdered /\ DivisorsPositive
    BY <1>1, SoundParameters DEF OwnerInv, Results
  <2>2. /\ own \in [Subnets -> [DOMAIN OwnDefaults -> 0 .. U128Max]]
        /\ \A s \in Subnets, i \in DOMAIN OwnDefaults \ WideItems : own[s][i] <= U32Max
    <3>1. \A s \in Subnets, i \in OwnItems :
            own[s][i] \in Nat /\ own[s][i] <= OwnLimit(i) /\ own[s][i] \in 0 .. U128Max
      BY <1>1, OwnWidth, ParametersAssumption DEF OwnerInv, OwnValues
    <3>2. own \in [Subnets -> [OwnItems -> 0 .. U128Max]]
      BY <1>1, <3>1 DEF OwnerInv, OwnValues
    <3> QED
      BY <3>1, <3>2 DEF OwnItems, OwnLimit
  <2>3. ASSUME NEW s \in Subnets
        PROVE  /\ schedule[s].current \in [Factors -> 0 .. Full]
               /\ Latest(schedule[s]) \in [Factors -> 0 .. Full]
               /\ Cardinality(schedule[s].pending) <= 1
    <3>1. ScheduleOK(schedule[s])
      BY <1>1 DEF OwnerInv
    <3>2. schedule[s].current \in FactorSets /\ Latest(schedule[s]) \in FactorSets
      BY <3>1, MaturedSchedule DEF ScheduleOK
    <3>3. Cardinality(schedule[s].pending) <= 1
      <4>1. CASE schedule[s].pending = {}
        BY <4>1, FS_EmptySet
      <4>2. CASE schedule[s].pending # {}
        <5>1. PICK p \in schedule[s].pending : TRUE
          BY <4>2
        <5>2. schedule[s].pending = {p}
          BY <3>1, <5>1 DEF ScheduleOK
        <5>3. Cardinality({p}) = 1
          BY FS_Singleton
        <5> QED
          BY <5>2, <5>3
      <4> QED
        BY <4>1, <4>2
    <3> QED
      BY <3>2, <3>3 DEF FactorSets
  <2>4. emergency \subseteq Subnets /\ block \in Nat /\ budget \in 0 .. Budget
    BY <1>1 DEF OwnerInv
  <2>5. TypeOK
    BY <2>1, <2>2, <2>3, <2>4 DEF TypeOK
  <2> QED
    BY <2>1, <2>5 DEF ParametersSound
<1> QED
  BY <1>1, OwnerInvariant, PTL

(* Whatever owners and the collective set, in any order, the larger of a   *)
(* subnet's maximum of registered nodes and its target of registrations    *)
(* never rises.                                                            *)
THEOREM CeilingOnlyFalls == Spec => RegistrationRatchet
<1>1. OwnerInv /\ [Next]_vars => [\A s \in Subnets : Ceiling(s)' <= Ceiling(s)]_vars
  BY OwnerStep DEF StepOK
<1> QED
  BY <1>1, OwnerInvariant, PTL DEF Spec, RegistrationRatchet

(* No update that an owner schedules changes the factors by which the      *)
(* present epoch will be judged.                                           *)
THEOREM EpochsJudgedAsBegun == Spec => FactorsStandForEpoch
<1>1. OwnerInv /\ [Next]_vars =>
        [\A s \in Subnets : LET e == SubnetEpoch(s)
                            IN  factors_for_epoch(schedule'[s], e)
                                  = factors_for_epoch(schedule[s], e)]_vars
  BY OwnerStep DEF StepOK
<1> QED
  BY <1>1, OwnerInvariant, PTL DEF Spec, FactorsStandForEpoch

(* While a subnet has an emergency validator set no penalty is rescheduled.*)
THEOREM EmergencyFreezesPenalties == Spec => PenaltiesFrozen
<1>1. OwnerInv /\ [Next]_vars =>
        [\A s \in emergency :
           PenaltiesOf(Latest(schedule'[s])) = PenaltiesOf(Latest(schedule[s]))]_vars
  BY OwnerStep DEF StepOK
<1> QED
  BY <1>1, OwnerInvariant, PTL DEF Spec, PenaltiesFrozen
================================================================================

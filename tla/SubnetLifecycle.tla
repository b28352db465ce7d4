---------------------------- MODULE SubnetLifecycle ----------------------------
(***************************************************************************)
(* The subnets of the network pallet, from registration to removal: their  *)
(* ids, slots in the epoch, names and owners, the calls of their owners,   *)
(* and the hooks that at the start of every epoch remove the subnets that  *)
(* do not qualify, give weights to those that run and, at each one's slot, *)
(* move its reputation.                                                    *)
(*                                                                         *)
(* Delegate stake and node counts belong to other components and change    *)
(* with every block; here they are inputs, chosen anew whenever they are   *)
(* read.  A hook may find the network paused and do nothing, or the weight *)
(* of its block used up and not remove what it should; spared remembers    *)
(* the subnets this happened to.                                           *)
(*                                                                         *)
(* Left out: the cost of registration, the registration whitelist, the     *)
(* parameters of a subnet (set by its owner, removed with it), bootnodes.  *)
(* A name stands for SubnetName and SubnetRepo, which are kept alike.      *)
(***************************************************************************)
EXTENDS Integers, FiniteSets, Functions

CONSTANTS
  Accounts, Names,
  EpochLength, DesignatedEpochSlots, MaxSubnets,
  MinSubnetRegistrationEpochs, SubnetRegistrationEpochs, SubnetEnactmentEpochs,
  MaxSubnetPauseEpochs, SubnetPauseCooldownEpochs,
  DelegateStakeSubnetRemovalInterval, MaxSubnetRemovalInterval, MinSubnetRemovalInterval,
  Stakes, MinSubnetDelegateStake,   \* delegate stake of a subnet, and what it must reach
  MinSubnetReputation,              \* reputations and factors are percentages
  MaxPauseEpochsFactor, LessThanMinNodesFactor, ValidatorAbsentFactor, NotInConsensusFactor,
  Ratios,                           \* attestation ratios, in percent of the minimum
  Raised,                           \* reputations an increase may lead to
  Traded,                           \* ids of the subnets whose owners may change
  MaxUid, MaxEpoch                  \* bounds of the model

FirstEpoch == 1
Uids == 1 .. MaxUid
Slots == DesignatedEpochSlots .. EpochLength - 1
Percent == 0 .. 100
States == {"Registered", "Active", "Paused"}

ASSUME LifecycleAssumption ==
  /\ IsFiniteSet(Accounts) /\ IsFiniteSet(Names)
  /\ {EpochLength, DesignatedEpochSlots, MaxSubnets, MinSubnetRegistrationEpochs,
      SubnetRegistrationEpochs, SubnetEnactmentEpochs, MaxSubnetPauseEpochs,
      SubnetPauseCooldownEpochs, MinSubnetRemovalInterval, MinSubnetDelegateStake,
      MaxUid, MaxEpoch} \subseteq Nat
  /\ {DelegateStakeSubnetRemovalInterval, MaxSubnetRemovalInterval} \subseteq Nat \ {0}
  /\ Stakes \subseteq Nat
  /\ {MinSubnetReputation, MaxPauseEpochsFactor, LessThanMinNodesFactor,
      ValidatorAbsentFactor, NotInConsensusFactor} \subseteq Percent
  /\ Ratios \subseteq Percent /\ Raised \subseteq Percent /\ Traded \subseteq Uids

VARIABLES
  epoch, phase,       \* the general epoch; "start" until the emission weights are made
  subnets,            \* SubnetsData: id -> state, start epoch and name
  uids,               \* TotalSubnetUids
  assigned, slotOf, subnetAt,   \* AssignedSlots, SubnetSlot, SlotAssignment
  friendlyOf, friendlyTo,       \* SubnetIdFriendlyUid, FriendlyUidSubnetId
  nameTo,             \* SubnetName
  owner, pending,     \* SubnetOwner, PendingSubnetOwner
  registeredAt,       \* SubnetRegistrationEpoch
  unpausedAt,         \* PreviousSubnetPauseEpoch
  activation,         \* PrevSubnetActivationEpoch
  reputation,         \* SubnetReputation, its default included
  total, active,      \* TotalSubnets, TotalActiveSubnets
  due,                \* FinalSubnetEmissionWeights of the epoch: ids whose slot is to come
  removed,            \* history: the ids of removed subnets
  offeredBy, spared   \* history: who made the offer, whom a hook did not get to

clockVars  == <<epoch, phase>>
slotVars   == <<assigned, slotOf, subnetAt, friendlyOf, friendlyTo>>
ownerVars  == <<owner, pending, offeredBy>>
totalVars  == <<total, active>>
pastVars   == <<removed, spared>>
timeVars   == <<registeredAt, unpausedAt>>
vars == <<clockVars, subnets, uids, slotVars, nameTo, ownerVars, timeVars, activation,
          reputation, totalVars, due, pastVars>>

EmptyMap == [x \in {} |-> 0]

Init ==
  /\ epoch = FirstEpoch /\ phase = "slots"
  /\ subnets = EmptyMap /\ uids = 0
  /\ assigned = {} /\ slotOf = EmptyMap /\ subnetAt = EmptyMap
  /\ friendlyOf = EmptyMap /\ friendlyTo = EmptyMap /\ nameTo = EmptyMap
  /\ owner = EmptyMap /\ pending = EmptyMap /\ offeredBy = EmptyMap
  /\ registeredAt = EmptyMap /\ unpausedAt = EmptyMap /\ activation = 0
  /\ reputation = EmptyMap /\ total = 0 /\ active = 0
  /\ due = {} /\ removed = {} /\ spared = {}
--------------------------------------------------------------------------------
(***************************************************************************)
(* Storage maps and helpers.                                               *)
(***************************************************************************)
Put(f, k, v) == [x \in DOMAIN f \cup {k} |-> IF x = k THEN v ELSE f[x]]
Drop(f, S) == Restrict(f, DOMAIN f \ S)
Minus(n, d) == IF n < d THEN 0 ELSE n - d

In(state) == {i \in DOMAIN subnets : subnets[i].state = state}
LiveAt(e) == {i \in In("Active") : subnets[i].start <= e}

(* Mutant: the factor is taken off the reputation, not a share of it.      *)
FlatDecrease(r, factor) == r - factor

(* decrease_rep, with 1e18 scaled down to 100.                             *)
decrease_rep(r, factor) == r - (r * factor) \div 100

(* The power of floats that raises a reputation is left open: it gets no   *)
(* lower, and does not exceed one.                                         *)
increase_rep(r) == {x \in Raised : x >= r}

is_subnet_registering(i, e) == e <= registeredAt[i] + SubnetRegistrationEpochs
EnactmentEnd(i) == registeredAt[i] + SubnetRegistrationEpochs + SubnetEnactmentEpochs

(* Mutant: ids are counted from the subnets there are.                     *)
CountedUid == total + 1

NextUid == uids + 1

FreeSlots == Slots \ assigned

(* s is the slot found: the first one that is free.                        *)
get_available_subnet_slot(s) == s \in FreeSlots /\ \A t \in FreeSlots : s <= t

insert_subnet_slot_assignment(i, s) ==
  /\ assigned' = assigned \cup {s}
  /\ slotOf' = Put(slotOf, i, s)
  /\ subnetAt' = Put(subnetAt, s, i)

(* Mutant: SlotAssignment keeps the removed subnet.                        *)
FreeKeepsAssignment(S) ==
  /\ assigned' = assigned \ {slotOf[i] : i \in S}
  /\ slotOf' = Drop(slotOf, S)
  /\ UNCHANGED subnetAt

free_slots_of_subnets(S) ==
  LET freed == {slotOf[i] : i \in S}
  IN  /\ assigned' = assigned \ freed
      /\ slotOf' = Drop(slotOf, S)
      /\ subnetAt' = Drop(subnetAt, freed)

(* Mutant: a paused subnet is not counted as active when it is removed.    *)
ActiveAmong(S) == S \cap In("Active")

(* Those that TotalActiveSubnets counts, paused ones too.                  *)
ActivatedAmong(S) == S \ In("Registered")

(* do_remove_subnet for each of a set of subnets, which do not depend on   *)
(* each other; rep is what the hook has made of the reputations.  The      *)
(* emission weights of the epoch keep the ids of those removed.            *)
RemoveSubnets(S, rep) ==
  /\ subnets' = Drop(subnets, S)
  /\ nameTo' = Drop(nameTo, {subnets[i].name : i \in S})
  /\ owner' = Drop(owner, S) /\ pending' = Drop(pending, S)
  /\ offeredBy' = Drop(offeredBy, S)
  /\ registeredAt' = Drop(registeredAt, S) /\ unpausedAt' = Drop(unpausedAt, S)
  /\ reputation' = Drop(rep, S)
  /\ friendlyOf' = Drop(friendlyOf, S)
  /\ friendlyTo' = Drop(friendlyTo, {friendlyOf[i] : i \in S})
  /\ free_slots_of_subnets(S)
  /\ active' = Minus(active, Cardinality(ActivatedAmong(S)))
  /\ total' = Minus(total, Cardinality(S))
  /\ removed' = removed \cup S

RemoveSubnet(i) ==
  /\ RemoveSubnets({i}, reputation)
  /\ spared' = spared \ {i}
  /\ UNCHANGED <<clockVars, uids, activation, due>>
--------------------------------------------------------------------------------
(***************************************************************************)
(* Calls.                                                                  *)
(***************************************************************************)
do_register_subnet(a, n) ==
  LET i == NextUid
  IN  /\ uids < MaxUid
      /\ n \notin DOMAIN nameTo
      /\ Cardinality(DOMAIN subnets) < MaxSubnets + 1
      /\ uids' = i
      /\ \E s \in Slots :
           LET f == s - DesignatedEpochSlots + 1
           IN  /\ get_available_subnet_slot(s)
               /\ insert_subnet_slot_assignment(i, s)
               /\ friendlyOf' = Put(friendlyOf, i, f)
               /\ friendlyTo' = Put(friendlyTo, f, i)
      /\ subnets' = Put(subnets, i, [state |-> "Registered", start |-> MaxEpoch + 1, name |-> n])
      /\ owner' = Put(owner, i, a)
      /\ nameTo' = Put(nameTo, n, i)
      /\ registeredAt' = Put(registeredAt, i, epoch)
      /\ total' = total + 1
      /\ reputation' = Put(reputation, i, 100)
      /\ UNCHANGED <<clockVars, pending, offeredBy, unpausedAt, activation, active, due,
                     pastVars>>

can_subnet_be_active(i, staffed, staked) ==
  reputation[i] >= MinSubnetReputation /\ staffed /\ staked

ActivationDue(i) ==
  i \in In("Registered") /\ registeredAt[i] + MinSubnetRegistrationEpochs <= epoch

do_activate_subnet(i, staffed, staked) ==
  /\ ActivationDue(i) /\ epoch <= EnactmentEnd(i)
  /\ can_subnet_be_active(i, staffed, staked)
  /\ subnets' = [subnets EXCEPT ![i].state = "Active", ![i].start = epoch + 1]
  /\ active' = active + 1
  /\ registeredAt' = Drop(registeredAt, {i})
  /\ unpausedAt' = Put(unpausedAt, i, epoch)
  /\ activation' = epoch
  /\ UNCHANGED <<clockVars, uids, slotVars, nameTo, ownerVars, reputation, total, due,
                 pastVars>>

(* An activation too late, or in the enactment period without what it      *)
(* takes, removes the subnet.                                              *)
FailActivation(i, staffed, staked) ==
  /\ ActivationDue(i)
  /\ ~ is_subnet_registering(i, epoch)
  /\ epoch > EnactmentEnd(i) \/ ~ can_subnet_be_active(i, staffed, staked)
  /\ RemoveSubnet(i)

do_owner_pause_subnet(i) ==
  /\ i \in In("Active")
  /\ unpausedAt[i] + SubnetPauseCooldownEpochs <= epoch
  /\ subnets' = [subnets EXCEPT ![i].state = "Paused", ![i].start = epoch]
  /\ UNCHANGED <<clockVars, uids, slotVars, nameTo, ownerVars, timeVars, activation,
                 reputation, totalVars, due, pastVars>>

do_owner_unpause_subnet(i) ==
  /\ i \in In("Paused")
  /\ subnets' = [subnets EXCEPT ![i].state = "Active", ![i].start = epoch + 1]
  /\ unpausedAt' = Put(unpausedAt, i, epoch)
  /\ UNCHANGED <<clockVars, uids, slotVars, nameTo, ownerVars, registeredAt, activation,
                 reputation, totalVars, due, pastVars>>

do_owner_deactivate_subnet(i) == i \in DOMAIN subnets /\ RemoveSubnet(i)

do_collective_remove_subnet(i) == i \in DOMAIN subnets /\ RemoveSubnet(i)

(* Mutant: the old name stays taken.                                       *)
RenameKeepsOld(i, n) ==
  /\ i \in DOMAIN subnets /\ n \notin DOMAIN nameTo
  /\ subnets' = [subnets EXCEPT ![i].name = n]
  /\ nameTo' = Put(nameTo, n, i)
  /\ UNCHANGED <<clockVars, uids, slotVars, ownerVars, timeVars, activation, reputation,
                 totalVars, due, pastVars>>

do_owner_update_name(i, n) ==
  /\ i \in DOMAIN subnets /\ n \notin DOMAIN nameTo
  /\ subnets' = [subnets EXCEPT ![i].name = n]
  /\ nameTo' = Put(Drop(nameTo, {subnets[i].name}), n, i)
  /\ UNCHANGED <<clockVars, uids, slotVars, ownerVars, timeVars, activation, reputation,
                 totalVars, due, pastVars>>

do_transfer_subnet_ownership(i, a) ==
  /\ i \in DOMAIN owner \cap Traded
  /\ pending' = Put(pending, i, a) /\ offeredBy' = Put(offeredBy, i, owner[i])
  /\ UNCHANGED <<clockVars, subnets, uids, slotVars, nameTo, owner, timeVars, activation,
                 reputation, totalVars, due, pastVars>>

(* Mutant: an accepted offer stays open.                                   *)
AcceptKeepsOffer(i) ==
  /\ i \in DOMAIN pending /\ i \in DOMAIN owner
  /\ owner' = [owner EXCEPT ![i] = pending[i]]
  /\ UNCHANGED <<clockVars, subnets, uids, slotVars, nameTo, pending, offeredBy, timeVars,
                 activation, reputation, totalVars, due, pastVars>>

do_accept_subnet_ownership(i) ==
  /\ i \in DOMAIN pending /\ i \in DOMAIN owner
  /\ owner' = [owner EXCEPT ![i] = pending[i]]
  /\ pending' = Drop(pending, {i}) /\ offeredBy' = Drop(offeredBy, {i})
  /\ UNCHANGED <<clockVars, subnets, uids, slotVars, nameTo, timeVars, activation,
                 reputation, totalVars, due, pastVars>>
--------------------------------------------------------------------------------
(***************************************************************************)
(* Hooks.  First what do_epoch_preliminaries finds in epoch e, with the    *)
(* stake of each subnet and the set of those that have enough nodes.       *)
(***************************************************************************)
(* Mutant: one epoch of grace too many.                                    *)
ExpiredLate(e) == {i \in In("Registered") : EnactmentEnd(i) + 1 < e}

Expired(e) == {i \in In("Registered") : EnactmentEnd(i) < e}
Deserted(e, staffed) ==
  {i \in In("Registered") \ (Expired(e) \cup staffed) : ~ is_subnet_registering(i, e)}
OverPaused(e) == {i \in In("Paused") : subnets[i].start + MaxSubnetPauseEpochs < e}
Poor(e, stake) ==
  {i \in LiveAt(e) : /\ stake[i] < MinSubnetDelegateStake
                     /\ e % DelegateStakeSubnetRemovalInterval = 0}
Checked(e, stake) == LiveAt(e) \ Poor(e, stake)

Penalized(e, stake, staffed) ==
  [i \in DOMAIN reputation |->
     IF i \in OverPaused(e) THEN decrease_rep(reputation[i], MaxPauseEpochsFactor)
     ELSE IF i \in Checked(e, stake) \ staffed
     THEN decrease_rep(reputation[i], LessThanMinNodesFactor)
     ELSE reputation[i]]

Disgraced(S, rep) == {i \in S : rep[i] < MinSubnetReputation}

(* Of the active subnets that are left, the one with the least stake, when *)
(* there were too many before any was removed.                             *)
Excess(e, stake, rest) ==
  IF /\ Cardinality(DOMAIN subnets) > MaxSubnets
     /\ e % MaxSubnetRemovalInterval = 0
     /\ e >= activation + MinSubnetRemovalInterval
  THEN {i \in rest : \A j \in rest : stake[i] <= stake[j]}
  ELSE {}

do_epoch_preliminaries(e, stake, staffed) ==
  LET rep     == Penalized(e, stake, staffed)
      fallen  == Disgraced(OverPaused(e) \cup Checked(e, stake), rep)
      doomed  == Expired(e) \cup Deserted(e, staffed) \cup Poor(e, stake) \cup fallen
      weakest == Excess(e, stake, Checked(e, stake) \ fallen)
  IN  \E last \in IF weakest = {} THEN {{}} ELSE {{i} : i \in weakest} :
        \E skipped \in SUBSET (doomed \cup last) :
          LET gone == (doomed \cup last) \ skipped
          IN  /\ RemoveSubnets(gone, rep)
              /\ spared' = (spared \ gone) \cup skipped

(* Those with a weight that have a slot: on_initialize finds a subnet in   *)
(* SlotAssignment, so that of a removed one its step never comes.          *)
Awaited == due \cap DOMAIN slotOf

(* The first block of an epoch: every slot of the last one has come, and   *)
(* there are no weights of the new one yet.                                *)
NewEpoch ==
  /\ phase = "slots" /\ Awaited = {} /\ epoch < MaxEpoch
  /\ epoch' = epoch + 1 /\ phase' = "start" /\ due' = {}
  /\ \E stake \in [DOMAIN subnets -> Stakes], staffed \in SUBSET DOMAIN subnets :
       do_epoch_preliminaries(epoch + 1, stake, staffed)
  /\ UNCHANGED <<uids, activation>>

(* The same block while the network is paused.                             *)
MissEpoch ==
  /\ phase = "slots" /\ Awaited = {} /\ epoch < MaxEpoch
  /\ epoch' = epoch + 1 /\ phase' = "start" /\ due' = {}
  /\ spared' = spared \cup DOMAIN subnets
  /\ UNCHANGED <<subnets, uids, slotVars, nameTo, ownerVars, timeVars, activation,
                 reputation, totalVars, removed>>

(* Mutant: a subnet that started earlier has a weight, paused or not.      *)
WeightsForPaused ==
  /\ phase = "start" /\ phase' = "slots"
  /\ due' \in SUBSET {i \in DOMAIN subnets : subnets[i].start <= epoch}
  /\ UNCHANGED <<epoch, subnets, uids, slotVars, nameTo, ownerVars, timeVars, activation,
                 reputation, totalVars, pastVars>>

(* Weights for the subnets that run now, but those whose share of stake,   *)
(* nodes and flow comes to nothing; none while the network is paused.      *)
handle_subnet_emission_weights ==
  /\ phase = "start" /\ phase' = "slots"
  /\ due' \in SUBSET LiveAt(epoch)
  /\ UNCHANGED <<epoch, subnets, uids, slotVars, nameTo, ownerVars, timeVars, activation,
                 reputation, totalVars, pastVars>>

(* The block of a slot.  Nobody was elected, or the network is paused; or  *)
(* the validator did not propose; or the proposal failed, or it passed.    *)
ReputationAfter(i) ==
  {reputation[i], decrease_rep(reputation[i], ValidatorAbsentFactor)}
    \cup {decrease_rep(reputation[i], (NotInConsensusFactor * (100 - r)) \div 100) : r \in Ratios}
    \cup increase_rep(reputation[i])

emission_step(i) ==
  /\ phase = "slots" /\ i \in Awaited /\ \A j \in Awaited : slotOf[i] <= slotOf[j]
  /\ due' = due \ {i}
  /\ \E r \in ReputationAfter(i) : reputation' = [reputation EXCEPT ![i] = r]
  /\ UNCHANGED <<clockVars, subnets, uids, slotVars, nameTo, ownerVars, timeVars, activation,
                 totalVars, pastVars>>
--------------------------------------------------------------------------------
Directory ==
  \/ \E a \in Accounts, n \in Names : do_register_subnet(a, n)
  \/ \E i \in Uids, n \in Names : do_owner_update_name(i, n)
  \/ \E i \in Uids, a \in Accounts : do_transfer_subnet_ownership(i, a)
  \/ \E i \in Uids : do_accept_subnet_ownership(i)

Lifecycle ==
  \E i \in Uids :
    \/ \E staffed, staked \in BOOLEAN : do_activate_subnet(i, staffed, staked)
    \/ \E staffed, staked \in BOOLEAN : FailActivation(i, staffed, staked)
    \/ do_owner_pause_subnet(i)
    \/ do_owner_unpause_subnet(i)
    \/ do_owner_deactivate_subnet(i)
    \/ do_collective_remove_subnet(i)

Hooks ==
  \/ NewEpoch
  \/ MissEpoch
  \/ handle_subnet_emission_weights
  \/ \E i \in Uids : emission_step(i)

(* The subnet precompile makes the same calls, for the account its caller  *)
(* is mapped to; only the collective's call has none.                      *)
EvmRegisterSubnet == \E a \in Accounts, n \in Names : do_register_subnet(a, n)

EvmActivateSubnet == \E i \in Uids, staffed, staked \in BOOLEAN :
  do_activate_subnet(i, staffed, staked) \/ FailActivation(i, staffed, staked)

EvmPauseCalls == \E i \in Uids : do_owner_pause_subnet(i) \/ do_owner_unpause_subnet(i)

EvmOwnerCalls == \E i \in Uids :
  do_owner_deactivate_subnet(i) \/ \E n \in Names : do_owner_update_name(i, n)

EvmOwnership == \E i \in Uids :
  do_accept_subnet_ownership(i) \/ \E a \in Accounts : do_transfer_subnet_ownership(i, a)

EvmCalls == \/ EvmRegisterSubnet \/ EvmActivateSubnet \/ EvmPauseCalls
            \/ EvmOwnerCalls \/ EvmOwnership

Next == Directory \/ Lifecycle \/ EvmCalls \/ Hooks

Spec == Init /\ [][Next]_vars
--------------------------------------------------------------------------------
(* Types.                                                                  *)
IsMap(f, D, R) == DOMAIN f \subseteq D /\ \A x \in DOMAIN f : f[x] \in R

TypeOK ==
  /\ epoch \in Nat /\ phase \in {"start", "slots"}
  /\ IsMap(subnets, Uids, [state : States, start : Nat, name : Names])
  /\ uids \in 0 .. MaxUid
  /\ assigned \subseteq Slots
  /\ IsMap(slotOf, Uids, Slots) /\ IsMap(subnetAt, Slots, Uids)
  /\ IsMap(friendlyOf, Uids, Nat) /\ IsMap(friendlyTo, Nat, Uids)
  /\ IsMap(nameTo, Names, Uids)
  /\ IsMap(owner, Uids, Accounts) /\ IsMap(pending, Uids, Accounts)
  /\ IsMap(offeredBy, Uids, Accounts)
  /\ IsMap(registeredAt, Uids, Nat) /\ IsMap(unpausedAt, Uids, Nat)
  /\ activation \in Nat /\ IsMap(reputation, Uids, Percent)
  /\ total \in Nat /\ active \in Nat
  /\ due \subseteq Uids /\ removed \cup spared \subseteq Uids

(* The five maps that place subnets in the epoch say the same thing, after *)
(* any sequence of registrations and removals: every subnet has one slot   *)
(* and no other subnet has it, the slot leads back to the subnet, slots    *)
(* that are free are free everywhere, and the friendly id counts slots     *)
(* from one.                                                               *)
SlotDirectory ==
  /\ DOMAIN slotOf = DOMAIN subnets /\ DOMAIN subnetAt = assigned
  /\ \A i \in DOMAIN slotOf : slotOf[i] \in assigned /\ subnetAt[slotOf[i]] = i
  /\ \A s \in assigned : subnetAt[s] \in DOMAIN slotOf /\ slotOf[subnetAt[s]] = s
  /\ DOMAIN friendlyOf = DOMAIN subnets
  /\ \A i \in DOMAIN friendlyOf :
       /\ friendlyOf[i] = slotOf[i] - DesignatedEpochSlots + 1
       /\ friendlyOf[i] \in DOMAIN friendlyTo /\ friendlyTo[friendlyOf[i]] = i
  /\ \A f \in DOMAIN friendlyTo :
       friendlyTo[f] \in DOMAIN friendlyOf /\ friendlyOf[friendlyTo[f]] = f

(* A name belongs to the subnet that bears it, and is free again when that *)
(* subnet is renamed or removed.                                           *)
NameDirectory ==
  /\ DOMAIN nameTo = {subnets[i].name : i \in DOMAIN subnets}
  /\ \A i \in DOMAIN subnets : nameTo[subnets[i].name] = i

(* Whatever a subnet is looked up by, its slot, its friendly id or its     *)
(* name, leads to that subnet and to no other, through every registration, *)
(* renaming and removal.                                                   *)
DirectoriesAgree == SlotDirectory /\ NameDirectory

(* TotalSubnets counts the subnets, at most one more than MaxSubnets, and  *)
(* TotalActiveSubnets those that have been activated, paused ones too, in  *)
(* whatever state they are removed.                                        *)
SubnetTotals ==
  /\ total = Cardinality(DOMAIN subnets) /\ total <= MaxSubnets + 1
  /\ active = Cardinality(DOMAIN subnets \ In("Registered"))

(* An id is used once, so that nobody inherits the pool, the stake or the  *)
(* emission weight of a subnet that was removed: every id given out has a  *)
(* subnet or had one, and never both, and the weights that outlive their   *)
(* subnet within the epoch, while its slot goes to the next one that is    *)
(* registered, are those of removed ids, never of a subnet that was not    *)
(* activated.                                                              *)
LivesOnce ==
  /\ DOMAIN subnets \cap removed = {}
  /\ DOMAIN subnets \cup removed = 1 .. uids
  /\ due \subseteq (DOMAIN subnets \ In("Registered")) \cup removed
  /\ DOMAIN reputation = DOMAIN subnets

(* An offer of a subnet is one of its present owner: those of earlier      *)
(* owners do not outlive their ownership, and none outlives the subnet.    *)
OffersStand ==
  /\ DOMAIN owner = DOMAIN subnets
  /\ DOMAIN pending \subseteq DOMAIN owner /\ DOMAIN offeredBy = DOMAIN pending
  /\ \A i \in DOMAIN pending : offeredBy[i] = owner[i]

(* Registration ends: a subnet that no hook failed to see is activated or  *)
(* gone when its enactment period is over, and nothing but a registered    *)
(* subnet has a registration epoch, or lacks one, which the preliminaries  *)
(* would never remove.                                                     *)
RegistrationEnds ==
  /\ DOMAIN registeredAt = In("Registered")
  /\ \A i \in In("Registered") \ spared :
       epoch <= registeredAt[i] + SubnetRegistrationEpochs + SubnetEnactmentEpochs

(* What n epochs beyond the limit leave of a full reputation.              *)
FullAfter[n \in Nat] == IF n = 0 THEN 100
                        ELSE FullAfter[n - 1] - (FullAfter[n - 1] * MaxPauseEpochsFactor) \div 100

(* A pause ends: however good its reputation was, a subnet that stays      *)
(* paused beyond MaxSubnetPauseEpochs is gone after as many epochs as it   *)
(* takes to lose a full reputation, unless a hook failed to see it.        *)
PauseEnds ==
  \A i \in In("Paused") \ spared :
    LET late == epoch - (subnets[i].start + MaxSubnetPauseEpochs)
    IN  late > 0 => FullAfter[late] >= MinSubnetReputation
================================================================================

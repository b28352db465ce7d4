------------------------------ MODULE SubnetNodes ------------------------------
(***************************************************************************)
(* The nodes of one subnet of the network pallet, from registration to     *)
(* removal: the registration queue, the classes a node climbs, the         *)
(* election slots, the elected validator's proposal and its attestations,  *)
(* and the emission step that once an epoch turns them into graduations,   *)
(* penalties, removals, an election and activations from the queue.        *)
(*                                                                         *)
(* A subnet's own epoch begins at its slot, somewhere inside the general   *)
(* epoch; tick tells whether the slot of this general epoch has come.  The *)
(* emission step runs in the hook of that block, one node at a time, and   *)
(* no call comes in between (step).                                        *)
(*                                                                         *)
(* Left out: stake, burn fees and rewards of nodes; peer ids and addresses *)
(* (a node's unique parameter stands for what is indexed by node);         *)
(* hotkeys; the reputation of the subnet as a whole, and with it why a     *)
(* subnet is removed.                                                      *)
(***************************************************************************)
EXTENDS Integers, Sequences, FiniteSets, Functions

CONSTANTS
  Validators,                     \* owners of nodes
  Uniques,                        \* the values the unique parameter may take
  None,                           \* no unique parameter, no id, no record
  MinSubnetNodes, MaxSubnetNodes, MaxRegisteredNodes,
  ChurnLimit, ChurnLimitMultiplier, SubnetNodeQueueEpochs, QueueImmunityEpochs,
  IdleClassificationEpochs, IncludedClassificationEpochs,
  MinAttestation, SuperMajority,  \* percent of the validators
  MinSubnetRegistrationEpochs, SubnetRegistrationEpochs, SubnetEnactmentEpochs,
  SubnetPauseCooldownEpochs, MaxEmergencySubnetNodes,
  TargetEmergencyEpochs,          \* get_max_steps_for_node_removal + 1
  MaxEmergencyEpochs,             \* the target times its multiplier
  QueuedUpdates,                  \* whether owners update nodes that are still queued
  MaxUid, MaxEpoch, MaxPauses, MaxUpdates, MaxExpelled   \* bounds of the model

(* SubnetNodeClass, with its ordinals.                                     *)
Registered == 0
Idle       == 1
Included   == 2
Validator  == 3

(* SubnetNodeReputation: below MinSubnetNodeReputation, above it, 1.0.     *)
Low  == 0
Fair == 1
Full == 2

FirstEpoch == 1
Uids == 1 .. MaxUid

ASSUME SubnetNodesAssumption ==
  /\ IsFiniteSet(Validators) /\ None \notin Uniques \cup Nat
  /\ {MinSubnetNodes, MaxSubnetNodes, MaxRegisteredNodes, ChurnLimit,
      ChurnLimitMultiplier, SubnetNodeQueueEpochs, QueueImmunityEpochs,
      IdleClassificationEpochs, IncludedClassificationEpochs, MinAttestation,
      SuperMajority, MinSubnetRegistrationEpochs, SubnetRegistrationEpochs,
      SubnetEnactmentEpochs,
      SubnetPauseCooldownEpochs, MaxEmergencySubnetNodes, TargetEmergencyEpochs,
      MaxEmergencyEpochs, MaxUid, MaxEpoch, MaxPauses, MaxUpdates,
      MaxExpelled} \subseteq Nat
  /\ ChurnLimitMultiplier > 0 /\ MinAttestation > 0
  /\ MinAttestation <= SuperMajority /\ SuperMajority <= 100
  /\ QueuedUpdates \in BOOLEAN

VARIABLES
  epoch, tick,      \* the general epoch; "early" before the subnet's slot, then "slot"
  step, todo,       \* where the hook is, and the nodes its loop has yet to see
  state, startEpoch, prevPause,   \* SubnetsData, PreviousSubnetPauseEpoch
  weighted,         \* FinalSubnetEmissionWeights has the subnet, whose slot is to come
  nodes,            \* SubnetNodesData: id -> node
  registered,       \* RegisteredSubnetNodesData: id -> node
  queue,            \* SubnetNodeQueue: copies of registered nodes
  slots, slotIndex, \* SubnetNodeElectionSlots, NodeSlotIndex
  uids,             \* TotalSubnetNodeUids
  counts,           \* TotalSubnetNodes, TotalActiveSubnetNodes, TotalSubnetElectableNodes
  all,              \* TotalNodes, TotalActiveNodes, TotalElectableNodes
  uniqueOf,         \* UniqueParamSubnetNodeId
  owned,            \* ValidatorSubnetNodes
  reputation, idle, included,   \* SubnetNodeReputation and the consecutive epochs
  elected,          \* SubnetElectedValidator of the subnet's epoch
  submission,       \* SubnetConsensusSubmission of the subnet's epoch, or in the hook
                    \* the one of the epoch before
  emergency,        \* EmergencySubnetNodeElectionData
  expelled, npauses, nupdates   \* history: nodes the collective removed; bounds

timeVars   == <<epoch, tick>>
hookVars   == <<step, todo>>
subnetVars == <<state, startEpoch, prevPause, weighted>>
queueVars  == <<registered, queue>>
slotVars   == <<slots, slotIndex>>
countVars  == <<counts, all>>
indexVars  == <<uniqueOf, owned>>
scoreVars  == <<reputation, idle, included>>
epochVars  == <<elected, submission>>
histVars   == <<expelled, npauses, nupdates>>
vars == <<timeVars, hookVars, subnetVars, nodes, queueVars, slotVars, uids, countVars,
          indexVars, scoreVars, epochVars, emergency, histVars>>

(* get_current_subnet_epoch_as_u32                                         *)
SubnetEpoch == IF tick = "slot" THEN epoch ELSE epoch - 1

EmptyMap == [x \in {} |-> 0]
NoNodes == [nodes |-> 0, active |-> 0, electable |-> 0]

Init ==
  /\ epoch = FirstEpoch /\ tick = "slot" /\ step = "calls" /\ todo = {}
  /\ state = "Registered" /\ startEpoch = 0 /\ prevPause = 0 /\ weighted = FALSE
  /\ nodes = EmptyMap /\ registered = EmptyMap /\ queue = <<>>
  /\ slots = <<>> /\ slotIndex = EmptyMap
  /\ uids = 0 /\ counts = NoNodes /\ all = NoNodes
  /\ uniqueOf = EmptyMap /\ owned = [v \in Validators |-> {}]
  /\ reputation = EmptyMap /\ idle = EmptyMap /\ included = EmptyMap
  /\ elected = None /\ submission = None /\ emergency = None
  /\ expelled = {} /\ npauses = 0 /\ nupdates = 0
--------------------------------------------------------------------------------
(***************************************************************************)
(* Storage maps, and the helpers on nodes and slots.                       *)
(***************************************************************************)
Put(f, k, v) == [x \in DOMAIN f \cup {k} |-> IF x = k THEN v ELSE f[x]]
Without(f, k) == Restrict(f, DOMAIN f \ {k})
Get(f, k) == IF k \in DOMAIN f THEN f[k] ELSE 0

(* The counters of the subnet and of the network move together, down to 0. *)
Plus(n, d) == IF n + d < 0 THEN 0 ELSE n + d
Moved(c, d) == [nodes     |-> Plus(c.nodes, d[1]),
                active    |-> Plus(c.active, d[2]),
                electable |-> Plus(c.electable, d[3])]
Tally(d) == counts' = Moved(counts, d) /\ all' = Moved(all, d)

First(S) == CHOOSE i \in S : \A j \in S : i <= j

has_classification(n, class) == n.class >= class /\ n.start <= SubnetEpoch
Classified(class) == {i \in DOMAIN nodes : has_classification(nodes[i], class)}

ActiveAndLive == state = "Active" /\ startEpoch <= epoch
Calls == step = "calls" /\ state # "Removed"

PushSlot(i) ==
  /\ slots' = Append(slots, i)
  /\ slotIndex' = Put(slotIndex, i, Len(slots))

(* Vec::swap_remove: the last element takes the place of the removed one.  *)
SwapRemove(s, pos) ==
  [k \in 1 .. Len(s) - 1 |-> IF k = pos THEN s[Len(s)] ELSE s[k]]

(* Mutant: the index of the node that moved is not updated.                *)
SlotRemovalForgetsIndex(i) ==
  LET pos == CHOOSE k \in 1 .. Len(slots) : slots[k] = i
  IN  slots' = SwapRemove(slots, pos) /\ slotIndex' = Without(slotIndex, i)

remove_node_from_election_slot(i) ==
  LET pos == CHOOSE k \in 1 .. Len(slots) : slots[k] = i
  IN  /\ slots' = SwapRemove(slots, pos)
      /\ slotIndex' = Without(IF pos = Len(slots) THEN slotIndex
                              ELSE Put(slotIndex, slots[Len(slots)], pos - 1), i)

(* Mutant: the reputation of a removed node stays.                         *)
RemovalKeepsReputation(n) ==
  /\ uniqueOf' = IF n.unique = None THEN uniqueOf ELSE Without(uniqueOf, n.unique)
  /\ owned' = [owned EXCEPT ![n.validator] = @ \ {n.id}]
  /\ idle' = Without(idle, n.id)
  /\ included' = Without(included, n.id)
  /\ UNCHANGED reputation

common_remove_subnet_node(n) ==
  /\ uniqueOf' = IF n.unique = None THEN uniqueOf ELSE Without(uniqueOf, n.unique)
  /\ owned' = [owned EXCEPT ![n.validator] = @ \ {n.id}]
  /\ reputation' = Without(reputation, n.id)
  /\ idle' = Without(idle, n.id)
  /\ included' = Without(included, n.id)

(* Mutant: a removed node stays in the emergency validator set.            *)
RemovalKeepsEmergency(i) ==
  LET n == nodes[i]
      inSlots == n.class = Validator /\ i \in Range(slots)
  IN  /\ nodes' = Without(nodes, i)
      /\ common_remove_subnet_node(n)
      /\ IF inSlots THEN remove_node_from_election_slot(i) ELSE UNCHANGED slotVars
      /\ Tally(<<-1, -1, IF inSlots THEN -1 ELSE 0>>)
      /\ UNCHANGED <<queueVars, emergency>>

remove_active_subnet_node(i) ==
  LET n == nodes[i]
      inSlots == n.class = Validator /\ i \in Range(slots)
  IN  /\ nodes' = Without(nodes, i)
      /\ common_remove_subnet_node(n)
      /\ IF inSlots THEN remove_node_from_election_slot(i) ELSE UNCHANGED slotVars
      /\ Tally(<<-1, -1, IF inSlots THEN -1 ELSE 0>>)
      /\ emergency' = IF emergency = None THEN None
                      ELSE [emergency EXCEPT !.ids = @ \ {i}]
      /\ UNCHANGED queueVars

(* Vec::retain: the nodes of the queue but i, in their order.              *)
Retained(q, i) ==
  LET kept[n \in 0 .. Len(q)] == IF n = 0 THEN <<>>
                                 ELSE IF q[n].id = i THEN kept[n - 1]
                                 ELSE Append(kept[n - 1], q[n])
  IN  kept[Len(q)]

(* Mutant: the copy of a removed node stays in the queue.                  *)
RemovalKeepsCopy(i) ==
  /\ registered' = Without(registered, i)
  /\ common_remove_subnet_node(registered[i])
  /\ Tally(<<-1, 0, 0>>)
  /\ UNCHANGED <<nodes, slotVars, emergency, queue>>

remove_registered_subnet_node(i) ==
  /\ registered' = Without(registered, i)
  /\ common_remove_subnet_node(registered[i])
  /\ queue' = Retained(queue, i)
  /\ Tally(<<-1, 0, 0>>)
  /\ UNCHANGED <<nodes, slotVars, emergency>>

perform_remove_subnet_node(i) ==
  \/ i \in DOMAIN nodes /\ remove_active_subnet_node(i)
  \/ i \in DOMAIN registered /\ remove_registered_subnet_node(i)
--------------------------------------------------------------------------------
(***************************************************************************)
(* Registration, update and removal of nodes.                              *)
(***************************************************************************)
is_subnet_in_enactment ==
  LET lastRegistration == FirstEpoch + SubnetRegistrationEpochs
  IN  /\ state = "Registered"
      /\ epoch > lastRegistration /\ epoch <= lastRegistration + SubnetEnactmentEpochs

(* Mutant: the id from before TotalSubnetNodeUids is incremented.          *)
NewNodeBeforeIncrement(i, v, u) ==
  [id |-> i - 1, validator |-> v, unique |-> u, class |-> Registered,
   start |-> SubnetEpoch + 1]

NewNode(i, v, u) ==
  [id |-> i, validator |-> v, unique |-> u, class |-> Registered, start |-> SubnetEpoch + 1]

(* A node of a subnet that is still registering starts as a Validator.     *)
ActivateAtOnce(n) ==
  /\ counts.active < MaxSubnetNodes
  /\ n.id \notin Range(slots)
  /\ PushSlot(n.id)
  /\ nodes' = Put(nodes, n.id, [n EXCEPT !.class = Validator, !.start = SubnetEpoch])
  /\ Tally(<<1, 1, 1>>)
  /\ UNCHANGED queueVars

Enqueue(n) ==
  /\ registered' = Put(registered, n.id, n)
  /\ queue' = Append(queue, n)
  /\ Tally(<<1, 0, 0>>)
  /\ UNCHANGED <<nodes, slotVars>>

register_subnet_node(v, u) ==
  LET n == NewNode(uids + 1, v, u)
  IN  /\ Calls /\ uids < MaxUid
      /\ state # "Paused" /\ ~is_subnet_in_enactment
      /\ Len(queue) <= MaxRegisteredNodes
      /\ u \notin DOMAIN uniqueOf
      /\ uids' = n.id
      /\ uniqueOf' = IF u = None THEN uniqueOf ELSE Put(uniqueOf, u, n.id)
      /\ owned' = [owned EXCEPT ![v] = @ \cup {n.id}]
      /\ reputation' = Put(reputation, n.id, Full)
      /\ IF state = "Registered" THEN ActivateAtOnce(n) ELSE Enqueue(n)
      /\ UNCHANGED <<timeVars, hookVars, subnetVars, idle, included, epochVars,
                     emergency, histVars>>

(* Mutant: the old value stays in the index.                               *)
ReindexKeepsOld(n, u) ==
  /\ u \in DOMAIN uniqueOf => uniqueOf[u] = n.id
  /\ uniqueOf' = IF u = None THEN uniqueOf ELSE Put(uniqueOf, u, n.id)

(* The index without the node's old value, and with its new one.           *)
Reindexed(n, u) ==
  LET freed == IF n.unique = None THEN uniqueOf ELSE Without(uniqueOf, n.unique)
  IN  /\ u \in DOMAIN freed => freed[u] = n.id
      /\ uniqueOf' = IF u = None THEN freed ELSE Put(freed, u, n.id)

(* The copy of a registered node in the queue is not updated.              *)
do_update_node_unique(i, u) ==
  /\ Calls /\ nupdates < MaxUpdates /\ nupdates' = nupdates + 1
  /\ \/ /\ i \in DOMAIN nodes
        /\ Reindexed(nodes[i], u)
        /\ nodes' = [nodes EXCEPT ![i].unique = u]
        /\ UNCHANGED registered
     \/ /\ QueuedUpdates /\ i \in DOMAIN registered
        /\ Reindexed(registered[i], u)
        /\ registered' = [registered EXCEPT ![i].unique = u]
        /\ UNCHANGED nodes
  /\ UNCHANGED <<timeVars, hookVars, subnetVars, queue, slotVars, uids, countVars, owned,
                 scoreVars, epochVars, emergency, expelled, npauses>>

(* Mutant: an elected validator may leave.                                 *)
ElectedMayLeave(i) ==
  /\ Calls
  /\ perform_remove_subnet_node(i)
  /\ UNCHANGED <<timeVars, hookVars, subnetVars, uids, epochVars, histVars>>

(* By the node's owner.                                                    *)
remove_subnet_node(i) ==
  /\ Calls /\ elected # i
  /\ perform_remove_subnet_node(i)
  /\ UNCHANGED <<timeVars, hookVars, subnetVars, uids, epochVars, histVars>>

(* By the collective: also an elected validator.                           *)
do_collective_remove_subnet_node(i) ==
  /\ Calls /\ Cardinality(expelled) < MaxExpelled
  /\ perform_remove_subnet_node(i)
  /\ expelled' = expelled \cup {i}
  /\ UNCHANGED <<timeVars, hookVars, subnetVars, uids, epochVars, npauses, nupdates>>
--------------------------------------------------------------------------------
(***************************************************************************)
(* The subnet: activation, pause, the emergency validator set, removal.    *)
(***************************************************************************)
do_activate_subnet ==
  /\ Calls /\ state = "Registered"
  /\ epoch >= FirstEpoch + MinSubnetRegistrationEpochs
  /\ epoch <= FirstEpoch + SubnetRegistrationEpochs + SubnetEnactmentEpochs
  /\ counts.active >= MinSubnetNodes
  /\ state' = "Active" /\ startEpoch' = epoch + 1 /\ prevPause' = epoch
  /\ UNCHANGED <<timeVars, hookVars, weighted, nodes, queueVars, slotVars, uids, countVars,
                 indexVars, scoreVars, epochVars, emergency, histVars>>

do_owner_pause_subnet ==
  /\ Calls /\ npauses < MaxPauses /\ npauses' = npauses + 1
  /\ state = "Active" /\ prevPause + SubnetPauseCooldownEpochs <= epoch
  /\ state' = "Paused" /\ startEpoch' = epoch
  /\ UNCHANGED <<timeVars, hookVars, prevPause, weighted, nodes, queueVars, slotVars, uids,
                 countVars, indexVars, scoreVars, epochVars, emergency, expelled, nupdates>>

do_owner_unpause_subnet ==
  /\ Calls /\ state = "Paused"
  /\ LET delta == epoch - startEpoch + 1
     IN  registered' = [i \in DOMAIN registered |->
                          [registered[i] EXCEPT !.start = @ + delta]]
  /\ state' = "Active" /\ startEpoch' = epoch + 1 /\ prevPause' = epoch
  /\ emergency' = IF emergency = None THEN None
                  ELSE [emergency EXCEPT !.max = SubnetEpoch + MaxEmergencyEpochs]
  /\ UNCHANGED <<timeVars, hookVars, weighted, nodes, queue, slotVars, uids, countVars,
                 indexVars, scoreVars, epochVars, histVars>>

(* ids are the distinct elements of the list the owner passes, whose       *)
(* length the code compares with MinSubnetNodes: dedup_by removes adjacent *)
(* duplicates only, and it runs before other ids are filtered out.         *)
do_owner_set_emergency_validator_set(ids) ==
  /\ Calls /\ state = "Paused"
  /\ ids \subseteq Classified(Validator)
  /\ \E length \in MinSubnetNodes .. MaxEmergencySubnetNodes :
       Cardinality(ids) <= length /\ (ids = {} => length = 0)
  /\ emergency' = [ids |-> ids, total |-> 0, max |-> 0]
  /\ UNCHANGED <<timeVars, hookVars, subnetVars, nodes, queueVars, slotVars, uids,
                 countVars, indexVars, scoreVars, epochVars, histVars>>

do_owner_revert_emergency_validator_set ==
  /\ Calls /\ state = "Paused" /\ emergency # None
  /\ emergency' = None
  /\ UNCHANGED <<timeVars, hookVars, subnetVars, nodes, queueVars, slotVars, uids,
                 countVars, indexVars, scoreVars, epochVars, histVars>>

(* Mutant: the network's counter of active nodes keeps the subnet's.       *)
CleanKeepsActive ==
  /\ nodes' = EmptyMap /\ registered' = EmptyMap /\ queue' = <<>>
  /\ slots' = <<>> /\ slotIndex' = EmptyMap /\ uids' = 0
  /\ counts' = NoNodes
  /\ uniqueOf' = EmptyMap /\ reputation' = EmptyMap /\ included' = EmptyMap
  /\ elected' = None
  /\ UNCHANGED <<all, idle, owned, submission>>

(* Of the network's counters only TotalActiveNodes is reduced.             *)
clean_subnet_nodes ==
  /\ nodes' = EmptyMap /\ registered' = EmptyMap /\ queue' = <<>>
  /\ slots' = <<>> /\ slotIndex' = EmptyMap /\ uids' = 0
  /\ counts' = NoNodes /\ all' = [all EXCEPT !.active = Plus(@, -counts.active)]
  /\ uniqueOf' = EmptyMap /\ reputation' = EmptyMap /\ included' = EmptyMap
  /\ elected' = None
  /\ UNCHANGED <<idle, owned, submission>>

(* By the epoch preliminaries, a late activation, the owner or the         *)
(* collective.  The next subnet has another id.                            *)
do_remove_subnet ==
  /\ Calls
  /\ state' = "Removed" /\ prevPause' = 0 /\ startEpoch' = 0
  /\ emergency' = None
  /\ clean_subnet_nodes
  /\ UNCHANGED <<timeVars, hookVars, weighted, histVars>>
--------------------------------------------------------------------------------
(***************************************************************************)
(* Consensus: the elected validator proposes, Validators attest.           *)
(***************************************************************************)
QueuedIds == {queue[k].id : k \in 1 .. Len(queue)}
Removable == {queue[k].id : k \in {j \in 1 .. Len(queue) :
                queue[j].start + QueueImmunityEpochs <= SubnetEpoch}}

(* Nodes of lower class are dropped from the data, and of several scores   *)
(* of a node one stays: the set of nodes with a score.                     *)
canonicalize_consensus_data(data) == data \cap Classified(Included)

(* Who may attest is settled when the data is proposed.                    *)
ValidatorIds == IF emergency = None THEN Range(slots) ELSE emergency.ids

(* Without any score the weights sum to zero.  Ids that are not queued, or *)
(* still immune, are dropped.  Neither the subnet's state nor the          *)
(* validator's class is looked at.                                         *)
do_propose_attestation(data, prioritize, remove) ==
  /\ Calls /\ elected # None /\ submission = None
  /\ prioritize \in QueuedIds \cup {None} /\ remove \in Removable \cup {None}
  /\ submission' = [validator  |-> elected,
                    nodes      |-> Restrict(nodes, Classified(Idle)),
                    validators |-> ValidatorIds,
                    data       |-> canonicalize_consensus_data(data),
                    attests    |-> {elected},
                    prioritize |-> prioritize,
                    remove     |-> remove]
  /\ UNCHANGED <<timeVars, hookVars, subnetVars, nodes, queueVars, slotVars, uids,
                 countVars, indexVars, scoreVars, elected, emergency, histVars>>

do_attest(i) ==
  /\ Calls /\ submission # None
  /\ i \in Classified(Validator) /\ i \in submission.validators
  /\ i \notin submission.attests
  /\ submission' = [submission EXCEPT !.attests = @ \cup {i}]
  /\ UNCHANGED <<timeVars, hookVars, subnetVars, nodes, queueVars, slotVars, uids,
                 countVars, indexVars, scoreVars, elected, emergency, histVars>>

(* attestation_ratio of the submission, at least pct percent; 0 when there *)
(* is nobody to attest.                                                    *)
Attested(pct) ==
  /\ submission.validators # {}
  /\ Cardinality(submission.attests) * 100 >= pct * Cardinality(submission.validators)
--------------------------------------------------------------------------------
(***************************************************************************)
(* The passing of time, and the emission step.                             *)
(***************************************************************************)

(* Block 2 of a general epoch: weights for the subnets that are live.  One *)
(* may still come out without, when its weight is zero.                    *)
NextEpoch ==
  /\ Calls /\ tick = "slot" /\ epoch < MaxEpoch
  /\ epoch' = epoch + 1 /\ tick' = "early"
  /\ weighted' \in {FALSE, state = "Active" /\ startEpoch <= epoch'}
  /\ UNCHANGED <<hookVars, state, startEpoch, prevPause, nodes, queueVars, slotVars, uids,
                 countVars, indexVars, scoreVars, epochVars, emergency, histVars>>

(* The slot passes without an emission step: no weight, or the network is  *)
(* paused.                                                                 *)
SlotPasses ==
  /\ Calls /\ tick = "early"
  /\ tick' = "slot" /\ weighted' = FALSE /\ elected' = None /\ submission' = None
  /\ UNCHANGED <<epoch, hookVars, state, startEpoch, prevPause, nodes, queueVars, slotVars, uids, countVars,
                 indexVars, scoreVars, emergency, histVars>>

EmissionStep ==
  /\ Calls /\ tick = "early" /\ weighted
  /\ tick' = "slot" /\ weighted' = FALSE /\ elected' = None

(* precheck_subnet_consensus_submission: nothing was proposed.             *)
ValidatorAbsent ==
  /\ EmissionStep /\ submission = None
  /\ IF elected \in DOMAIN reputation
     THEN \E r \in Low .. reputation[elected] :
            reputation' = [reputation EXCEPT ![elected] = r]
     ELSE UNCHANGED reputation
  /\ step' = "elect"
  /\ UNCHANGED <<epoch, todo, state, startEpoch, prevPause, nodes, queueVars, slotVars,
                 uids, countVars, indexVars, idle, included, submission, emergency,
                 histVars>>

(* distribute_rewards, up to the decision.  A forked subnet counts the     *)
(* submission.                                                             *)
distribute_rewards ==
  /\ EmissionStep /\ submission # None
  /\ emergency' = IF emergency = None THEN None ELSE [emergency EXCEPT !.total = @ + 1]
  /\ IF Attested(MinAttestation)
     THEN step' = "queue" /\ todo' = {}
     ELSE step' = "slash" /\ todo' = submission.attests
  /\ UNCHANGED <<epoch, state, startEpoch, prevPause, nodes, queueVars, slotVars, uids,
                 countVars, indexVars, scoreVars, submission, histVars>>

(* What no iteration of a loop of the hook touches.                        *)
HookFrame == UNCHANGED <<timeVars, subnetVars, uids, epochVars, histVars>>
NodesStay ==
  UNCHANGED <<nodes, queueVars, slotVars, countVars, indexVars, emergency>>

(* A reputation falls, by a factor this model leaves open.  Where the      *)
(* removal is subject to the hook's weight it may be put off.              *)
Penalize(i, weightChecked) ==
  \E r \in Low .. reputation[i] :
    \/ r = Low /\ remove_active_subnet_node(i)
    \/ /\ r # Low \/ weightChecked
       /\ reputation' = [reputation EXCEPT ![i] = r]
       /\ NodesStay /\ UNCHANGED <<idle, included>>

slash_validator ==
  /\ step = "slash"
  /\ step' = "penalize"
  /\ IF submission.validator \in DOMAIN reputation
     THEN Penalize(submission.validator, FALSE)
     ELSE NodesStay /\ UNCHANGED scoreVars
  /\ UNCHANGED todo
  /\ HookFrame

handle_non_consensus ==
  /\ step = "penalize" /\ todo # {}
  /\ LET i == First(todo)
     IN  /\ todo' = todo \ {i}
         /\ IF i \in DOMAIN reputation THEN Penalize(i, TRUE)
                                       ELSE NodesStay /\ UNCHANGED scoreVars
  /\ UNCHANGED step
  /\ HookFrame

(* handle_node_queue_consensus, by super majority: one queued node moves   *)
(* to the front, then one leaves, if the hook has the weight.              *)
ToFront(q, i) ==
  LET pos == First({k \in 1 .. Len(q) : q[k].id = i})
  IN  [k \in 1 .. Len(q) |-> q[IF k = 1 THEN pos ELSE IF k <= pos THEN k - 1 ELSE k]]

PrioritizeQueued ==
  /\ step = "queue" /\ step' = "unqueue"
  /\ queue' = IF Attested(SuperMajority) /\ submission.prioritize \in QueuedIds
              THEN ToFront(queue, submission.prioritize) ELSE queue
  /\ UNCHANGED <<todo, nodes, registered, slotVars, countVars, indexVars, scoreVars,
                 emergency>>
  /\ HookFrame

RemoveQueued ==
  /\ step = "unqueue"
  /\ \/ /\ Attested(SuperMajority) /\ submission.remove \in QueuedIds
        /\ remove_registered_subnet_node(submission.remove)
     \/ NodesStay /\ UNCHANGED scoreVars
  /\ IF submission.data = {} THEN step' = "elect" /\ UNCHANGED todo
                             ELSE step' = "reward" /\ todo' = DOMAIN submission.nodes
  /\ HookFrame

(* Mutant: the emergency validator set makes no difference.                *)
NeverForked == FALSE

Forked == emergency # None

Graduate(i) ==
  nodes' = [nodes EXCEPT ![i].class = IF @ = Validator THEN @ ELSE @ + 1,
                         ![i].start = SubnetEpoch]

handle_idle_node(i) ==
  LET n == Get(idle, i) + 1
  IN  /\ IF n >= IdleClassificationEpochs
         THEN Graduate(i) /\ idle' = Without(idle, i)
         ELSE UNCHANGED nodes /\ idle' = Put(idle, i, n)
      /\ UNCHANGED <<reputation, included, queueVars, slotVars, countVars, indexVars,
                     emergency>>

(* Mutant: the new Validator is not counted.                               *)
GraduateUncounted(i, r) ==
  LET n == Get(included, i) + 1
  IN  /\ IF r = Full /\ n >= IncludedClassificationEpochs /\ i \notin Range(slots)
         THEN Graduate(i) /\ PushSlot(i) /\ included' = Without(included, i)
         ELSE included' = Put(included, i, n) /\ UNCHANGED <<nodes, slotVars>>
      /\ reputation' = [reputation EXCEPT ![i] = r]
      /\ UNCHANGED <<idle, queueVars, indexVars, emergency, countVars>>

(* Mutant: any reputation will do.                                         *)
GraduateAnyway(i, r) ==
  LET n == Get(included, i) + 1
  IN  /\ IF n >= IncludedClassificationEpochs /\ i \notin Range(slots)
         THEN /\ Graduate(i) /\ PushSlot(i) /\ Tally(<<0, 0, 1>>)
              /\ included' = Without(included, i)
         ELSE /\ included' = Put(included, i, n)
              /\ UNCHANGED <<nodes, slotVars, countVars>>
      /\ reputation' = [reputation EXCEPT ![i] = r]
      /\ UNCHANGED <<idle, queueVars, indexVars, emergency>>

(* r is the reputation after the epoch's increase.                         *)
handle_included_node(i, r) ==
  LET n == Get(included, i) + 1
  IN  /\ IF r = Full /\ n >= IncludedClassificationEpochs /\ i \notin Range(slots)
         THEN /\ Graduate(i) /\ PushSlot(i) /\ Tally(<<0, 0, 1>>)
              /\ included' = Without(included, i)
         ELSE /\ included' = Put(included, i, n)
              /\ UNCHANGED <<nodes, slotVars, countVars>>
      /\ reputation' = [reputation EXCEPT ![i] = r]
      /\ UNCHANGED <<idle, queueVars, indexVars, emergency>>

(* Not in the data: a penalty, and an Included node starts over.           *)
AbsentFromData(n) ==
  /\ \E r \in Low .. reputation[n.id] : reputation' = [reputation EXCEPT ![n.id] = r]
  /\ included' = IF n.class = Included THEN Put(included, n.id, 0) ELSE included
  /\ NodesStay /\ UNCHANGED idle

(* In the data: a better reputation, and worse again for a low score or a  *)
(* missing attestation.                                                    *)
Scored(i) ==
  \E r \in Low .. Full :
    \/ r = Low /\ remove_active_subnet_node(i)
    \/ /\ reputation' = [reputation EXCEPT ![i] = r]
       /\ NodesStay /\ UNCHANGED <<idle, included>>

(* One iteration over the nodes of the proposal, with the classes they had *)
(* then.                                                                   *)
RewardNode(n) ==
  LET i == n.id
  IN  CASE i \notin DOMAIN reputation -> NodesStay /\ UNCHANGED scoreVars
        [] i \in DOMAIN reputation /\ reputation[i] = Low ->
             remove_active_subnet_node(i) \/ (NodesStay /\ UNCHANGED scoreVars)
        [] OTHER ->
             \/ /\ n.class = Idle /\ ~Forked
                /\ handle_idle_node(i)
             \/ /\ n.class # Idle \/ Forked
                /\ i \notin submission.data
                /\ AbsentFromData(n)
             \/ /\ i \in submission.data /\ n.class = Included /\ ~Forked
                /\ \E r \in reputation[i] .. Full : handle_included_node(i, r)
             \/ /\ i \in submission.data /\ (n.class = Validator \/ Forked)
                /\ Scored(i)

(* In the order of the snapshot, which is that of the storage's hashes.    *)
RewardNodes ==
  /\ step = "reward"
  /\ \E i \in todo : todo' = todo \ {i} /\ RewardNode(submission.nodes[i])
  /\ UNCHANGED step
  /\ HookFrame

LoopDone ==
  /\ step \in {"penalize", "reward"} /\ todo = {}
  /\ step' = "elect"
  /\ UNCHANGED <<todo, nodes, queueVars, slotVars, countVars, indexVars, scoreVars,
                 emergency>>
  /\ HookFrame

EmergencyOver ==
  emergency.total > TargetEmergencyEpochs \/ SubnetEpoch > emergency.max

elect_validator ==
  LET over == emergency # None /\ EmergencyOver
      list == IF emergency = None \/ over THEN Range(slots) ELSE emergency.ids
  IN  /\ emergency' = IF over THEN None ELSE emergency
      /\ elected' \in IF list = {} THEN {None} ELSE list

(* Mutant: one epoch early.                                                *)
ReadyEarly(n) == n.start + SubnetNodeQueueEpochs <= SubnetEpoch

(* Activation from the queue, of the copies in it: ready nodes from the    *)
(* head, as many as churn, room and the hook's weight allow.               *)
Ready(n) == n.start + SubnetNodeQueueEpochs < SubnetEpoch
Activated(n) == [n EXCEPT !.class = Idle, !.start = SubnetEpoch]
Room ==
  LET room == Plus(MaxSubnetNodes, -counts.active)
  IN  CASE SubnetEpoch % ChurnLimitMultiplier # 0 -> 0
        [] room < ChurnLimit -> room
        [] OTHER -> ChurnLimit

handle_registration_queue ==
  \E k \in 0 .. Len(queue) :
    LET ids == {queue[j].id : j \in 1 .. k}
        copy(i) == queue[CHOOSE j \in 1 .. k : queue[j].id = i]
    IN  /\ k <= Room /\ \A j \in 1 .. k : Ready(queue[j])
        /\ nodes' = [i \in DOMAIN nodes \cup ids |->
                       IF i \in ids THEN Activated(copy(i)) ELSE nodes[i]]
        /\ registered' = Restrict(registered, DOMAIN registered \ ids)
        /\ queue' = SubSeq(queue, k + 1, Len(queue))
        /\ Tally(<<0, k, 0>>)

(* Mutant: the submission that was paid stays to be paid again.            *)
FinishKeepsSubmission ==
  /\ step = "elect" /\ step' = "calls" /\ UNCHANGED submission
  /\ IF ActiveAndLive
     THEN elect_validator /\ handle_registration_queue
     ELSE UNCHANGED <<elected, emergency, nodes, queueVars, countVars>>
  /\ UNCHANGED <<timeVars, todo, subnetVars, slotVars, uids, indexVars, scoreVars, histVars>>

FinishEmission ==
  /\ step = "elect" /\ step' = "calls" /\ submission' = None
  /\ IF ActiveAndLive
     THEN elect_validator /\ handle_registration_queue
     ELSE UNCHANGED <<elected, emergency, nodes, queueVars, countVars>>
  /\ UNCHANGED <<timeVars, todo, subnetVars, slotVars, uids, indexVars, scoreVars, histVars>>
--------------------------------------------------------------------------------
NodeCalls ==
  \/ \E v \in Validators, u \in Uniques \cup {None} : register_subnet_node(v, u)
  \/ \E i \in Uids, u \in Uniques \cup {None} : do_update_node_unique(i, u)
  \/ \E i \in Uids : remove_subnet_node(i) \/ do_collective_remove_subnet_node(i)

SubnetCalls ==
  \/ do_activate_subnet \/ do_remove_subnet
  \/ do_owner_pause_subnet \/ do_owner_unpause_subnet
  \/ \E ids \in SUBSET DOMAIN nodes : do_owner_set_emergency_validator_set(ids)
  \/ do_owner_revert_emergency_validator_set

Consensus ==
  \/ \E data \in SUBSET DOMAIN nodes, p, r \in QueuedIds \cup {None} :
       do_propose_attestation(data, p, r)
  \/ \E i \in DOMAIN nodes : do_attest(i)

Hook ==
  \/ NextEpoch \/ SlotPasses \/ ValidatorAbsent \/ distribute_rewards
  \/ slash_validator \/ handle_non_consensus
  \/ PrioritizeQueued \/ RemoveQueued \/ RewardNodes \/ LoopDone \/ FinishEmission

(* The subnet precompile makes the same calls, for the account its caller  *)
(* is mapped to.                                                           *)
EvmNodeCalls == \E i \in Uids, u \in Uniques \cup {None} : do_update_node_unique(i, u)

EvmConsensus == Consensus

EvmOwnerCalls ==
  \/ do_owner_pause_subnet \/ do_owner_unpause_subnet
  \/ \E ids \in SUBSET DOMAIN nodes : do_owner_set_emergency_validator_set(ids)
  \/ do_owner_revert_emergency_validator_set

EvmCalls == EvmNodeCalls \/ EvmConsensus \/ EvmOwnerCalls

Next == NodeCalls \/ SubnetCalls \/ Consensus \/ EvmCalls \/ Hook

Spec == Init /\ [][Next]_vars
--------------------------------------------------------------------------------
(***************************************************************************)
(* Properties.                                                             *)
(***************************************************************************)
Node == [id : Uids, validator : Validators, unique : Uniques \cup {None},
         class : Registered .. Validator, start : Nat]
IsNodeMap(f) == DOMAIN f \subseteq Uids /\ \A i \in DOMAIN f : f[i] \in Node /\ f[i].id = i
Counters == [nodes : Nat, active : Nat, electable : Nat]

(* Every variable has its type; node maps are keyed by the nodes' ids.     *)
TypeOK ==
  /\ epoch \in Nat /\ tick \in {"early", "slot"}
  /\ step \in {"calls", "slash", "penalize", "queue", "unqueue", "reward", "elect"}
  /\ todo \subseteq Uids
  /\ state \in {"Registered", "Active", "Paused", "Removed"}
  /\ startEpoch \in Nat /\ prevPause \in Nat /\ weighted \in BOOLEAN
  /\ IsNodeMap(nodes) /\ IsNodeMap(registered)
  /\ \A k \in 1 .. Len(queue) : queue[k] \in Node
  /\ Range(slots) \subseteq Uids /\ DOMAIN slotIndex \subseteq Uids
  /\ uids \in 0 .. MaxUid /\ counts \in Counters /\ all \in Counters
  /\ DOMAIN uniqueOf \subseteq Uniques /\ owned \in [Validators -> SUBSET Uids]
  /\ DOMAIN reputation \subseteq Uids /\ Range(reputation) \subseteq Low .. Full
  /\ elected \in Uids \cup {None}
  /\ submission # None => IsNodeMap(submission.nodes)
  /\ emergency # None => emergency.ids \subseteq Uids

(* The election slots are exactly the active Validators, each once, and    *)
(* NodeSlotIndex finds each in its place, after any sequence of            *)
(* registrations, graduations and swap_remove's; an emergency set holds    *)
(* only nodes that are still among them.                                   *)
SlotsCoherent ==
  /\ \A j, k \in 1 .. Len(slots) : slots[j] = slots[k] => j = k
  /\ Range(slots) = {i \in DOMAIN nodes : nodes[i].class = Validator}
  /\ DOMAIN slotIndex = Range(slots)
  /\ \A k \in 1 .. Len(slots) : slotIndex[slots[k]] = k - 1
  /\ emergency # None => emergency.ids \subseteq Range(slots)

(* The counters, which admission, churn, emission weights and inflation    *)
(* read, count what is there; only the removal of the subnet leaves its    *)
(* nodes in two of the network's.                                          *)
CountersAgree ==
  /\ counts = [nodes     |-> Cardinality(DOMAIN nodes) + Cardinality(DOMAIN registered),
               active    |-> Cardinality(DOMAIN nodes),
               electable |-> Len(slots)]
  /\ all.active = counts.active
  /\ state # "Removed" => all = counts

(* The queue holds one copy of every registered node and of nothing else,  *)
(* no node is both registered and active, and the limits on both are kept. *)
QueueMatches ==
  /\ QueuedIds = DOMAIN registered
  /\ \A j, k \in 1 .. Len(queue) : queue[j].id = queue[k].id => j = k
  /\ DOMAIN nodes \cap DOMAIN registered = {}
  /\ Cardinality(DOMAIN nodes) <= MaxSubnetNodes
  /\ Len(queue) <= MaxRegisteredNodes + 1

(* A node has a reputation as long as it exists: the hook takes that for   *)
(* the question whether a node of an old proposal is still there, and the  *)
(* owners' index agrees.                                                   *)
ReputationMeansPresence ==
  state # "Removed" =>
    /\ DOMAIN reputation = DOMAIN nodes \cup DOMAIN registered
    /\ UNION Range(owned) = DOMAIN reputation
    /\ submission # None =>
         (DOMAIN submission.nodes \cup submission.attests) \cap DOMAIN registered = {}

(* The maps, the queue, the reputations and the counters describe the same *)
(* nodes, after every call and after every iteration of the hook's loops.  *)
MapsAgree == TypeOK /\ CountersAgree /\ QueueMatches /\ ReputationMeansPresence

(* Whoever is elected can do its duty: unless the collective removes it,   *)
(* the validator elected for the subnet's epoch is an active Validator     *)
(* until the epoch's emission step.                                        *)
ElectedStays ==
  (elected # None /\ elected \notin expelled) => elected \in Range(slots)

(* The hook works on the classes nodes had when the proposal was made; for *)
(* every node it has yet to see they are still the nodes' classes, so no   *)
(* node graduates twice or skips a class.                                  *)
SnapshotFresh ==
  step = "reward" =>
    \A i \in todo \cap DOMAIN nodes :
      /\ nodes[i].class = submission.nodes[i].class
      /\ nodes[i].start = submission.nodes[i].start

WaitFor(class) == CASE class = Idle     -> IdleClassificationEpochs
                    [] class = Included -> IncludedClassificationEpochs
                    [] OTHER            -> 0
RisesByTheRules(i) ==
  LET old == nodes[i] new == nodes'[i]
  IN  new.class # old.class =>
        /\ step = "reward" /\ new.class = old.class + 1 /\ emergency = None
        /\ new.start >= old.start + WaitFor(old.class)
        /\ new.class = Validator => reputation'[i] = Full /\ i \in submission.data

(* Nodes climb one class at a time, in consensus, never while the subnet   *)
(* is forked, and have then spent the epochs the subnet asks for in the    *)
(* class they leave; a new Validator has full reputation and was in the    *)
(* proposal's data.                                                        *)
ClassLadder == [][\A i \in DOMAIN nodes \cap DOMAIN nodes' : RisesByTheRules(i)]_vars

EntersByTheRules(i) ==
  \/ state = "Registered" /\ nodes'[i].class = Validator
  \/ /\ step = "elect" /\ nodes'[i].class = Idle
     /\ \E k \in 1 .. Len(queue) :
          queue[k].id = i /\ SubnetEpoch - queue[k].start > SubnetNodeQueueEpochs

(* A node of a running subnet becomes active from the queue only, when it  *)
(* has waited there for SubnetNodeQueueEpochs, prioritized or not, and at  *)
(* most ChurnLimit nodes do in one epoch.                                  *)
QueueWait ==
  [][LET new == DOMAIN nodes' \ DOMAIN nodes
     IN  /\ \A i \in new : EntersByTheRules(i)
         /\ step = "elect" => Cardinality(new) <= ChurnLimit]_vars

(* UniqueParamSubnetNodeId and the nodes agree: an active node is found    *)
(* under its unique parameter, and what the index names is a node that has *)
(* that parameter.  Registration, updates, activation from the queue and   *)
(* removals of other nodes all pass through here.                          *)
UniquesTruthful ==
  /\ \A i \in DOMAIN nodes : nodes[i].unique # None =>
       nodes[i].unique \in DOMAIN uniqueOf /\ uniqueOf[nodes[i].unique] = i
  /\ \A u \in DOMAIN uniqueOf :
       LET i == uniqueOf[u]
       IN  \/ i \in DOMAIN nodes /\ nodes[i].unique = u
           \/ i \in DOMAIN registered /\ registered[i].unique = u
================================================================================

# A TLA+ model of the Hypertensor network pallet

This directory models the core of the Hypertensor blockchain: the Substrate pallet
`pallets/network`, in which subnets, their nodes, their validators and their delegators
live. The modules are checked by TLC on small instances and, in part, proved for all
parameters with TLAPS. `PROJECT.json` maps every definition to the lines it models.

## 1. The system

A Hypertensor node executes blocks. In each block the pallet's `on_initialize` hook runs
first, then the block's calls (extrinsics), one after the other. There is no parallelism
inside a block; what makes the pallet hard is the order in which calls of many accounts,
the owner of a subnet, the collective and the hook follow each other, how long values are
kept between them, and that a call is transactional (it fails without a trace) while the
hook is not (what it wrote before a failure stays).

Time is counted in blocks and epochs. Blocks 0, 1 and 2 of a general epoch remove
subnets, take the overwatch nodes' weights and compute emission weights; every subnet has
a slot later in the epoch, at which its own epoch begins and its emission step runs. In
every block the hook then drains the queue of stake swaps.

| component | state | operations | what makes it correct |
|---|---|---|---|
| Delegate staking (`stake/delegate_staking.rs`, `validator_delegate_staking.rs`, `transfer_utils.rs`) | a pool of tokens and shares per subnet and per validator, shares per account, totals, net flows | deposit, withdraw, donate, transfer, swap, rewards | tokens are conserved, shares are backed, a share's price never falls, totals agree |
| Unbonding ledger (`staking_utils.rs`) | per account: block -> amount; a total | insert and merge, claim, claim forced by a full ledger | bounded; nothing is released early or lost |
| Swap queue (`staking_queue.rs`, hook in `lib.rs`) | an order of ids, a map of items, the next id | queue, redirect, execute | order and map agree; FIFO; a swap waits one epoch and keeps its amount; it is executed in time |
| Subnet nodes (`lib.rs`, `utilities/subnet_node.rs`) | active nodes, registered nodes, the queue's copies, election slots and their index, counters, indices, reputations | register, activate, graduate, update, remove (by owner, collective, consensus, reputation) | the structures agree; classes are climbed one at a time; queue times and limits hold |
| Consensus (`consensus/subnet_validator.rs`, `utilities/era.rs`) | the elected validator and the submission of an epoch | elect, propose, attest | the elected validator can do its duty; only validators attest |
| Emission step (`utilities/slot.rs`, `bank/rewards.rs`) | reputations, consecutive epochs, rewards | reward, penalise, graduate, remove, elect, activate | works on fresh data; a removal in the middle leaves nothing behind |
| Subnet lifecycle (`lib.rs`, `utilities/subnet.rs`, `utilities/owner.rs`, `era.rs`) | state, start epoch, pause epoch, emergency validator set, slot, cost | register, activate, pause, unpause, set and revert the emergency set, deactivate, preliminaries | a paused or removed subnet leaves consistent state; an emergency set ends |
| Node stake, delegate accounts (`node_staking.rs`, `delegate_account.rs`) | stake per node, balance per account | add, remove, after the node's removal too | a live node keeps the minimum; stake can always be recovered |
| Overwatch nodes (`overwatch_nodes/`) | commits and reveals per overwatch epoch | register, commit, reveal, step, remove | a reveal matches its commit; each weight counts once |
| Peer registry (`utilities/subnet_node.rs`, `multiaddr.rs`) | indices of peer ids and addresses | register, update, remove | an id belongs to one node, in all indices |
| Validators and keys (`utilities/validator.rs`, `keys.rs`) | five maps between ids, coldkeys and hotkeys; rates, delegate account | register, rotate either key, set rates | the maps are one relation; an old key owns nothing |
| Owner and network parameters (`utilities/owner.rs`, `admin/admin.rs`) | some ninety values, a schedule of reputation factors | setters with checks against each other | bounds checked against each other do not cross, intervals of the hooks are not 0, factors do not change under the epoch they judge |
| Collective (`pallets/collective`) | members, prime, motions, votes | propose, vote, close, disapprove, change members | only the support a setter demands changes a parameter |
| EVM precompiles (`precompiles/`) | none | decode arguments, dispatch the pallet's calls | an EVM account can do no more than its calls |
| Inflation, weights, RPC, runtime, node | none of their own | | |
| Other pallets: atomic-swap, author-subsidy, template | their own | | |

How they interact: delegate pools are paid by the emission step and moved by the swap
hook; removal of a subnet cuts through staking, nodes and lifecycle at once; the emission
step reads what proposals stored and writes nodes, slots, queue and election; the
emergency set replaces the slots in elections and in who may attest. Node stake, overwatch
stake, delegate accounts and delegate stake unbond through one ledger and belong to the
coldkeys of the key maps. The collective dispatches the admin calls, and every setter of an
owner is bounded by what the collective has set.

The behaviours that are hard to test are in `PROJECT.json` under `hazards`, each with the
properties that would show it going wrong.

## 2. Modules

| module | models | extends | run by |
|---|---|---|---|
| `ShareMath` | `convert_to_shares`, `convert_to_balance`, saturation | | `Staking` |
| `Staking` | delegate staking, unbonding ledger, swap queue, their hook | `ShareMath` | `MCStaking` |
| `SwapQueue` | the abstract queue that `Staking` implements | | `MCSwapQueue`, `MCStaking` |
| `ValidatorKeys` | validators, their keys, rates and delegate accounts | `Staking` | `MCNodeStaking` |
| `NodeStaking` | stake of nodes, rewards, slashing, delegate accounts; composes the above | `ValidatorKeys` | `MCNodeStaking` |
| `Overwatch` | overwatch nodes: stake, commit, reveal, payment | `NodeStaking` | `MCOverwatch` |
| `SubnetNodes` | the nodes of a subnet, its election, consensus and emission step | | `MCSubnetNodes` |
| `PeerRegistry` | the names of nodes: peer ids, bootnodes, clients, addresses, overwatch peers | | `MCPeerRegistry` |
| `SubnetLifecycle` | the subnets: registration, slots, names, owners, pauses, the epoch's preliminaries, removal | | `MCSubnetLifecycle` |
| `NetworkParameters` | what the collective sets: defaults, checks, origins, the admin precompile | | `MCOwnerParameters`, `MCGovernance` |
| `OwnerParameters` | what owners set within it, and the schedule of reputation factors | `NetworkParameters` | `MCOwnerParameters` |
| `Collective` | motions, votes, members, prime | | `MCGovernance` |
| `Governance` | the collective and the parameters it dispatches to | `Collective`, `NetworkParameters` | `MCGovernance` |
| `StakingProofs`, `SubnetLifecycleProofs`, `PeerRegistryProofs`, `GovernanceProofs`, `NodeStakingProofs`, `OverwatchProofs`, `OwnerParametersProofs`, `SubnetNodesProofs` | theorems | their module, `TLAPS` | tlapm |

In all modules a call is enabled exactly when the code would return `Ok` (a failing call
leaves no trace), and variables and actions keep the names of storage items and functions
where TLA+ has room for them. An EVM function is a disjunct of its own (`Evm...`) that narrows
its arguments as the precompile does and then takes the step of the call it dispatches.
Getters of the precompiles change nothing and are left out.

### Staking

The variables carry the names of the storage items in comments: `pool` is the balance and
the shares of each subnet's and validator's pool, `order` and `calls` are
`SwapQueueOrder` and `SwapCallQueue`, `ledger` is `StakeUnbondingLedger`. Subnet and
validator pools run the same code in two files, so one action serves both where only the
storage item differs.

`on_initialize` is three kinds of steps: `NewBlock` (a block begins, an emission step may
pay pools, and the hook's weight is an arbitrary number of swaps it still allows),
`ExecuteSwap` (one iteration of `execute_ready_swap_calls`), `HookDone`. No call happens
between them (`phase`). A swap whose amount buys no share is dropped, as the code does,
and its amount is counted in `dropped`; dead shares that were minted on the way stay.

Amounts are integers bounded by `MaxBalance`, which stands for the width of u128;
`saturating_*` saturate there. `MinDelegateStakeDeposit`, limits and epochs are constants.

### SwapQueue

What a user of the queue may rely on: an entry waits `Delay` blocks, leaves from the head, at
most `PerBlock` in a block and none in a block without weight or in a paused network. An entry
holds only the wait that is left, so that the state space is finite without a bound on time
and liveness can be checked. `Staking` implements it (`SwapQueueImplemented`, the property
`Queue!Spec`): the mapping takes `order` and `calls` to one sequence, `Waiting`, and the age of
an item to the wait that is left of its epoch, `WaitOf`.

### ValidatorKeys, NodeStaking, Overwatch

These extend `Staking`, share its ledger, its balances and its hook, and state conservation of
tokens over everything together. In `NodeStaking` nodes come and go as `SubnetNodes` lets them, at
any time; what the module follows is the stake, which outlives node and subnet
(`SubnetNodeValidatorId` is never removed). `EmissionBlock` rewards and slashes nodes of the
snapshot, including those that have left since. `Overwatch` has commits as the weights themselves: the hash that
hides them is taken to be collision free. `BlockHook` is the second block of an overwatch epoch,
which averages the reveals by stake and pays by distance; the power of a stake, computed in
floating point and converted to u128, is the constant operator `StakePower`. All of its sums are folds of
`saturating_add` (`SatSum`). `WidthAssumption` says that powers and block numbers fit u128, and
that one whole percentage for every pair of a node and a subnet does, as it amply does at 10^18 for 100 %.

### SubnetNodes

One subnet, and the counters the network keeps over all of them. The network's emission
weights for the subnet (`weighted`) and the amounts by which reputations move are
nondeterministic; reputation has three levels (below the minimum, above it, full), which is
what the code compares it with. `epoch` is the general epoch and `tick` says whether the
subnet's slot in it has passed, so `SubnetEpoch` is `get_current_subnet_epoch_as_u32`.
Blocks 0 to 2 of an epoch are one step, `NextEpoch`; the removal of subnets that block 0
may do is `do_remove_subnet`, possible at any time.

The emission step runs in `step`: precheck (`ValidatorAbsent` or `distribute_rewards`),
then either `slash_validator` and the loop of `handle_non_consensus` over the attestors, or
`PrioritizeQueued`, `RemoveQueued` and the loop `RewardNodes` over the nodes the proposal
stored, and last `FinishEmission`: election and activation from the queue. One iteration is
one step so that the invariants are checked in the middle; no call comes in between.
Where the code asks the weight meter before it acts, both outcomes are possible.

Each registered node exists twice, in `RegisteredSubnetNodesData` and as a copy in
`SubnetNodeQueue`; the model keeps both, because the code updates one and activates the
other. `Retained` is the `retain` by which a removal takes the copy out of the queue, `ToFront` the
`remove` and `insert(0, ..)` of a prioritized one. A node's `unique` parameter is indexed by value; peer ids and addresses, indexed in the
same way but in five maps at once, are `PeerRegistry`.

### PeerRegistry

The names of one subnet's nodes and of the overwatch nodes in it, without the rest of a node:
`nodes` and `registered` hold the peer infos of active and registered nodes, `queue` the copies
that activation inserts. The queue is a set of copies: which of them is activated first is for
`SubnetNodes`, and no name depends on it. Which strings are peer ids or addresses is the constant
`WellFormed`; `ShortIds` are those a precompile's bounded string can carry.

### SubnetLifecycle

Any number of subnets, without their nodes and stake: what the code reads of those (enough
nodes, the delegate stake) is an input chosen whenever it is read, as it may have changed
since the last time. Storage maps are functions on the ids they hold; `subnets` is
`SubnetsData`, `slotOf` and `subnetAt` are `SubnetSlot` and `SlotAssignment`, and so on.
A name stands for `SubnetName` and `SubnetRepo`, which the code keeps alike. Reputations and
factors are percentages (1e18 in the code), with the same flooring.

Calls are one action each; `do_activate_subnet` has two, as its failure in or after the
enactment period removes the subnet and succeeds (`FailActivation`). `RemoveSubnets` is
`do_remove_subnet`, for one subnet or for all that the preliminaries remove in one block.
A hook's epoch is `NewEpoch` (block 0, `do_epoch_preliminaries` with its loop as sets: expired,
deserted, too long paused, poor, disgraced, and one too many), then
`handle_subnet_emission_weights` (block 2) and one `emission_step` per weighted subnet in the
order of slots, which here only moves the reputation. Between these blocks calls happen, so a
subnet may be paused or removed between its weight and its slot. Each removal of the
preliminaries may be skipped for want of weight (`try_do_remove_subnet`), and a paused network
misses the block (`MissEpoch`); the history variable `spared` remembers the subnets concerned,
and `RegistrationEnds` and `PauseEnds` speak of the others.

### NetworkParameters, OwnerParameters

The setters of `admin.rs` and `owner.rs` differ only in what they check and write, so they are
tables: a row per call with its condition over the arguments and the present values, its writes
and the origin it demands. A percentage is in thousandths, a balance in tenths of a token, both
rounded down, and the widths of integers are scaled (`U32Max`, `U64Max`, `U128Max`). The admin precompile makes the same
calls with an EVM account as origin, which no setter accepts. `Over` and `Item` write some items
of a record and leave the others. The schedule of reputation factors
(`SubnetReputationFactorSchedules`) is a value in force and at most one pending.

### Collective, Governance

A motion is the call it would dispatch. `executed` is what a step dispatches, with the origin
(a member, or a proportion of yes votes over seats); `Governance` lets `NetworkParameters` answer
it in the same step.

## 3. Runs

`CHECK_DEADLOCK FALSE` where bounds (`MaxBlock`, `MaxCalls`, `MaxEpoch`, ...) end every
behaviour; the system itself never stops, as blocks keep coming. Only `swap_queue` is about
liveness and only it assumes fairness.

| run | shows | bounds |
|---|---|---|
| `staking` | token and share accounting, ledgers, queue, price; the queue is one of `SwapQueue` | 2 accounts, 1 subnet, 1 validator pool, 4 calls, 6 blocks with epochs of 4: a swap is queued, waits, and is executed while others deposit, withdraw, transfer or donate, a full ledger (1 entry) forces claims, the queue (2) fills, the network pauses, blocks lack weight, the subnet goes |
| `staking_transfers` | violation: a transfer of shares that the sender does not hold makes them | as `staking` with `OwnedTransfersOnly = FALSE` |
| `swap_queue` | every queued swap leaves | 4 ids that can be queued again for ever, a queue of 3, 2 per block; no bound on time |
| `subnet_nodes` | slots, counters, queue, reputations, election, classes | 3 nodes, 7 epochs: enough for a node to register, wait in the queue, become Idle, Included (2 epochs) and Validator next to one that was there from the start; up to two wait in the queue for the one place an epoch has |
| `subnet_nodes_fork` | election and the index of unique parameters, with a pause, an emergency set, an update and a removal by the collective | 2 nodes, 4 epochs, one of each; the set begins, serves and ends by submissions or by epoch |
| `subnet_lifecycle` | slots, names, owners, ids, counters, end of registrations and pauses | 2 subnets over 4 epochs, 2 accounts, 2 names, 2 slots, `MaxSubnets` 1: both exist at once (one too many) or one after the other in the same slot and with the same name; periods of 0 or 1 epochs, so that each runs out; factors of 60 % against a minimum of 30, so that one loss spares a subnet and two do not. `Traded` restricts transfers to the first subnet, `Stakes` is on either side of the minimum |
| `parameters` | types, the 12 pairs of bounds that setters check, the network's 3 intervals of the hooks, ratchet, schedule of factors | every setter once from the defaults, and sequences of 3 among those in `Deep`, which read what others write; values at and around the bounds, up to the largest u128 and, through the precompile, beyond; 2 epochs |
| `governance` | motions and votes; what changes a parameter | 3 accounts that join and leave, 2 calls (one needs 2/3, one 4/5), 2 motions, 1 block beyond the duration |
| `node_staking` | keys, stake, delegate accounts, tokens of all of them | 2 validators, 3 accounts as keys in any role, 2 nodes, 3 calls over 3 blocks with an emission step; a slash of 50 %, cut off by the maximum |
| `overwatch` | commits, reveals, payment | 3 uids, one validator, one whole overwatch epoch of 4 blocks and its payment, 4 calls: both nodes commit and reveal; powers of stake of which one fits `MaxBalance` and two do not, so that their sum saturates; multiplier and cutoff have one value each |
| `peers` | who holds which name | 3 peer ids and one that is none, 2 addresses, 3 nodes, 3 updates |
| `peers_unique` | violation: a queued node's old peer id comes back | as `peers` with `QueuedUpdates = TRUE` |

Two constants restrict who does what, not what the code does, so that the rest can be
checked beyond a defect that a violation run shows: `OwnedTransfersOnly` (accounts transfer
only shares they hold) and `QueuedUpdates` (owners update nodes that are still queued).

Fairness of `swap_queue` (`FairSpec`):

- `WF` of blocks and of `Hook`: the chain produces blocks for ever, and a hook that has begun
  runs to its end in the same block. The code justifies both.
- `WF` of `Unpause`: whoever pauses the network lets it run again. No code forces that; a network that stays
  paused keeps its swaps, as it should.
- `SF` of a block with weight for at least one swap: the hook may find too little weight left in any
  block (`lib.rs` 8722), so weak fairness of blocks alone proves nothing. What is needed is that,
  time and again, a block is not full. Strong fairness is needed because pauses disable blocks in between.

Nothing is assumed of the calls: swaps may be queued behind a waiting one for ever.

Every property of a passing run has a mutant, an operator named in `PROJECT.json` and
marked *Mutant* in the module: the definition with a plausible bug, under which TLC finds
the property violated.

## 4. Proofs

All theorems hold for any number of accounts, pools, nodes, calls and blocks and for all
parameters that satisfy the named assumption of their module; TLC evaluates those assumptions in
every run. Each was checked by TLC first, with its inductive invariant.

### StakingProofs

- `TypeCorrect`: `Spec => []TypeOK`
- `QueueIsCoherent`: `Spec => []QueueCoherent`
- `SwapsWait`: `Spec => SwapsWaitAnEpoch`
- `UnbondingTakesItsTime`: `Spec => UnbondingMatures`
- `LedgersStayBounded`: `Spec => []LedgersBounded`
- `ImplementsSwapQueue`: `Spec => SwapQueueImplemented`, the refinement of `SwapQueue`
- `SwapsAreInTime`: `Spec => []SwapsAreTimely`
- `SharesStayBacked`, `BooksAlwaysBalance`, `NobodyIsDiluted`: with `OwnedTransfersOnly`,
  `Spec /\ []Unsaturated` implies `[]SharesBacked`, `[]BooksBalance` and `PriceNeverFalls`

The first inductive invariant is `TypeOK /\ QueueCoherent /\ HookUninterrupted` (`Inv`).
`QueueCoherent` is needed for types, because the hook looks up the item of the queue's head;
`HookUninterrupted` says that the network is not paused while the hook drains the queue,
which `SwapsWaitAnEpoch` needs of the hook's second and later steps. `QueueCoherent` includes that
ages are in order along the queue, without which nothing can be said about swaps behind the
head. The two action properties follow from the invariant by cases on the actions: all but
`ExecuteSwap` and `update_swap_queue` leave or extend the queue, all but claims and
withdrawals leave the ledgers. `LedgersBounded` adds to the invariant that ledgers are
finite, so that cardinalities can be compared; a full ledger is claimed before it grows,
and `RoomFor` refuses what still does not fit.

The refinement goes action by action: a swap queued is `Enqueue`, a block moves every wait down
by one, `ExecuteSwap` is `Dequeue`, and everything else leaves `Waiting` alone. `SwapsAreTimely`
rests on how long the swap in each place may still wait when a block begins and while the hook runs.

The books rest on three things.

1. *Sums.* `SumFunctionOnSet` folds over a set in an order chosen by `CHOOSE`. The
   library's induction theorems take the predicate as an operator, which the provers cannot
   instantiate, so `FiniteInduction` is stated with the predicate as a set and proved from the
   well-foundedness of strict inclusion (`WFMin`). From it: a sum does not depend on the order,
   splits, is monotone, and changes by what changes at one place.
2. *Rounding.* A step on a pool is a `FairStep`: it adds tokens, makes shares and gives some of
   them to accounts, and to a pool with tokens the shares made cost at least the present price.
   Purchases (`Bought`), sales (`Sold`), donations and rewards (`Grown`) and the dead shares of a
   dropped swap (`Minted`) are all of that form because both conversions round down; a
   `FairStep` keeps a pool backed and its price from falling, and a backed pool can pay all
   shares at once.
3. *Saturation.* The code saturates at the end of u128 without an error, and then tokens do get lost.
   `Unsaturated` says that the tokens issued and minted fit an u128 and that no pool has u128's
   maximum of shares. It is a hypothesis on the behaviour, as inflation is not modelled; TLC finds it true in
   every state of `staking`. That single additions do not saturate then follows from the books themselves,
   which is why the invariant is `Inv`, finite ledgers, `SharesBacked`, `TotalsAgree`
   (`Books`) and `Conservation` together: no one of them is inductive without the others.

A step is shown to keep the books (`NextBooks`) from facts on that step alone: what is held and
what it mints fit u128 (`Fits`, `StepFits`), and it transfers nothing (`NoTransfer`) or only what
is owned. The actions are taken for all amounts (`AnyNext`), not only for those the configuration
offers. Thus `NodeStakingProofs` and `OverwatchProofs` use the same lemmas for the
steps they inherit, though there are more tokens there than `Supply`.

`OwnedTransfersOnly` is needed: without it an account that has no shares transfers some all the same. What the
sender and the pool lose saturates at 0, what receiver and pool gain does not; in the trace of `staking_transfers` an
empty pool ends with 400 shares, all of one account, no tokens and none of the dead shares.

### SubnetLifecycleProofs

- `LifecycleTypes`, `IdsLiveOnce`, `OffersAreCurrent`, `RegistrationsEnd`: `Spec => []P` for
  `TypeOK`, `LivesOnce`, `OffersStand`, `RegistrationEnds`
- `SlotsAgree`, `NamesAgree` and, from both, `DirectoriesStayRight`: `Spec => []DirectoriesAgree`
- `TotalsCount`: `Spec => []SubnetTotals`
- `PausesEnd`: `Spec => []PauseEnds`

The invariant is the conjunction of types, slots, names, ids, offers and registrations (`Inv`). They lean on each other: a new id is
absent from every map because of `LivesOnce`; a new friendly id is free because each one in use
is that of an assigned slot (`SlotDirectory`) and slots are integers (`TypeOK`); renaming frees
the right name because of `NameDirectory`. All removals, by calls and by the hook, are brought
to one predicate, `Removes(S, rep)`, under which each part of the invariant is preserved once; `EvmCallsAreCalls`
brings the precompile's steps to the calls they dispatch.
`SubnetTotals` is proved on top of `Inv`, with the library's facts on cardinalities.

`PauseEnds` needs `Worn`: beyond the limit a paused subnet has at most what the losses leave of a full
reputation and at least the minimum, and one that still waits for an emission step, which could raise its reputation,
was paused in this very epoch. Losses keep their order (`DecreaseMonotone`). `FullAfter` is a
recursive function; that it exists and loses a share in each step is shown by induction
(`NaturalInduction`, with the predicate as a set), from its finite beginnings.

### PeerRegistryProofs

`PeersStayUnique` and `IndexStaysTruthful`: with `~QueuedUpdates`, `Spec` implies `[]PeersUnique`
and `[]IndexTruthful`. The invariant adds that a name has one role per holder, that addresses
belong to whom the index says, and that the queue's copies are equal to the registered nodes.
The last is what updates of queued nodes break (`peers_unique`), hence the hypothesis.

### GovernanceProofs

`MotionsStaySound` (`Spec => []MotionsSound`) and `CouncilAlwaysGoverns` (`Spec =>
CouncilGoverns`), for any finite set of accounts and any thresholds. The invariant relates the
ayes and nays of a motion to the history of votes actually cast (`Agrees`) and says that an index is
given out once. From that the yes votes counted at a close are those of present members, and
the origin a setter sees is the share of members that support it.

### OwnerParametersProofs

- `ParametersStaySound`: `Spec => []ParametersSound`
- `CeilingOnlyFalls`: `Spec => RegistrationRatchet`
- `EpochsJudgedAsBegun`: `Spec => FactorsStandForEpoch`
- `EmergencyFreezesPenalties`: `Spec => PenaltiesFrozen`

The tables are proved row by row: a row is a plain item, a pair of bounds, or one of ten with
checks of their own, and each kind keeps `NetOK` (types, the checked pairs in order, the network's intervals positive). `Values` and
`EvmValues` may be as wide as u128 and beyond, so that the proof covers the word that the precompile
saturates and an owner then stores under a `NetworkMaxStakeBalance` of `u128::MAX`. Two things are not stated, because no setter
ensures them: that `MinIdleClassificationEpochs` is below `MaxIdleClassificationEpochs`, and that a subnet's
`ChurnLimitMultiplier` is not 0 (section 5). The
schedule needs that it names every factor and has at most one pending change, and that block
numbers are within u32, as they are in the runtime, or a pending change would take effect at once.

### NodeStakingProofs, OverwatchProofs

- `KeysAlwaysAgree`: `NodeSpec => []KeysAgree`
- `StakeStaysReachable`: `NodeSpec => []StakeReachable`
- `StakesStayAccounted`: with `OwnedTransfersOnly`, `NodeSpec /\ []NodeUnsaturated => []StakesAccounted`
- `WatchersStaySound`: `OverwatchSpec => []WatchersSound`, the part of `OverwatchAccounted` on nodes
- `RevealsAlwaysMatch`: `OverwatchSpec => []RevealsMatchCommits`, the first part of `RevealsHonest`
- `RevealsStayHonest`: if all `Multipliers` and all `Cutoffs` are equal, `OverwatchSpec => []RevealsHonest`
- `OverwatchStaysAccounted`: `OverwatchSpec /\ []WatchUnsaturated => []OverwatchAccounted`
- `OverwatchStaysPaidOnce`: if all `Multipliers` are equal, `OverwatchSpec => []OverwatchPaidOnce`

`KeysAgree` becomes inductive with: every validator has a hotkey, and no two have a key in common at the
start. `StakeReachable` needs that ids of nodes are given in turn, so that a new node is one
nobody owns, and that the owner of a node is a validator that exists. A change of
the multiplier renumbers overwatch epochs, so that what was revealed may belong to an epoch that
takes commits again, and so does a higher cutoff in the middle of an epoch; the theorems on reveals suppose
that both stay as they are, the one on payments supposes a fixed length. The run fixes both, too.

*Accounts.* The invariant `NodeBooksInv` joins the books of `Staking` with those of nodes (the totals
of a subnet and of the network are the sums of their nodes' stake) and of delegate accounts, with `KeyInv` and
`NodeInv`, which say whose stake it is, and with the sentence where every token is (`NodesHold`);
`WatchBooksInv` adds overwatch stake. Every action is brought to one of two forms: it is a step of the
smaller module and leaves the stake alone, or it moves an amount between a free balance, the ledger and one
stake, mints it or loses it (`NodeStep`, `WatchStep`). A total that saturates is wrong from then
on, so the theorems suppose that the tokens of the start and those minted fit u128
(`NodeUnsaturated`, `WatchUnsaturated`); that no single sum is cut off is then part of the induction.
`BaseSlashPercentage` is any number, as its setter checks nothing (`admin.rs` 281): a slash takes from a node what it has and from
the totals the whole amount, so that above 100 % the totals may fall below the sums. `StakesAccounted`
claims that they are never above, and equal up to 100 %; the tokens are accounted for in both cases. In
`Overwatch` nobody transfers shares, so `OwnedTransfersOnly` is not needed.

*Payments.* Quotients are rounded down, also where u128 cuts them off (`MulDivBelow`). So the shares that
powers have in their total add up to at most the whole (`SharesOfWhole`), parts of the emission by such
shares to at most the emission (`PartsOf`, `FairRewards`). The scores' total never
saturates (`WidthAssumption`); that of the powers may, see section 5, and the shares of stake then add up to more than the whole.
Each of them is at most the whole all the same, so that a weight is at most the sum of what was revealed
(`WeightsRevealed`), and payments, which are shares of the scores, stay within the emission. An epoch is paid for once because every payment is made in block
`i * L + 1` for some `i`, where `L` is the length of an overwatch epoch, and two such blocks are in
different epochs (`PaidInTurn`, `EpochApart`, `DivOrder`); a weight once set stays
within the reveals because a reveal never changes.

### SubnetNodesProofs

- `SlotsStayCoherent`, `MapsAlwaysAgree`, `ElectedAlwaysStays`, `SnapshotStaysFresh`: `Spec => []P` for
  `SlotsCoherent`, `MapsAgree`, `ElectedStays`, `SnapshotFresh`
- `QueueAlwaysWaits`, `ClassesAreClimbed`: `Spec => QueueWait`, `Spec => ClassLadder`
- `UniquesStayTruthful`: with `~QueuedUpdates`, `Spec => []UniquesTruthful`

One invariant, `Inv`, serves them all, because no map of a subnet is right by itself:

- `Mapped`, `Queued`: nodes are kept under ids that were handed out, a node is active or registered
  but not both, and the queue has one copy of each registered node.
- `Slotted`: the slots hold each active Validator once, the index finds it, the emergency set is
  among them. `swap_remove` with its repair of one index is a lemma on sequences.
- `Counted`, `Owned`: the counters are cardinalities; reputations and the owners' lists cover exactly
  the nodes there are.
- `Hooked`: whoever is elected, attests or is in the snapshot has an id that is not that of a
  registered node and will not be given out again (`Known`). Otherwise a node that registers after
  the proposal could be taken for one that left. `Fresh` says of every node the loop has yet to see
  that class and epoch are those of the snapshot, from the proposal through all loops before it.
- `Timed`: nobody is elected and the subnet is not removed while the hook runs.

What `Retained` and `First` compute is shown by induction on the length of the queue. The library's
induction takes a predicate, which the provers cannot supply; `SubsetInduction` and
`NaturalInduction` take it as a set, from the fact that the subsets of a finite set are well-founded.

For the two action properties each step is brought to one of ten kinds (`NextKinds`): those that leave
nodes alone, registration, update, departure, a rise in class, activation, and so on. `ClassLadder` needs a second invariant,
`Aged`: the counters of epochs a node has spent in its class never exceed the epochs that have
passed since it entered it. `UniquesTruthful` needs `Indexes` (who holds a parameter is whom the
index names) and `Copies` (the queue's copy has the registered node's parameter); the second is what
updates of queued nodes break, hence the hypothesis.

### Only model-checked

`SwapsLeave`, which is liveness. Every other property of a passing run is stated by a theorem: some
under a hypothesis that its run meets (`OwnedTransfersOnly`, `~QueuedUpdates`, one length and one cutoff of overwatch epochs,
balances that fit u128), all others as they stand.

## 5. Observations

What the models show beyond the properties. Where the repository's own words disagree with the code, `PROJECT.json`
has a finding: the two violations, and three docs that a passing run contradicts (the first two entries here).

- `TotalElectableNodes` is not reduced when a subnet is removed: the result of `saturating_sub` is discarded
  (`lib.rs` 8074), though the comment above it and the doc of the removal (`lib.rs` 8073, 7692) say that it is. `TotalNodes`
  is not reduced either, and nothing says that it should be. `MapsAgree` claims the network's counters until the subnet is
  removed and `TotalActiveNodes` after that, too; with `TotalElectableNodes` it fails at the first removal.
- The doc of `do_remove_subnet` says that the total of subnets is not decremented (`lib.rs` 7880, and 7951 that there is
  none) and that an id can be reused (`lib.rs` 7877). `SubnetTotals` and `LivesOnce` show that the code does neither.
  It also lists `NodeRegistrationInitialValidatorIds` among what is removed; a subnet that was never activated leaves it behind.
- `do_update_node_bootnode_peer_info`, `do_update_node_client_peer_info` and `update_node_unique`
  change a queued node in `RegisteredSubnetNodesData` but not in its queue copy (the root of
  `peers_unique`); `do_owner_unpause_subnet` moves start epochs in the former, of all subnets, while the queue reads the latter.
- `get_total_network_issuance` (`misc.rs` 49) forgets validator pools and queued swaps.
- The proposer's own attestation is stored without its being in `validator_ids` (`subnet_validator.rs` 208).
- The removal of a subnet too many compares a count taken before the loop that removes others (`era.rs` 306).
- A removed subnet keeps its weight in the epoch's emission weights (`slot.rs` 223), but not its slot, by which the hook
  finds it: its emission step never comes (`Awaited`).
- `register_validator` stores any delegate reward rate, while the update checks it against the
  maximum; with a rate above 100 % an emission step mints more than the reward. Registration also
  does not compare its keys with the opposite keys of other validators, as the updates do.
- `set_overwatch_node_peer_id` leaves the previous peer's entry in the index, and a removed
  watcher may still set one; an overwatch epoch whose second block falls into a pause is never paid; a
  change of `OverwatchEpochLengthMultiplier` renumbers overwatch epochs, so reveals may meet commits of another one.
- Powers of overwatch stake are counted in units of 10^-18 (`get_f64_as_percentage`) and summed with `saturating_add`
  (`slot.rs` 72). At a weight factor of 1, the least its setter accepts, four nodes with the minimum stake of
  100 * 10^18 fill u128; from then on shares are taken of a total that is too small and add up to more
  than the whole, and a subnet's weight may exceed the highest that was revealed for it, up to the cap at 100 % (in `overwatch`,
  two nodes that reveal 40 give 52). It stays within the sum of what was revealed, and payments within the emission.
- `do_set_overwatch_commit_cutoff_percent` may raise the cutoff after weights have been revealed: the epoch takes commits
  again, from nodes that know the reveals. TLC finds `RevealsHonest` violated with `Cutoffs = {50, 75}`; no text of the repository
  speaks of that.
- `do_set_base_slash_percentage` admits more than 100 %; `slash_validator` then takes more from `TotalSubnetStake` and `TotalStake` than the node has.
- `do_set_min_idle_classification_epochs` and its counterpart check nothing (`admin.rs` 160-168): the bounds may cross, and no owner
  can then set `IdleClassificationEpochs`. `PairsOrdered` leaves this pair out.
- `do_set_churn_limit_multipliers` admits a minimum of 0; an owner may then set
  `ChurnLimitMultiplier` to 0, and `slot.rs` 325 takes a remainder by it. `DivisorsPositive` leaves this divisor out. `set_min_max_subnet_node` may raise `MinSubnetNodes` above
  `MaxEmergencySubnetNodes`. Some defaults lie outside their setters' ranges
  (`OverwatchStakeWeightFactor`, the maximum node burn).
- Repeated updates of reputation factors postpone a pending change each time.
- A motion whose threshold is below what its call demands is consumed when it closes. A member
  removed and reinstated loses the vote and then counts with the prime's default.
- Every call of the admin precompile fails with `BadOrigin`; of the staking calls only
  `update_swap_queue` works in a paused network; the precompile's
  `total_subnet_delegate_stake_shares` returns the balance.
- Removing the last initial validator of a registering subnet (`owner.rs` 734) opens it to everyone.

## 6. Not modelled

How the size of a reward, inflation, the registration cost and the node burn come about (numeric
code, partly floating point); reputation factors of nodes and validators; the list of initial
validators, bootnode keys and identities, which no other state depends on; the parsing of
addresses; getters of precompiles, RPC, runtime and node; weights and benchmarks, which are
generated; atomic-swap, author-subsidy and template, which share no state with the network pallet
but free balances. `PROJECT.json` gives the reason for each. Within `SubnetNodes` there is one subnet only; its reputation
and the reasons for which it is removed are in `SubnetLifecycle`.

Where modules cut the system, a choice stands for what is on the other side. Unpausing moves the start epochs
of the one subnet's registered nodes, not of all subnets' as `owner.rs` 110 does. In `NodeStaking` a
slash and the removal of a node below the minimum reputation (`subnet_validator.rs` 542) are two steps, which may or may not follow each
other, as reputations are in `SubnetNodes`. In `Overwatch` which of a validator's nodes have the class Validator, and
how many subnets are active (`registering.rs` 194-213), is any choice. Limits that the collective sets
(`OverwatchMinStakeBalance`, `MaxOverwatchNodes`, cooldowns, minimum deposits) change only in `NetworkParameters`; elsewhere they are
constants, except the multiplier and the cutoff of overwatch epochs. `Collective` has sets of members: the
code's `set_members` keeps a list that names a member twice, with two seats, and only logs when it is longer than `MaxMembers`.

Five hazards have no property, with the reason in `PROJECT.json`: the start epochs that
unpausing moves, the initial validators, an owner's multiplier of 0, the order of the registration queue and the progress of
a subnet whose election slots are empty. The code promises no progress in the last two.

## 7. Plan

The plan of modules, runs and theorems is carried out. What could follow:

1. More than one subnet in `SubnetNodes`, for the removals that a shared counter or limit decides.
2. An abstract specification of one overwatch epoch (commit, reveal, pay) that `Overwatch` implements.
3. Reputation factors and the size of rewards, as far as they are integer arithmetic.

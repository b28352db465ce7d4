-------------------------------- MODULE Staking --------------------------------
(***************************************************************************)
(* Delegate staking of the network pallet (pallets/network/src/stake and   *)
(* the staking calls and the swap hook of lib.rs).                         *)
(*                                                                         *)
(* Accounts deposit TENSOR into the pool of a subnet or of a validator and *)
(* own shares of it.  Shares are redeemed into an unbonding ledger, from   *)
(* which they become free after a cooldown, or swapped to another pool     *)
(* through a first-in first-out queue that the block hook drains after one *)
(* epoch.  Rewards and donations raise a pool's balance without minting    *)
(* shares.  The subnet and the validator pools run the same code; they     *)
(* differ in the counters they keep.                                       *)
(*                                                                         *)
(* Calls are transactional: a call that fails leaves the state as it was,  *)
(* so an action is enabled exactly when its call succeeds.  The hook is    *)
(* not: a swap that fails in it keeps what it has written.                 *)
(***************************************************************************)
EXTENDS Integers, Sequences, FiniteSets, ShareMath, Functions

CONSTANTS
  Accounts, Subnets, Validators,   \* who stakes, and the pools' ids
  LiveAtStart,                     \* pools whose subnet or validator exists in Init
  InitialBalance,                  \* free balance of an account in Init
  ExistentialDeposit,              \* Currency: what KeepAlive leaves in an account
  MinDelegateStakeDeposit, TxRateLimit, EpochLength,
  DelegateStakeCooldownEpochs, MaxUnbondings,
  MaxSwapQueueLength, MaxSwapQueueCallsPerBlock,
  HookBudgets,                     \* swaps the hook's weight limit may allow in a block
  EmissionPlans,                   \* what one emission step may pay: pool -> amount
  Amounts, ShareAmounts,           \* inputs of the calls
  OwnedTransfersOnly,              \* accounts transfer only shares they hold
  FirstBlock, MaxBlock, MaxCalls, MaxPauses   \* bounds of the model

Pools == Subnets \cup Validators
Kinds == {"subnet", "validator"}
Kind(p) == IF p \in Subnets THEN "subnet" ELSE "validator"
PoolsOf(k) == IF k = "subnet" THEN Subnets ELSE Validators

(* Epoch blocks 0, 1 and 2 run the preliminaries, the overwatch step and   *)
(* the emission weights; subnets are paid in the slots after them.         *)
DesignatedEpochSlots == 3

ASSUME StakingAssumption ==
  /\ IsFiniteSet(Accounts) /\ IsFiniteSet(Subnets) /\ IsFiniteSet(Validators)
  /\ Subnets \cap Validators = {}
  /\ LiveAtStart \subseteq Pools
  /\ InitialBalance \in Balance /\ ExistentialDeposit \in Nat
  /\ MinDelegateStakeDeposit \in Nat /\ TxRateLimit \in Nat
  /\ EpochLength \in Nat /\ EpochLength > DesignatedEpochSlots
  /\ DelegateStakeCooldownEpochs \in Nat
  /\ MaxUnbondings \in Nat /\ MaxSwapQueueLength \in Nat
  /\ MaxSwapQueueCallsPerBlock \in Nat
  /\ HookBudgets \subseteq Nat
  /\ \A plan \in EmissionPlans :
       DOMAIN plan \subseteq Pools /\ \A p \in DOMAIN plan : plan[p] \in Balance
  /\ Amounts \subseteq Balance /\ ShareAmounts \subseteq Balance
  /\ OwnedTransfersOnly \in BOOLEAN
  /\ FirstBlock \in Nat /\ MaxBlock \in Nat /\ MaxCalls \in Nat /\ MaxPauses \in Nat

VARIABLES
  block, paused,    \* frame_system's block number; TxPause
  phase, left,      \* "swaps" while the hook drains the queue, at most left more
  live,             \* SubnetsData and ValidatorsData: the pools that exist
  free,             \* Currency::free_balance
  pool,             \* Total(Sub)netDelegateStakeBalance and ...Shares, per pool
  shares,           \* Account(Subnet|Validator)DelegateStakeShares
  total,            \* TotalDelegateStake, TotalValidatorDelegateStakeBalance
  netFlow,          \* SubnetNetFlow
  ledger,           \* StakeUnbondingLedger: claim block -> amount
  unbonding,        \* TotalUnbondingBalance
  order,            \* SwapQueueOrder
  calls,            \* SwapCallQueue: id -> queued item
  nextId,           \* NextSwapQueueId
  lastTx,           \* LastTxBlock
  minted, dropped,  \* history: rewards paid, and amounts of swaps that failed
  short,            \* history: some hook had weight for fewer swaps than it may execute
  ncalls, npauses   \* history: calls and pauses so far, for the bounds

poolVars  == <<pool, shares, total, netFlow>>
queueVars == <<order, calls, nextId>>
bondVars  == <<ledger, unbonding>>
timeVars  == <<block, phase, left>>
histVars  == <<minted, dropped, short, npauses>>
vars == <<poolVars, queueVars, bondVars, timeVars, histVars,
          paused, live, free, lastTx, ncalls>>

EmptyPool == [balance |-> 0, shares |-> 0]
EmptyMap == [x \in {} |-> 0]

Init ==
  /\ block = FirstBlock /\ paused = FALSE /\ phase = "calls" /\ left = 0
  /\ live = LiveAtStart
  /\ free = [a \in Accounts |-> InitialBalance]
  /\ pool = [p \in Pools |-> EmptyPool]
  /\ shares = [a \in Accounts |-> [p \in Pools |-> 0]]
  /\ total = [k \in Kinds |-> 0]
  /\ netFlow = [s \in Subnets |-> 0]
  /\ ledger = [a \in Accounts |-> EmptyMap] /\ unbonding = 0
  /\ order = <<>> /\ calls = EmptyMap /\ nextId = 0
  /\ lastTx = [a \in Accounts |-> 0]
  /\ minted = 0 /\ dropped = 0 /\ short = FALSE /\ ncalls = 0 /\ npauses = 0
--------------------------------------------------------------------------------
(***************************************************************************)
(* Bookkeeping shared by the calls.                                        *)
(***************************************************************************)

Put(f, k, v) == [x \in DOMAIN f \cup {k} |-> IF x = k THEN v ELSE f[x]]

exceeds_tx_rate_limit(a) ==
  /\ TxRateLimit # 0 /\ lastTx[a] # 0
  /\ block - lastTx[a] <= TxRateLimit

(* Mutant: the balance of the payer is not looked at.                      *)
WithdrawUnchecked(a, amount) == TRUE

(* Currency::withdraw with ExistenceRequirement::KeepAlive.                *)
can_withdraw(a, amount) == amount <= free[a] /\ free[a] - amount >= ExistentialDeposit
withdraw(a, amount) == free' = [free EXCEPT ![a] = @ - amount]

(* Any call: the hook has run, and the model's bound on calls is not met.  *)
Call == phase = "calls" /\ ncalls < MaxCalls /\ ncalls' = ncalls + 1

(* Mutant: the new shares are missing from the pool's total.               *)
IncreaseWithoutShares(a, p, base, amount, n) ==
  /\ shares' = [shares EXCEPT ![a][p] = SatAdd(@, n)]
  /\ pool' = [pool EXCEPT ![p] = [balance |-> SatAdd(base.balance, amount),
                                  shares  |-> base.shares]]
  /\ total' = [total EXCEPT ![Kind(p)] = SatAdd(@, amount)]
  /\ netFlow' = IF p \in Subnets THEN [netFlow EXCEPT ![p] = @ + amount] ELSE netFlow

(* base is the pool as the caller has left it so far.                      *)
increase_account_delegate_stake(a, p, base, amount, n) ==
  /\ shares' = [shares EXCEPT ![a][p] = SatAdd(@, n)]
  /\ pool' = [pool EXCEPT ![p] = [balance |-> SatAdd(base.balance, amount),
                                  shares  |-> SatAdd(base.shares, n)]]
  /\ total' = [total EXCEPT ![Kind(p)] = SatAdd(@, amount)]
  /\ netFlow' = IF p \in Subnets THEN [netFlow EXCEPT ![p] = @ + amount] ELSE netFlow

decrease_account_delegate_stake(a, p, amount, n) ==
  /\ shares' = [shares EXCEPT ![a][p] = SatSub(@, n)]
  /\ pool' = [pool EXCEPT ![p] = [balance |-> SatSub(@.balance, amount),
                                  shares  |-> SatSub(@.shares, n)]]
  /\ total' = [total EXCEPT ![Kind(p)] = SatSub(@, amount)]
  /\ netFlow' = IF p \in Subnets THEN [netFlow EXCEPT ![p] = @ - amount] ELSE netFlow

(* The pool after the dead shares of a first deposit are minted, and the   *)
(* shares an amount buys: priced with the shares from before the mint.     *)
MintDeadShares(P) ==
  IF P.shares = 0 THEN [P EXCEPT !.shares = SatAdd(@, MIN_LIQUIDITY)] ELSE P
SharesFor(amount, p) == convert_to_shares(amount, pool[p].shares, pool[p].balance)

handle_increase_account_delegate_stake(a, p, amount) ==
  increase_account_delegate_stake(a, p, MintDeadShares(pool[p]), amount,
                                  SharesFor(amount, p))

(* Rewards and donations: balance without shares.                          *)
do_increase_delegate_stake(P, amount) ==
  [balance |-> SatAdd(P.balance, amount),
   shares  |-> IF P.balance = 0 \/ P.shares = 0
               THEN SatAdd(P.shares, MIN_LIQUIDITY) ELSE P.shares]
--------------------------------------------------------------------------------
(***************************************************************************)
(* The unbonding ledger: claim block -> amount, at most MaxUnbondings      *)
(* entries; what matures on one block shares one entry.                    *)
(***************************************************************************)
Cooldown == DelegateStakeCooldownEpochs * EpochLength

(* Mutant: entries mature one block before they are due.                   *)
MaturedEarly(a) == {c \in DOMAIN ledger[a] : c <= block + 1}

Matured(a) == {c \in DOMAIN ledger[a] : c <= block}

Payout(a) == SumFunctionOnSet(ledger[a], Matured(a))
Unclaimed(a) == Restrict(ledger[a], DOMAIN ledger[a] \ Matured(a))

(* Mutant: a second amount that matures on one block replaces the first.   *)
DepositedOverwrites(l, claim, amount) == Put(l, claim, amount)

Deposited(l, claim, amount) ==
  Put(l, claim, IF claim \in DOMAIN l THEN SatAdd(l[claim], amount) ELSE amount)

(* prepare_unbonding_ledger_entry claims what has matured when the ledger  *)
(* is full, and fails if that leaves no room for a new entry.              *)
MustClaim(a, claim) ==
  /\ claim \notin DOMAIN ledger[a]
  /\ Cardinality(DOMAIN ledger[a]) >= MaxUnbondings

(* Mutant: room is taken for granted once what has matured is claimed.     *)
RoomAfterClaim(a, claim) == TRUE

RoomFor(a, claim) ==
  MustClaim(a, claim) => Cardinality(DOMAIN Unclaimed(a)) < MaxUnbondings

(* prepare_unbonding_ledger_entry and insert_balance_to_unbonding_ledger.  *)
Unbond(a, claim, amount) ==
  LET first == MustClaim(a, claim)
      kept  == IF first THEN Unclaimed(a) ELSE ledger[a]
      paid  == IF first THEN Payout(a) ELSE 0
  IN  /\ RoomFor(a, claim)
      /\ ledger' = [ledger EXCEPT ![a] = Deposited(kept, claim, amount)]
      /\ unbonding' = SatAdd(SatSub(unbonding, paid), amount)
      /\ free' = [free EXCEPT ![a] = SatAdd(@, paid)]

add_balance_to_unbonding_ledger(a, amount) == Unbond(a, block + Cooldown, amount)

(* Mutant: the claimant is paid and the total stays as it was.             *)
ClaimKeepsTotal(a) ==
  /\ Matured(a) # {}
  /\ free' = [free EXCEPT ![a] = SatAdd(@, Payout(a))]
  /\ ledger' = [ledger EXCEPT ![a] = Unclaimed(a)]
  /\ UNCHANGED unbonding

do_claim_unbondings(a) ==
  /\ Matured(a) # {}
  /\ free' = [free EXCEPT ![a] = SatAdd(@, Payout(a))]
  /\ ledger' = [ledger EXCEPT ![a] = Unclaimed(a)]
  /\ unbonding' = SatSub(unbonding, Payout(a))

claim_unbondings(a) ==
  /\ Call /\ ~paused
  /\ do_claim_unbondings(a)
  /\ UNCHANGED <<poolVars, queueVars, timeVars, histVars, paused, live, lastTx>>
--------------------------------------------------------------------------------
(***************************************************************************)
(* Deposits, withdrawals, donations and transfers.                         *)
(***************************************************************************)
perform_do_add_delegate_stake(a, p, amount) ==
  /\ amount >= MinDelegateStakeDeposit
  /\ can_withdraw(a, amount)
  /\ ~exceeds_tx_rate_limit(a)
  /\ SharesFor(amount, p) # 0
  /\ withdraw(a, amount)
  /\ handle_increase_account_delegate_stake(a, p, amount)
  /\ lastTx' = [lastTx EXCEPT ![a] = block]

add_delegate_stake(a, s, amount) ==
  /\ Call /\ ~paused /\ s \in live
  /\ perform_do_add_delegate_stake(a, s, amount)
  /\ UNCHANGED <<queueVars, bondVars, timeVars, histVars, paused, live>>

add_validator_delegate_stake(a, v, amount) ==
  /\ Call /\ ~paused /\ v \in live
  /\ perform_do_add_delegate_stake(a, v, amount)
  /\ UNCHANGED <<queueVars, bondVars, timeVars, histVars, paused, live>>

BalanceOf(n, p) == convert_to_balance(n, pool[p].shares, pool[p].balance)

(* What a withdrawal and a swap both take from the pool.  The pool may     *)
(* belong to a subnet that has been removed.                               *)
perform_do_remove_delegate_stake(a, p, n) ==
  /\ n # 0 /\ shares[a][p] >= n
  /\ ~exceeds_tx_rate_limit(a)
  /\ decrease_account_delegate_stake(a, p, BalanceOf(n, p), n)

do_remove_delegate_stake(a, p, n) ==
  /\ perform_do_remove_delegate_stake(a, p, n)
  /\ add_balance_to_unbonding_ledger(a, BalanceOf(n, p))
  /\ lastTx' = [lastTx EXCEPT ![a] = block]

remove_delegate_stake(a, s, n) ==
  /\ Call /\ ~paused
  /\ do_remove_delegate_stake(a, s, n)
  /\ UNCHANGED <<queueVars, timeVars, histVars, paused, live>>

remove_validator_delegate_stake(a, v, n) ==
  /\ Call /\ ~paused
  /\ do_remove_delegate_stake(a, v, n)
  /\ UNCHANGED <<queueVars, timeVars, histVars, paused, live>>

donate(a, p, amount) ==
  /\ Call /\ ~paused /\ p \in live
  /\ amount >= MinDelegateStakeDeposit
  /\ can_withdraw(a, amount)
  /\ withdraw(a, amount)
  /\ pool' = [pool EXCEPT ![p] = do_increase_delegate_stake(@, amount)]
  /\ total' = [total EXCEPT ![Kind(p)] = SatAdd(@, amount)]
  /\ UNCHANGED <<shares, netFlow, queueVars, bondVars, timeVars, histVars,
                 paused, live, lastTx>>

donate_delegate_stake(a, s, amount) == donate(a, s, amount)
donate_validator_delegate_stake(a, v, amount) == donate(a, v, amount)

(* The code does not ask whether the sender holds the shares: both         *)
(* subtractions saturate.  OwnedTransfersOnly restricts the accounts, not  *)
(* the code.                                                               *)
do_transfer_delegate_stake(a, to, p, n) ==
  /\ a # to /\ n # 0
  /\ BalanceOf(n, p) >= MinDelegateStakeDeposit
  /\ OwnedTransfersOnly => shares[a][p] >= n
  /\ shares' = [shares EXCEPT ![a][p] = SatSub(@, n), ![to][p] = SatAdd(@, n)]
  /\ pool' = [pool EXCEPT ![p].shares = SatAdd(SatSub(@, n), n)]
  /\ UNCHANGED <<total, netFlow>>

transfer_delegate_stake(a, to, s, n) ==
  /\ Call /\ ~paused
  /\ do_transfer_delegate_stake(a, to, s, n)
  /\ UNCHANGED <<queueVars, bondVars, timeVars, histVars, paused, live, free, lastTx>>

transfer_validator_delegate_stake(a, to, v, n) ==
  /\ Call /\ ~paused
  /\ do_transfer_delegate_stake(a, to, v, n)
  /\ UNCHANGED <<queueVars, bondVars, timeVars, histVars, paused, live, free, lastTx>>
--------------------------------------------------------------------------------
(***************************************************************************)
(* The swap queue.  execute_after_blocks is always EpochLength, and the    *)
(* variant of QueuedSwapCall is the kind of the pool it goes to.           *)
(***************************************************************************)
QueuedSwapItem(a, to, amount) ==
  [account |-> a, to |-> to, balance |-> amount, queued_at |-> block]

queue_swap(a, to, amount) ==
  /\ Len(order) < MaxSwapQueueLength
  /\ order' = Append(order, nextId)
  /\ calls' = Put(calls, nextId, QueuedSwapItem(a, to, amount))
  /\ nextId' = nextId + 1

do_swap(a, from, to, n) ==
  /\ Call /\ ~paused
  /\ perform_do_remove_delegate_stake(a, from, n)
  /\ queue_swap(a, to, BalanceOf(n, from))
  /\ UNCHANGED <<bondVars, timeVars, histVars, paused, live, free, lastTx>>

swap_from_subnet_to_subnet(a, from, to, n) == to \in live /\ do_swap(a, from, to, n)
swap_from_subnet_to_validator(a, from, to, n) == to \in live /\ do_swap(a, from, to, n)
swap_from_validator_to_subnet(a, from, to, n) == to \in live /\ do_swap(a, from, to, n)

(* The one swap that does not ask whether its target exists.               *)
swap_from_validator_to_validator(a, from, to, n) == do_swap(a, from, to, n)

(* Mutant: the update starts the wait of the queued swap again.            *)
UpdateRestartsWait(a, id, to) ==
  /\ Call
  /\ id \in DOMAIN calls /\ to \in live
  /\ calls' = [calls EXCEPT ![id] = QueuedSwapItem(a, to, @.balance)]
  /\ UNCHANGED <<poolVars, bondVars, timeVars, histVars, paused, live, free, lastTx,
                 order, nextId>>

(* The caller must be the account of the new call; the account of the      *)
(* queued one is not looked at.  Allowed while the network is paused.      *)
update_swap_queue(a, id, to) ==
  /\ Call
  /\ id \in DOMAIN calls /\ to \in live
  /\ calls' = [calls EXCEPT ![id].account = a, ![id].to = to]
  /\ UNCHANGED <<poolVars, bondVars, timeVars, histVars, paused, live, free, lastTx,
                 order, nextId>>
--------------------------------------------------------------------------------
(***************************************************************************)
(* The block hook.  NewBlock runs on_initialize up to the swap queue;      *)
(* ExecuteSwap and HookDone are the iterations of its loop and its end,    *)
(* and nothing else happens in between.                                    *)
(***************************************************************************)
Rewarded(plan) ==
  {p \in DOMAIN plan : IF p \in Subnets THEN p \in live /\ plan[p] # 0
                                       ELSE pool[p].shares # 0}

(* distribute_rewards: the part of an emission step that reaches pools.    *)
distribute_rewards(plan) ==
  LET paid == Rewarded(plan)
  IN  /\ pool' = [p \in Pools |-> IF p \in paid
                                  THEN do_increase_delegate_stake(pool[p], plan[p])
                                  ELSE pool[p]]
      /\ total' = [k \in Kinds |->
                     SatAdd(total[k], SumFunctionOnSet(plan, paid \cap PoolsOf(k)))]
      /\ minted' = minted + SumFunctionOnSet(plan, paid)

SlotOf(b) == b % EpochLength

(* get_net_flow_weights takes the flows of the subnets that exist.         *)
TakeNetFlows(b) ==
  netFlow' = IF SlotOf(b) = 2 /\ b >= EpochLength + 2
             THEN [s \in Subnets |-> IF s \in live THEN 0 ELSE netFlow[s]]
             ELSE netFlow

NewBlock ==
  /\ phase = "calls" /\ ~paused /\ block < MaxBlock
  /\ block' = block + 1
  /\ TakeNetFlows(block')
  /\ \/ /\ SlotOf(block') >= DesignatedEpochSlots
        /\ \E plan \in EmissionPlans : distribute_rewards(plan)
     \/ UNCHANGED <<pool, total, minted>>
  /\ phase' = "swaps"
  /\ \E b \in HookBudgets :
       left' = IF b < MaxSwapQueueCallsPerBlock THEN b ELSE MaxSwapQueueCallsPerBlock
  /\ short' = (short \/ left' < MaxSwapQueueCallsPerBlock)
  /\ UNCHANGED <<shares, queueVars, bondVars, dropped, npauses, paused, live, free,
                 lastTx, ncalls>>

NewBlockWhilePaused ==
  /\ phase = "calls" /\ paused /\ block < MaxBlock
  /\ block' = block + 1
  /\ UNCHANGED <<poolVars, queueVars, bondVars, histVars, phase, left, paused, live,
                 free, lastTx, ncalls>>

(* Mutant: one block too early.                                            *)
HeadReadyEarly == order # <<>> /\ block + 1 - calls[Head(order)].queued_at >= EpochLength

(* Mutant: one block too late.                                             *)
HeadReadyLate == order # <<>> /\ block - calls[Head(order)].queued_at > EpochLength

HeadReady == order # <<>> /\ block - calls[Head(order)].queued_at >= EpochLength

(* Mutant: a swap that fails is left in SwapCallQueue.                     *)
DequeueKeepsFailed ==
  /\ order' = Tail(order)
  /\ calls' = IF SharesFor(calls[Head(order)].balance, calls[Head(order)].to) = 0
              THEN calls ELSE Restrict(calls, DOMAIN calls \ {Head(order)})

Dequeue ==
  /\ order' = Tail(order)
  /\ calls' = Restrict(calls, DOMAIN calls \ {Head(order)})

(* A swap whose amount buys no share is dropped; the dead shares it may    *)
(* have minted stay.                                                       *)
execute_swap_call_internal(item) ==
  LET p == item.to
  IN  \/ /\ SharesFor(item.balance, p) # 0
         /\ handle_increase_account_delegate_stake(item.account, p, item.balance)
         /\ UNCHANGED dropped
      \/ /\ SharesFor(item.balance, p) = 0
         /\ pool' = [pool EXCEPT ![p] = MintDeadShares(@)]
         /\ dropped' = dropped + item.balance
         /\ UNCHANGED <<shares, total, netFlow>>

ExecuteSwap ==
  /\ phase = "swaps" /\ left > 0 /\ HeadReady
  /\ execute_swap_call_internal(calls[Head(order)])
  /\ Dequeue
  /\ left' = left - 1
  /\ UNCHANGED <<bondVars, block, phase, minted, short, npauses, paused, live, free,
                 lastTx, nextId, ncalls>>

HookDone ==
  /\ phase = "swaps" /\ (left = 0 \/ ~HeadReady)
  /\ phase' = "calls" /\ left' = 0
  /\ UNCHANGED <<poolVars, queueVars, bondVars, histVars, block, paused, live, free,
                 lastTx, ncalls>>
--------------------------------------------------------------------------------
(***************************************************************************)
(* What the rest of the pallet does to the state of this component.        *)
(***************************************************************************)
do_pause ==
  /\ phase = "calls" /\ npauses < MaxPauses /\ ~paused
  /\ paused' = TRUE /\ npauses' = npauses + 1
  /\ UNCHANGED <<poolVars, queueVars, bondVars, timeVars, minted, dropped, short, live,
                 free, lastTx, ncalls>>

do_unpause ==
  /\ phase = "calls" /\ paused
  /\ paused' = FALSE
  /\ UNCHANGED <<poolVars, queueVars, bondVars, timeVars, histVars, live, free, lastTx, ncalls>>

(* The pool of a removed subnet keeps its stake.                           *)
do_remove_subnet(s) ==
  /\ Call /\ s \in live
  /\ live' = live \ {s}
  /\ UNCHANGED <<poolVars, queueVars, bondVars, timeVars, histVars, paused, free, lastTx>>

do_register_validator(v) ==
  /\ Call /\ ~paused /\ v \notin live
  /\ live' = live \cup {v}
  /\ UNCHANGED <<poolVars, queueVars, bondVars, timeVars, histVars, paused, free, lastTx>>
--------------------------------------------------------------------------------
Deposits == \E a \in Accounts, x \in Amounts :
  \/ \E s \in Subnets : add_delegate_stake(a, s, x) \/ donate_delegate_stake(a, s, x)
  \/ \E v \in Validators : \/ add_validator_delegate_stake(a, v, x)
                           \/ donate_validator_delegate_stake(a, v, x)

Withdrawals == \E a \in Accounts :
  \/ claim_unbondings(a)
  \/ \E n \in ShareAmounts :
       \/ \E s \in Subnets : remove_delegate_stake(a, s, n)
       \/ \E v \in Validators : remove_validator_delegate_stake(a, v, n)

Transfers == \E a, to \in Accounts, n \in ShareAmounts :
  \/ \E s \in Subnets : transfer_delegate_stake(a, to, s, n)
  \/ \E v \in Validators : transfer_validator_delegate_stake(a, to, v, n)

Swaps == \E a \in Accounts :
  \/ \E n \in ShareAmounts :
       \/ \E s, t \in Subnets : swap_from_subnet_to_subnet(a, s, t, n)
       \/ \E s \in Subnets, v \in Validators :
            \/ swap_from_subnet_to_validator(a, s, v, n)
            \/ swap_from_validator_to_subnet(a, v, s, n)
       \/ \E v, w \in Validators : swap_from_validator_to_validator(a, v, w, n)
  \/ \E id \in DOMAIN calls, to \in Pools : update_swap_queue(a, id, to)

Hook == NewBlock \/ NewBlockWhilePaused \/ ExecuteSwap \/ HookDone

Environment ==
  \/ do_pause \/ do_unpause
  \/ \E s \in Subnets : do_remove_subnet(s)
  \/ \E v \in Validators : do_register_validator(v)

Next == Deposits \/ Withdrawals \/ Transfers \/ Swaps \/ Hook \/ Environment

Spec == Init /\ [][Next]_vars
--------------------------------------------------------------------------------
(***************************************************************************)
(* Properties.                                                             *)
(***************************************************************************)
IsLedger(l) == DOMAIN l \subseteq Nat /\ \A c \in DOMAIN l : l[c] \in Balance
SwapItem == [account : Accounts, to : Pools, balance : Balance, queued_at : Nat]

PoolsOK ==
  /\ pool \in [Pools -> [balance : Balance, shares : Balance]]
  /\ shares \in [Accounts -> [Pools -> Balance]]
  /\ total \in [Kinds -> Balance] /\ netFlow \in [Subnets -> Int]
BondsOK ==
  /\ DOMAIN ledger = Accounts
  /\ \A a \in Accounts : IsLedger(ledger[a])
  /\ unbonding \in Balance
QueueOK ==
  /\ order \in Seq(Nat) /\ nextId \in Nat
  /\ DOMAIN calls \subseteq Nat
  /\ \A i \in DOMAIN calls : calls[i] \in SwapItem
TimeOK == block \in Nat /\ phase \in {"calls", "swaps"} /\ left \in Nat
RestOK ==
  /\ paused \in BOOLEAN /\ live \subseteq Pools
  /\ free \in [Accounts -> Balance] /\ lastTx \in [Accounts -> Nat]

(* Every variable has its type: amounts and shares fit u128, ledgers and   *)
(* the swap queue are well formed.                                         *)
TypeOK == PoolsOK /\ BondsOK /\ QueueOK /\ TimeOK /\ RestOK

InAccounts == SumFunction(free)
InPools    == SumFunction([p \in Pools |-> pool[p].balance])
InLedgers  == SumFunction([a \in Accounts |-> SumFunction(ledger[a])])
InQueue    == SumFunction([i \in DOMAIN calls |-> calls[i].balance])
Supply     == Cardinality(Accounts) * InitialBalance

(* Tokens are neither created nor lost by any sequence of deposits,        *)
(* withdrawals, swaps, claims and transfers: what accounts, pools,         *)
(* unbonding ledgers and queued swaps hold is the initial supply and the   *)
(* rewards, less the amounts of swaps that bought no share.                *)
Conservation == InAccounts + InPools + InLedgers + InQueue = Supply + minted - dropped

SharesHeld(p) == SumFunction([a \in Accounts |-> shares[a][p]])

(* No account's claim on a pool is unbacked: the pool's shares are those   *)
(* of the accounts and the dead ones, which come in mints of MIN_LIQUIDITY *)
(* and are there from the pool's first deposit on.                         *)
SharesBacked == \A p \in Pools :
  LET dead == pool[p].shares - SharesHeld(p)
  IN  /\ dead >= 0 /\ dead % MIN_LIQUIDITY = 0
      /\ (pool[p].shares # 0 \/ pool[p].balance # 0) => dead >= MIN_LIQUIDITY

(* If every delegator of a pool withdrew at today's price, the pool could  *)
(* pay them all: the conversions round in the pool's favour.               *)
PoolsSolvent == \A p \in Pools :
  SumFunction([a \in Accounts |-> BalanceOf(shares[a][p], p)]) <= pool[p].balance

(* The running totals the pallet reads instead of iterating agree with     *)
(* what they count, after any interleaving of calls and hooks.             *)
TotalsAgree ==
  /\ \A k \in Kinds : total[k] = SumFunction([p \in PoolsOf(k) |-> pool[p].balance])
  /\ unbonding = InLedgers

(* The books balance: tokens are conserved, pools can pay their delegators *)
(* and the totals agree, after every call and in the middle of every hook. *)
BooksBalance == Conservation /\ PoolsSolvent /\ TotalsAgree

(* No ledger outgrows MaxUnbondings, however withdrawals, merges and       *)
(* claims forced by a full ledger follow each other.                       *)
LedgersBounded == \A a \in Accounts : Cardinality(DOMAIN ledger[a]) <= MaxUnbondings

(* SwapQueueOrder and SwapCallQueue describe one queue: no id twice, an    *)
(* item for every id and no other, ids and ages in order, the capacity     *)
(* kept.  The hook only ever looks at the head, so a missing item there    *)
(* would stop all swaps for good.                                          *)
QueueCoherent ==
  /\ DOMAIN calls = Range(order)
  /\ Len(order) <= MaxSwapQueueLength
  /\ \A i \in 1 .. Len(order) : order[i] < nextId /\ calls[order[i]].queued_at <= block
  /\ \A i, j \in 1 .. Len(order) : i < j =>
       order[i] < order[j] /\ calls[order[i]].queued_at <= calls[order[j]].queued_at

KeepsItsPlace(i) ==
  /\ calls'[i].balance = calls[i].balance
  /\ calls'[i].queued_at = calls[i].queued_at
LeavesInTurn(i) ==
  /\ phase = "swaps" /\ ~paused /\ i = Head(order)
  /\ block >= calls[i].queued_at + EpochLength
SwapWaits == \A i \in DOMAIN calls :
  IF i \in DOMAIN calls' THEN KeepsItsPlace(i) ELSE LeavesInTurn(i)

(* A queued swap keeps its amount and its age until it leaves the queue,   *)
(* and it leaves from the head, in a hook, an epoch after it was queued or *)
(* later: no update, pause or crowding of the queue changes that.          *)
SwapsWaitAnEpoch == [][SwapWaits]_vars

LedgerMatures == \A a \in Accounts : \A c \in DOMAIN ledger[a] : c > block =>
  c \in DOMAIN ledger'[a] /\ ledger'[a][c] >= ledger[a][c]

(* Unbonding stake is never released before its cooldown, nor shrinks: an  *)
(* entry whose block has not come survives every step with at least its    *)
(* amount, also the claim that a full ledger forces on a withdrawal.       *)
UnbondingMatures == [][LedgerMatures]_vars

(* Nobody's stake is diluted: while a pool holds tokens no step of anyone  *)
(* lowers the price of a share, however deposits, withdrawals and rewards  *)
(* round.                                                                  *)
PriceNeverFalls ==
  [][\A p \in Pools : pool[p].balance # 0 =>
       (pool'[p].balance + 1) * (pool[p].shares + VirtualShares)
         >= (pool[p].balance + 1) * (pool'[p].shares + VirtualShares)]_vars

Overdue(i) == block - (calls[order[i]].queued_at + EpochLength)

(* As long as the network was not paused and every block had weight to     *)
(* spare, the queue has drained as fast as it promises: the swap in        *)
(* position i is overdue by no more blocks than it takes to execute a full *)
(* queue down to it.                                                       *)
SwapsAreTimely ==
  (phase = "calls" /\ npauses = 0 /\ ~short) =>
    \A i \in 1 .. Len(order) : Overdue(i) >= 0 =>
      (Overdue(i) + 1) * MaxSwapQueueCallsPerBlock + i <= MaxSwapQueueLength

(***************************************************************************)
(* The queue as SwapQueue describes it, which leaves out what is swapped:  *)
(* an entry waits until it is an epoch old.                                *)
(***************************************************************************)
DueAt(item) == item.queued_at + EpochLength
WaitOf(item) == IF DueAt(item) > block THEN DueAt(item) - block ELSE 0
Waiting == [i \in 1 .. Len(order) |-> [id |-> order[i], wait |-> WaitOf(calls[order[i]])]]

Queue == INSTANCE SwapQueue WITH
  Ids <- 0 .. MaxCalls, Delay <- EpochLength, Capacity <- MaxSwapQueueLength,
  PerBlock <- MaxSwapQueueCallsPerBlock, Budgets <- HookBudgets,
  queue <- Waiting, paused <- paused, phase <- phase, left <- left

(* Staking implements SwapQueue: whatever else calls and hooks do, to the  *)
(* two maps the queue is kept in and to the items in them, is a step of    *)
(* that specification or leaves its queue alone.                           *)
SwapQueueImplemented == Queue!Spec
================================================================================

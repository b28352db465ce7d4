----------------------------- MODULE StakingProofs -----------------------------
(***************************************************************************)
(* Proofs about Staking, for every number of accounts, pools, calls and    *)
(* blocks, every epoch length and every capacity of queue and ledger.      *)
(***************************************************************************)
EXTENDS Staking, FiniteSetTheorems, SequenceTheorems, WellFoundedInduction, TLAPS

USE DEF Balance

(* Saturating addition stays within u128 whatever it adds.                 *)
LEMMA SatAddType == \A x, y : SatAdd(x, y) \in Balance
  BY MaxBalanceAssumption DEF SatAdd

(* Saturating subtraction stays within u128 whatever it takes away.        *)
LEMMA SatSubType == \A x, y : SatSub(x, y) \in Balance
  BY MaxBalanceAssumption DEF SatSub

(* A conversion of shares into tokens or back is an u128.                  *)
LEMMA ConvertType == ASSUME NEW x \in Balance, NEW S, NEW B
                     PROVE  /\ convert_to_shares(x, S, B) \in Balance
                            /\ convert_to_balance(x, S, B) \in Balance
<1>1. \A u, v, w : MulDiv(u, v, w) \in Balance
  BY MaxBalanceAssumption DEF MulDiv
<1> QED BY <1>1 DEF convert_to_shares, convert_to_balance
--------------------------------------------------------------------------------
(***************************************************************************)
(* The calls with any amount a u128 can hold, not only those of Amounts    *)
(* and ShareAmounts: the precompiles make them too.                        *)
(***************************************************************************)
AnyDeposit == \E a \in Accounts, x \in Balance, p \in Pools :
  add_delegate_stake(a, p, x) \/ donate(a, p, x)

AnyWithdrawal == \E a \in Accounts :
  claim_unbondings(a) \/ \E n \in Balance, p \in Pools : remove_delegate_stake(a, p, n)

AnyTransfer == \E a \in Accounts, to \in Accounts, n \in Balance, p \in Pools :
  transfer_delegate_stake(a, to, p, n)

AnySwap == \E a \in Accounts :
  \/ \E n \in Balance, from \in Pools, to \in Pools : do_swap(a, from, to, n)
  \/ \E id \in DOMAIN calls, to \in Pools : update_swap_queue(a, id, to)

AnyCall == AnyDeposit \/ AnyWithdrawal \/ AnyTransfer \/ AnySwap
AnyNext == AnyCall \/ Hook \/ Environment

(* The steps that transfer nothing.                                        *)
NoTransfer == AnyDeposit \/ AnyWithdrawal \/ AnySwap \/ Hook \/ Environment
--------------------------------------------------------------------------------
(***************************************************************************)
(* What each group of calls leaves alone.                                  *)
(***************************************************************************)

(* Deposits and donations touch neither queue nor ledgers nor the clock.   *)
LEMMA DepositsFrame ==
  ASSUME Deposits
  PROVE  /\ UNCHANGED <<queueVars, bondVars, timeVars, histVars, paused, live>>
         /\ ncalls' = ncalls + 1
BY DEF Deposits, add_delegate_stake, donate_delegate_stake,
   add_validator_delegate_stake, donate_validator_delegate_stake, donate, Call

(* Withdrawals and claims touch neither queue nor clock.                   *)
LEMMA WithdrawalsFrame ==
  ASSUME Withdrawals
  PROVE  /\ UNCHANGED <<queueVars, timeVars, histVars, paused, live>>
         /\ ncalls' = ncalls + 1
BY DEF Withdrawals, claim_unbondings, remove_delegate_stake,
   remove_validator_delegate_stake, Call

(* Transfers touch pools and shares only.                                  *)
LEMMA TransfersFrame ==
  ASSUME Transfers
  PROVE  /\ UNCHANGED <<queueVars, bondVars, timeVars, histVars, paused, live, free>>
         /\ ncalls' = ncalls + 1
BY DEF Transfers, transfer_delegate_stake, transfer_validator_delegate_stake, Call

(* The four swaps are one, between pools of any kind.                      *)
LEMMA SwapsAre ==
  ASSUME Swaps
  PROVE  \E a \in Accounts :
           \/ \E n \in ShareAmounts, from \in Pools, to \in Pools : do_swap(a, from, to, n)
           \/ \E id \in DOMAIN calls, to \in Pools : update_swap_queue(a, id, to)
<1>1. \A x : x \in Subnets \/ x \in Validators => x \in Pools
  BY DEF Pools
<1>2. PICK a \in Accounts :
        \/ \E n \in ShareAmounts :
             \/ \E s, t \in Subnets : swap_from_subnet_to_subnet(a, s, t, n)
             \/ \E s \in Subnets, v \in Validators :
                  \/ swap_from_subnet_to_validator(a, s, v, n)
                  \/ swap_from_validator_to_subnet(a, v, s, n)
             \/ \E v, w \in Validators : swap_from_validator_to_validator(a, v, w, n)
        \/ \E id \in DOMAIN calls, to \in Pools : update_swap_queue(a, id, to)
  BY DEF Swaps
<1>3. CASE \E n \in ShareAmounts :
             \/ \E s, t \in Subnets : swap_from_subnet_to_subnet(a, s, t, n)
             \/ \E s \in Subnets, v \in Validators :
                  \/ swap_from_subnet_to_validator(a, s, v, n)
                  \/ swap_from_validator_to_subnet(a, v, s, n)
             \/ \E v, w \in Validators : swap_from_validator_to_validator(a, v, w, n)
  <2>1. \E n \in ShareAmounts, from \in Pools, to \in Pools : do_swap(a, from, to, n)
    BY <1>1, <1>3, Zenon DEF swap_from_subnet_to_subnet, swap_from_subnet_to_validator,
       swap_from_validator_to_subnet, swap_from_validator_to_validator
  <2> QED BY <2>1
<1> QED BY <1>2, <1>3

(* Swaps and updates touch pools and queue only.                           *)
LEMMA SwapsFrame ==
  ASSUME Swaps
  PROVE  /\ UNCHANGED <<bondVars, timeVars, histVars, paused, live, free>>
         /\ ncalls' = ncalls + 1
BY SwapsAre DEF do_swap, update_swap_queue, Call

(* A step of the specification is one of these.                            *)
LEMMA NextIsAny == Next => AnyNext
<1>1. /\ \A x : x \in Subnets \/ x \in Validators => x \in Pools
      /\ \A x : x \in Amounts \/ x \in ShareAmounts => x \in Balance
  BY StakingAssumption DEF Pools
<1>2. Deposits => AnyDeposit
  BY <1>1, Zenon DEF Deposits, AnyDeposit, add_delegate_stake, donate_delegate_stake,
     add_validator_delegate_stake, donate_validator_delegate_stake
<1>3. Withdrawals => AnyWithdrawal
  BY <1>1, Zenon DEF Withdrawals, AnyWithdrawal, remove_delegate_stake,
     remove_validator_delegate_stake
<1>4. Transfers => AnyTransfer
  BY <1>1, Zenon DEF Transfers, AnyTransfer, transfer_delegate_stake,
     transfer_validator_delegate_stake
<1>5. Swaps => AnySwap
  BY <1>1, SwapsAre, Zenon DEF AnySwap
<1> QED BY <1>2, <1>3, <1>4, <1>5 DEF Next, AnyNext, AnyCall

(* Deposits and donations of any amount keep queue, ledgers and clock.     *)
LEMMA AnyDepositFrame ==
  ASSUME AnyDeposit
  PROVE  UNCHANGED <<queueVars, bondVars, timeVars, histVars, paused, live>>
BY DEF AnyDeposit, add_delegate_stake, donate

(* Withdrawals of any amount keep queue and clock.                         *)
LEMMA AnyWithdrawalFrame ==
  ASSUME AnyWithdrawal
  PROVE  UNCHANGED <<queueVars, timeVars, histVars, paused, live>>
BY DEF AnyWithdrawal, claim_unbondings, remove_delegate_stake

(* Transfers of any amount keep all but pools and shares.                  *)
LEMMA AnyTransferFrame ==
  ASSUME AnyTransfer
  PROVE  UNCHANGED <<queueVars, bondVars, timeVars, histVars, paused, live, free>>
BY DEF AnyTransfer, transfer_delegate_stake

(* Swaps of any amount keep ledgers and clock.                             *)
LEMMA AnySwapFrame ==
  ASSUME AnySwap
  PROVE  UNCHANGED <<bondVars, timeVars, histVars, paused, live, free>>
BY DEF AnySwap, do_swap, update_swap_queue

(* The hook touches no ledger and no account.                              *)
LEMMA HookFrame ==
  ASSUME Hook
  PROVE  UNCHANGED <<bondVars, nextId, paused, live, free, ncalls>>
BY DEF Hook, NewBlock, NewBlockWhilePaused, ExecuteSwap, HookDone, queueVars

(* Pauses, removals and registrations touch no stake.                      *)
LEMMA EnvironmentFrame ==
  ASSUME Environment
  PROVE  UNCHANGED <<poolVars, queueVars, bondVars, timeVars, minted, dropped, free>>
BY DEF Environment, do_pause, do_unpause, do_remove_subnet, do_register_validator,
   histVars

(* Only withdrawals change a ledger.                                       *)
LEMMA LedgersFrame ==
  ASSUME \/ Deposits \/ Transfers \/ Swaps \/ Hook \/ Environment
         \/ AnyDeposit \/ AnyTransfer \/ AnySwap
  PROVE  UNCHANGED ledger
BY DepositsFrame, TransfersFrame, SwapsFrame, HookFrame, EnvironmentFrame,
   AnyDepositFrame, AnyTransferFrame, AnySwapFrame DEF bondVars
--------------------------------------------------------------------------------
(***************************************************************************)
(* What the helpers of the calls do to the types.                          *)
(***************************************************************************)

(* increase_account_delegate_stake keeps the pools' types.                 *)
LEMMA IncreaseType ==
  ASSUME PoolsOK, NEW a \in Accounts, NEW p \in Pools, NEW base,
         NEW amount \in Balance, NEW n,
         increase_account_delegate_stake(a, p, base, amount, n)
  PROVE  PoolsOK'
<1>1. pool' \in [Pools -> [balance : Balance, shares : Balance]]
  BY SatAddType DEF PoolsOK, increase_account_delegate_stake
<1>2. shares' \in [Accounts -> [Pools -> Balance]]
  BY SatAddType DEF PoolsOK, increase_account_delegate_stake
<1>3. total' \in [Kinds -> Balance]
  BY SatAddType DEF PoolsOK, increase_account_delegate_stake
<1>4. netFlow' \in [Subnets -> Int]
  BY MaxBalanceAssumption DEF PoolsOK, increase_account_delegate_stake
<1> QED BY <1>1, <1>2, <1>3, <1>4 DEF PoolsOK

(* decrease_account_delegate_stake keeps the pools' types.                 *)
LEMMA DecreaseType ==
  ASSUME PoolsOK, NEW a \in Accounts, NEW p \in Pools, NEW amount \in Balance, NEW n,
         decrease_account_delegate_stake(a, p, amount, n)
  PROVE  PoolsOK'
<1>1. pool' \in [Pools -> [balance : Balance, shares : Balance]]
  BY SatSubType DEF PoolsOK, decrease_account_delegate_stake
<1>2. shares' \in [Accounts -> [Pools -> Balance]]
  BY SatSubType DEF PoolsOK, decrease_account_delegate_stake
<1>3. total' \in [Kinds -> Balance]
  BY SatSubType DEF PoolsOK, decrease_account_delegate_stake
<1>4. netFlow' \in [Subnets -> Int]
  BY MaxBalanceAssumption DEF PoolsOK, decrease_account_delegate_stake
<1> QED BY <1>1, <1>2, <1>3, <1>4 DEF PoolsOK

(* Adding to, or claiming from, a ledger keeps it a ledger.                *)
LEMMA LedgerType ==
  ASSUME NEW l, IsLedger(l), NEW S \in SUBSET DOMAIN l, NEW c \in Nat,
         NEW amount \in Balance
  PROVE  /\ IsLedger(Restrict(l, S))
         /\ IsLedger(Deposited(l, c, amount))
  BY SatAddType DEF IsLedger, Restrict, Deposited, Put

(* An unbonding, with the claim a full ledger forces, keeps the types.     *)
LEMMA UnbondType ==
  ASSUME BondsOK, free \in [Accounts -> Balance], NEW claim \in Nat,
         NEW a \in Accounts, NEW amount \in Balance, Unbond(a, claim, amount)
  PROVE  BondsOK' /\ free' \in [Accounts -> Balance]
<1> DEFINE first == MustClaim(a, claim)
           kept  == IF first THEN Unclaimed(a) ELSE ledger[a]
<1>1. claim \in Nat
  OBVIOUS
<1>2. IsLedger(ledger[a])
  BY DEF BondsOK
<1>3. IsLedger(Unclaimed(a))
  BY <1>1, <1>2, LedgerType, MaxBalanceAssumption DEF Unclaimed
<1>4. IsLedger(kept)
  BY <1>2, <1>3
<1>5. IsLedger(Deposited(kept, claim, amount))
  BY <1>1, <1>4, LedgerType
<1>6. ledger' = [ledger EXCEPT ![a] = Deposited(kept, claim, amount)]
  BY DEF Unbond
<1>7. unbonding' \in Balance
  BY SatAddType DEF Unbond
<1>8. free' \in [Accounts -> Balance]
  BY SatAddType DEF Unbond
<1> HIDE DEF first, kept
<1> QED BY <1>5, <1>6, <1>7, <1>8 DEF BondsOK

(* So does a claim.                                                        *)
LEMMA ClaimType ==
  ASSUME BondsOK, free \in [Accounts -> Balance], NEW a \in Accounts,
         do_claim_unbondings(a)
  PROVE  BondsOK' /\ free' \in [Accounts -> Balance]
<1>1. IsLedger(Unclaimed(a))
  BY LedgerType, MaxBalanceAssumption DEF BondsOK, Unclaimed
<1>2. unbonding' \in Balance /\ free' \in [Accounts -> Balance]
  BY SatAddType, SatSubType DEF do_claim_unbondings
<1> QED BY <1>1, <1>2 DEF BondsOK, do_claim_unbondings

(* A withdrawal from a free balance that allows it leaves a balance.       *)
LEMMA WithdrawType ==
  ASSUME free \in [Accounts -> Balance], NEW a \in Accounts, NEW amount \in Balance,
         can_withdraw(a, amount), withdraw(a, amount)
  PROVE  free' \in [Accounts -> Balance]
  BY MaxBalanceAssumption, StakingAssumption DEF can_withdraw, withdraw

(* queue_swap keeps the queue's types.                                     *)
LEMMA QueueSwapType ==
  ASSUME QueueOK, block \in Nat, NEW a \in Accounts, NEW to \in Pools,
         NEW amount \in Balance, queue_swap(a, to, amount)
  PROVE  QueueOK'
<1>1. QueuedSwapItem(a, to, amount) \in SwapItem
  BY DEF QueuedSwapItem, SwapItem
<1>2. order' \in Seq(Nat) /\ nextId' \in Nat
  BY DEF QueueOK, queue_swap
<1>3. DOMAIN calls' \subseteq Nat /\ \A i \in DOMAIN calls' : calls'[i] \in SwapItem
  BY <1>1 DEF QueueOK, queue_swap, Put
<1> QED BY <1>2, <1>3 DEF QueueOK
--------------------------------------------------------------------------------
(***************************************************************************)
(* Type correctness.                                                       *)
(***************************************************************************)

(* The parts of the type invariant a step does not touch.                  *)
LEMMA FrameType ==
  ASSUME TypeOK
  PROVE  /\ UNCHANGED poolVars => PoolsOK'
         /\ UNCHANGED bondVars => BondsOK'
         /\ UNCHANGED queueVars => QueueOK'
         /\ UNCHANGED timeVars => TimeOK'
<1>1. UNCHANGED poolVars => PoolsOK'
  BY DEF TypeOK, poolVars, PoolsOK
<1>2. UNCHANGED bondVars => BondsOK'
  BY DEF TypeOK, bondVars, BondsOK, IsLedger
<1>3. UNCHANGED queueVars => QueueOK'
  BY DEF TypeOK, queueVars, QueueOK
<1>4. UNCHANGED timeVars => TimeOK'
  BY DEF TypeOK, timeVars, TimeOK
<1> QED BY <1>1, <1>2, <1>3, <1>4

(* The initial state is typed.                                             *)
LEMMA InitType == Init => TypeOK
<1> SUFFICES ASSUME Init PROVE TypeOK
  OBVIOUS
<1>1. PoolsOK
  BY MaxBalanceAssumption DEF Init, PoolsOK, EmptyPool
<1>2. BondsOK
  BY MaxBalanceAssumption DEF Init, BondsOK, IsLedger, EmptyMap
<1>3. QueueOK
  BY DEF Init, QueueOK, EmptyMap
<1>4. TimeOK /\ RestOK
  BY StakingAssumption DEF Init, TimeOK, RestOK
<1> QED BY <1>1, <1>2, <1>3, <1>4 DEF TypeOK

(* A deposit keeps the types.                                              *)
LEMMA DepositType ==
  ASSUME TypeOK, NEW a \in Accounts, NEW p \in Pools, NEW x \in Balance,
         perform_do_add_delegate_stake(a, p, x),
         UNCHANGED <<queueVars, bondVars, timeVars, paused, live>>
  PROVE  TypeOK'
<1>1. x \in Balance
  OBVIOUS
<1>2. PoolsOK'
  BY <1>1, IncreaseType DEF TypeOK, perform_do_add_delegate_stake,
     handle_increase_account_delegate_stake
<1>3. free' \in [Accounts -> Balance]
  BY <1>1, WithdrawType DEF TypeOK, RestOK, perform_do_add_delegate_stake
<1>4. lastTx' \in [Accounts -> Nat]
  BY DEF TypeOK, TimeOK, RestOK, perform_do_add_delegate_stake
<1> QED BY <1>2, <1>3, <1>4, FrameType DEF TypeOK, RestOK

(* A withdrawal into the unbonding ledger keeps the types.                 *)
LEMMA RemoveType ==
  ASSUME TypeOK, NEW a \in Accounts, NEW p \in Pools, NEW n \in Balance,
         do_remove_delegate_stake(a, p, n),
         UNCHANGED <<queueVars, timeVars, paused, live>>
  PROVE  TypeOK'
<1>1. BalanceOf(n, p) \in Balance
  BY ConvertType DEF BalanceOf
<1>2. PoolsOK'
  BY <1>1, DecreaseType DEF TypeOK, do_remove_delegate_stake,
     perform_do_remove_delegate_stake
<1>3. BondsOK' /\ free' \in [Accounts -> Balance]
  <2>1. block + Cooldown \in Nat
    BY StakingAssumption DEF Cooldown, TypeOK, TimeOK
  <2>2. PICK claim \in Nat, v \in Balance : claim = block + Cooldown /\ v = BalanceOf(n, p)
    BY <1>1, <2>1
  <2>3. Unbond(a, claim, v)
    BY <2>2 DEF do_remove_delegate_stake, add_balance_to_unbonding_ledger
  <2> QED BY <2>3, UnbondType DEF TypeOK, RestOK
<1>4. lastTx' \in [Accounts -> Nat]
  BY DEF TypeOK, TimeOK, RestOK, do_remove_delegate_stake
<1> QED BY <1>2, <1>3, <1>4, FrameType DEF TypeOK, RestOK

(* A donation keeps the types.                                             *)
LEMMA DonateType ==
  ASSUME TypeOK, NEW a \in Accounts, NEW p \in Pools, NEW x \in Balance,
         donate(a, p, x)
  PROVE  TypeOK'
<1>1. x \in Balance
  OBVIOUS
<1>2. do_increase_delegate_stake(pool[p], x) \in [balance : Balance, shares : Balance]
  BY SatAddType DEF do_increase_delegate_stake, TypeOK, PoolsOK
<1>3. PoolsOK'
  BY <1>2, SatAddType DEF TypeOK, PoolsOK, donate
<1>4. free' \in [Accounts -> Balance]
  BY <1>1, WithdrawType DEF TypeOK, RestOK, donate
<1> QED BY <1>3, <1>4, FrameType DEF TypeOK, RestOK, donate

(* A transfer of shares keeps the types.                                   *)
LEMMA TransferType ==
  ASSUME TypeOK, NEW a \in Accounts, NEW to \in Accounts, NEW p \in Pools, NEW n,
         do_transfer_delegate_stake(a, to, p, n),
         UNCHANGED <<queueVars, bondVars, timeVars, paused, live, free, lastTx>>
  PROVE  TypeOK'
<1>1. pool' \in [Pools -> [balance : Balance, shares : Balance]]
  BY SatAddType DEF TypeOK, PoolsOK, do_transfer_delegate_stake
<1>2. shares' \in [Accounts -> [Pools -> Balance]]
  BY SatAddType, SatSubType DEF TypeOK, PoolsOK, do_transfer_delegate_stake
<1>3. PoolsOK'
  BY <1>1, <1>2 DEF TypeOK, PoolsOK, do_transfer_delegate_stake
<1> QED BY <1>3, FrameType DEF TypeOK, RestOK

(* Queueing a swap keeps the types.                                        *)
LEMMA SwapType ==
  ASSUME TypeOK, NEW a \in Accounts, NEW from \in Pools, NEW to \in Pools,
         NEW n \in Balance, do_swap(a, from, to, n)
  PROVE  TypeOK'
<1>1. BalanceOf(n, from) \in Balance
  BY ConvertType DEF BalanceOf
<1>2. PoolsOK'
  BY <1>1, DecreaseType DEF TypeOK, do_swap, perform_do_remove_delegate_stake
<1>3. QueueOK'
  BY <1>1, QueueSwapType DEF TypeOK, TimeOK, do_swap
<1> QED BY <1>2, <1>3, FrameType DEF TypeOK, RestOK, do_swap

(* Retargeting a queued swap keeps the types.                              *)
LEMMA UpdateType ==
  ASSUME TypeOK, NEW a \in Accounts, NEW id \in DOMAIN calls, NEW to \in Pools,
         update_swap_queue(a, id, to)
  PROVE  TypeOK'
<1>1. calls' = [calls EXCEPT ![id].account = a, ![id].to = to]
  BY DEF update_swap_queue
<1>2. \A i \in DOMAIN calls' : calls'[i] \in SwapItem
  BY <1>1 DEF TypeOK, QueueOK, SwapItem
<1>3. QueueOK'
  BY <1>1, <1>2 DEF TypeOK, QueueOK, update_swap_queue
<1> QED BY <1>3, FrameType DEF TypeOK, RestOK, update_swap_queue

(* The part of the hook before the swap queue keeps the types.             *)
LEMMA NewBlockType ==
  ASSUME TypeOK, NewBlock
  PROVE  TypeOK'
<1>1. netFlow' \in [Subnets -> Int]
  BY DEF TypeOK, PoolsOK, NewBlock, TakeNetFlows
<1>2. /\ pool' \in [Pools -> [balance : Balance, shares : Balance]]
      /\ total' \in [Kinds -> Balance]
  <2>1. CASE UNCHANGED <<pool, total, minted>>
    BY <2>1 DEF TypeOK, PoolsOK
  <2>2. ASSUME NEW plan \in EmissionPlans, distribute_rewards(plan)
        PROVE  /\ pool' \in [Pools -> [balance : Balance, shares : Balance]]
               /\ total' \in [Kinds -> Balance]
    <3>1. \A p \in Pools : do_increase_delegate_stake(pool[p], plan[p])
                             \in [balance : Balance, shares : Balance]
      BY SatAddType DEF do_increase_delegate_stake, TypeOK, PoolsOK
    <3>2. pool' \in [Pools -> [balance : Balance, shares : Balance]]
      BY <2>2, <3>1 DEF distribute_rewards, TypeOK, PoolsOK
    <3>3. total' \in [Kinds -> Balance]
      BY <2>2, SatAddType DEF distribute_rewards
    <3> QED BY <3>2, <3>3
  <2> QED BY <2>1, <2>2 DEF NewBlock
<1>3. PoolsOK'
  BY <1>1, <1>2 DEF TypeOK, PoolsOK, NewBlock
<1>4. TimeOK'
  BY StakingAssumption DEF TypeOK, TimeOK, NewBlock
<1> QED BY <1>3, <1>4, FrameType DEF TypeOK, RestOK, NewBlock

(* An iteration of the swap loop keeps the types.                          *)
LEMMA ExecuteSwapType ==
  ASSUME TypeOK, QueueCoherent, ExecuteSwap
  PROVE  TypeOK'
<1> DEFINE item == calls[Head(order)]
<1>1. order # <<>> /\ Head(order) \in DOMAIN calls
  BY DEF TypeOK, QueueOK, QueueCoherent, Range, ExecuteSwap, HeadReady
<1>2. item \in SwapItem
  BY <1>1 DEF TypeOK, QueueOK
<1>3. PoolsOK'
  <2>1. CASE handle_increase_account_delegate_stake(item.account, item.to, item.balance)
    BY <2>1, <1>2, IncreaseType DEF TypeOK, SwapItem,
       handle_increase_account_delegate_stake
  <2>2. CASE /\ pool' = [pool EXCEPT ![item.to] = MintDeadShares(@)]
             /\ UNCHANGED <<shares, total, netFlow>>
    BY <2>2, <1>2, SatAddType DEF TypeOK, PoolsOK, SwapItem, MintDeadShares
  <2> QED BY <2>1, <2>2 DEF ExecuteSwap, execute_swap_call_internal
<1>4. QueueOK'
  BY <1>1 DEF TypeOK, QueueOK, ExecuteSwap, Dequeue, Restrict
<1>5. TimeOK'
  BY DEF TypeOK, TimeOK, ExecuteSwap
<1> QED BY <1>3, <1>4, <1>5, FrameType DEF TypeOK, RestOK, ExecuteSwap

(* Every step keeps the types, in a state with a coherent queue.           *)
LEMMA NextType == TypeOK /\ QueueCoherent /\ [AnyNext]_vars => TypeOK'
<1> SUFFICES ASSUME TypeOK, QueueCoherent, [AnyNext]_vars PROVE TypeOK'
  OBVIOUS
<1>0. Subnets \subseteq Pools /\ Validators \subseteq Pools
  BY DEF Pools
<1>1. CASE AnyDeposit
  BY <1>1, DepositType, DonateType DEF AnyDeposit, add_delegate_stake
<1>2. CASE AnyWithdrawal
  <2>1. ASSUME NEW a \in Accounts, claim_unbondings(a)
        PROVE  TypeOK'
    <3>1. BondsOK' /\ free' \in [Accounts -> Balance]
      BY <2>1, ClaimType DEF TypeOK, RestOK, claim_unbondings
    <3> QED BY <2>1, <3>1, FrameType DEF TypeOK, RestOK, claim_unbondings
  <2>2. ASSUME NEW a \in Accounts, NEW n \in Balance, NEW p \in Pools,
               remove_delegate_stake(a, p, n)
        PROVE  TypeOK'
    BY <2>2, RemoveType DEF remove_delegate_stake
  <2> QED BY <1>2, <2>1, <2>2 DEF AnyWithdrawal
<1>3. CASE AnyTransfer
  BY <1>3, TransferType DEF AnyTransfer, transfer_delegate_stake
<1>4. CASE AnySwap
  BY <1>4, SwapType, UpdateType DEF AnySwap
<1>5. CASE Hook
  <2>1. CASE NewBlock
    BY <2>1, NewBlockType
  <2>2. CASE NewBlockWhilePaused
    <3>1. TimeOK'
      BY <2>2 DEF TypeOK, TimeOK, NewBlockWhilePaused
    <3> QED BY <2>2, <3>1, FrameType DEF TypeOK, RestOK, NewBlockWhilePaused
  <2>3. CASE ExecuteSwap
    BY <2>3, ExecuteSwapType
  <2>4. CASE HookDone
    <3>1. TimeOK'
      BY <2>4 DEF TypeOK, TimeOK, HookDone
    <3> QED BY <2>4, <3>1, FrameType DEF TypeOK, RestOK, HookDone
  <2> QED BY <1>5, <2>1, <2>2, <2>3, <2>4 DEF Hook
<1>6. CASE Environment
  <2>1. CASE do_pause \/ do_unpause
    BY <2>1, FrameType DEF TypeOK, RestOK, do_pause, do_unpause
  <2>2. ASSUME NEW s \in Subnets, do_remove_subnet(s)
        PROVE  TypeOK'
    BY <2>2, FrameType DEF TypeOK, RestOK, do_remove_subnet
  <2>3. ASSUME NEW v \in Validators, do_register_validator(v)
        PROVE  TypeOK'
    BY <1>0, <2>3, FrameType DEF TypeOK, RestOK, do_register_validator
  <2> QED BY <1>6, <2>1, <2>2, <2>3 DEF Environment
<1>7. CASE UNCHANGED vars
  BY <1>7, FrameType DEF vars, TypeOK, RestOK
<1> QED BY <1>1, <1>2, <1>3, <1>4, <1>5, <1>6, <1>7 DEF AnyNext, AnyCall
--------------------------------------------------------------------------------
(***************************************************************************)
(* The swap queue.                                                         *)
(***************************************************************************)

(* The invariant that is inductive: an iteration of the hook needs to know *)
(* that the head of the order has an item, QueueCoherent needs types, and  *)
(* no pause falls into a running hook.                                     *)
HookUninterrupted == phase = "swaps" => ~paused
Inv == TypeOK /\ QueueCoherent /\ HookUninterrupted

(* Nothing but the queue operations can disturb the queue: time only moves *)
(* forward.                                                                *)
LEMMA QueueFrame ==
  ASSUME Inv, UNCHANGED queueVars, block' \in Nat, block' >= block
  PROVE  QueueCoherent'
<1>1. \A i \in 1 .. Len(order) : calls[order[i]].queued_at \in Nat
  BY DEF Inv, TypeOK, QueueOK, QueueCoherent, Range, SwapItem
<1> QED BY <1>1 DEF Inv, TypeOK, TimeOK, QueueCoherent, queueVars

(* A new swap goes to the end, with a new id and the newest age.           *)
LEMMA QueueSwapCoherent ==
  ASSUME Inv, NEW a \in Accounts, NEW to \in Pools, NEW amount,
         queue_swap(a, to, amount), UNCHANGED block
  PROVE  QueueCoherent'
<1> DEFINE n == Len(order)
<1>1. /\ order \in Seq(Nat) /\ nextId \in Nat /\ block \in Nat /\ n \in Nat
      /\ \A i \in 1 .. n : order[i] \in Nat
  BY DEF Inv, TypeOK, QueueOK, TimeOK
<1>2. /\ Len(order') = n + 1 /\ order'[n + 1] = nextId
      /\ \A i \in 1 .. n : order'[i] = order[i]
  BY <1>1 DEF queue_swap
<1>3. /\ DOMAIN calls' = DOMAIN calls \cup {nextId}
      /\ calls'[nextId].queued_at = block
      /\ \A i \in DOMAIN calls : i # nextId => calls'[i] = calls[i]
  BY DEF queue_swap, Put, QueuedSwapItem
<1>4. \A i \in 1 .. n : order[i] < nextId /\ order[i] \in DOMAIN calls
  BY <1>1 DEF Inv, QueueCoherent, Range
<1>5. \A i \in 1 .. n : calls'[order'[i]] = calls[order[i]]
  BY <1>1, <1>2, <1>3, <1>4
<1>6. DOMAIN calls' = Range(order')
  <2>1. DOMAIN order' = 1 .. n + 1 /\ DOMAIN order = 1 .. n
    BY <1>1, <1>2 DEF queue_swap
  <2>2. Range(order') = Range(order) \cup {nextId}
    BY <1>1, <1>2, <2>1 DEF Range
  <2> QED BY <1>3, <2>2 DEF Inv, QueueCoherent
<1>7. Len(order') <= MaxSwapQueueLength
  BY <1>1, <1>2, StakingAssumption DEF queue_swap
<1>8. nextId' = nextId + 1
  BY DEF queue_swap
<1>9. /\ \A i \in 1 .. n : calls[order[i]].queued_at <= block
      /\ \A i, j \in 1 .. n : i < j =>
           order[i] < order[j] /\ calls[order[i]].queued_at <= calls[order[j]].queued_at
  BY DEF Inv, QueueCoherent
<1> HIDE DEF n
<1>10. ASSUME NEW i \in 1 .. n + 1
       PROVE  order'[i] < nextId' /\ calls'[order'[i]].queued_at <= block'
  <2>1. CASE i = n + 1
    BY <1>1, <1>2, <1>3, <1>8, <2>1
  <2>2. CASE i \in 1 .. n
    <3>1. order'[i] = order[i] /\ calls'[order'[i]] = calls[order[i]]
      BY <1>2, <1>5, <2>2
    <3> QED BY <1>1, <1>4, <1>8, <1>9, <2>2, <3>1
  <2> QED BY <1>1, <2>1, <2>2
<1>11. ASSUME NEW i \in 1 .. n + 1, NEW j \in 1 .. n + 1, i < j
       PROVE  /\ order'[i] < order'[j]
              /\ calls'[order'[i]].queued_at <= calls'[order'[j]].queued_at
  <2>0. i \in 1 .. n /\ order'[i] = order[i] /\ calls'[order'[i]] = calls[order[i]]
    <3>1. i \in 1 .. n
      BY <1>1, <1>11
    <3> QED BY <1>2, <1>5, <3>1
  <2>1. CASE j = n + 1
    <3>1. order'[j] = nextId /\ calls'[order'[j]].queued_at = block
      BY <1>2, <1>3, <2>1
    <3> QED BY <1>4, <1>9, <2>0, <3>1
  <2>2. CASE j \in 1 .. n
    <3>1. order'[j] = order[j] /\ calls'[order'[j]] = calls[order[j]]
      BY <1>2, <1>5, <2>2
    <3> QED BY <1>9, <1>11, <2>0, <2>2, <3>1
  <2> QED BY <1>1, <2>1, <2>2
<1> QED BY <1>2, <1>6, <1>7, <1>10, <1>11 DEF QueueCoherent

(* An update keeps ids and ages.                                           *)
LEMMA UpdateCoherent ==
  ASSUME Inv, NEW a, NEW id \in DOMAIN calls, NEW to, update_swap_queue(a, id, to)
  PROVE  QueueCoherent'
<1>1. /\ DOMAIN calls' = DOMAIN calls
      /\ \A i \in DOMAIN calls : calls'[i].queued_at = calls[i].queued_at
  BY DEF update_swap_queue, Inv, TypeOK, QueueOK, SwapItem
<1>2. \A i \in 1 .. Len(order) : order[i] \in DOMAIN calls
  BY DEF Inv, TypeOK, QueueOK, QueueCoherent, Range
<1>3. UNCHANGED <<order, nextId, block>>
  BY DEF update_swap_queue, timeVars
<1> QED BY <1>1, <1>2, <1>3 DEF Inv, QueueCoherent

(* The hook takes the head from the order and from the items alike.        *)
LEMMA DequeueCoherent ==
  ASSUME Inv, order # <<>>, Dequeue, UNCHANGED <<nextId, block>>
  PROVE  QueueCoherent'
<1> DEFINE n == Len(order)
<1>1. order \in Seq(Nat) /\ n \in Nat /\ n > 0 /\ DOMAIN order = 1 .. n
  BY DEF Inv, TypeOK, QueueOK
<1>2. /\ order' = Tail(order) /\ Len(order') = n - 1 /\ Head(order) = order[1]
      /\ DOMAIN order' = 1 .. n - 1
      /\ \A i \in 1 .. n - 1 : order'[i] = order[i + 1]
  BY <1>1 DEF Dequeue
<1>3. ASSUME NEW i \in 1 .. n - 1
      PROVE  order[i + 1] # order[1] /\ order[i + 1] \in DOMAIN calls
  <2>1. 1 \in 1 .. n /\ i + 1 \in 1 .. n /\ 1 < i + 1 /\ i + 1 \in Nat
    BY <1>1
  <2>2. order[1] < order[i + 1] /\ order[1] \in Nat /\ order[i + 1] \in Nat
    BY <1>1, <2>1 DEF Inv, QueueCoherent
  <2>3. order[i + 1] \in DOMAIN calls
    BY <1>1, <2>1 DEF Inv, QueueCoherent, Range
  <2> QED BY <2>2, <2>3
<1>4. Range(order') = Range(order) \ {order[1]}
  <2>1. ASSUME NEW x \in Range(order) \ {order[1]} PROVE x \in Range(order')
    <3>1. PICK i \in 1 .. n : x = order[i]
      BY <1>1 DEF Range
    <3>2. i # 1 /\ i - 1 \in 1 .. n - 1 /\ order'[i - 1] = x
      BY <1>1, <1>2, <3>1
    <3> QED BY <1>2, <3>2 DEF Range
  <2>2. ASSUME NEW x \in Range(order') PROVE x \in Range(order) \ {order[1]}
    <3>1. PICK i \in 1 .. n - 1 : x = order'[i]
      BY <1>2 DEF Range
    <3>2. i + 1 \in 1 .. n /\ x = order[i + 1] /\ x # order[1]
      BY <1>1, <1>2, <1>3, <3>1
    <3> QED BY <1>1, <3>2 DEF Range
  <2> QED BY <2>1, <2>2
<1>5. /\ DOMAIN calls' = DOMAIN calls \ {order[1]}
      /\ \A i \in DOMAIN calls' : calls'[i] = calls[i]
  BY <1>2 DEF Dequeue, Restrict
<1>6. \A i \in 1 .. n - 1 : calls'[order'[i]] = calls[order[i + 1]]
  BY <1>1, <1>2, <1>3, <1>5
<1>7. DOMAIN calls' = Range(order') /\ Len(order') <= MaxSwapQueueLength
  BY <1>1, <1>2, <1>4, <1>5, StakingAssumption DEF Inv, QueueCoherent
<1>8. \A i \in 1 .. n - 1 :
        order'[i] < nextId' /\ calls'[order'[i]].queued_at <= block'
  BY <1>1, <1>2, <1>6 DEF Inv, QueueCoherent
<1>9. \A i, j \in 1 .. n - 1 : i < j =>
        order'[i] < order'[j] /\ calls'[order'[i]].queued_at <= calls'[order'[j]].queued_at
  BY <1>1, <1>2, <1>6 DEF Inv, QueueCoherent
<1> QED BY <1>2, <1>7, <1>8, <1>9 DEF QueueCoherent

(* Every step keeps the queue coherent.                                    *)
LEMMA NextCoherent == Inv /\ [AnyNext]_vars => QueueCoherent'
<1> SUFFICES ASSUME Inv, [AnyNext]_vars PROVE QueueCoherent'
  OBVIOUS
<1>0. block \in Nat
  BY DEF Inv, TypeOK, TimeOK
<1>1. CASE AnyDeposit \/ AnyWithdrawal \/ AnyTransfer \/ Environment
  <2>1. UNCHANGED <<queueVars, timeVars>>
    BY <1>1, AnyDepositFrame, AnyWithdrawalFrame, AnyTransferFrame, EnvironmentFrame
  <2> QED BY <1>0, <2>1, QueueFrame DEF timeVars
<1>2. CASE AnySwap
  <2>1. ASSUME NEW a \in Accounts, NEW n \in Balance, NEW from \in Pools,
               NEW to \in Pools, do_swap(a, from, to, n)
        PROVE  QueueCoherent'
    BY <2>1, QueueSwapCoherent DEF do_swap, timeVars
  <2>2. ASSUME NEW a \in Accounts, NEW id \in DOMAIN calls, NEW to \in Pools,
               update_swap_queue(a, id, to)
        PROVE  QueueCoherent'
    BY <2>2, UpdateCoherent
  <2> QED BY <1>2, <2>1, <2>2 DEF AnySwap
<1>3. CASE Hook
  <2>1. CASE NewBlock \/ NewBlockWhilePaused \/ HookDone
    <3>1. UNCHANGED queueVars /\ block' \in Nat /\ block' >= block
      BY <1>0, <2>1 DEF NewBlock, NewBlockWhilePaused, HookDone
    <3> QED BY <3>1, QueueFrame
  <2>2. CASE ExecuteSwap
    BY <2>2, DequeueCoherent DEF ExecuteSwap, HeadReady
  <2> QED BY <1>3, <2>1, <2>2 DEF Hook
<1>4. CASE UNCHANGED vars
  BY <1>0, <1>4, QueueFrame DEF vars, timeVars
<1> QED BY <1>1, <1>2, <1>3, <1>4 DEF AnyNext, AnyCall

(* Pauses are calls, and calls come before or after the hook.              *)
LEMMA NextUninterrupted == Inv /\ [AnyNext]_vars => HookUninterrupted'
<1> SUFFICES ASSUME Inv, [AnyNext]_vars PROVE HookUninterrupted'
  OBVIOUS
<1>1. CASE AnyCall
  <2>1. UNCHANGED <<timeVars, paused>>
    BY <1>1, AnyDepositFrame, AnyWithdrawalFrame, AnyTransferFrame, AnySwapFrame DEF AnyCall
  <2> QED BY <2>1 DEF Inv, HookUninterrupted, timeVars
<1>2. CASE Hook
  BY <1>2 DEF Inv, HookUninterrupted, Hook, NewBlock, NewBlockWhilePaused,
     ExecuteSwap, HookDone
<1>3. CASE Environment
  BY <1>3 DEF Inv, HookUninterrupted, Environment, do_pause, do_unpause,
     do_remove_subnet, do_register_validator, Call, timeVars
<1>4. CASE UNCHANGED vars
  BY <1>4 DEF Inv, HookUninterrupted, vars, timeVars
<1> QED BY <1>1, <1>2, <1>3, <1>4 DEF AnyNext

(* Inv is inductive.                                                       *)
LEMMA Invariance == Spec => []Inv
<1>1. Init => Inv
  <2>1. Init => QueueCoherent
    BY StakingAssumption DEF Init, QueueCoherent, Range, EmptyMap
  <2>2. Init => HookUninterrupted
    BY DEF Init, HookUninterrupted
  <2> QED BY <2>1, <2>2, InitType DEF Inv
<1>2. Inv /\ [Next]_vars => Inv'
  BY NextIsAny, NextType, NextCoherent, NextUninterrupted DEF Inv
<1> QED BY <1>1, <1>2, PTL DEF Spec

(* Every amount, share and balance the staking calls and the hook store    *)
(* fits u128, and ledgers and queue stay well formed.                      *)
THEOREM TypeCorrect == Spec => []TypeOK
  BY Invariance, PTL DEF Inv

(* SwapQueueOrder and SwapCallQueue describe one queue, whatever calls and *)
(* hooks follow each other.                                                *)
THEOREM QueueIsCoherent == Spec => []QueueCoherent
  BY Invariance, PTL DEF Inv

(* What one step may do to a queued swap.                                  *)
LEMMA NextWaits == Inv /\ [Next]_vars => SwapWaits
<1> SUFFICES ASSUME Inv, [Next]_vars, NEW i \in DOMAIN calls
             PROVE  IF i \in DOMAIN calls' THEN KeepsItsPlace(i) ELSE LeavesInTurn(i)
  BY DEF SwapWaits
<1>0. Subnets \subseteq Pools /\ Validators \subseteq Pools
  BY DEF Pools
<1>1. CASE UNCHANGED calls
  BY <1>1 DEF KeepsItsPlace
<1>2. CASE Deposits \/ Withdrawals \/ Transfers \/ Environment
  <2>1. UNCHANGED calls
    BY <1>2 DEF Deposits, add_delegate_stake, donate_delegate_stake,
       add_validator_delegate_stake, donate_validator_delegate_stake, donate,
       Withdrawals, claim_unbondings, remove_delegate_stake,
       remove_validator_delegate_stake, Transfers, transfer_delegate_stake,
       transfer_validator_delegate_stake, Environment, do_pause, do_unpause,
       do_remove_subnet, do_register_validator, queueVars
  <2> QED BY <1>1, <2>1
<1>3. CASE Swaps
  <2>1. ASSUME NEW a \in Accounts, NEW n \in ShareAmounts, NEW from \in Pools,
               NEW to \in Pools, do_swap(a, from, to, n)
        PROVE  i \in DOMAIN calls' /\ KeepsItsPlace(i)
    <3>1. i # nextId
      BY DEF Inv, TypeOK, QueueOK, QueueCoherent, Range
    <3> QED BY <2>1, <3>1 DEF do_swap, queue_swap, Put, KeepsItsPlace
  <2>2. ASSUME NEW a \in Accounts, NEW id \in DOMAIN calls, NEW to \in Pools,
               update_swap_queue(a, id, to)
        PROVE  i \in DOMAIN calls' /\ KeepsItsPlace(i)
    BY <2>2 DEF update_swap_queue, Inv, TypeOK, QueueOK, SwapItem, KeepsItsPlace
  <2> QED BY <1>0, <1>3, <2>1, <2>2
         DEF Swaps, swap_from_subnet_to_subnet, swap_from_subnet_to_validator,
             swap_from_validator_to_subnet, swap_from_validator_to_validator
<1>4. CASE Hook
  <2>1. CASE NewBlock \/ NewBlockWhilePaused \/ HookDone
    <3>1. UNCHANGED calls
      BY <2>1 DEF NewBlock, NewBlockWhilePaused, HookDone, queueVars
    <3> QED BY <1>1, <3>1
  <2>2. CASE ExecuteSwap
    <3>1. CASE i # Head(order)
      BY <2>2, <3>1 DEF ExecuteSwap, Dequeue, Restrict, KeepsItsPlace
    <3>2. CASE i = Head(order)
      <4>1. i \notin DOMAIN calls'
        BY <2>2, <3>2 DEF ExecuteSwap, Dequeue, Restrict
      <4>2. block \in Nat /\ calls[i].queued_at \in Nat /\ EpochLength \in Nat
        BY StakingAssumption DEF Inv, TypeOK, TimeOK, QueueOK, SwapItem
      <4>3. LeavesInTurn(i)
        BY <2>2, <3>2, <4>2 DEF ExecuteSwap, HeadReady, LeavesInTurn, Inv,
           HookUninterrupted
      <4> QED BY <4>1, <4>3
    <3> QED BY <3>1, <3>2
  <2> QED BY <1>4, <2>1, <2>2 DEF Hook
<1>5. CASE UNCHANGED vars
  BY <1>1, <1>5 DEF vars, queueVars
<1> QED BY <1>2, <1>3, <1>4, <1>5 DEF Next

(* No queued swap is executed before its epoch is over, out of turn or in  *)
(* a paused network, and none loses its amount or its place while it       *)
(* waits.                                                                  *)
THEOREM SwapsWait == Spec => SwapsWaitAnEpoch
  BY Invariance, NextWaits, PTL DEF Spec, SwapsWaitAnEpoch
--------------------------------------------------------------------------------
(***************************************************************************)
(* Staking implements SwapQueue.                                           *)
(***************************************************************************)

(* A function on 1 .. n is a sequence of length n.                         *)
LEMMA FunctionSeq ==
  ASSUME NEW S, NEW n \in Nat, NEW s \in [1 .. n -> S]
  PROVE  s \in Seq(S) /\ Len(s) = n
  OBVIOUS

(* The queue of SwapQueue has an entry for each id in the order.           *)
LEMMA WaitingFacts ==
  ASSUME Inv
  PROVE  /\ Len(order) \in Nat /\ Waiting \in Seq([id : Nat, wait : Nat])
         /\ Len(Waiting) = Len(order) /\ DOMAIN Waiting = 1 .. Len(order)
         /\ \A i \in 1 .. Len(order) :
              /\ order[i] \in DOMAIN calls /\ calls[order[i]].queued_at \in Nat
              /\ WaitOf(calls[order[i]]) \in Nat
              /\ Waiting[i] = [id |-> order[i], wait |-> WaitOf(calls[order[i]])]
         /\ block \in Nat /\ EpochLength \in Nat
<1>1. Len(order) \in Nat /\ order \in Seq(Nat) /\ block \in Nat /\ EpochLength \in Nat
  BY StakingAssumption DEF Inv, TypeOK, QueueOK, TimeOK
<1>2. \A i \in 1 .. Len(order) :
        order[i] \in Nat /\ order[i] \in DOMAIN calls /\ calls[order[i]].queued_at \in Nat
  BY <1>1 DEF Inv, TypeOK, QueueOK, QueueCoherent, Range, SwapItem
<1>3. \A i \in 1 .. Len(order) : WaitOf(calls[order[i]]) \in Nat
  BY <1>1, <1>2 DEF WaitOf, DueAt
<1>4. Waiting \in [1 .. Len(order) -> [id : Nat, wait : Nat]]
  BY <1>2, <1>3 DEF Waiting
<1>5. Waiting \in Seq([id : Nat, wait : Nat]) /\ Len(Waiting) = Len(order)
  BY <1>1, <1>4, FunctionSeq
<1> QED BY <1>1, <1>2, <1>3, <1>4, <1>5 DEF Waiting

(* Steps that leave ids and ages alone leave the queue alone.              *)
LEMMA SameQueue ==
  ASSUME Inv, UNCHANGED <<order, block>>,
         \A i \in DOMAIN calls : calls'[i].queued_at = calls[i].queued_at
  PROVE  Waiting' = Waiting
<1>1. \A i \in 1 .. Len(order) : WaitOf(calls[order[i]])' = WaitOf(calls[order[i]])
  BY WaitingFacts DEF WaitOf, DueAt
<1> QED BY <1>1 DEF Waiting

(* A new swap is an entry at the end that waits an epoch.                  *)
LEMMA SwapEnqueues ==
  ASSUME Inv, NEW a \in Accounts, NEW to \in Pools, NEW amount,
         queue_swap(a, to, amount), UNCHANGED <<block, paused, phase, left>>,
         phase = "calls", ~paused
  PROVE  Queue!Enqueue(nextId)
<1> DEFINE e == [id |-> nextId, wait |-> EpochLength]
<1>0. PICK n \in Nat : n = Len(order)
  BY WaitingFacts
<1>1. /\ order \in Seq(Nat) /\ nextId \in Nat /\ block \in Nat /\ n \in Nat
      /\ EpochLength \in Nat
  BY StakingAssumption DEF Inv, TypeOK, QueueOK, TimeOK
<1>2. /\ Len(order') = n + 1 /\ order'[n + 1] = nextId
      /\ \A i \in 1 .. n : order'[i] = order[i]
  BY <1>0, <1>1 DEF queue_swap
<1>3. /\ calls'[nextId].queued_at = block
      /\ \A i \in DOMAIN calls : i # nextId => calls'[i] = calls[i]
  BY DEF queue_swap, Put, QueuedSwapItem
<1>4. \A i \in 1 .. n : order[i] < nextId
  BY <1>0, <1>1 DEF Inv, QueueCoherent
<1>5. \A i \in 1 .. n : Waiting'[i] = Waiting[i]
  <2> SUFFICES ASSUME NEW i \in 1 .. n PROVE Waiting'[i] = Waiting[i]
    OBVIOUS
  <2>1. i \in 1 .. n + 1 /\ order'[i] = order[i] /\ calls'[order'[i]] = calls[order[i]]
    BY <1>0, <1>1, <1>2, <1>3, <1>4, WaitingFacts
  <2>2. WaitOf(calls[order[i]])' = WaitOf(calls[order[i]])
    BY <2>1 DEF WaitOf, DueAt
  <2> QED BY <1>0, <1>2, <2>1, <2>2 DEF Waiting
<1>6. Waiting'[n + 1] = e
  <2>1. WaitOf(calls[order[n + 1]])' = EpochLength
    BY <1>1, <1>2, <1>3, StakingAssumption DEF WaitOf, DueAt
  <2> QED BY <1>1, <1>2, <2>1 DEF Waiting
<1>7. Waiting' = Append(Waiting, e)
  <2> DEFINE S == [id : Nat, wait : Nat]
  <2>1. Waiting \in Seq(S) /\ Len(Waiting) = n /\ e \in S
    BY <1>0, <1>1, WaitingFacts
  <2> HIDE DEF e, S
  <2>2. \A i \in 1 .. n : Waiting[i] \in S
    BY <2>1
  <2>3. /\ Append(Waiting, e) \in Seq(S) /\ Len(Append(Waiting, e)) = n + 1
        /\ Append(Waiting, e)[n + 1] = e
        /\ \A i \in 1 .. n : Append(Waiting, e)[i] = Waiting[i]
    BY <2>1, AppendProperties
  <2>4. Waiting' \in [1 .. n + 1 -> S]
    <3>1. \A i \in 1 .. n + 1 : Waiting'[i] \in S
      BY <1>5, <1>6, <2>1, <2>2
    <3>2. Waiting' = [i \in 1 .. n + 1 |-> Waiting'[i]]
      BY <1>2 DEF Waiting
    <3> QED BY <3>1, <3>2
  <2>5. Waiting' \in Seq(S) /\ Len(Waiting') = n + 1
    BY <2>4, FunctionSeq
  <2>6. \A i \in 1 .. n + 1 : Waiting'[i] = Append(Waiting, e)[i]
    BY <1>1, <1>5, <1>6, <2>3
  <2> QED BY <2>3, <2>5, <2>6, SeqEqual
<1>8. ~Queue!InQueue(nextId)
  BY <1>0, <1>1, <1>4, WaitingFacts DEF Queue!InQueue
<1>9. Len(Waiting) < MaxSwapQueueLength
  BY WaitingFacts DEF queue_swap
<1> QED BY <1>7, <1>8, <1>9 DEF Queue!Enqueue

(* A block takes one off every wait that is left.                          *)
LEMMA BlockAges ==
  ASSUME Inv, block' = block + 1, UNCHANGED <<order, calls>>
  PROVE  Waiting' = Queue!Aged
<1> DEFINE w(i) == WaitOf(calls[order[i]])
<1>1. \A i \in 1 .. Len(order) : w(i)' = IF w(i) > 0 THEN w(i) - 1 ELSE 0
  <2> SUFFICES ASSUME NEW i \in 1 .. Len(order)
               PROVE  w(i)' = IF w(i) > 0 THEN w(i) - 1 ELSE 0
    OBVIOUS
  <2>1. block \in Nat /\ EpochLength \in Nat
    BY WaitingFacts
  <2>2. PICK q \in Nat : q = calls[order[i]].queued_at
    BY WaitingFacts
  <2>3. w(i) = IF q + EpochLength > block THEN (q + EpochLength) - block ELSE 0
    BY <2>2 DEF WaitOf, DueAt
  <2>4. w(i)' = IF q + EpochLength > block' THEN (q + EpochLength) - block' ELSE 0
    BY <2>2 DEF WaitOf, DueAt
  <2> HIDE DEF w
  <2> QED BY <2>1, <2>3, <2>4
<1>2. Len(Waiting) = Len(order)
  BY WaitingFacts
<1>3. \A i \in 1 .. Len(order) :
        [Waiting[i] EXCEPT !.wait = IF @ > 0 THEN @ - 1 ELSE 0]
          = [id |-> order[i], wait |-> w(i)']
  BY <1>1, WaitingFacts
<1>4. Waiting' = [i \in 1 .. Len(order) |-> [id |-> order[i], wait |-> w(i)']]
  BY DEF Waiting
<1> HIDE DEF w
<1> QED BY <1>2, <1>3, <1>4 DEF Queue!Aged

(* The head of the order is ready when the wait of its entry is over.      *)
LEMMA HeadAgrees == Inv => (HeadReady <=> Queue!HeadDue)
<1> SUFFICES ASSUME Inv PROVE HeadReady <=> Queue!HeadDue
  OBVIOUS
<1>1. CASE order = <<>>
  <2>1. Len(order) = 0 /\ Len(Waiting) = 0
    BY <1>1, WaitingFacts
  <2> QED BY <1>1, <2>1 DEF HeadReady, Queue!HeadDue
<1>2. CASE order # <<>>
  <2>1. /\ Len(order) > 0 /\ Waiting # <<>> /\ Head(order) = order[1]
        /\ Head(Waiting) = Waiting[1]
    <3>1. order \in Seq(Nat) /\ Len(order) > 0
      BY <1>2 DEF Inv, TypeOK, QueueOK
    <3> QED BY <3>1, WaitingFacts
  <2>2. Head(Waiting).wait = WaitOf(calls[Head(order)])
    BY <2>1, WaitingFacts
  <2>3. WaitOf(calls[Head(order)]) = 0 <=> block - calls[Head(order)].queued_at >= EpochLength
    BY <2>1, WaitingFacts DEF WaitOf, DueAt
  <2> QED BY <1>2, <2>1, <2>2, <2>3 DEF HeadReady, Queue!HeadDue
<1> QED BY <1>1, <1>2

(* Dequeue takes the first entry.                                          *)
LEMMA DequeueTakesHead ==
  ASSUME Inv, order # <<>>, Dequeue, UNCHANGED block
  PROVE  Waiting' = Tail(Waiting)
<1> DEFINE n == Len(order)
<1>1. order \in Seq(Nat) /\ n \in Nat /\ n > 0
  BY DEF Inv, TypeOK, QueueOK
<1>2. /\ Len(order') = n - 1 /\ Head(order) = order[1]
      /\ \A i \in 1 .. n - 1 : order'[i] = order[i + 1]
  BY <1>1 DEF Dequeue
<1>3. ASSUME NEW i \in 1 .. n - 1
      PROVE  order[i + 1] # order[1] /\ order[i + 1] \in DOMAIN calls
  <2>1. 1 \in 1 .. n /\ i + 1 \in 1 .. n /\ 1 < i + 1 /\ i + 1 \in Nat
    BY <1>1
  <2>2. order[1] < order[i + 1] /\ order[1] \in Nat /\ order[i + 1] \in Nat
    BY <1>1, <2>1 DEF Inv, QueueCoherent
  <2>3. order[i + 1] \in DOMAIN calls
    BY <1>1, <2>1 DEF Inv, QueueCoherent, Range
  <2> QED BY <2>2, <2>3
<1>4. \A i \in 1 .. n - 1 : calls'[order'[i]] = calls[order[i + 1]]
  BY <1>2, <1>3 DEF Dequeue, Restrict
<1>5. \A i \in 1 .. n - 1 : Waiting'[i] = Waiting[i + 1]
  <2> SUFFICES ASSUME NEW i \in 1 .. n - 1 PROVE Waiting'[i] = Waiting[i + 1]
    OBVIOUS
  <2>1. WaitOf(calls[order[i]])' = WaitOf(calls[order[i + 1]])
    BY <1>4 DEF WaitOf, DueAt
  <2>2. i \in 1 .. Len(order') /\ i + 1 \in 1 .. Len(order) /\ order'[i] = order[i + 1]
    BY <1>1, <1>2
  <2> QED BY <2>1, <2>2 DEF Waiting
<1> DEFINE S == [id : Nat, wait : Nat]
<1>6. Waiting \in Seq(S) /\ Len(Waiting) = n /\ Waiting # <<>>
  BY <1>1, WaitingFacts
<1> HIDE DEF S, n
<1>7. \A i \in 1 .. n : Waiting[i] \in S
  BY <1>6
<1>8. /\ Tail(Waiting) \in Seq(S) /\ Len(Tail(Waiting)) = n - 1
      /\ \A i \in 1 .. n - 1 : Tail(Waiting)[i] = Waiting[i + 1]
  BY <1>6, HeadTailProperties
<1>9. Waiting' \in [1 .. n - 1 -> S]
  <2>1. \A i \in 1 .. n - 1 : Waiting'[i] \in S
    BY <1>1, <1>5, <1>7
  <2>2. Waiting' = [i \in 1 .. n - 1 |-> Waiting'[i]]
    BY <1>2 DEF Waiting
  <2> QED BY <2>1, <2>2
<1>10. Waiting' \in Seq(S) /\ Len(Waiting') = n - 1
  BY <1>1, <1>9, FunctionSeq
<1> QED BY <1>5, <1>8, <1>10, SeqEqual

(* Ids are numbered by the calls, so that the bound on calls is one on     *)
(* ids.                                                                    *)
Counted == ncalls \in Nat /\ nextId <= ncalls

(* A call queues one swap at most.                                         *)
LEMMA NextCounted == Inv /\ Counted /\ [Next]_vars => Counted'
<1> SUFFICES ASSUME Inv, Counted, [Next]_vars PROVE Counted'
  OBVIOUS
<1>0. nextId \in Nat /\ ncalls \in Nat /\ nextId <= ncalls
  BY DEF Inv, TypeOK, QueueOK, Counted
<1>1. CASE UNCHANGED nextId /\ (UNCHANGED ncalls \/ ncalls' = ncalls + 1)
  BY <1>0, <1>1 DEF Counted
<1>2. CASE nextId' = nextId + 1 /\ ncalls' = ncalls + 1
  BY <1>0, <1>2 DEF Counted
<1>3. CASE Deposits \/ Withdrawals \/ Transfers \/ Environment
  <2>1. UNCHANGED nextId
    BY <1>3, DepositsFrame, WithdrawalsFrame, TransfersFrame, EnvironmentFrame
       DEF queueVars
  <2>2. CASE Deposits \/ Withdrawals \/ Transfers
    BY <1>1, <2>1, <2>2, DepositsFrame, WithdrawalsFrame, TransfersFrame
  <2>3. CASE Environment
    <3>1. UNCHANGED ncalls \/ ncalls' = ncalls + 1
      BY <2>3 DEF Environment, do_pause, do_unpause, do_remove_subnet,
         do_register_validator, Call
    <3> QED BY <1>1, <2>1, <3>1
  <2> QED BY <1>3, <2>2, <2>3
<1>4. CASE Swaps
  <2>1. ncalls' = ncalls + 1
    BY <1>4, SwapsFrame
  <2>2. UNCHANGED nextId \/ nextId' = nextId + 1
    BY <1>4, SwapsAre DEF do_swap, update_swap_queue, queue_swap
  <2> QED BY <1>1, <1>2, <2>1, <2>2
<1>5. CASE Hook \/ UNCHANGED vars
  <2>1. UNCHANGED <<nextId, ncalls>>
    BY <1>5, HookFrame DEF vars, queueVars
  <2> QED BY <1>1, <2>1
<1> QED BY <1>3, <1>4, <1>5 DEF Next

(* Every step of Staking is a step of SwapQueue or leaves its queue alone. *)
LEMMA NextSwapQueue == Inv /\ Counted /\ [Next]_vars => [Queue!Next]_(Queue!vars)
<1> SUFFICES ASSUME Inv, Counted, [Next]_vars PROVE [Queue!Next]_(Queue!vars)
  OBVIOUS
<1>0. Subnets \subseteq Pools /\ Validators \subseteq Pools
  BY DEF Pools
<1>1. CASE /\ UNCHANGED <<order, block, paused, phase, left>>
           /\ \A i \in DOMAIN calls : calls'[i].queued_at = calls[i].queued_at
  BY <1>1, SameQueue DEF Queue!vars
<1>2. CASE \/ Deposits \/ Withdrawals \/ Transfers \/ UNCHANGED vars
           \/ \E s \in Subnets : do_remove_subnet(s)
           \/ \E v \in Validators : do_register_validator(v)
  <2>1. UNCHANGED <<order, calls, block, paused, phase, left>>
    BY <1>2 DEF Deposits, add_delegate_stake, donate_delegate_stake,
       add_validator_delegate_stake, donate_validator_delegate_stake, donate,
       Withdrawals, claim_unbondings, remove_delegate_stake,
       remove_validator_delegate_stake, Transfers, transfer_delegate_stake,
       transfer_validator_delegate_stake, do_remove_subnet, do_register_validator,
       queueVars, timeVars, vars
  <2> QED BY <1>1, <2>1
<1>3. CASE Swaps
  <2>1. ASSUME NEW a \in Accounts, NEW n \in ShareAmounts, NEW from \in Pools,
               NEW to \in Pools, do_swap(a, from, to, n)
        PROVE  [Queue!Next]_(Queue!vars)
    <3>1. Queue!Enqueue(nextId)
      BY <2>1, SwapEnqueues DEF do_swap, timeVars, Call
    <3>2. nextId \in 0 .. MaxCalls
      BY <2>1, StakingAssumption DEF do_swap, Call, Counted, Inv, TypeOK, QueueOK
    <3> QED BY <3>1, <3>2 DEF Queue!Next
  <2>2. ASSUME NEW a \in Accounts, NEW id \in DOMAIN calls, NEW to \in Pools,
               update_swap_queue(a, id, to)
        PROVE  [Queue!Next]_(Queue!vars)
    <3>1. \A i \in DOMAIN calls : calls'[i].queued_at = calls[i].queued_at
      BY <2>2 DEF update_swap_queue, Inv, TypeOK, QueueOK, SwapItem
    <3> QED BY <1>1, <2>2, <3>1 DEF update_swap_queue, timeVars
  <2> QED BY <1>0, <1>3, <2>1, <2>2
         DEF Swaps, swap_from_subnet_to_subnet, swap_from_subnet_to_validator,
             swap_from_validator_to_subnet, swap_from_validator_to_validator
<1>4. CASE NewBlock
  <2>1. Waiting' = Queue!Aged
    BY <1>4, BlockAges DEF NewBlock, queueVars
  <2>2. PICK b \in HookBudgets :
          left' = IF b < MaxSwapQueueCallsPerBlock THEN b ELSE MaxSwapQueueCallsPerBlock
    BY <1>4 DEF NewBlock
  <2>3. Queue!Block(b)
    BY <1>4, <2>1, <2>2 DEF NewBlock, Queue!Block
  <2> QED BY <2>3 DEF Queue!Next
<1>5. CASE NewBlockWhilePaused
  <2>1. Waiting' = Queue!Aged
    BY <1>5, BlockAges DEF NewBlockWhilePaused, queueVars
  <2> QED BY <1>5, <2>1 DEF NewBlockWhilePaused, Queue!BlockWhilePaused, Queue!Next
<1>6. CASE ExecuteSwap
  <2>1. Waiting' = Tail(Waiting) /\ Queue!HeadDue
    BY <1>6, DequeueTakesHead, HeadAgrees DEF ExecuteSwap, HeadReady
  <2> QED BY <1>6, <2>1 DEF ExecuteSwap, Queue!ExecuteHead, Queue!Hook, Queue!Next
<1>7. CASE HookDone
  <2>1. Waiting' = Waiting /\ (Queue!HeadDue <=> HeadReady)
    BY <1>7, SameQueue, HeadAgrees DEF HookDone, queueVars
  <2> QED BY <1>7, <2>1 DEF HookDone, Queue!HookDone, Queue!Hook, Queue!Next
<1>8. CASE do_pause \/ do_unpause
  <2>1. Waiting' = Waiting
    BY <1>8, SameQueue DEF do_pause, do_unpause, queueVars, timeVars
  <2> QED BY <1>8, <2>1 DEF do_pause, do_unpause, timeVars, Queue!Pause, Queue!Unpause,
         Queue!Next
<1> QED BY <1>2, <1>3, <1>4, <1>5, <1>6, <1>7, <1>8 DEF Next, Hook, Environment

(* Staking implements SwapQueue for every capacity, delay, budget and      *)
(* number of calls: what is proved or checked of the abstract queue holds  *)
(* of SwapQueueOrder and SwapCallQueue under on_initialize.                *)
THEOREM ImplementsSwapQueue == Spec => SwapQueueImplemented
<1>1. Init => Queue!Init /\ Counted
  <2> SUFFICES ASSUME Init PROVE Queue!Init /\ Counted
    OBVIOUS
  <2>1. Waiting = <<>>
    BY DEF Init, Waiting
  <2> QED BY <2>1 DEF Init, Queue!Init, Counted
<1> QED BY <1>1, Invariance, NextCounted, NextSwapQueue, PTL
       DEF Spec, SwapQueueImplemented, Queue!Spec
--------------------------------------------------------------------------------
(***************************************************************************)
(* The pace of the swap queue.                                             *)
(***************************************************************************)

(* How far the queue is behind: an entry that is due was not passed over,  *)
(* and each block since has taken a full batch from the head.  Within a    *)
(* hook, what is left of the batch counts as not taken yet.                *)
Batch == MaxSwapQueueCallsPerBlock
InPace(i) == Overdue(i) >= 0 => Overdue(i) * Batch + i + (Batch - left) <= MaxSwapQueueLength
Paced ==
  /\ npauses \in Nat /\ (paused => npauses # 0) /\ short \in BOOLEAN
  /\ left \in 0 .. Batch /\ (phase = "calls" => left = 0)
  /\ npauses = 0 /\ ~short => \A i \in 1 .. Len(order) : InPace(i)

(* What is overdue is an integer, and later entries are less overdue.      *)
LEMMA OverdueFacts ==
  ASSUME Inv
  PROVE  /\ \A i \in 1 .. Len(order) : Overdue(i) \in Int
         /\ \A i, j \in 1 .. Len(order) : i < j => Overdue(j) <= Overdue(i)
         /\ Batch \in Nat /\ MaxSwapQueueLength \in Nat /\ Len(order) \in Nat
         /\ Len(order) <= MaxSwapQueueLength
<1>1. /\ block \in Nat /\ EpochLength \in Nat /\ Len(order) \in Nat
      /\ Batch \in Nat /\ MaxSwapQueueLength \in Nat
      /\ \A i \in 1 .. Len(order) : calls[order[i]].queued_at \in Nat
  BY WaitingFacts, StakingAssumption DEF Batch
<1>2. \A i \in 1 .. Len(order) : Overdue(i) \in Int
  BY <1>1 DEF Overdue
<1>3. \A i, j \in 1 .. Len(order) : i < j =>
        calls[order[i]].queued_at <= calls[order[j]].queued_at
  BY DEF Inv, QueueCoherent
<1>4. ASSUME NEW i \in 1 .. Len(order), NEW j \in 1 .. Len(order), i < j
      PROVE  Overdue(j) <= Overdue(i)
  <2>1. calls[order[i]].queued_at <= calls[order[j]].queued_at
    BY <1>3, <1>4
  <2>2. calls[order[i]].queued_at \in Nat /\ calls[order[j]].queued_at \in Nat
    BY <1>1
  <2>3. \A x, y, b, e \in Nat : x <= y => b - (y + e) <= b - (x + e)
    OBVIOUS
  <2> QED BY <1>1, <2>1, <2>2, <2>3 DEF Overdue
<1> QED BY <1>1, <1>2, <1>4 DEF Inv, QueueCoherent

(* Calls that queue nothing do not change the pace.                        *)
LEMMA PaceFrame ==
  ASSUME Inv, Paced, UNCHANGED <<order, block, left, phase, paused, npauses, short>>,
         \A i \in DOMAIN calls : calls'[i].queued_at = calls[i].queued_at
  PROVE  Paced'
<1>1. \A i \in 1 .. Len(order) : Overdue(i)' = Overdue(i)
  BY WaitingFacts DEF Overdue
<1> QED BY <1>1 DEF Paced, InPace

(* A new swap is not due.                                                  *)
LEMMA PaceEnqueue ==
  ASSUME Inv, Paced, NEW a \in Accounts, NEW to \in Pools, NEW amount,
         queue_swap(a, to, amount),
         UNCHANGED <<block, left, phase, paused, npauses, short>>
  PROVE  Paced'
<1>0. PICK n \in Nat : n = Len(order)
  BY WaitingFacts
<1>1. /\ order \in Seq(Nat) /\ nextId \in Nat /\ block \in Nat
      /\ EpochLength \in Nat /\ EpochLength > 0
  BY StakingAssumption DEF Inv, TypeOK, QueueOK, TimeOK, DesignatedEpochSlots
<1>2. /\ Len(order') = n + 1 /\ order'[n + 1] = nextId
      /\ \A i \in 1 .. n : order'[i] = order[i]
  BY <1>0, <1>1 DEF queue_swap
<1>3. /\ calls'[nextId].queued_at = block
      /\ \A i \in DOMAIN calls : i # nextId => calls'[i] = calls[i]
  BY DEF queue_swap, Put, QueuedSwapItem
<1>4. \A i \in 1 .. n : order[i] < nextId /\ order[i] \in DOMAIN calls
  BY <1>0, <1>1, WaitingFacts DEF Inv, QueueCoherent
<1>5. ASSUME NEW i \in 1 .. n PROVE Overdue(i)' = Overdue(i)
  <2>1. order[i] \in Nat /\ order[i] # nextId
    BY <1>0, <1>1, <1>4
  <2>2. order'[i] = order[i] /\ calls'[order[i]] = calls[order[i]]
    BY <1>2, <1>3, <1>4, <2>1
  <2> QED BY <2>2 DEF Overdue
<1>6. Overdue(n + 1)' = 0 - EpochLength
  BY <1>1, <1>2, <1>3 DEF Overdue
<1>7. ~(Overdue(n + 1)' >= 0)
  BY <1>1, <1>6
<1>8. ASSUME npauses = 0, ~short, NEW i \in 1 .. n + 1 PROVE InPace(i)'
  <2>1. CASE i \in 1 .. n
    BY <1>0, <1>5, <1>8, <2>1 DEF Paced, InPace
  <2>2. CASE i = n + 1
    BY <1>7, <2>2 DEF InPace
  <2> QED BY <2>1, <2>2
<1> QED BY <1>2, <1>8 DEF Paced

(* A block: everything is overdue by one more, and a new batch begins.     *)
LEMMA PaceBlock ==
  ASSUME Inv, Paced, NewBlock
  PROVE  Paced'
<1>1. /\ phase = "calls" /\ left = 0 /\ phase' = "swaps" /\ block' = block + 1
      /\ ~paused /\ UNCHANGED <<order, calls, paused, npauses>>
      /\ short' = (short \/ left' < Batch)
  BY DEF NewBlock, queueVars, Paced, Batch
<1>2. left' \in 0 .. Batch
  BY StakingAssumption DEF NewBlock, Batch
<1>3. Batch \in Nat /\ MaxSwapQueueLength \in Nat /\ Len(order) \in Nat
        /\ Len(order) <= MaxSwapQueueLength
  BY OverdueFacts
<1>4. \A i \in 1 .. Len(order) : Overdue(i) \in Int /\ Overdue(i)' = Overdue(i) + 1
  <2> SUFFICES ASSUME NEW i \in 1 .. Len(order)
               PROVE  Overdue(i) \in Int /\ Overdue(i)' = Overdue(i) + 1
    OBVIOUS
  <2>1. block \in Nat /\ EpochLength \in Nat
    BY WaitingFacts
  <2>2. PICK q \in Nat : q = calls[order[i]].queued_at
    BY WaitingFacts
  <2>3. /\ Overdue(i) = block - (q + EpochLength)
        /\ Overdue(i)' = (block + 1) - (q + EpochLength)
    BY <1>1, <2>2 DEF Overdue
  <2> QED BY <2>1, <2>3
<1>5. ASSUME npauses = 0, ~short', NEW i \in 1 .. Len(order) PROVE InPace(i)'
  <2>0. ~short /\ ~(left' < Batch)
    BY <1>1, <1>5
  <2>1. ~short /\ left' = Batch
    BY <1>2, <1>3, <2>0
  <2>2. Overdue(i) >= 0 => Overdue(i) * Batch + i + Batch <= MaxSwapQueueLength
    BY <1>1, <1>3, <1>5, <2>1 DEF Paced, InPace
  <2> DEFINE d == Overdue(i)
  <2>3. d \in Int /\ Overdue(i)' = d + 1
    BY <1>4
  <2> HIDE DEF d
  <2>4. (d + 1) * Batch = d * Batch + Batch /\ d * Batch \in Int
    BY <1>3, <2>3
  <2>5. d + 1 >= 0 => (d + 1) * Batch + i <= MaxSwapQueueLength
    <3>1. CASE d >= 0
      BY <1>3, <2>2, <2>4, <3>1 DEF d
    <3>2. CASE d = 0 - 1
      <4>1. (d + 1) * Batch = 0
        BY <1>3, <3>2
      <4> QED BY <1>3, <4>1
    <3> QED BY <2>3, <3>1, <3>2
  <2> QED BY <1>3, <2>1, <2>3, <2>5 DEF InPace, Batch
<1>6. short' \in BOOLEAN
  BY <1>1 DEF Paced
<1> QED BY <1>1, <1>2, <1>5, <1>6 DEF Paced

(* A swap that is executed brings the others one place forward.            *)
LEMMA PaceExecute ==
  ASSUME Inv, Paced, ExecuteSwap
  PROVE  Paced'
<1>0. PICK n \in Nat : n = Len(order)
  BY WaitingFacts
<1>1. /\ order \in Seq(Nat) /\ order # <<>> /\ n > 0 /\ phase = "swaps" /\ left > 0
      /\ left' = left - 1 /\ Dequeue
      /\ UNCHANGED <<block, phase, paused, npauses, short>>
  BY <1>0 DEF ExecuteSwap, HeadReady, Inv, TypeOK, QueueOK
<1>2. /\ Len(order') = n - 1 /\ Head(order) = order[1]
      /\ \A i \in 1 .. n - 1 : order'[i] = order[i + 1]
  BY <1>0, <1>1 DEF Dequeue
<1>3. \A i \in 1 .. n - 1 : order[i + 1] # order[1] /\ order[i + 1] \in DOMAIN calls
  BY <1>0, <1>1 DEF Inv, QueueCoherent, Range
<1>4. \A i \in 1 .. n - 1 : calls'[order'[i]] = calls[order[i + 1]]
  BY <1>1, <1>2, <1>3 DEF Dequeue, Restrict
<1>5. \A i \in 1 .. n - 1 : Overdue(i)' = Overdue(i + 1)
  BY <1>1, <1>4 DEF Overdue
<1>6. Batch \in Nat /\ MaxSwapQueueLength \in Nat /\ left \in 0 .. Batch
  BY OverdueFacts DEF Paced
<1>7. ASSUME npauses = 0, ~short, NEW i \in 1 .. n - 1 PROVE InPace(i)'
  <2>1. i + 1 \in 1 .. Len(order)
    BY <1>0
  <2>2. InPace(i + 1) /\ Overdue(i + 1) \in Int
    BY <1>7, <2>1, OverdueFacts DEF Paced
  <2> DEFINE d == Overdue(i + 1)
  <2>3. d \in Int /\ Overdue(i)' = d
    BY <1>5, <2>2
  <2>4. d * Batch \in Int
    BY <1>6, <2>3
  <2>5. d >= 0 => d * Batch + (i + 1) + (Batch - left) <= MaxSwapQueueLength
    BY <2>2 DEF InPace
  <2> HIDE DEF d
  <2>6. d >= 0 => d * Batch + i + (Batch - left') <= MaxSwapQueueLength
    BY <1>1, <1>6, <2>4, <2>5
  <2> QED BY <2>3, <2>6 DEF InPace, Batch
<1>8. left' \in 0 .. Batch
  BY <1>1, <1>6
<1> QED BY <1>1, <1>2, <1>7, <1>8 DEF Paced

(* The hook ends when its batch is taken or nothing is due.                *)
LEMMA PaceDone ==
  ASSUME Inv, Paced, HookDone
  PROVE  Paced'
<1>1. /\ left = 0 \/ ~HeadReady
      /\ phase' = "calls" /\ left' = 0
      /\ UNCHANGED <<order, calls, block, paused, npauses, short>>
  BY DEF HookDone, queueVars, histVars
<1>2. Batch \in Nat /\ Len(order) \in Nat
  BY OverdueFacts
<1>3. \A i \in 1 .. Len(order) : Overdue(i)' = Overdue(i)
  BY <1>1 DEF Overdue
<1>4. ASSUME ~HeadReady, NEW i \in 1 .. Len(order) PROVE ~(Overdue(i) >= 0)
  <2>1. 1 \in 1 .. Len(order) /\ order # <<>> /\ Head(order) = order[1]
    BY <1>2 DEF Inv, TypeOK, QueueOK
  <2>2. /\ block \in Nat /\ EpochLength \in Nat /\ calls[order[1]].queued_at \in Nat
        /\ ~(block - calls[order[1]].queued_at >= EpochLength)
    BY <1>4, <2>1, WaitingFacts DEF HeadReady
  <2>3. ~(Overdue(1) >= 0) /\ Overdue(1) \in Int
    BY <2>2 DEF Overdue
  <2>4. Overdue(i) \in Int /\ Overdue(i) <= Overdue(1)
    BY <2>1, <2>3, OverdueFacts
  <2> QED BY <2>3, <2>4
<1>5. ASSUME npauses = 0, ~short, NEW i \in 1 .. Len(order) PROVE InPace(i)'
  <2>1. CASE left = 0
    BY <1>1, <1>3, <1>5, <2>1 DEF Paced, InPace
  <2>2. CASE ~HeadReady
    BY <1>3, <1>4, <2>2 DEF InPace
  <2> QED BY <1>1, <2>1, <2>2
<1> QED BY <1>1, <1>2, <1>5 DEF Paced

(* Every step keeps the pace.                                              *)
LEMMA NextPaced == Inv /\ Paced /\ [Next]_vars => Paced'
<1> SUFFICES ASSUME Inv, Paced, [Next]_vars PROVE Paced'
  OBVIOUS
<1>0. Subnets \subseteq Pools /\ Validators \subseteq Pools
  BY DEF Pools
<1>1. CASE \/ Deposits \/ Withdrawals \/ Transfers \/ UNCHANGED vars
           \/ \E s \in Subnets : do_remove_subnet(s)
           \/ \E v \in Validators : do_register_validator(v)
  <2>1. UNCHANGED <<order, calls, block, left, phase, paused, npauses, short>>
    BY <1>1 DEF Deposits, add_delegate_stake, donate_delegate_stake,
       add_validator_delegate_stake, donate_validator_delegate_stake, donate,
       Withdrawals, claim_unbondings, remove_delegate_stake,
       remove_validator_delegate_stake, Transfers, transfer_delegate_stake,
       transfer_validator_delegate_stake, do_remove_subnet, do_register_validator,
       queueVars, timeVars, histVars, vars
  <2> QED BY <2>1, PaceFrame
<1>2. CASE Swaps
  <2>1. ASSUME NEW a \in Accounts, NEW n \in ShareAmounts, NEW from \in Pools,
               NEW to \in Pools, do_swap(a, from, to, n)
        PROVE  Paced'
    BY <2>1, PaceEnqueue DEF do_swap, timeVars, histVars
  <2>2. ASSUME NEW a \in Accounts, NEW id \in DOMAIN calls, NEW to \in Pools,
               update_swap_queue(a, id, to)
        PROVE  Paced'
    <3>1. \A i \in DOMAIN calls : calls'[i].queued_at = calls[i].queued_at
      BY <2>2 DEF update_swap_queue, Inv, TypeOK, QueueOK, SwapItem
    <3> QED BY <2>2, <3>1, PaceFrame DEF update_swap_queue, timeVars, histVars
  <2> QED BY <1>0, <1>2, <2>1, <2>2
         DEF Swaps, swap_from_subnet_to_subnet, swap_from_subnet_to_validator,
             swap_from_validator_to_subnet, swap_from_validator_to_validator
<1>3. CASE Hook
  <2>1. CASE NewBlockWhilePaused
    BY <2>1 DEF NewBlockWhilePaused, Paced, histVars
  <2> QED BY <1>3, <2>1, PaceBlock, PaceExecute, PaceDone DEF Hook
<1>4. CASE do_pause
  BY <1>4 DEF do_pause, Paced, timeVars
<1>5. CASE do_unpause
  <2>1. UNCHANGED <<order, calls, block, left, phase, npauses, short>> /\ paused /\ ~paused'
    BY <1>5 DEF do_unpause, queueVars, timeVars, histVars
  <2> QED BY <2>1 DEF Paced
<1> QED BY <1>1, <1>2, <1>3, <1>4, <1>5 DEF Next, Environment

(* As long as the network was never paused and no block was short of       *)
(* weight, no swap is overdue by more blocks than it takes to drain a full *)
(* queue down to it, whatever is queued and updated meanwhile.             *)
THEOREM SwapsAreInTime == Spec => []SwapsAreTimely
<1>1. Init => Paced
  <2> SUFFICES ASSUME Init PROVE Paced
    OBVIOUS
  <2>1. Len(order) = 0 /\ Batch \in Nat
    BY StakingAssumption DEF Init, Batch
  <2>2. npauses \in Nat /\ left \in 0 .. Batch
    BY <2>1 DEF Init
  <2>3. ~paused /\ short \in BOOLEAN /\ left = 0
    BY DEF Init
  <2>4. \A i \in 1 .. Len(order) : InPace(i)
    BY <2>1
  <2> QED BY <2>2, <2>3, <2>4 DEF Paced
<1>2. Inv /\ Paced => SwapsAreTimely
  <2> SUFFICES ASSUME Inv, Paced, phase = "calls", npauses = 0, ~short,
                      NEW i \in 1 .. Len(order), Overdue(i) >= 0
               PROVE  (Overdue(i) + 1) * MaxSwapQueueCallsPerBlock + i <= MaxSwapQueueLength
    BY DEF SwapsAreTimely
  <2>1. left = 0 /\ InPace(i)
    BY DEF Paced
  <2>2. Overdue(i) \in Int /\ Batch \in Nat /\ MaxSwapQueueLength \in Nat /\ Len(order) \in Nat
    BY OverdueFacts
  <2>3. Overdue(i) * Batch + i + Batch <= MaxSwapQueueLength
    BY <2>1, <2>2 DEF InPace
  <2>4. (Overdue(i) + 1) * Batch = Overdue(i) * Batch + Batch /\ Overdue(i) * Batch \in Int
    BY <2>2
  <2> QED BY <2>2, <2>3, <2>4 DEF Batch
<1> QED BY <1>1, <1>2, Invariance, NextPaced, PTL DEF Spec
--------------------------------------------------------------------------------
(***************************************************************************)
(* The unbonding ledgers.                                                  *)
(***************************************************************************)

(* Depositing into a ledger never takes from an entry.                     *)
LEMMA DepositedGrows ==
  ASSUME NEW l, IsLedger(l), NEW d \in Nat, NEW amount \in Balance,
         NEW c \in DOMAIN l
  PROVE  c \in DOMAIN Deposited(l, d, amount) /\ Deposited(l, d, amount)[c] >= l[c]
  BY MaxBalanceAssumption DEF IsLedger, Deposited, Put, SatAdd

(* What one step may do to an entry that is not due.                       *)
LEMMA NextMatures == Inv /\ [Next]_vars => LedgerMatures
<1> SUFFICES ASSUME Inv, [Next]_vars, NEW b \in Accounts, NEW c \in DOMAIN ledger[b],
                    c > block
             PROVE  c \in DOMAIN ledger'[b] /\ ledger'[b][c] >= ledger[b][c]
  BY DEF LedgerMatures
<1>0. /\ IsLedger(ledger[b]) /\ c \in Nat /\ ledger[b][c] \in Nat
      /\ block \in Nat /\ DOMAIN ledger = Accounts
      /\ Subnets \subseteq Pools /\ Validators \subseteq Pools
  BY MaxBalanceAssumption DEF Inv, TypeOK, BondsOK, TimeOK, IsLedger, Pools
<1>1. CASE UNCHANGED ledger
  BY <1>0, <1>1
<1>2. CASE Deposits \/ Transfers \/ Swaps \/ Hook \/ Environment
  <2>1. UNCHANGED ledger
    BY <1>2, LedgersFrame
  <2> QED BY <1>1, <2>1
<1>3. CASE Withdrawals
  <2>1. c \notin Matured(b)
    BY <1>0 DEF Matured
  <2>2. /\ IsLedger(Unclaimed(b)) /\ c \in DOMAIN Unclaimed(b)
        /\ Unclaimed(b)[c] = ledger[b][c]
    <3>1. IsLedger(Unclaimed(b))
      BY <1>0, LedgerType, MaxBalanceAssumption DEF Unclaimed
    <3> QED BY <2>1, <3>1 DEF Unclaimed, Restrict
  <2>3. ASSUME NEW a \in Accounts, do_claim_unbondings(a)
        PROVE  c \in DOMAIN ledger'[b] /\ ledger'[b][c] >= ledger[b][c]
    <3>1. ledger'[b] = IF a = b THEN Unclaimed(b) ELSE ledger[b]
      BY <1>0, <2>3 DEF do_claim_unbondings
    <3> QED BY <1>0, <2>2, <3>1
  <2>4. ASSUME NEW a \in Accounts, NEW n \in ShareAmounts, NEW p \in Pools,
               do_remove_delegate_stake(a, p, n)
        PROVE  c \in DOMAIN ledger'[b] /\ ledger'[b][c] >= ledger[b][c]
    <3> DEFINE claim == block + Cooldown
               x     == BalanceOf(n, p)
               kept  == IF MustClaim(a, claim) THEN Unclaimed(a) ELSE ledger[a]
    <3>1. claim \in Nat /\ x \in Balance
      BY <1>0, StakingAssumption, ConvertType DEF Cooldown, BalanceOf
    <3>2. ledger' = [ledger EXCEPT ![a] = Deposited(kept, claim, x)]
      BY <2>4 DEF do_remove_delegate_stake, add_balance_to_unbonding_ledger, Unbond
    <3>3. CASE a # b
      BY <1>0, <3>2, <3>3
    <3>4. CASE a = b
      <4>1. IsLedger(kept) /\ c \in DOMAIN kept /\ kept[c] = ledger[b][c]
        BY <1>0, <2>2, <3>4
      <4> HIDE DEF claim, x, kept
      <4>2. /\ c \in DOMAIN Deposited(kept, claim, x)
            /\ Deposited(kept, claim, x)[c] >= kept[c]
        BY <3>1, <4>1, DepositedGrows
      <4>3. ledger'[b] = Deposited(kept, claim, x)
        BY <1>0, <3>2, <3>4
      <4> QED BY <4>1, <4>2, <4>3
    <3> QED BY <3>3, <3>4
  <2> QED BY <1>0, <1>3, <2>3, <2>4 DEF Withdrawals, claim_unbondings,
             remove_delegate_stake, remove_validator_delegate_stake
<1>4. CASE UNCHANGED vars
  BY <1>1, <1>4 DEF vars, bondVars
<1> QED BY <1>2, <1>3, <1>4 DEF Next

(* No sequence of withdrawals, merges and claims releases unbonding stake  *)
(* before its block, or any part of it.                                    *)
THEOREM UnbondingTakesItsTime == Spec => UnbondingMatures
  BY Invariance, NextMatures, PTL DEF Spec, UnbondingMatures

(* LedgersBounded is inductive together with the finiteness of ledgers.    *)
LedgersFinite == \A a \in Accounts : IsFiniteSet(DOMAIN ledger[a])

(* The bound survives an unbonding: either the entry is already there, or  *)
(* there is room for it, or what has matured makes room.                   *)
LEMMA UnbondBounded ==
  ASSUME Inv, LedgersFinite, LedgersBounded, NEW a \in Accounts, NEW claim, NEW amount,
         Unbond(a, claim, amount)
  PROVE  LedgersFinite' /\ LedgersBounded'
<1> DEFINE kept  == IF MustClaim(a, claim) THEN Unclaimed(a) ELSE ledger[a]
           D     == DOMAIN kept
<1>1. ledger' = [ledger EXCEPT ![a] = Deposited(kept, claim, amount)]
  BY DEF Unbond
<1>2. DOMAIN ledger = Accounts /\ MaxUnbondings \in Nat
  BY StakingAssumption DEF Inv, TypeOK, BondsOK
<1>3. IsFiniteSet(DOMAIN ledger[a]) /\ Cardinality(DOMAIN ledger[a]) \in Nat
  BY FS_CardinalityType DEF LedgersFinite
<1>4. DOMAIN Unclaimed(a) \subseteq DOMAIN ledger[a]
  BY DEF Unclaimed, Restrict
<1>5. IsFiniteSet(DOMAIN Unclaimed(a)) /\ Cardinality(DOMAIN Unclaimed(a)) \in Nat
  BY <1>3, <1>4, FS_Subset, FS_CardinalityType
<1>6. IsFiniteSet(D) /\ Cardinality(D) \in Nat
  BY <1>3, <1>5
<1>7. claim \in D => Cardinality(D) <= MaxUnbondings
  <2>1. CASE MustClaim(a, claim)
    BY <2>1, <1>4 DEF MustClaim
  <2>2. CASE ~MustClaim(a, claim)
    BY <2>2 DEF LedgersBounded
  <2> QED BY <2>1, <2>2
<1>8. claim \notin D => Cardinality(D) < MaxUnbondings
  <2>1. CASE MustClaim(a, claim)
    BY <2>1 DEF Unbond, RoomFor
  <2>2. CASE ~MustClaim(a, claim)
    BY <2>2, <1>2, <1>3 DEF MustClaim
  <2> QED BY <2>1, <2>2
<1>9. DOMAIN Deposited(kept, claim, amount) = D \cup {claim}
  BY DEF Deposited, Put
<1> HIDE DEF kept, D
<1>10. /\ IsFiniteSet(D \cup {claim})
       /\ Cardinality(D \cup {claim}) <= MaxUnbondings
  <2>1. CASE claim \in D
    <3>1. D \cup {claim} = D
      BY <2>1
    <3> QED BY <1>6, <1>7, <2>1, <3>1
  <2>2. CASE claim \notin D
    <3>1. IsFiniteSet(D \cup {claim}) /\ Cardinality(D \cup {claim}) = Cardinality(D) + 1
      BY <1>6, <2>2, FS_AddElement
    <3> QED BY <1>2, <1>6, <1>8, <2>2, <3>1
  <2> QED BY <2>1, <2>2
<1>11. \A b \in Accounts : DOMAIN ledger'[b] = IF b = a THEN D \cup {claim}
                                                       ELSE DOMAIN ledger[b]
  BY <1>1, <1>2, <1>9
<1> QED BY <1>10, <1>11 DEF LedgersFinite, LedgersBounded

(* A claim only takes entries away.                                        *)
LEMMA ClaimBounded ==
  ASSUME Inv, LedgersFinite, LedgersBounded, NEW a \in Accounts, do_claim_unbondings(a)
  PROVE  LedgersFinite' /\ LedgersBounded'
<1>1. DOMAIN ledger = Accounts /\ MaxUnbondings \in Nat
  BY StakingAssumption DEF Inv, TypeOK, BondsOK
<1>2. DOMAIN Unclaimed(a) \subseteq DOMAIN ledger[a]
  BY DEF Unclaimed, Restrict
<1>3. /\ IsFiniteSet(DOMAIN ledger[a]) /\ Cardinality(DOMAIN ledger[a]) \in Nat
      /\ Cardinality(DOMAIN ledger[a]) <= MaxUnbondings
  BY FS_CardinalityType DEF LedgersFinite, LedgersBounded
<1>4. /\ IsFiniteSet(DOMAIN Unclaimed(a)) /\ Cardinality(DOMAIN Unclaimed(a)) \in Nat
      /\ Cardinality(DOMAIN Unclaimed(a)) <= Cardinality(DOMAIN ledger[a])
  BY <1>2, <1>3, FS_Subset, FS_CardinalityType
<1>5. /\ IsFiniteSet(DOMAIN Unclaimed(a))
      /\ Cardinality(DOMAIN Unclaimed(a)) <= MaxUnbondings
  BY <1>1, <1>3, <1>4
<1>6. \A b \in Accounts : ledger'[b] = IF b = a THEN Unclaimed(a) ELSE ledger[b]
  BY <1>1 DEF do_claim_unbondings
<1> QED BY <1>5, <1>6 DEF LedgersFinite, LedgersBounded

(* Every step keeps the bound.                                             *)
LEMMA NextBounded ==
  Inv /\ LedgersFinite /\ LedgersBounded /\ [AnyNext]_vars
    => LedgersFinite' /\ LedgersBounded'
<1> SUFFICES ASSUME Inv, LedgersFinite, LedgersBounded, [AnyNext]_vars
             PROVE  LedgersFinite' /\ LedgersBounded'
  OBVIOUS
<1>1. CASE UNCHANGED ledger
  BY <1>1 DEF LedgersFinite, LedgersBounded
<1>2. CASE AnyDeposit \/ AnyTransfer \/ AnySwap \/ Hook \/ Environment
  <2>1. UNCHANGED ledger
    BY <1>2, LedgersFrame
  <2> QED BY <1>1, <2>1
<1>3. CASE AnyWithdrawal
  BY <1>3, UnbondBounded, ClaimBounded DEF AnyWithdrawal, claim_unbondings,
     remove_delegate_stake, do_remove_delegate_stake, add_balance_to_unbonding_ledger
<1>4. CASE UNCHANGED vars
  BY <1>1, <1>4 DEF vars, bondVars
<1> QED BY <1>2, <1>3, <1>4 DEF AnyNext, AnyCall

(* No unbonding ledger ever holds more than MaxUnbondings entries.         *)
THEOREM LedgersStayBounded == Spec => []LedgersBounded
<1>1. Init => LedgersFinite /\ LedgersBounded
  <2> SUFFICES ASSUME Init PROVE LedgersFinite /\ LedgersBounded
    OBVIOUS
  <2>1. \A a \in Accounts : DOMAIN ledger[a] = {}
    BY DEF Init, EmptyMap
  <2>2. MaxUnbondings >= 0
    BY StakingAssumption
  <2> QED BY <2>1, <2>2, FS_EmptySet DEF LedgersFinite, LedgersBounded
<1>2. Inv /\ LedgersFinite /\ LedgersBounded /\ [Next]_vars
        => LedgersFinite' /\ LedgersBounded'
  BY NextIsAny, NextBounded
<1> QED BY <1>1, <1>2, Invariance, PTL DEF Spec
--------------------------------------------------------------------------------
(***************************************************************************)
(* Sums over finite sets. SumFunctionOnSet folds a recursively defined     *)
(* function; what follows turns it into the equations of a sum.            *)
(***************************************************************************)

(* Induction over the subsets of a finite set: what holds of a set whenever *)
(* it holds of its proper subsets holds of them all. The predicate is a    *)
(* set G, so that the statement is first-order.                            *)
LEMMA FiniteInduction ==
  ASSUME NEW S, IsFiniteSet(S), NEW G,
         \A T \in SUBSET S : (\A U \in SUBSET T : U # T => U \in G) => T \in G
  PROVE  \A T \in SUBSET S : T \in G
<1> DEFINE B == {T \in SUBSET S : T \notin G}
<1> SUFFICES ASSUME NEW A \in SUBSET S, A \notin G PROVE FALSE
  OBVIOUS
<1>1. A \in B
  OBVIOUS
<1>2. FiniteSubsetsOf(S) = SUBSET S
  BY FS_FiniteSubsetsOfFinite
<1>3. IsWellFoundedOn(StrictSubsetOrdering(S), SUBSET S)
  <2>1. IsWellFoundedOn(StrictSubsetOrdering(S), FiniteSubsetsOf(S))
    BY FS_StrictSubsetOrderingWellFounded
  <2> QED BY <2>1, <1>2
<1>4. PICK T \in B : \A U \in B : ~ (<<U, T>> \in StrictSubsetOrdering(S))
  <2>1. B \subseteq SUBSET S /\ B # {}
    BY <1>1
  <2> HIDE DEF B
  <2> QED BY <1>3, <2>1, WFMin
<1>5. ASSUME NEW U \in SUBSET T, U # T PROVE U \in G
  <2>1. U \in SUBSET S /\ T \in SUBSET S
    BY <1>4
  <2>2. <<U, T>> \in StrictSubsetOrdering(S)
    BY <2>1, <1>5 DEF StrictSubsetOrdering
  <2> QED BY <2>1, <2>2, <1>4
<1> QED BY <1>4, <1>5

(* The element SumFunctionOnSet takes from a set first, and the others.    *)
Pick(s) == CHOOSE x \in s : TRUE
Rest(s) == s \ {Pick(s)}

(* g is the function by which SumFunctionOnSet sums up f over the subsets  *)
(* of S.                                                                   *)
SumsUp(f, S, g) ==
  g = [s \in SUBSET S |-> IF s = {} THEN 0 ELSE f[Pick(s)] + g[Rest(s)]]

(* Something is taken from a set that is not empty.                        *)
LEMMA RestSmaller ==
  ASSUME NEW s, s # {}
  PROVE  Pick(s) \in s /\ Rest(s) \in SUBSET s /\ Rest(s) # s
  BY DEF Pick, Rest

(* Two functions that sum up f agree.                                      *)
LEMMA SumsUpOnce ==
  ASSUME NEW f, NEW A, NEW C, NEW g, NEW h, IsFiniteSet(A), A \subseteq C,
         SumsUp(f, A, g), SumsUp(f, C, h)
  PROVE  \A s \in SUBSET A : g[s] = h[s]
<1> DEFINE G == {s \in SUBSET A : g[s] = h[s]}
<1>1. ASSUME NEW T \in SUBSET A, \A U \in SUBSET T : U # T => U \in G
      PROVE  T \in G
  <2>1. CASE T = {}
    <3>1. g[T] = 0
      BY <2>1 DEF SumsUp
    <3>2. h[T] = 0
      BY <2>1 DEF SumsUp
    <3> QED BY <3>1, <3>2
  <2>2. CASE T # {}
    <3>1. g[T] = f[Pick(T)] + g[Rest(T)]
      BY <2>2 DEF SumsUp
    <3>2. T \in SUBSET C
      OBVIOUS
    <3>3. h[T] = f[Pick(T)] + h[Rest(T)]
      BY <2>2, <3>2 DEF SumsUp
    <3>4. Rest(T) \in G
      BY <1>1, <2>2, RestSmaller
    <3> QED BY <3>1, <3>3, <3>4
  <2> QED BY <2>1, <2>2
<1> HIDE DEF G
<1>2. \A s \in SUBSET A : s \in G
  BY <1>1, FiniteInduction
<1> QED BY <1>2 DEF G

(* There is a function that sums up f over the subsets of a finite set.    *)
LEMMA SumsUpExists ==
  ASSUME NEW f, NEW S, IsFiniteSet(S)
  PROVE  \E g : SumsUp(f, S, g)
<1> DEFINE G == {T \in SUBSET S : \E g : SumsUp(f, T, g)}
           H(s) == CHOOSE g : SumsUp(f, s, g)
<1>1. ASSUME NEW T \in SUBSET S, \A U \in SUBSET T : U # T => U \in G
      PROVE  T \in G
  <2> DEFINE g == [s \in SUBSET T |-> IF s = {} THEN 0 ELSE f[Pick(s)] + H(Rest(s))[Rest(s)]]
  <2>1. ASSUME NEW U \in SUBSET T, U # T
        PROVE  SumsUp(f, U, H(U))
    BY <1>1, <2>1
  <2>2. ASSUME NEW w \in SUBSET T, w # T
        PROVE  g[w] = H(w)[w]
    <3>0. SumsUp(f, w, H(w))
      BY <2>1, <2>2
    <3>1. CASE w = {}
      <4>1. g[w] = 0
        BY <3>1
      <4>2. H(w)[w] = 0
        BY <3>0, <3>1 DEF SumsUp
      <4> QED BY <4>1, <4>2
    <3>2. CASE w # {}
      <4>1. g[w] = f[Pick(w)] + H(Rest(w))[Rest(w)]
        BY <3>2
      <4> HIDE DEF H, g
      <4>2. H(w)[w] = f[Pick(w)] + H(w)[Rest(w)]
        BY <3>0, <3>2 DEF SumsUp
      <4>3. Rest(w) \in SUBSET w /\ Rest(w) # w
        BY <3>2, RestSmaller
      <4>4. SumsUp(f, Rest(w), H(Rest(w)))
        BY <4>3, <2>1
      <4>5. IsFiniteSet(Rest(w))
        BY <4>3, FS_Subset
      <4>6. H(Rest(w))[Rest(w)] = H(w)[Rest(w)]
        BY <4>3, <4>4, <4>5, <3>0, SumsUpOnce
      <4> QED BY <4>1, <4>2, <4>6
    <3> QED BY <3>1, <3>2
  <2>3. SumsUp(f, T, g)
    <3>1. ASSUME NEW s \in SUBSET T, s # {}
          PROVE  H(Rest(s))[Rest(s)] = g[Rest(s)]
      <4>1. Rest(s) \in SUBSET T /\ Rest(s) # T
        BY <3>1, RestSmaller
      <4> QED BY <4>1, <2>2
    <3>2. g = [s \in SUBSET T |-> IF s = {} THEN 0 ELSE f[Pick(s)] + g[Rest(s)]]
      <4>1. ASSUME NEW s \in SUBSET T
            PROVE  g[s] = IF s = {} THEN 0 ELSE f[Pick(s)] + g[Rest(s)]
        <5>1. CASE s = {}
          BY <5>1
        <5>2. CASE s # {}
          <6>1. g[s] = f[Pick(s)] + H(Rest(s))[Rest(s)]
            BY <5>2
          <6> HIDE DEF g, H
          <6> QED BY <5>2, <6>1, <3>1
        <5> QED BY <5>1, <5>2
      <4>2. g = [s \in SUBSET T |-> g[s]]
        OBVIOUS
      <4> HIDE DEF g
      <4> QED BY <4>1, <4>2
    <3> HIDE DEF g
    <3> QED BY <3>2 DEF SumsUp
  <2> QED BY <2>3
<1> HIDE DEF G
<1>2. S \in G
  BY <1>1, FiniteInduction
<1> QED BY <1>2 DEF G

(* The sum over a finite set is what that function gives for it.           *)
LEMMA SumIs ==
  ASSUME NEW f, NEW S, IsFiniteSet(S)
  PROVE  \E g : SumsUp(f, S, g) /\ SumFunctionOnSet(f, S) = g[S]
<1> DEFINE g == CHOOSE g : SumsUp(f, S, g)
<1>1. SumsUp(f, S, g)
  BY SumsUpExists
<1>2. SumFunctionOnSet(f, S) = g[S]
  BY DEF SumsUp, Pick, Rest, SumFunctionOnSet, FoldFunctionOnSet, MapThenFoldSet
<1> QED BY <1>1, <1>2

(* The sum over no element is zero.                                        *)
LEMMA SumOfNone == ASSUME NEW f PROVE SumFunctionOnSet(f, {}) = 0
<1>1. PICK g : SumsUp(f, {}, g) /\ SumFunctionOnSet(f, {}) = g[{}]
  BY FS_EmptySet, SumIs
<1> QED BY <1>1 DEF SumsUp

(* The sum over a set is the picked element plus the sum over the rest.    *)
LEMMA SumStep ==
  ASSUME NEW f, NEW S, IsFiniteSet(S), S # {}
  PROVE  SumFunctionOnSet(f, S) = f[Pick(S)] + SumFunctionOnSet(f, Rest(S))
<1>1. PICK g : SumsUp(f, S, g) /\ SumFunctionOnSet(f, S) = g[S]
  BY SumIs
<1>2. Rest(S) \in SUBSET S /\ IsFiniteSet(Rest(S))
  BY RestSmaller, FS_Subset
<1>3. PICK h : SumsUp(f, Rest(S), h) /\ SumFunctionOnSet(f, Rest(S)) = h[Rest(S)]
  BY <1>2, SumIs
<1>4. h[Rest(S)] = g[Rest(S)]
  BY <1>1, <1>2, <1>3, SumsUpOnce
<1>5. g[S] = f[Pick(S)] + g[Rest(S)]
  BY <1>1 DEF SumsUp
<1> QED BY <1>1, <1>3, <1>4, <1>5

(* A sum of integers is an integer.                                        *)
LEMMA SumType ==
  ASSUME NEW f, NEW S, IsFiniteSet(S), \A x \in S : f[x] \in Int
  PROVE  SumFunctionOnSet(f, S) \in Int
<1> DEFINE G == {T \in SUBSET S : SumFunctionOnSet(f, T) \in Int}
<1>1. ASSUME NEW T \in SUBSET S, \A U \in SUBSET T : U # T => U \in G
      PROVE  T \in G
  <2>1. CASE T = {}
    BY <2>1, SumOfNone
  <2>2. CASE T # {}
    <3>1. IsFiniteSet(T) /\ Pick(T) \in T /\ Rest(T) \in G
      BY <1>1, <2>2, RestSmaller, FS_Subset
    <3>2. f[Pick(T)] \in Int /\ SumFunctionOnSet(f, Rest(T)) \in Int
      BY <3>1
    <3> QED BY <2>2, <3>1, <3>2, SumStep
  <2> QED BY <2>1, <2>2
<1> HIDE DEF G
<1>2. S \in G
  BY <1>1, FiniteInduction
<1> QED BY <1>2 DEF G

(* Any element can be taken out of the sum, not only the picked one.       *)
LEMMA SumAnyOrder ==
  ASSUME NEW f, NEW S, IsFiniteSet(S), \A x \in S : f[x] \in Int, NEW x \in S
  PROVE  SumFunctionOnSet(f, S) = f[x] + SumFunctionOnSet(f, S \ {x})
<1> DEFINE Sum(T) == SumFunctionOnSet(f, T)
           G == {T \in SUBSET S : \A y \in T : Sum(T) = f[y] + Sum(T \ {y})}
<1>1. ASSUME NEW T \in SUBSET S, \A U \in SUBSET T : U # T => U \in G
      PROVE  T \in G
  <2> SUFFICES ASSUME NEW y \in T PROVE Sum(T) = f[y] + Sum(T \ {y})
    OBVIOUS
  <2>1. IsFiniteSet(T) /\ Pick(T) \in T /\ Rest(T) \in G /\ Rest(T) \in SUBSET T
    BY <1>1, RestSmaller, FS_Subset
  <2>2. Sum(T) = f[Pick(T)] + Sum(Rest(T))
    BY <2>1, SumStep
  <2>3. CASE y = Pick(T)
    BY <2>2, <2>3 DEF Rest
  <2>4. CASE y # Pick(T)
    <3>1. y \in Rest(T)
      BY <2>4 DEF Rest
    <3>2. Sum(Rest(T)) = f[y] + Sum(Rest(T) \ {y})
      BY <2>1, <3>1
    <3>3. T \ {y} \in SUBSET T /\ T \ {y} # T /\ T \ {y} \in G /\ Pick(T) \in T \ {y}
      BY <1>1, <2>1, <2>4
    <3>4. Sum(T \ {y}) = f[Pick(T)] + Sum((T \ {y}) \ {Pick(T)})
      BY <3>3
    <3>5. Rest(T) \ {y} = (T \ {y}) \ {Pick(T)}
      BY DEF Rest
    <3>6. IsFiniteSet(Rest(T) \ {y}) /\ Rest(T) \ {y} \in SUBSET S
      BY <2>1, FS_Subset
    <3>7. Sum(Rest(T) \ {y}) \in Int
      BY <3>6, SumType
    <3>8. f[y] \in Int /\ f[Pick(T)] \in Int
      BY <2>1
    <3>9. Sum(T \ {y}) = f[Pick(T)] + Sum(Rest(T) \ {y})
      BY <3>4, <3>5
    <3> HIDE DEF Sum
    <3> QED BY <2>2, <3>2, <3>7, <3>8, <3>9
  <2> QED BY <2>3, <2>4
<1> HIDE DEF G
<1>2. S \in G
  BY <1>1, FiniteInduction
<1> QED BY <1>2 DEF G

(* Functions that agree on a set have the same sum over it.                *)
LEMMA SumEqual ==
  ASSUME NEW f, NEW g, NEW S, IsFiniteSet(S), \A x \in S : f[x] = g[x]
  PROVE  SumFunctionOnSet(f, S) = SumFunctionOnSet(g, S)
<1> DEFINE G == {T \in SUBSET S : SumFunctionOnSet(f, T) = SumFunctionOnSet(g, T)}
<1>1. ASSUME NEW T \in SUBSET S, \A U \in SUBSET T : U # T => U \in G
      PROVE  T \in G
  <2>1. CASE T = {}
    BY <2>1, SumOfNone
  <2>2. CASE T # {}
    <3>1. IsFiniteSet(T) /\ Pick(T) \in T /\ Rest(T) \in G
      BY <1>1, <2>2, RestSmaller, FS_Subset
    <3>2. SumFunctionOnSet(f, T) = f[Pick(T)] + SumFunctionOnSet(f, Rest(T))
      BY <2>2, <3>1, SumStep
    <3>3. SumFunctionOnSet(g, T) = g[Pick(T)] + SumFunctionOnSet(g, Rest(T))
      BY <2>2, <3>1, SumStep
    <3>4. f[Pick(T)] = g[Pick(T)] /\ SumFunctionOnSet(f, Rest(T)) = SumFunctionOnSet(g, Rest(T))
      BY <3>1
    <3> QED BY <3>2, <3>3, <3>4
  <2> QED BY <2>1, <2>2
<1> HIDE DEF G
<1>2. S \in G
  BY <1>1, FiniteInduction
<1> QED BY <1>2 DEF G

(* Where functions are ordered on a set, so are their sums, and factors.   *)
LEMMA SumOrdered ==
  ASSUME NEW f, NEW g, NEW S, NEW k \in Nat, NEW m \in Nat, IsFiniteSet(S),
         \A x \in S : f[x] \in Int /\ g[x] \in Int /\ k * f[x] <= m * g[x]
  PROVE  k * SumFunctionOnSet(f, S) <= m * SumFunctionOnSet(g, S)
<1> DEFINE F(T) == SumFunctionOnSet(f, T)
           H(T) == SumFunctionOnSet(g, T)
           G == {T \in SUBSET S : k * F(T) <= m * H(T)}
<1>1. ASSUME NEW T \in SUBSET S, \A U \in SUBSET T : U # T => U \in G
      PROVE  T \in G
  <2>1. CASE T = {}
    BY <2>1, SumOfNone
  <2>2. CASE T # {}
    <3>1. IsFiniteSet(T) /\ Pick(T) \in T /\ Rest(T) \in G /\ Rest(T) \in SUBSET T
      BY <1>1, <2>2, RestSmaller, FS_Subset
    <3>2. F(T) = f[Pick(T)] + F(Rest(T))
      BY <2>2, <3>1, SumStep
    <3>3. H(T) = g[Pick(T)] + H(Rest(T))
      BY <2>2, <3>1, SumStep
    <3>4. IsFiniteSet(Rest(T)) /\ \A x \in Rest(T) : f[x] \in Int /\ g[x] \in Int
      BY <3>1, FS_Subset
    <3>5. F(Rest(T)) \in Int /\ H(Rest(T)) \in Int
      BY <3>4, SumType
    <3>6. f[Pick(T)] \in Int /\ g[Pick(T)] \in Int /\ k * f[Pick(T)] <= m * g[Pick(T)]
      BY <3>1
    <3>7. k * F(Rest(T)) <= m * H(Rest(T))
      BY <3>1
    <3> HIDE DEF F, H
    <3>8. k * F(T) = k * f[Pick(T)] + k * F(Rest(T))
      BY <3>2, <3>5, <3>6
    <3>9. m * H(T) = m * g[Pick(T)] + m * H(Rest(T))
      BY <3>3, <3>5, <3>6
    <3>10. k * F(T) <= m * H(T)
      BY <3>5, <3>6, <3>7, <3>8, <3>9
    <3> QED BY <3>10
  <2> QED BY <2>1, <2>2
<1> HIDE DEF G
<1>2. S \in G
  BY <1>1, FiniteInduction
<1> QED BY <1>2 DEF G

(* The sum of pointwise sums.                                              *)
LEMMA SumOfSums ==
  ASSUME NEW f, NEW g, NEW h, NEW S, IsFiniteSet(S),
         \A x \in S : f[x] \in Int /\ g[x] \in Int /\ h[x] = f[x] + g[x]
  PROVE  SumFunctionOnSet(h, S) = SumFunctionOnSet(f, S) + SumFunctionOnSet(g, S)
<1> DEFINE E(T) == SumFunctionOnSet(h, T)
           F(T) == SumFunctionOnSet(f, T)
           H(T) == SumFunctionOnSet(g, T)
           G == {T \in SUBSET S : E(T) = F(T) + H(T)}
<1>1. ASSUME NEW T \in SUBSET S, \A U \in SUBSET T : U # T => U \in G
      PROVE  T \in G
  <2>1. CASE T = {}
    BY <2>1, SumOfNone
  <2>2. CASE T # {}
    <3>1. IsFiniteSet(T) /\ Pick(T) \in T /\ Rest(T) \in G /\ Rest(T) \in SUBSET T
      BY <1>1, <2>2, RestSmaller, FS_Subset
    <3>2. F(T) = f[Pick(T)] + F(Rest(T))
      BY <2>2, <3>1, SumStep
    <3>3. H(T) = g[Pick(T)] + H(Rest(T))
      BY <2>2, <3>1, SumStep
    <3>4. E(T) = h[Pick(T)] + E(Rest(T))
      BY <2>2, <3>1, SumStep
    <3>5. IsFiniteSet(Rest(T)) /\ \A x \in Rest(T) : f[x] \in Int /\ g[x] \in Int
      BY <3>1, FS_Subset
    <3>6. F(Rest(T)) \in Int /\ H(Rest(T)) \in Int
      BY <3>5, SumType
    <3>7. f[Pick(T)] \in Int /\ g[Pick(T)] \in Int /\ h[Pick(T)] = f[Pick(T)] + g[Pick(T)]
      BY <3>1
    <3>8. E(Rest(T)) = F(Rest(T)) + H(Rest(T))
      BY <3>1
    <3> HIDE DEF E, F, H
    <3>9. E(T) = F(T) + H(T)
      BY <3>2, <3>3, <3>4, <3>6, <3>7, <3>8
    <3> QED BY <3>9
  <2> QED BY <2>1, <2>2
<1> HIDE DEF G
<1>2. S \in G
  BY <1>1, FiniteInduction
<1> QED BY <1>2 DEF G

(* The sum over a set in two parts.                                        *)
LEMMA SumSplit ==
  ASSUME NEW f, NEW S, IsFiniteSet(S), \A x \in S : f[x] \in Int,
         NEW A \in SUBSET S
  PROVE  SumFunctionOnSet(f, S) = SumFunctionOnSet(f, A) + SumFunctionOnSet(f, S \ A)
<1> DEFINE F(T) == SumFunctionOnSet(f, T)
           G == {T \in SUBSET S : F(T) = F(T \cap A) + F(T \ A)}
<1>1. ASSUME NEW T \in SUBSET S, \A U \in SUBSET T : U # T => U \in G
      PROVE  T \in G
  <2>1. CASE T = {}
    <3>1. T \cap A = {} /\ T \ A = {}
      BY <2>1
    <3> QED BY <2>1, <3>1, SumOfNone
  <2>2. CASE T # {}
    <3> DEFINE x == Pick(T)
               R == Rest(T)
    <3>1. IsFiniteSet(T) /\ x \in T /\ R \in G /\ R \in SUBSET T /\ R = T \ {x}
      BY <1>1, <2>2, RestSmaller, FS_Subset DEF Rest
    <3>2. F(T) = f[x] + F(R)
      BY <2>2, <3>1, SumStep
    <3>3. F(R) = F(R \cap A) + F(R \ A)
      BY <3>1
    <3>4. /\ IsFiniteSet(T \cap A) /\ \A y \in T \cap A : f[y] \in Int
          /\ IsFiniteSet(T \ A) /\ \A y \in T \ A : f[y] \in Int
          /\ IsFiniteSet(R \cap A) /\ \A y \in R \cap A : f[y] \in Int
          /\ IsFiniteSet(R \ A) /\ \A y \in R \ A : f[y] \in Int
      BY <3>1, FS_Subset
    <3>5. F(R \cap A) \in Int /\ F(R \ A) \in Int
      BY <3>4, SumType
    <3>6. f[x] \in Int
      BY <3>1
    <3>7. CASE x \in A
      <4>1. x \in T \cap A /\ (T \cap A) \ {x} = R \cap A /\ R \ A = T \ A
        BY <3>1, <3>7
      <4>2. F(T \cap A) = f[x] + F((T \cap A) \ {x})
        BY <3>4, <4>1, SumAnyOrder
      <4>3. F(T \cap A) = f[x] + F(R \cap A) /\ F(T \ A) = F(R \ A)
        BY <4>1, <4>2
      <4> HIDE DEF F, x, R
      <4>4. F(T) = F(T \cap A) + F(T \ A)
        BY <3>2, <3>3, <3>5, <3>6, <4>3
      <4> QED BY <4>4
    <3>8. CASE x \notin A
      <4>1. x \in T \ A /\ (T \ A) \ {x} = R \ A /\ R \cap A = T \cap A
        BY <3>1, <3>8
      <4>2. F(T \ A) = f[x] + F((T \ A) \ {x})
        BY <3>4, <4>1, SumAnyOrder
      <4>3. F(T \ A) = f[x] + F(R \ A) /\ F(T \cap A) = F(R \cap A)
        BY <4>1, <4>2
      <4> HIDE DEF F, x, R
      <4>4. F(T) = F(T \cap A) + F(T \ A)
        BY <3>2, <3>3, <3>5, <3>6, <4>3
      <4> QED BY <4>4
    <3> QED BY <3>1, <3>7, <3>8
  <2> QED BY <2>1, <2>2
<1> HIDE DEF G
<1>2. S \in G
  BY <1>1, FiniteInduction
<1>3. S \cap A = A
  OBVIOUS
<1> QED BY <1>2, <1>3 DEF G

(* The sum of a constant.                                                  *)
LEMMA SumConstant ==
  ASSUME NEW f, NEW S, NEW c \in Int, IsFiniteSet(S), \A x \in S : f[x] = c
  PROVE  SumFunctionOnSet(f, S) = Cardinality(S) * c
<1> DEFINE F(T) == SumFunctionOnSet(f, T)
           G == {T \in SUBSET S : F(T) = Cardinality(T) * c}
<1>1. ASSUME NEW T \in SUBSET S, \A U \in SUBSET T : U # T => U \in G
      PROVE  T \in G
  <2>1. CASE T = {}
    BY <2>1, SumOfNone, FS_EmptySet
  <2>2. CASE T # {}
    <3>1. IsFiniteSet(T) /\ Pick(T) \in T /\ Rest(T) \in G /\ Rest(T) \in SUBSET T
      BY <1>1, <2>2, RestSmaller, FS_Subset
    <3>2. F(T) = f[Pick(T)] + F(Rest(T))
      BY <2>2, <3>1, SumStep
    <3>3. f[Pick(T)] = c /\ F(Rest(T)) = Cardinality(Rest(T)) * c
      BY <3>1
    <3>4. Cardinality(T) \in Nat /\ Cardinality(Rest(T)) = Cardinality(T) - 1
      BY <3>1, FS_CardinalityType, FS_RemoveElement DEF Rest
    <3> HIDE DEF F
    <3>5. F(T) = c + (Cardinality(T) - 1) * c
      BY <3>2, <3>3, <3>4
    <3>6. \A n \in Nat : c + (n - 1) * c = n * c
      OBVIOUS
    <3>7. F(T) = Cardinality(T) * c
      BY <3>4, <3>5, <3>6
    <3> QED BY <3>7
  <2> QED BY <2>1, <2>2
<1> HIDE DEF G
<1>2. S \in G
  BY <1>1, FiniteInduction
<1> QED BY <1>2 DEF G

(* The sum of natural numbers is one, at least each of them and at least   *)
(* the sum over a part.                                                    *)
LEMMA SumOfNaturals ==
  ASSUME NEW f, NEW S, IsFiniteSet(S), \A x \in S : f[x] \in Nat
  PROVE  /\ SumFunctionOnSet(f, S) \in Nat
         /\ \A x \in S : f[x] <= SumFunctionOnSet(f, S)
         /\ \A T \in SUBSET S : SumFunctionOnSet(f, T) \in Nat
                                  /\ SumFunctionOnSet(f, T) <= SumFunctionOnSet(f, S)
<1>1. ASSUME NEW T \in SUBSET S PROVE SumFunctionOnSet(f, T) \in Nat
  <2> DEFINE z == [x \in S |-> 0]
  <2>1. IsFiniteSet(T) /\ \A x \in T : f[x] \in Int /\ z[x] = 0 /\ 1 * z[x] <= 1 * f[x]
    BY FS_Subset
  <2>2. SumFunctionOnSet(f, T) \in Int
    BY <2>1, SumType
  <2> HIDE DEF z
  <2>3. SumFunctionOnSet(z, T) = Cardinality(T) * 0
    BY <2>1, SumConstant
  <2>4. SumFunctionOnSet(z, T) = 0
    BY <2>1, <2>3, FS_CardinalityType
  <2>5. 1 * SumFunctionOnSet(z, T) <= 1 * SumFunctionOnSet(f, T)
    BY <2>1, SumOrdered
  <2> QED BY <2>2, <2>4, <2>5
<1>2. ASSUME NEW T \in SUBSET S
      PROVE  SumFunctionOnSet(f, T) <= SumFunctionOnSet(f, S)
  <2>1. S \ T \in SUBSET S
    OBVIOUS
  <2>2. SumFunctionOnSet(f, S) = SumFunctionOnSet(f, T) + SumFunctionOnSet(f, S \ T)
    BY SumSplit
  <2>3. SumFunctionOnSet(f, T) \in Nat /\ SumFunctionOnSet(f, S \ T) \in Nat
    BY <1>1, <2>1
  <2> QED BY <2>2, <2>3
<1>3. ASSUME NEW x \in S PROVE f[x] <= SumFunctionOnSet(f, S)
  <2>1. SumFunctionOnSet(f, S) = f[x] + SumFunctionOnSet(f, S \ {x})
    BY SumAnyOrder
  <2>2. SumFunctionOnSet(f, S \ {x}) \in Nat
    BY <1>1
  <2> QED BY <2>1, <2>2
<1> QED BY <1>1, <1>2, <1>3

(* Functions that differ at one place.                                     *)
LEMMA SumExcept ==
  ASSUME NEW f, NEW g, NEW S, IsFiniteSet(S), NEW x \in S,
         \A y \in S : f[y] \in Int /\ g[y] \in Int /\ (y # x => g[y] = f[y])
  PROVE  SumFunctionOnSet(g, S) = SumFunctionOnSet(f, S) - f[x] + g[x]
<1>1. SumFunctionOnSet(f, S) = f[x] + SumFunctionOnSet(f, S \ {x})
  BY SumAnyOrder
<1>2. SumFunctionOnSet(g, S) = g[x] + SumFunctionOnSet(g, S \ {x})
  BY SumAnyOrder
<1>3. IsFiniteSet(S \ {x})
  BY FS_RemoveElement
<1>4. SumFunctionOnSet(f, S \ {x}) = SumFunctionOnSet(g, S \ {x})
  BY <1>3, SumEqual
<1>5. SumFunctionOnSet(f, S \ {x}) \in Int
  BY <1>3, SumType
<1> QED BY <1>1, <1>2, <1>4, <1>5

(* A sum gains a new place.                                                *)
LEMMA SumGains ==
  ASSUME NEW f, NEW g, NEW S, NEW x, NEW D, IsFiniteSet(S), x \notin S, D = S \cup {x},
         g[x] \in Int, \A y \in S : f[y] \in Int /\ g[y] = f[y]
  PROVE  SumFunctionOnSet(g, D) = SumFunctionOnSet(f, S) + g[x]
<1>1. IsFiniteSet(D) /\ x \in D /\ D \ {x} = S
  BY FS_AddElement
<1>2. \A y \in D : g[y] \in Int
  OBVIOUS
<1>3. SumFunctionOnSet(g, D) = g[x] + SumFunctionOnSet(g, D \ {x})
  BY <1>1, <1>2, SumAnyOrder
<1>4. SumFunctionOnSet(g, D \ {x}) = SumFunctionOnSet(g, S)
  BY <1>1
<1>5. SumFunctionOnSet(g, S) = SumFunctionOnSet(f, S)
  BY SumEqual
<1>6. SumFunctionOnSet(f, S) \in Int
  BY SumType
<1> QED BY <1>3, <1>4, <1>5, <1>6

(* A sum of zeros.                                                         *)
LEMMA SumOfZeros ==
  ASSUME NEW f, NEW S, IsFiniteSet(S), \A x \in S : f[x] = 0
  PROVE  SumFunctionOnSet(f, S) = 0
<1>1. SumFunctionOnSet(f, S) = Cardinality(S) * 0
  BY SumConstant
<1> QED BY <1>1, FS_CardinalityType

(* A sum in which only some places count.                                  *)
LEMMA SumOfSome ==
  ASSUME NEW f, NEW g, NEW S, NEW A, IsFiniteSet(S),
         \A x \in S \cap A : f[x] \in Int /\ g[x] = f[x],
         \A x \in S \ A : g[x] = 0
  PROVE  SumFunctionOnSet(g, S) = SumFunctionOnSet(f, A \cap S)
<1> DEFINE T == A \cap S
<1>1. T \in SUBSET S /\ IsFiniteSet(T) /\ IsFiniteSet(S \ T) /\ S \ T = S \ A
  BY FS_Subset
<1>2. \A x \in T : f[x] \in Int /\ g[x] = f[x]
  OBVIOUS
<1>3. \A x \in S \ T : g[x] = 0
  OBVIOUS
<1> HIDE DEF T
<1>4. \A x \in S : g[x] \in Int
  BY <1>2, <1>3
<1>5. SumFunctionOnSet(g, S) = SumFunctionOnSet(g, T) + SumFunctionOnSet(g, S \ T)
  BY <1>1, <1>4, SumSplit
<1>6. SumFunctionOnSet(g, S \ T) = Cardinality(S \ T) * 0
  BY <1>1, <1>3, SumConstant
<1>7. SumFunctionOnSet(g, S \ T) = 0
  BY <1>1, <1>6, FS_CardinalityType
<1>8. SumFunctionOnSet(g, T) = SumFunctionOnSet(f, T) /\ SumFunctionOnSet(g, T) \in Int
  BY <1>1, <1>2, SumEqual, SumType
<1> QED BY <1>5, <1>7, <1>8 DEF T

(* A sum over the domain.                                                  *)
LEMMA SumOver == ASSUME NEW f, NEW S, DOMAIN f = S PROVE SumFunction(f) = SumFunctionOnSet(f, S)
  BY DEF SumFunction
--------------------------------------------------------------------------------
(***************************************************************************)
(* Conversions round down.                                                 *)
(***************************************************************************)

(* Division rounds down.                                                   *)
LEMMA FloorDiv ==
  ASSUME NEW x \in Nat, NEW m \in Nat, m > 0
  PROVE  x \div m \in Nat /\ m * (x \div m) <= x /\ x < m * (x \div m) + m
  OBVIOUS

(* Multiplication keeps the order.                                         *)
LEMMA Product ==
  ASSUME NEW x \in Nat, NEW y \in Nat, NEW z \in Nat, x <= y
  PROVE  x * z <= y * z /\ z * x <= z * y
  OBVIOUS

(* Shares of a pool are worth no more than it holds.                       *)
LEMMA WorthWithin ==
  ASSUME NEW n \in Nat, NEW S \in Nat, NEW B \in Nat, n <= S
  PROVE  LET q == (n * (B + 1)) \div (S + 10)
         IN  q \in Nat /\ q <= B /\ (S + 10) * q <= (B + 1) * n
<1> DEFINE x == n * (B + 1)
           q == x \div (S + 10)
<1>1. x \in Nat /\ q \in Nat /\ (S + 10) * q <= x
  BY FloorDiv
<1>2. x <= S * (B + 1)
  BY Product
<1>3. S * (B + 1) < (S + 10) * (B + 1)
  OBVIOUS
<1>4. ASSUME q >= B + 1 PROVE FALSE
  <2>1. (S + 10) * (B + 1) <= (S + 10) * q
    BY <1>1, <1>4, Product
  <2> QED BY <1>1, <1>2, <1>3, <2>1
<1>5. x = (B + 1) * n
  OBVIOUS
<1> QED BY <1>1, <1>4, <1>5
--------------------------------------------------------------------------------
(***************************************************************************)
(* What the books sum up.                                                  *)
(***************************************************************************)

(* What the pools of one kind hold, as TotalsAgree sums it up.             *)
KindTotal(k) == SumFunction([p \in PoolsOf(k) |-> pool[p].balance])

(* The sets the books sum over are finite.                                 *)
LEMMA FinitelyMany ==
  /\ IsFiniteSet(Accounts) /\ IsFiniteSet(Pools)
  /\ \A k \in Kinds : IsFiniteSet(PoolsOf(k)) /\ PoolsOf(k) \in SUBSET Pools
<1>1. IsFiniteSet(Accounts) /\ IsFiniteSet(Subnets) /\ IsFiniteSet(Validators)
  BY StakingAssumption
<1>2. IsFiniteSet(Subnets \cup Validators)
  BY <1>1, FS_Union
<1> QED BY <1>1, <1>2 DEF Pools, PoolsOf, Kinds

(* The queue is finite.                                                    *)
LEMMA QueueFinite == Inv => IsFiniteSet(DOMAIN calls)
<1> SUFFICES ASSUME Inv PROVE IsFiniteSet(DOMAIN calls)
  OBVIOUS
<1>1. DOMAIN calls = Range(order) /\ order \in Seq(Nat)
  BY DEF Inv, TypeOK, QueueOK, QueueCoherent
<1>2. DOMAIN order = 1 .. Len(order) /\ Len(order) \in Nat
  BY <1>1
<1>3. IsFiniteSet(DOMAIN order)
  BY <1>2, FS_Interval
<1>4. order \in Surjection(DOMAIN order, Range(order))
  <2>1. order \in [DOMAIN order -> Range(order)]
    BY <1>1, <1>2 DEF Range
  <2>2. \A t \in Range(order) : \E s \in DOMAIN order : order[s] = t
    BY DEF Range
  <2> QED BY <2>1, <2>2 DEF Surjection
<1>5. IsFiniteSet(Range(order))
  BY <1>3, <1>4, FS_Surjection
<1> QED BY <1>1, <1>5

(* What the books hold are natural numbers, and no part exceeds the whole. *)
LEMMA InAccountsFacts ==
  ASSUME RestOK
  PROVE  InAccounts \in Nat /\ \A a \in Accounts : free[a] \in Nat /\ free[a] <= InAccounts
<1>1. DOMAIN free = Accounts /\ \A a \in Accounts : free[a] \in Nat
  BY MaxBalanceAssumption DEF RestOK
<1>2. InAccounts = SumFunctionOnSet(free, Accounts)
  BY <1>1, SumOver DEF InAccounts
<1> QED BY <1>1, <1>2, FinitelyMany, SumOfNaturals

(* The pools, and the pools of one kind.                                   *)
LEMMA InPoolsFacts ==
  ASSUME PoolsOK
  PROVE  /\ InPools \in Nat
         /\ \A p \in Pools : pool[p].balance \in Nat /\ pool[p].balance <= InPools
         /\ \A k \in Kinds : KindTotal(k) \in Nat /\ KindTotal(k) <= InPools
<1> DEFINE f == [p \in Pools |-> pool[p].balance]
<1>1. \A p \in Pools : f[p] = pool[p].balance /\ f[p] \in Nat
  BY MaxBalanceAssumption DEF PoolsOK
<1>2. InPools = SumFunctionOnSet(f, Pools)
  BY SumOver DEF InPools
<1>3. ASSUME NEW k \in Kinds PROVE KindTotal(k) = SumFunctionOnSet(f, PoolsOf(k))
  <2> DEFINE g == [p \in PoolsOf(k) |-> pool[p].balance]
  <2>1. KindTotal(k) = SumFunctionOnSet(g, PoolsOf(k))
    BY SumOver DEF KindTotal
  <2>2. \A p \in PoolsOf(k) : g[p] = f[p]
    BY FinitelyMany
  <2> HIDE DEF f, g
  <2> QED BY <2>1, <2>2, FinitelyMany, SumEqual
<1> HIDE DEF f
<1> QED BY <1>1, <1>2, <1>3, FinitelyMany, SumOfNaturals

(* The ledgers, one account's ledger, a part of it and one of its entries. *)
LEMMA InLedgersFacts ==
  ASSUME BondsOK, LedgersFinite
  PROVE  /\ InLedgers \in Nat
         /\ \A a \in Accounts : /\ SumFunction(ledger[a]) \in Nat
                                /\ SumFunction(ledger[a]) <= InLedgers
                                /\ \A T \in SUBSET DOMAIN ledger[a] :
                                     /\ SumFunctionOnSet(ledger[a], T) \in Nat
                                     /\ SumFunctionOnSet(ledger[a], T) <= SumFunction(ledger[a])
                                /\ \A c \in DOMAIN ledger[a] :
                                     ledger[a][c] \in Nat /\ ledger[a][c] <= SumFunction(ledger[a])
<1> DEFINE f == [a \in Accounts |-> SumFunction(ledger[a])]
<1>1. ASSUME NEW a \in Accounts
      PROVE  /\ SumFunction(ledger[a]) \in Nat
             /\ \A T \in SUBSET DOMAIN ledger[a] :
                     /\ SumFunctionOnSet(ledger[a], T) \in Nat
                     /\ SumFunctionOnSet(ledger[a], T) <= SumFunction(ledger[a])
             /\ \A c \in DOMAIN ledger[a] :
                     ledger[a][c] \in Nat /\ ledger[a][c] <= SumFunction(ledger[a])
  <2>1. IsFiniteSet(DOMAIN ledger[a]) /\ \A c \in DOMAIN ledger[a] : ledger[a][c] \in Nat
    BY MaxBalanceAssumption DEF BondsOK, IsLedger, LedgersFinite
  <2> QED BY <2>1, SumOfNaturals DEF SumFunction
<1>2. InLedgers = SumFunctionOnSet(f, Accounts)
  BY SumOver DEF InLedgers
<1>3. \A a \in Accounts : f[a] = SumFunction(ledger[a]) /\ f[a] \in Nat
  BY <1>1
<1>4. InLedgers \in Nat /\ \A a \in Accounts : f[a] <= InLedgers
  <2> HIDE DEF f
  <2> QED BY <1>2, <1>3, FinitelyMany, SumOfNaturals
<1> QED BY <1>1, <1>3, <1>4

(* The swaps in the queue.                                                 *)
LEMMA InQueueFacts ==
  ASSUME Inv
  PROVE  /\ InQueue \in Nat
         /\ \A i \in DOMAIN calls : calls[i].balance \in Nat /\ calls[i].balance <= InQueue
<1> DEFINE f == [i \in DOMAIN calls |-> calls[i].balance]
<1>1. \A i \in DOMAIN calls : f[i] = calls[i].balance /\ f[i] \in Nat
  BY MaxBalanceAssumption DEF Inv, TypeOK, QueueOK, SwapItem
<1>2. InQueue = SumFunctionOnSet(f, DOMAIN calls)
  BY SumOver DEF InQueue
<1> HIDE DEF f
<1> QED BY <1>1, <1>2, QueueFinite, SumOfNaturals

(* The shares the accounts hold of a pool.                                 *)
LEMMA HeldFacts ==
  ASSUME PoolsOK, NEW p \in Pools
  PROVE  /\ SharesHeld(p) \in Nat
         /\ \A a \in Accounts : shares[a][p] \in Nat /\ shares[a][p] <= SharesHeld(p)
<1> DEFINE f == [a \in Accounts |-> shares[a][p]]
<1>1. \A a \in Accounts : f[a] = shares[a][p] /\ f[a] \in Nat
  BY MaxBalanceAssumption DEF PoolsOK
<1>2. SharesHeld(p) = SumFunctionOnSet(f, Accounts)
  BY SumOver DEF SharesHeld
<1> HIDE DEF f
<1> QED BY <1>1, <1>2, FinitelyMany, SumOfNaturals

(***************************************************************************)
(* What a step that changes one place does to the sums.                    *)
(***************************************************************************)

(* One account's balance changes.                                          *)
LEMMA AccountsChange ==
  ASSUME RestOK, RestOK', NEW a \in Accounts,
         \A b \in Accounts : b # a => free'[b] = free[b]
  PROVE  InAccounts' = InAccounts - free[a] + free'[a]
<1>1. /\ DOMAIN free = Accounts /\ \A b \in Accounts : free[b] \in Int
      /\ DOMAIN free' = Accounts /\ \A b \in Accounts : free'[b] \in Int
  BY MaxBalanceAssumption DEF RestOK
<1>2. InAccounts = SumFunctionOnSet(free, Accounts)
  BY <1>1, SumOver DEF InAccounts
<1>3. InAccounts' = SumFunctionOnSet(free', Accounts)
  BY <1>1, SumOver DEF InAccounts
<1>4. \A b \in Accounts : free[b] \in Int /\ free'[b] \in Int /\ (b # a => free'[b] = free[b])
  BY <1>1
<1>5. SumFunctionOnSet(free', Accounts) = SumFunctionOnSet(free, Accounts) - free[a] + free'[a]
  BY <1>4, FinitelyMany, SumExcept
<1> QED BY <1>2, <1>3, <1>5

(* One pool's balance changes.                                             *)
LEMMA PoolsChange ==
  ASSUME PoolsOK, PoolsOK', NEW p \in Pools,
         \A q \in Pools : q # p => pool'[q].balance = pool[q].balance
  PROVE  /\ InPools' = InPools - pool[p].balance + pool'[p].balance
         /\ KindTotal(Kind(p))' = KindTotal(Kind(p)) - pool[p].balance + pool'[p].balance
         /\ \A k \in Kinds : k # Kind(p) => KindTotal(k)' = KindTotal(k)
<1>0. \A q \in Pools : pool[q].balance \in Int /\ pool'[q].balance \in Int
  BY MaxBalanceAssumption DEF PoolsOK
<1>1. InPools' = InPools - pool[p].balance + pool'[p].balance
  <2> DEFINE f == [q \in Pools |-> pool[q].balance]
             g == [q \in Pools |-> pool'[q].balance]
  <2>1. InPools = SumFunctionOnSet(f, Pools) /\ InPools' = SumFunctionOnSet(g, Pools)
    BY SumOver DEF InPools
  <2>2. \A q \in Pools : f[q] \in Int /\ g[q] \in Int /\ (q # p => g[q] = f[q])
    BY <1>0
  <2>3. f[p] = pool[p].balance /\ g[p] = pool'[p].balance
    OBVIOUS
  <2> HIDE DEF f, g
  <2>4. SumFunctionOnSet(g, Pools) = SumFunctionOnSet(f, Pools) - f[p] + g[p]
    BY <2>2, FinitelyMany, SumExcept
  <2> QED BY <2>1, <2>3, <2>4
<1>2. ASSUME NEW k \in Kinds, p \in PoolsOf(k)
      PROVE  KindTotal(k)' = KindTotal(k) - pool[p].balance + pool'[p].balance
  <2> DEFINE f == [q \in PoolsOf(k) |-> pool[q].balance]
             g == [q \in PoolsOf(k) |-> pool'[q].balance]
  <2>1. KindTotal(k) = SumFunctionOnSet(f, PoolsOf(k)) /\ KindTotal(k)' = SumFunctionOnSet(g, PoolsOf(k))
    BY SumOver DEF KindTotal, PoolsOf
  <2>2. \A q \in PoolsOf(k) : f[q] \in Int /\ g[q] \in Int /\ (q # p => g[q] = f[q])
    BY <1>0, FinitelyMany
  <2>3. f[p] = pool[p].balance /\ g[p] = pool'[p].balance
    BY <1>2
  <2> HIDE DEF f, g
  <2>4. SumFunctionOnSet(g, PoolsOf(k)) = SumFunctionOnSet(f, PoolsOf(k)) - f[p] + g[p]
    BY <1>2, <2>2, FinitelyMany, SumExcept
  <2> QED BY <2>1, <2>3, <2>4
<1>3. ASSUME NEW k \in Kinds, p \notin PoolsOf(k)
      PROVE  KindTotal(k)' = KindTotal(k)
  <2> DEFINE f == [q \in PoolsOf(k) |-> pool[q].balance]
             g == [q \in PoolsOf(k) |-> pool'[q].balance]
  <2>1. KindTotal(k) = SumFunctionOnSet(f, PoolsOf(k)) /\ KindTotal(k)' = SumFunctionOnSet(g, PoolsOf(k))
    BY SumOver DEF KindTotal, PoolsOf
  <2>2. \A q \in PoolsOf(k) : f[q] = g[q]
    BY <1>3, FinitelyMany
  <2> HIDE DEF f, g
  <2> QED BY <2>1, <2>2, FinitelyMany, SumEqual
<1>4. /\ Kind(p) \in Kinds /\ p \in PoolsOf(Kind(p))
      /\ \A k \in Kinds : k # Kind(p) => p \notin PoolsOf(k)
  BY StakingAssumption DEF Kind, Kinds, PoolsOf, Pools
<1> QED BY <1>1, <1>2, <1>3, <1>4

(* One ledger changes.                                                     *)
LEMMA LedgersChange ==
  ASSUME BondsOK, LedgersFinite, BondsOK', LedgersFinite', NEW a \in Accounts,
         \A b \in Accounts : b # a => ledger'[b] = ledger[b]
  PROVE  InLedgers' = InLedgers - SumFunction(ledger[a]) + SumFunction(ledger'[a])
<1> DEFINE f == [b \in Accounts |-> SumFunction(ledger[b])]
           g == [b \in Accounts |-> SumFunction(ledger'[b])]
<1>1. InLedgers = SumFunctionOnSet(f, Accounts) /\ InLedgers' = SumFunctionOnSet(g, Accounts)
  BY SumOver DEF InLedgers
<1>2. \A b \in Accounts : SumFunction(ledger[b]) \in Int
  BY InLedgersFacts
<1>3. \A b \in Accounts : SumFunction(ledger'[b]) \in Int
  <2> SUFFICES ASSUME NEW b \in Accounts PROVE SumFunction(ledger'[b]) \in Int
    OBVIOUS
  <2>1. IsFiniteSet(DOMAIN ledger'[b]) /\ \A c \in DOMAIN ledger'[b] : ledger'[b][c] \in Int
    BY MaxBalanceAssumption DEF BondsOK, IsLedger, LedgersFinite
  <2> QED BY <2>1, SumType DEF SumFunction
<1>4. \A b \in Accounts : f[b] \in Int /\ g[b] \in Int /\ (b # a => g[b] = f[b])
  BY <1>2, <1>3
<1>5. f[a] = SumFunction(ledger[a]) /\ g[a] = SumFunction(ledger'[a])
  OBVIOUS
<1> HIDE DEF f, g
<1>6. SumFunctionOnSet(g, Accounts) = SumFunctionOnSet(f, Accounts) - f[a] + g[a]
  BY <1>4, FinitelyMany, SumExcept
<1> QED BY <1>1, <1>5, <1>6

(* An account's shares of a pool change.                                   *)
LEMMA HeldChange ==
  ASSUME PoolsOK, PoolsOK', NEW a \in Accounts, NEW p \in Pools,
         \A b \in Accounts, q \in Pools : b # a \/ q # p => shares'[b][q] = shares[b][q]
  PROVE  /\ SharesHeld(p)' = SharesHeld(p) - shares[a][p] + shares'[a][p]
         /\ \A q \in Pools : q # p => SharesHeld(q)' = SharesHeld(q)
<1>0. \A b \in Accounts, q \in Pools : shares[b][q] \in Int /\ shares'[b][q] \in Int
  BY MaxBalanceAssumption DEF PoolsOK
<1>1. SharesHeld(p)' = SharesHeld(p) - shares[a][p] + shares'[a][p]
  <2> DEFINE f == [b \in Accounts |-> shares[b][p]]
             g == [b \in Accounts |-> shares'[b][p]]
  <2>1. SharesHeld(p) = SumFunctionOnSet(f, Accounts) /\ SharesHeld(p)' = SumFunctionOnSet(g, Accounts)
    BY SumOver DEF SharesHeld
  <2>2. \A b \in Accounts : f[b] \in Int /\ g[b] \in Int /\ (b # a => g[b] = f[b])
    BY <1>0
  <2>3. f[a] = shares[a][p] /\ g[a] = shares'[a][p]
    OBVIOUS
  <2> HIDE DEF f, g
  <2>4. SumFunctionOnSet(g, Accounts) = SumFunctionOnSet(f, Accounts) - f[a] + g[a]
    BY <2>2, FinitelyMany, SumExcept
  <2> QED BY <2>1, <2>3, <2>4
<1>2. ASSUME NEW q \in Pools, q # p PROVE SharesHeld(q)' = SharesHeld(q)
  <2>1. [b \in Accounts |-> shares'[b][q]] = [b \in Accounts |-> shares[b][q]]
    BY <1>2
  <2> QED BY <2>1 DEF SharesHeld
<1> QED BY <1>1, <1>2

(* An unbonding raises the ledger it is entered in by its amount.          *)
LEMMA DepositedSum ==
  ASSUME NEW l, IsFiniteSet(DOMAIN l), \A c \in DOMAIN l : l[c] \in Nat,
         NEW claim, NEW x \in Nat, x <= MaxBalance,
         claim \in DOMAIN l => l[claim] + x <= MaxBalance
  PROVE  SumFunction(Deposited(l, claim, x)) = SumFunction(l) + x
<1> DEFINE g == Deposited(l, claim, x)
<1>1. DOMAIN g = DOMAIN l \cup {claim}
  BY DEF Deposited, Put
<1>2. \A c \in DOMAIN l : c # claim => g[c] = l[c]
  BY DEF Deposited, Put
<1>3. CASE claim \in DOMAIN l
  <2>1. g[claim] = l[claim] + x
    <3>1. SatAdd(l[claim], x) = l[claim] + x
      BY <1>3, MaxBalanceAssumption DEF SatAdd
    <3> QED BY <1>3, <3>1 DEF Deposited, Put
  <2>2. DOMAIN g = DOMAIN l
    BY <1>1, <1>3
  <2> HIDE DEF g
  <2>3. \A c \in DOMAIN l : l[c] \in Int /\ g[c] \in Int /\ (c # claim => g[c] = l[c])
    BY <1>2, <1>3, <2>1
  <2>4. SumFunctionOnSet(g, DOMAIN l) = SumFunctionOnSet(l, DOMAIN l) - l[claim] + g[claim]
    BY <1>3, <2>3, SumExcept
  <2>5. SumFunctionOnSet(l, DOMAIN l) \in Int /\ l[claim] \in Int
    BY <1>3, SumType
  <2>6. SumFunctionOnSet(g, DOMAIN l) = SumFunctionOnSet(l, DOMAIN l) + x
    BY <2>1, <2>4, <2>5
  <2>7. SumFunction(g) = SumFunction(l) + x
    BY <2>2, <2>6 DEF SumFunction
  <2> QED BY <2>7 DEF g
<1>4. CASE claim \notin DOMAIN l
  <2>1. g[claim] = x
    BY <1>4 DEF Deposited, Put
  <2> HIDE DEF g
  <2>2. \A c \in DOMAIN l : l[c] \in Int /\ g[c] = l[c]
    BY <1>2, <1>4
  <2>3. SumFunctionOnSet(g, DOMAIN g) = SumFunctionOnSet(l, DOMAIN l) + g[claim]
    BY <1>1, <1>4, <2>1, <2>2, SumGains
  <2>4. SumFunction(g) = SumFunction(l) + x
    BY <2>1, <2>3 DEF SumFunction
  <2> QED BY <2>4 DEF g
<1> QED BY <1>3, <1>4

(* What a ledger keeps when a part is paid out.                            *)
LEMMA RestrictSum ==
  ASSUME NEW l, IsFiniteSet(DOMAIN l), \A c \in DOMAIN l : l[c] \in Nat,
         NEW M \in SUBSET DOMAIN l
  PROVE  SumFunction(Restrict(l, DOMAIN l \ M)) = SumFunction(l) - SumFunctionOnSet(l, M)
<1> DEFINE g == Restrict(l, DOMAIN l \ M)
<1>1. DOMAIN g = DOMAIN l \ M /\ \A c \in DOMAIN l \ M : g[c] = l[c]
  BY DEF Restrict
<1>2. IsFiniteSet(DOMAIN l \ M) /\ IsFiniteSet(M)
  BY FS_Subset
<1> HIDE DEF g
<1>3. SumFunction(g) = SumFunctionOnSet(l, DOMAIN l \ M)
  BY <1>1, <1>2, SumEqual DEF SumFunction
<1>4. SumFunctionOnSet(l, DOMAIN l) = SumFunctionOnSet(l, M) + SumFunctionOnSet(l, DOMAIN l \ M)
  BY SumSplit
<1>5. SumFunctionOnSet(l, M) \in Int /\ SumFunctionOnSet(l, DOMAIN l \ M) \in Int
  BY <1>2, SumType
<1>6. SumFunction(g) = SumFunction(l) - SumFunctionOnSet(l, M)
  BY <1>3, <1>4, <1>5 DEF SumFunction
<1> QED BY <1>6 DEF g

(* A new swap enters the queue with its amount.                            *)
LEMMA QueueGains ==
  ASSUME Inv, NEW a, NEW to, NEW x \in Nat, queue_swap(a, to, x)
  PROVE  InQueue' = InQueue + x
<1> DEFINE f == [i \in DOMAIN calls |-> calls[i].balance]
           g == [i \in DOMAIN calls' |-> calls'[i].balance]
<1>1. DOMAIN calls' = DOMAIN calls \cup {nextId}
  BY DEF queue_swap, Put
<1>2. nextId \notin DOMAIN calls
  <2> SUFFICES ASSUME nextId \in DOMAIN calls PROVE FALSE
    OBVIOUS
  <2>1. order \in Seq(Nat) /\ nextId \in Nat
    BY DEF Inv, TypeOK, QueueOK
  <2>2. PICK i \in DOMAIN order : order[i] = nextId
    BY DEF Inv, QueueCoherent, Range
  <2>3. DOMAIN order = 1 .. Len(order)
    BY <2>1
  <2>4. order[i] < nextId
    BY <2>2, <2>3 DEF Inv, QueueCoherent
  <2> QED BY <2>1, <2>2, <2>4
<1>3. InQueue = SumFunctionOnSet(f, DOMAIN calls)
  BY SumOver DEF InQueue
<1>4. InQueue' = SumFunctionOnSet(g, DOMAIN calls')
  BY SumOver DEF InQueue
<1>5. calls'[nextId].balance = x
  BY DEF queue_swap, Put, QueuedSwapItem
<1>6. \A i \in DOMAIN calls : calls'[i] = calls[i]
  BY <1>2 DEF queue_swap, Put
<1>7. g[nextId] = x
  BY <1>1, <1>5
<1>8. \A i \in DOMAIN calls : f[i] \in Int /\ g[i] = f[i]
  BY <1>1, <1>6, InQueueFacts
<1> HIDE DEF f, g
<1>9. SumFunctionOnSet(g, DOMAIN calls') = SumFunctionOnSet(f, DOMAIN calls) + g[nextId]
  <2> DEFINE S == DOMAIN calls
             D == DOMAIN calls'
  <2>1. IsFiniteSet(S) /\ g[nextId] \in Int
    BY <1>7, QueueFinite
  <2>2. D = S \cup {nextId} /\ nextId \notin S /\ \A i \in S : f[i] \in Int /\ g[i] = f[i]
    BY <1>1, <1>2, <1>8
  <2> HIDE DEF S, D
  <2>3. SumFunctionOnSet(g, D) = SumFunctionOnSet(f, S) + g[nextId]
    BY <2>1, <2>2, SumGains
  <2> QED BY <2>3 DEF S, D
<1> QED BY <1>3, <1>4, <1>7, <1>9

(* An update changes no amount.                                            *)
LEMMA QueueKeeps ==
  ASSUME Inv, NEW a, NEW id, NEW to, update_swap_queue(a, id, to)
  PROVE  InQueue' = InQueue
<1>1. DOMAIN calls' = DOMAIN calls /\ \A i \in DOMAIN calls : calls'[i].balance = calls[i].balance
  BY DEF update_swap_queue, Inv, TypeOK, QueueOK, SwapItem
<1>2. [i \in DOMAIN calls' |-> calls'[i].balance] = [i \in DOMAIN calls |-> calls[i].balance]
  BY <1>1
<1> QED BY <1>2 DEF InQueue

(* The hook takes the amount of the head from the queue.                   *)
LEMMA QueueLoses ==
  ASSUME Inv, order # <<>>, Dequeue
  PROVE  /\ Head(order) \in DOMAIN calls
         /\ InQueue' = InQueue - calls[Head(order)].balance
<1> DEFINE h == Head(order)
           f == [i \in DOMAIN calls |-> calls[i].balance]
           g == [i \in DOMAIN calls \ {h} |-> calls'[i].balance]
<1>1. h \in DOMAIN calls
  <2>1. order \in Seq(Nat)
    BY DEF Inv, TypeOK, QueueOK
  <2>2. Len(order) > 0 /\ h = order[1] /\ 1 \in DOMAIN order
    BY <2>1
  <2> QED BY <2>2 DEF Inv, QueueCoherent, Range
<1>2. DOMAIN calls' = DOMAIN calls \ {h} /\ \A i \in DOMAIN calls \ {h} : calls'[i] = calls[i]
  BY DEF Dequeue, Restrict
<1>3. InQueue = SumFunctionOnSet(f, DOMAIN calls)
  BY SumOver DEF InQueue
<1>4. InQueue' = SumFunctionOnSet(g, DOMAIN calls \ {h})
  BY <1>2, SumOver DEF InQueue
<1>5. f[h] = calls[h].balance /\ \A i \in DOMAIN calls : f[i] \in Int
  BY <1>1, InQueueFacts
<1>6. \A i \in DOMAIN calls \ {h} : f[i] = g[i]
  BY <1>2
<1>7. IsFiniteSet(DOMAIN calls) /\ IsFiniteSet(DOMAIN calls \ {h})
  BY QueueFinite, FS_RemoveElement
<1> HIDE DEF f, g, h
<1>8. SumFunctionOnSet(f, DOMAIN calls) = f[h] + SumFunctionOnSet(f, DOMAIN calls \ {h})
  BY <1>1, <1>5, <1>7, SumAnyOrder
<1>9. SumFunctionOnSet(f, DOMAIN calls \ {h}) = SumFunctionOnSet(g, DOMAIN calls \ {h})
  BY <1>6, <1>7, SumEqual
<1>10. SumFunctionOnSet(f, DOMAIN calls \ {h}) \in Int
  BY <1>5, <1>7, SumType
<1> QED BY <1>1, <1>3, <1>4, <1>5, <1>8, <1>9, <1>10 DEF h

(* The shares of two accounts.                                             *)
LEMMA TwoHeld ==
  ASSUME PoolsOK, NEW a \in Accounts, NEW to \in Accounts, a # to, NEW p \in Pools
  PROVE  shares[a][p] + shares[to][p] <= SharesHeld(p)
<1> DEFINE f == [b \in Accounts |-> shares[b][p]]
<1>1. \A b \in Accounts : f[b] = shares[b][p] /\ f[b] \in Nat
  BY MaxBalanceAssumption DEF PoolsOK
<1>2. SharesHeld(p) = SumFunctionOnSet(f, Accounts)
  BY SumOver DEF SharesHeld
<1> HIDE DEF f
<1>3. SumFunctionOnSet(f, Accounts) = f[a] + SumFunctionOnSet(f, Accounts \ {a})
  BY <1>1, FinitelyMany, SumAnyOrder
<1>4. IsFiniteSet(Accounts \ {a}) /\ to \in Accounts \ {a}
  BY FinitelyMany, FS_RemoveElement
<1>5. f[to] <= SumFunctionOnSet(f, Accounts \ {a}) /\ SumFunctionOnSet(f, Accounts \ {a}) \in Nat
  BY <1>1, <1>4, SumOfNaturals
<1> QED BY <1>1, <1>2, <1>3, <1>5

(* A transfer moves shares between two accounts.                           *)
LEMMA TransferKeepsHeld ==
  ASSUME PoolsOK, PoolsOK', NEW a \in Accounts, NEW to \in Accounts, a # to,
         NEW p \in Pools, NEW n \in Nat,
         shares'[a][p] = shares[a][p] - n, shares'[to][p] = shares[to][p] + n,
         \A b \in Accounts, q \in Pools :
           q # p \/ (b # a /\ b # to) => shares'[b][q] = shares[b][q]
  PROVE  \A q \in Pools : SharesHeld(q)' = SharesHeld(q)
<1> DEFINE f == [b \in Accounts |-> shares[b][p]]
           h == [b \in Accounts |-> IF b = a THEN shares[a][p] - n ELSE shares[b][p]]
           g == [b \in Accounts |-> shares'[b][p]]
<1>1. \A b \in Accounts, q \in Pools : shares[b][q] \in Int /\ shares'[b][q] \in Int
  BY MaxBalanceAssumption DEF PoolsOK
<1>2. /\ shares'[a][p] = shares[a][p] - n /\ shares'[to][p] = shares[to][p] + n
      /\ \A b \in Accounts : b # a /\ b # to => shares'[b][p] = shares[b][p]
  OBVIOUS
<1>3. SharesHeld(p)' = SharesHeld(p)
  <2>1. SharesHeld(p) = SumFunctionOnSet(f, Accounts) /\ SharesHeld(p)' = SumFunctionOnSet(g, Accounts)
    BY SumOver DEF SharesHeld
  <2>2. \A b \in Accounts : f[b] \in Int /\ h[b] \in Int /\ (b # a => h[b] = f[b])
    BY <1>1
  <2>3. \A b \in Accounts : h[b] \in Int /\ g[b] \in Int /\ (b # to => g[b] = h[b])
    BY <1>1, <1>2
  <2>4. h[a] = f[a] - n /\ g[to] = h[to] + n
    BY <1>2
  <2> HIDE DEF f, g, h
  <2>5. SumFunctionOnSet(h, Accounts) = SumFunctionOnSet(f, Accounts) - f[a] + h[a]
    BY <2>2, FinitelyMany, SumExcept
  <2>6. SumFunctionOnSet(g, Accounts) = SumFunctionOnSet(h, Accounts) - h[to] + g[to]
    BY <2>3, FinitelyMany, SumExcept
  <2>7. SumFunctionOnSet(f, Accounts) \in Int /\ SumFunctionOnSet(h, Accounts) \in Int
    BY <2>2, FinitelyMany, SumType
  <2>8. f[a] \in Int /\ h[a] \in Int /\ h[to] \in Int /\ g[to] \in Int
    BY <2>2, <2>3
  <2>9. SumFunctionOnSet(g, Accounts) = SumFunctionOnSet(f, Accounts)
    BY <2>4, <2>5, <2>6, <2>7, <2>8
  <2> QED BY <2>1, <2>9
<1>4. ASSUME NEW q \in Pools, q # p PROVE SharesHeld(q)' = SharesHeld(q)
  <2>1. [b \in Accounts |-> shares'[b][q]] = [b \in Accounts |-> shares[b][q]]
    BY <1>4
  <2> QED BY <2>1 DEF SharesHeld
<1> QED BY <1>3, <1>4
--------------------------------------------------------------------------------
(***************************************************************************)
(* What a step may do to one pool.                                         *)
(***************************************************************************)

(* SharesBacked says this of every pool.                                   *)
Backed(p) ==
  /\ pool[p].shares - SharesHeld(p) >= 0
  /\ (pool[p].shares - SharesHeld(p)) % MIN_LIQUIDITY = 0
  /\ pool[p].shares # 0 \/ pool[p].balance # 0
       => pool[p].shares - SharesHeld(p) >= MIN_LIQUIDITY

(* A step adds tokens to pool p, makes shares of it and gives some of them *)
(* to accounts (negative numbers take away). What it makes and gives to    *)
(* nobody are the dead shares, they are made when a pool gets its first    *)
(* shares, and to a pool that holds tokens the shares made cost at least   *)
(* the price of the shares there are.                                      *)
Moves(p, tokens, made, held) ==
  /\ tokens \in Int /\ made \in Int /\ held \in Int
  /\ pool'[p].balance = pool[p].balance + tokens
  /\ pool'[p].shares = pool[p].shares + made
  /\ SharesHeld(p)' = SharesHeld(p) + held
  /\ made - held \in {0, MIN_LIQUIDITY}
  /\ pool'[p].shares # 0 \/ pool'[p].balance # 0
       => pool[p].shares # 0 \/ made - held = MIN_LIQUIDITY
  /\ pool[p].balance # 0
       => (pool[p].balance + 1) * made <= tokens * (pool[p].shares + VirtualShares)

(* Every step of the specification is one of these, for every pool.        *)
FairStep(p) == \E tokens, made, held : Moves(p, tokens, made, held)

(* PriceNeverFalls says this of every step and pool.                       *)
PriceKept(p) ==
  pool[p].balance # 0 =>
    (pool'[p].balance + 1) * (pool[p].shares + VirtualShares)
      >= (pool[p].balance + 1) * (pool'[p].shares + VirtualShares)

(* Such a step keeps the shares backed and does not lower their price.     *)
LEMMA FairStepKeeps ==
  ASSUME PoolsOK, NEW p \in Pools, Backed(p), FairStep(p)
  PROVE  Backed(p)' /\ PriceKept(p)
<1>1. PICK tokens, made, held : Moves(p, tokens, made, held)
  BY DEF FairStep
<1> DEFINE B == pool[p].balance
           S == pool[p].shares
           H == SharesHeld(p)
<1>2. B \in Nat /\ S \in Nat /\ H \in Nat
  BY HeldFacts, MaxBalanceAssumption DEF PoolsOK
<1>3. /\ tokens \in Int /\ made \in Int /\ held \in Int
      /\ pool'[p].balance = B + tokens /\ pool'[p].shares = S + made
      /\ SharesHeld(p)' = H + held
      /\ made - held \in {0, 1000}
      /\ pool'[p].shares # 0 \/ pool'[p].balance # 0 => S # 0 \/ made - held = 1000
      /\ B # 0 => (B + 1) * made <= tokens * (S + 10)
  BY <1>1 DEF Moves, MIN_LIQUIDITY, VirtualShares
<1>4. S - H >= 0 /\ (S - H) % 1000 = 0 /\ (S # 0 \/ B # 0 => S - H >= 1000)
  BY DEF Backed, MIN_LIQUIDITY
<1> HIDE DEF B, S, H
<1>5. Backed(p)'
  <2>1. (S + made) - (H + held) = (S - H) + (made - held)
    BY <1>2, <1>3
  <2>2. \A d \in Int : d % 1000 = 0 => (d + 1000) % 1000 = 0
    OBVIOUS
  <2>3. /\ (S + made) - (H + held) >= 0
        /\ ((S + made) - (H + held)) % 1000 = 0
    BY <1>2, <1>3, <1>4, <2>1, <2>2
  <2>4. pool'[p].shares # 0 \/ pool'[p].balance # 0 => (S + made) - (H + held) >= 1000
    BY <1>2, <1>3, <1>4, <2>1
  <2> QED BY <1>3, <2>3, <2>4 DEF Backed, MIN_LIQUIDITY
<1>6. PriceKept(p)
  <2> SUFFICES ASSUME B # 0
               PROVE  (B + tokens + 1) * (S + 10) >= (B + 1) * (S + made + 10)
    BY <1>3 DEF PriceKept, B, S, VirtualShares
  <2>0. /\ \A b, t, s \in Int : (b + t + 1) * (s + 10) = (b + 1) * (s + 10) + t * (s + 10)
        /\ \A b, m, s \in Int : (b + 1) * (s + m + 10) = (b + 1) * (s + 10) + (b + 1) * m
    OBVIOUS
  <2>1. (B + tokens + 1) * (S + 10) = (B + 1) * (S + 10) + tokens * (S + 10)
    BY <1>2, <1>3, <2>0
  <2>2. (B + 1) * (S + made + 10) = (B + 1) * (S + 10) + (B + 1) * made
    BY <1>2, <1>3, <2>0
  <2>3. (B + 1) * made <= tokens * (S + 10)
    BY <1>3
  <2>4. (B + 1) * (S + 10) \in Int /\ tokens * (S + 10) \in Int /\ (B + 1) * made \in Int
    BY <1>2, <1>3
  <2> QED BY <2>1, <2>2, <2>3, <2>4
<1> QED BY <1>5, <1>6

(* A pool that holds tokens has shares.                                    *)
LEMMA BackedFacts ==
  ASSUME PoolsOK, NEW p \in Pools, Backed(p)
  PROVE  /\ pool[p].balance \in Nat /\ pool[p].shares \in Nat /\ SharesHeld(p) \in Nat
         /\ SharesHeld(p) <= pool[p].shares
         /\ pool[p].balance # 0 => pool[p].shares # 0
<1>1. pool[p].balance \in Nat /\ pool[p].shares \in Nat
  BY MaxBalanceAssumption DEF PoolsOK
<1>2. SharesHeld(p) \in Nat
  BY HeldFacts
<1> QED BY <1>1, <1>2 DEF Backed, MIN_LIQUIDITY

(* A pool a step does not touch.                                           *)
LEMMA StillPool ==
  ASSUME PoolsOK, NEW p \in Pools, Backed(p), SharesHeld(p)' = SharesHeld(p),
         pool'[p].balance = pool[p].balance, pool'[p].shares = pool[p].shares
  PROVE  FairStep(p)
<1>1. pool[p].balance \in Int /\ pool[p].shares \in Int /\ SharesHeld(p) \in Int
  BY BackedFacts
<1>2. /\ pool'[p].balance = pool[p].balance + 0 /\ pool'[p].shares = pool[p].shares + 0
      /\ SharesHeld(p)' = SharesHeld(p) + 0
  BY <1>1
<1>3. (pool[p].balance + 1) * 0 <= 0 * (pool[p].shares + VirtualShares)
  BY <1>1 DEF VirtualShares
<1>4. pool'[p].shares # 0 \/ pool'[p].balance # 0 => pool[p].shares # 0
  BY BackedFacts
<1>5. Moves(p, 0, 0, 0)
  BY <1>2, <1>3, <1>4 DEF Moves
<1> QED BY <1>5 DEF FairStep

(* A pool that gains dead shares, when it was empty, or tokens, or both.   *)
LEMMA GrownPool ==
  ASSUME PoolsOK, NEW p \in Pools, Backed(p), SharesHeld(p)' = SharesHeld(p),
         NEW x \in Nat, NEW dead \in {0, MIN_LIQUIDITY},
         pool'[p].balance = pool[p].balance + x, pool'[p].shares = pool[p].shares + dead,
         pool[p].shares = 0 => dead = MIN_LIQUIDITY,
         pool[p].balance # 0 /\ pool[p].shares # 0 => dead = 0
  PROVE  FairStep(p)
<1>1. /\ pool[p].balance \in Nat /\ pool[p].shares \in Nat /\ SharesHeld(p) \in Nat
      /\ pool[p].balance # 0 => pool[p].shares # 0
  BY BackedFacts
<1>2. SharesHeld(p)' = SharesHeld(p) + 0 /\ dead \in Int /\ dead - 0 = dead
  BY <1>1 DEF MIN_LIQUIDITY
<1>3. pool[p].balance # 0 =>
        (pool[p].balance + 1) * dead <= x * (pool[p].shares + VirtualShares)
  <2> SUFFICES ASSUME pool[p].balance # 0
               PROVE  (pool[p].balance + 1) * 0 <= x * (pool[p].shares + 10)
    BY <1>1 DEF VirtualShares
  <2>1. \A b, s, y \in Nat : (b + 1) * 0 <= y * (s + 10)
    OBVIOUS
  <2> QED BY <1>1, <2>1
<1>4. Moves(p, x, dead, 0)
  BY <1>1, <1>2, <1>3 DEF Moves
<1> QED BY <1>4 DEF FairStep

(* A purchase of shares, as many as the price gives or fewer.              *)
LEMMA BoughtPool ==
  ASSUME PoolsOK, NEW p \in Pools, Backed(p), NEW x \in Nat, NEW n \in Nat,
         NEW dead \in {0, MIN_LIQUIDITY},
         pool'[p].balance = pool[p].balance + x,
         pool'[p].shares = pool[p].shares + (dead + n),
         SharesHeld(p)' = SharesHeld(p) + n,
         dead = MIN_LIQUIDITY <=> pool[p].shares = 0,
         pool[p].shares # 0 =>
           (pool[p].balance + 1) * n <= x * (pool[p].shares + VirtualShares)
  PROVE  FairStep(p)
<1>1. /\ pool[p].balance \in Nat /\ pool[p].shares \in Nat /\ SharesHeld(p) \in Nat
      /\ pool[p].balance # 0 => pool[p].shares # 0
  BY BackedFacts
<1>2. dead + n \in Int /\ (dead + n) - n = dead
  BY DEF MIN_LIQUIDITY
<1>3. pool[p].shares # 0 => dead + n = n
  BY DEF MIN_LIQUIDITY
<1>4. pool[p].balance # 0 =>
        (pool[p].balance + 1) * (dead + n) <= x * (pool[p].shares + VirtualShares)
  BY <1>1, <1>3
<1>5. /\ (dead + n) - n \in {0, MIN_LIQUIDITY}
      /\ pool[p].shares # 0 \/ (dead + n) - n = MIN_LIQUIDITY
  BY <1>2
<1>6. Moves(p, x, dead + n, n)
  BY <1>2, <1>4, <1>5 DEF Moves
<1> QED BY <1>6 DEF FairStep

(* A sale of shares, for what the price gives or less.                     *)
LEMMA SoldPool ==
  ASSUME PoolsOK, NEW p \in Pools, Backed(p), NEW v \in Nat, NEW n \in Nat,
         pool'[p].balance = pool[p].balance - v, pool'[p].shares = pool[p].shares - n,
         SharesHeld(p)' = SharesHeld(p) - n, pool[p].shares # 0,
         (pool[p].shares + VirtualShares) * v <= (pool[p].balance + 1) * n
  PROVE  FairStep(p)
<1>1. pool[p].balance \in Nat /\ pool[p].shares \in Nat /\ SharesHeld(p) \in Nat
  BY BackedFacts
<1>2. 0 - v \in Int /\ 0 - n \in Int /\ (0 - n) - (0 - n) = 0
  OBVIOUS
<1>3. /\ pool'[p].balance = pool[p].balance + (0 - v)
      /\ pool'[p].shares = pool[p].shares + (0 - n)
      /\ SharesHeld(p)' = SharesHeld(p) + (0 - n)
  <2>1. \A b, y \in Nat : b - y = b + (0 - y)
    OBVIOUS
  <2> QED BY <1>1, <2>1
<1>4. (pool[p].balance + 1) * (0 - n) <= (0 - v) * (pool[p].shares + VirtualShares)
  <2>1. \A b, s, y, m \in Nat : (s + 10) * y <= (b + 1) * m => (b + 1) * (0 - m) <= (0 - y) * (s + 10)
    OBVIOUS
  <2> QED BY <1>1, <2>1 DEF VirtualShares
<1>5. Moves(p, 0 - v, 0 - n, 0 - n)
  BY <1>2, <1>3, <1>4 DEF Moves
<1> QED BY <1>5 DEF FairStep
--------------------------------------------------------------------------------
(***************************************************************************)
(* What the operations do to the pools when nothing saturates.             *)
(***************************************************************************)

(* An addition and a subtraction that fit are exact.                       *)
LEMMA Exact ==
  /\ \A x, y \in Nat : x + y <= MaxBalance => SatAdd(x, y) = x + y
  /\ \A x, y \in Nat : y <= x /\ x <= MaxBalance => SatSub(x, y) = x - y
  /\ \A x, y \in Nat : SatAdd(x, y) < MaxBalance => SatAdd(x, y) = x + y
BY MaxBalanceAssumption DEF SatAdd, SatSub

(* The kind of a pool.                                                     *)
LEMMA KindType == \A p \in Pools : Kind(p) \in Kinds
BY DEF Kind, Kinds

(* increase_account_delegate_stake adds the amount to the pool and to the  *)
(* total of its kind.                                                      *)
LEMMA Bought ==
  ASSUME PoolsOK, PoolsOK', \A q \in Pools : Backed(q),
         NEW a \in Accounts, NEW p \in Pools, NEW x \in Balance,
         handle_increase_account_delegate_stake(a, p, x),
         pool'[p].shares < MaxBalance, pool[p].balance + x <= MaxBalance,
         total[Kind(p)] + x <= MaxBalance
  PROVE  /\ pool'[p].balance = pool[p].balance + x
         /\ \A q \in Pools : q # p => pool'[q].balance = pool[q].balance
         /\ total'[Kind(p)] = total[Kind(p)] + x
         /\ \A k \in Kinds : k # Kind(p) => total'[k] = total[k]
         /\ \A q \in Pools : FairStep(q)
<1> DEFINE B == pool[p].balance
           S == pool[p].shares
           n == SharesFor(x, p)
           M == MintDeadShares(pool[p])
<1>1. /\ B \in Nat /\ S \in Nat /\ SharesHeld(p) \in Nat /\ SharesHeld(p) <= S
      /\ (B # 0 => S # 0) /\ x \in Nat /\ shares[a][p] \in Nat /\ shares[a][p] <= SharesHeld(p)
      /\ total[Kind(p)] \in Nat
  <2>1. total[Kind(p)] \in Nat /\ x \in Nat
    BY KindType, MaxBalanceAssumption DEF PoolsOK
  <2> QED BY <2>1, BackedFacts, HeldFacts
<1>2. n \in Nat
  BY ConvertType, MaxBalanceAssumption DEF SharesFor
<1>3. M.balance = B /\ M.shares = IF S = 0 THEN SatAdd(0, MIN_LIQUIDITY) ELSE S
  BY DEF MintDeadShares, PoolsOK
<1>4. /\ shares' = [shares EXCEPT ![a][p] = SatAdd(@, n)]
      /\ pool' = [pool EXCEPT ![p] = [balance |-> SatAdd(M.balance, x),
                                      shares  |-> SatAdd(M.shares, n)]]
      /\ total' = [total EXCEPT ![Kind(p)] = SatAdd(@, x)]
  BY DEF handle_increase_account_delegate_stake, increase_account_delegate_stake
<1>5. /\ pool'[p].balance = SatAdd(B, x) /\ pool'[p].shares = SatAdd(M.shares, n)
      /\ \A q \in Pools : q # p => pool'[q] = pool[q]
  BY <1>3, <1>4 DEF PoolsOK
<1>6. /\ total'[Kind(p)] = SatAdd(total[Kind(p)], x)
      /\ \A k \in Kinds : k # Kind(p) => total'[k] = total[k]
  BY <1>4, KindType DEF PoolsOK
<1>7. /\ shares'[a][p] = SatAdd(shares[a][p], n)
      /\ \A b \in Accounts, q \in Pools : b # a \/ q # p => shares'[b][q] = shares[b][q]
  BY <1>4 DEF PoolsOK
<1> HIDE DEF M, n, B, S
<1>8. pool'[p].balance = B + x /\ total'[Kind(p)] = total[Kind(p)] + x
  BY <1>1, <1>5, <1>6, Exact DEF B
<1> DEFINE dead == IF S = 0 THEN MIN_LIQUIDITY ELSE 0
<1>9. M.shares = S + dead /\ pool'[p].shares = S + (dead + n) /\ S + n <= MaxBalance
      /\ n < MaxBalance
  <2>1. SatAdd(M.shares, n) < MaxBalance
    BY <1>5
  <2>2. CASE S # 0
    <3>1. M.shares = S /\ dead = 0
      BY <1>3, <2>2
    <3>2. SatAdd(S, n) = S + n /\ S + n < MaxBalance
      BY <1>1, <1>2, <2>1, <3>1, Exact
    <3> HIDE DEF dead
    <3> QED BY <1>1, <1>2, <1>5, <3>1, <3>2, MaxBalanceAssumption
  <2>3. CASE S = 0
    <3>1. M.shares = SatAdd(0, 1000) /\ dead = 1000
      BY <1>3, <2>3 DEF MIN_LIQUIDITY
    <3>2. M.shares \in 0 .. MaxBalance
      BY <3>1, SatAddType
    <3>3. SatAdd(M.shares, n) = M.shares + n
      BY <1>2, <2>1, <3>2, Exact
    <3>4. M.shares < MaxBalance
      BY <1>2, <2>1, <3>2, <3>3, MaxBalanceAssumption
    <3>5. M.shares = 1000
      BY <3>1, <3>4, Exact
    <3> HIDE DEF dead
    <3> QED BY <1>2, <1>5, <2>1, <2>3, <3>1, <3>3, <3>5, MaxBalanceAssumption
  <2> QED BY <2>2, <2>3
<1>10. SharesHeld(p)' = SharesHeld(p) + n /\ \A q \in Pools : q # p => SharesHeld(q)' = SharesHeld(q)
  <2>1. shares'[a][p] = shares[a][p] + n
    <3>1. shares[a][p] + n <= MaxBalance
      BY <1>1, <1>2, <1>9, MaxBalanceAssumption
    <3> QED BY <1>1, <1>2, <1>7, <3>1, Exact
  <2>2. /\ SharesHeld(p)' = SharesHeld(p) - shares[a][p] + shares'[a][p]
        /\ \A q \in Pools : q # p => SharesHeld(q)' = SharesHeld(q)
    BY <1>7, HeldChange
  <2> QED BY <1>1, <1>2, <2>1, <2>2
<1>11. S # 0 => (B + 1) * n <= x * (S + VirtualShares)
  <2> SUFFICES ASSUME S # 0 PROVE (B + 1) * n <= x * (S + 10)
    BY DEF VirtualShares
  <2> DEFINE q == (x * (S + 10)) \div (B + 1)
  <2>1. n = IF q \in Balance THEN q ELSE MaxBalance
    BY DEF n, B, S, SharesFor, convert_to_shares, MulDiv, VirtualShares
  <2>2. n = q
    BY <1>2, <1>9, <2>1, MaxBalanceAssumption
  <2>3. x * (S + 10) \in Nat /\ B + 1 \in Nat /\ B + 1 > 0
    BY <1>1
  <2>4. (B + 1) * q <= x * (S + 10)
    BY <2>3, FloorDiv
  <2> QED BY <2>2, <2>4
<1>12. FairStep(p)
  <2>1. dead \in {0, MIN_LIQUIDITY} /\ (dead = MIN_LIQUIDITY <=> S = 0)
    BY DEF MIN_LIQUIDITY
  <2> HIDE DEF dead
  <2> QED BY <1>1, <1>2, <1>8, <1>9, <1>10, <1>11, <2>1, BoughtPool DEF B, S
<1>13. ASSUME NEW q \in Pools, q # p PROVE FairStep(q)
  BY <1>5, <1>10, <1>13, StillPool
<1> QED BY <1>5, <1>6, <1>8, <1>12, <1>13 DEF B

(* Shares an account holds are worth what the pool has, or less.           *)
LEMMA Worth ==
  ASSUME PoolsOK, NEW p \in Pools, Backed(p), NEW n \in Nat, n <= SharesHeld(p)
  PROVE  /\ BalanceOf(n, p) \in Nat /\ BalanceOf(n, p) <= pool[p].balance
         /\ (pool[p].shares + VirtualShares) * BalanceOf(n, p) <= (pool[p].balance + 1) * n
<1> DEFINE B == pool[p].balance
           S == pool[p].shares
           q == (n * (B + 1)) \div (S + 10)
<1>1. B \in Nat /\ S \in Nat /\ n <= S /\ B <= MaxBalance
  <2>1. B <= MaxBalance
    BY MaxBalanceAssumption DEF PoolsOK
  <2> QED BY <2>1, BackedFacts
<1>2. q \in Nat /\ q <= B /\ (S + 10) * q <= (B + 1) * n
  BY <1>1, WorthWithin
<1>3. BalanceOf(n, p) = IF S = 0 THEN n ELSE IF q \in Balance THEN q ELSE MaxBalance
  BY DEF BalanceOf, convert_to_balance, MulDiv, VirtualShares
<1>4. CASE S # 0
  <2>1. BalanceOf(n, p) = q
    BY <1>1, <1>2, <1>3, <1>4, MaxBalanceAssumption
  <2> HIDE DEF q
  <2> QED BY <1>2, <2>1 DEF VirtualShares
<1>5. CASE S = 0
  <2>1. n = 0 /\ BalanceOf(n, p) = 0
    BY <1>1, <1>3, <1>5
  <2> HIDE DEF B, S, q
  <2>2. (S + 10) * 0 <= (B + 1) * 0
    BY <1>1
  <2> QED BY <1>1, <2>1, <2>2 DEF B, S, VirtualShares
<1> QED BY <1>4, <1>5

(* decrease_account_delegate_stake takes what the shares are worth from    *)
(* the pool and from the total of its kind.                                *)
LEMMA Sold ==
  ASSUME PoolsOK, PoolsOK', \A q \in Pools : Backed(q),
         NEW a \in Accounts, NEW p \in Pools, NEW n \in Nat, n # 0, shares[a][p] >= n,
         decrease_account_delegate_stake(a, p, BalanceOf(n, p), n),
         pool[p].balance <= total[Kind(p)]
  PROVE  /\ BalanceOf(n, p) \in Nat /\ BalanceOf(n, p) <= pool[p].balance
         /\ pool'[p].balance = pool[p].balance - BalanceOf(n, p)
         /\ \A q \in Pools : q # p => pool'[q].balance = pool[q].balance
         /\ total'[Kind(p)] = total[Kind(p)] - BalanceOf(n, p)
         /\ \A k \in Kinds : k # Kind(p) => total'[k] = total[k]
         /\ \A q \in Pools : FairStep(q)
<1> DEFINE B == pool[p].balance
           S == pool[p].shares
           v == BalanceOf(n, p)
<1>1. /\ B \in Nat /\ S \in Nat /\ SharesHeld(p) \in Nat /\ SharesHeld(p) <= S
      /\ shares[a][p] \in Nat /\ shares[a][p] <= SharesHeld(p)
  BY BackedFacts, HeldFacts
<1>2. B <= MaxBalance /\ S <= MaxBalance /\ total[Kind(p)] \in 0 .. MaxBalance
      /\ shares[a][p] <= MaxBalance
  <2>1. Kind(p) \in Kinds
    BY KindType
  <2> QED BY <2>1, MaxBalanceAssumption DEF PoolsOK
<1>3. n <= SharesHeld(p) /\ n <= S
  BY <1>1
<1>4. v \in Nat /\ v <= B /\ (S + VirtualShares) * v <= (B + 1) * n
  BY <1>3, Worth
<1>5. /\ shares' = [shares EXCEPT ![a][p] = SatSub(@, n)]
      /\ pool' = [pool EXCEPT ![p] = [balance |-> SatSub(@.balance, v),
                                      shares  |-> SatSub(@.shares, n)]]
      /\ total' = [total EXCEPT ![Kind(p)] = SatSub(@, v)]
  BY DEF decrease_account_delegate_stake
<1> HIDE DEF v
<1>6. /\ pool'[p].balance = SatSub(B, v) /\ pool'[p].shares = SatSub(S, n)
      /\ \A q \in Pools : q # p => pool'[q] = pool[q]
  BY <1>5 DEF PoolsOK
<1>7. /\ total'[Kind(p)] = SatSub(total[Kind(p)], v)
      /\ \A k \in Kinds : k # Kind(p) => total'[k] = total[k]
  BY <1>5, KindType DEF PoolsOK
<1>8. /\ shares'[a][p] = SatSub(shares[a][p], n)
      /\ \A b \in Accounts, q \in Pools : b # a \/ q # p => shares'[b][q] = shares[b][q]
  BY <1>5 DEF PoolsOK
<1> HIDE DEF B, S
<1>9. /\ pool'[p].balance = B - v /\ pool'[p].shares = S - n
      /\ shares'[a][p] = shares[a][p] - n
  BY <1>1, <1>2, <1>3, <1>4, <1>6, <1>8, Exact
<1>10. total'[Kind(p)] = total[Kind(p)] - v
  <2>1. v <= total[Kind(p)] /\ total[Kind(p)] \in Nat /\ total[Kind(p)] <= MaxBalance
    BY <1>1, <1>2, <1>4, MaxBalanceAssumption DEF B
  <2> QED BY <1>4, <1>7, <2>1, Exact
<1>11. SharesHeld(p)' = SharesHeld(p) - n /\ \A q \in Pools : q # p => SharesHeld(q)' = SharesHeld(q)
  <2>1. /\ SharesHeld(p)' = SharesHeld(p) - shares[a][p] + shares'[a][p]
        /\ \A q \in Pools : q # p => SharesHeld(q)' = SharesHeld(q)
    BY <1>8, HeldChange
  <2> QED BY <1>1, <1>9, <2>1
<1>12. FairStep(p)
  <2>1. S # 0
    BY <1>1, <1>3
  <2> QED BY <1>4, <1>9, <1>11, <2>1, SoldPool DEF B, S
<1>13. ASSUME NEW q \in Pools, q # p PROVE FairStep(q)
  BY <1>6, <1>11, <1>13, StillPool
<1> QED BY <1>4, <1>6, <1>7, <1>9, <1>10, <1>12, <1>13 DEF B, v

(* do_increase_delegate_stake and the minting of dead shares, on a pool.   *)
LEMMA Grown ==
  ASSUME NEW P \in [balance : Balance, shares : Balance], NEW x \in Nat,
         P.balance + x <= MaxBalance, do_increase_delegate_stake(P, x).shares < MaxBalance
  PROVE  /\ do_increase_delegate_stake(P, x).balance = P.balance + x
         /\ \E dead \in {0, MIN_LIQUIDITY} :
              /\ do_increase_delegate_stake(P, x).shares = P.shares + dead
              /\ P.shares = 0 => dead = MIN_LIQUIDITY
              /\ P.balance # 0 /\ P.shares # 0 => dead = 0
<1> DEFINE Q == do_increase_delegate_stake(P, x)
<1>1. P.balance \in Nat /\ P.shares \in Nat
  BY MaxBalanceAssumption
<1>2. Q.balance = SatAdd(P.balance, x)
  BY DEF do_increase_delegate_stake
<1>3. Q.balance = P.balance + x
  BY <1>1, <1>2, Exact
<1>4. CASE P.balance = 0 \/ P.shares = 0
  <2>1. Q.shares = SatAdd(P.shares, 1000)
    BY <1>4 DEF do_increase_delegate_stake, MIN_LIQUIDITY
  <2>2. Q.shares = P.shares + 1000
    BY <1>1, <2>1, Exact
  <2> QED BY <1>3, <1>4, <2>2 DEF MIN_LIQUIDITY
<1>5. CASE ~(P.balance = 0 \/ P.shares = 0)
  <2>1. Q.shares = P.shares
    BY <1>5 DEF do_increase_delegate_stake
  <2>2. Q.shares = P.shares + 0
    BY <1>1, <2>1
  <2> QED BY <1>3, <1>5, <2>2
<1> QED BY <1>4, <1>5

(* The dead shares of a swap that bought nothing.                          *)
LEMMA Minted ==
  ASSUME NEW P \in [balance : Balance, shares : Balance], MintDeadShares(P).shares < MaxBalance
  PROVE  /\ MintDeadShares(P).balance = P.balance
         /\ \E dead \in {0, MIN_LIQUIDITY} :
              /\ MintDeadShares(P).shares = P.shares + dead
              /\ P.shares = 0 <=> dead = MIN_LIQUIDITY
<1> DEFINE Q == MintDeadShares(P)
<1>1. P.balance \in Nat /\ P.shares \in Nat
  BY MaxBalanceAssumption
<1>2. Q.balance = P.balance
  BY DEF MintDeadShares
<1>3. CASE P.shares = 0
  <2>1. Q.shares = SatAdd(P.shares, 1000)
    BY <1>3 DEF MintDeadShares, MIN_LIQUIDITY
  <2>2. Q.shares = P.shares + 1000
    BY <1>1, <2>1, Exact
  <2> QED BY <1>2, <1>3, <2>2 DEF MIN_LIQUIDITY
<1>4. CASE P.shares # 0
  <2>1. Q.shares = P.shares
    BY <1>4 DEF MintDeadShares
  <2>2. Q.shares = P.shares + 0 /\ 0 # MIN_LIQUIDITY
    BY <1>1, <2>1 DEF MIN_LIQUIDITY
  <2> QED BY <1>2, <1>4, <2>2
<1> QED BY <1>3, <1>4
--------------------------------------------------------------------------------
(***************************************************************************)
(* The books, as long as no sum reaches the end of u128.                   *)
(***************************************************************************)

(* What accounts, pools, ledgers and queued swaps hold.                    *)
Held == InAccounts + InPools + InLedgers + InQueue

(* The tokens there are fit an u128, and no pool has as many shares as an  *)
(* u128 can count.                                                         *)
Unsaturated ==
  /\ Supply + minted <= MaxBalance
  /\ \A p \in Pools : pool[p].shares < MaxBalance

(* What that means for a state and for a step, wherever the tokens came    *)
(* from.                                                                   *)
Fits == Held <= MaxBalance /\ \A p \in Pools : pool[p].shares < MaxBalance
StepFits ==
  /\ Held + (minted' - minted) <= MaxBalance
  /\ \A p \in Pools : pool'[p].shares < MaxBalance

(* The inductive invariant of the books, but for the tokens.               *)
Books ==
  /\ Inv /\ LedgersFinite
  /\ SharesBacked /\ TotalsAgree
  /\ minted \in Nat /\ dropped \in Nat

(* What a step has to keep of it; tokens are minted or dropped, not lost.  *)
TokensKept == Held' = Held + (minted' - minted) - (dropped' - dropped)
BooksKept ==
  /\ TokensKept /\ TotalsAgree'
  /\ minted' \in Nat /\ dropped' \in Nat
  /\ \A p \in Pools : FairStep(p)

(* SharesBacked, pool by pool.                                             *)
LEMMA BackedPools == SharesBacked <=> \A p \in Pools : Backed(p)
BY DEF SharesBacked, Backed

(* What accounts, pools, ledgers and queue hold are numbers.               *)
LEMMA HeldParts ==
  ASSUME Inv, LedgersFinite
  PROVE  InAccounts \in Nat /\ InPools \in Nat /\ InLedgers \in Nat /\ InQueue \in Nat
BY InAccountsFacts, InPoolsFacts, InLedgersFacts, InQueueFacts DEF Inv, TypeOK

(* What the accounts, the pools, the ledgers and the queue hold together   *)
(* fits an u128.                                                           *)
LEMMA BookFacts ==
  ASSUME Books, Fits
  PROVE  /\ InAccounts \in Nat /\ InPools \in Nat /\ InLedgers \in Nat /\ InQueue \in Nat
         /\ InAccounts + InPools + InLedgers + InQueue <= MaxBalance
         /\ minted \in Nat /\ dropped \in Nat
         /\ unbonding = InLedgers
         /\ \A k \in Kinds : total[k] = KindTotal(k)
         /\ \A p \in Pools : Backed(p)
<1>1. /\ InAccounts \in Nat /\ InPools \in Nat /\ InLedgers \in Nat /\ InQueue \in Nat
  BY HeldParts DEF Books
<1>2. InAccounts + InPools + InLedgers + InQueue <= MaxBalance
  BY DEF Fits, Held
<1>3. unbonding = InLedgers /\ \A k \in Kinds : total[k] = KindTotal(k)
  BY DEF Books, TotalsAgree, KindTotal
<1> QED BY <1>1, <1>2, <1>3, BackedPools DEF Books

(* Any two of these, too.                                                  *)
LEMMA TwoBooks ==
  ASSUME Books, Fits
  PROVE  /\ InPools + InAccounts <= MaxBalance /\ InPools + InLedgers <= MaxBalance
         /\ InPools + InQueue <= MaxBalance /\ InAccounts + InLedgers <= MaxBalance
         /\ InLedgers + InPools <= MaxBalance
<1>1. /\ InAccounts \in Nat /\ InPools \in Nat /\ InLedgers \in Nat /\ InQueue \in Nat
      /\ InAccounts + InPools + InLedgers + InQueue <= MaxBalance
  BY BookFacts
<1>2. \A w, x, y, z, m \in Nat : w + x + y + z <= m =>
        x + w <= m /\ x + y <= m /\ x + z <= m /\ w + y <= m /\ y + x <= m
  OBVIOUS
<1> QED BY <1>1, <1>2, MaxBalanceAssumption

(* One pool changes, and the total of its kind with it.                    *)
LEMMA PoolTally ==
  ASSUME PoolsOK, PoolsOK', \A k \in Kinds : total[k] = KindTotal(k),
         NEW p \in Pools, NEW d \in Int,
         pool'[p].balance = pool[p].balance + d,
         \A q \in Pools : q # p => pool'[q].balance = pool[q].balance,
         total'[Kind(p)] = total[Kind(p)] + d,
         \A k \in Kinds : k # Kind(p) => total'[k] = total[k]
  PROVE  InPools' = InPools + d /\ \A k \in Kinds : total'[k] = KindTotal(k)'
<1>1. /\ InPools' = InPools - pool[p].balance + pool'[p].balance
      /\ KindTotal(Kind(p))' = KindTotal(Kind(p)) - pool[p].balance + pool'[p].balance
      /\ \A k \in Kinds : k # Kind(p) => KindTotal(k)' = KindTotal(k)
  BY PoolsChange
<1>2. InPools \in Nat /\ pool[p].balance \in Nat /\ KindTotal(Kind(p)) \in Nat /\ Kind(p) \in Kinds
  BY InPoolsFacts, KindType
<1>3. InPools' = InPools + d /\ KindTotal(Kind(p))' = KindTotal(Kind(p)) + d
  BY <1>1, <1>2
<1>4. total'[Kind(p)] = KindTotal(Kind(p))'
  BY <1>2, <1>3
<1>5. ASSUME NEW k \in Kinds, k # Kind(p) PROVE total'[k] = KindTotal(k)'
  BY <1>1, <1>5
<1> QED BY <1>3, <1>4, <1>5

(* A pool's balance and the total of its kind are within the pools' sum.   *)
LEMMA WithinPools ==
  ASSUME PoolsOK, \A k \in Kinds : total[k] = KindTotal(k), NEW p \in Pools
  PROVE  /\ pool[p].balance \in Nat /\ total[Kind(p)] \in Nat
         /\ pool[p].balance <= total[Kind(p)] /\ total[Kind(p)] <= InPools
<1> DEFINE k == Kind(p)
           f == [q \in PoolsOf(k) |-> pool[q].balance]
<1>1. p \in PoolsOf(k) /\ k \in Kinds
  BY DEF Kind, Kinds, PoolsOf, Pools
<1>2. \A q \in PoolsOf(k) : f[q] = pool[q].balance /\ f[q] \in Nat
  BY <1>1, FinitelyMany, InPoolsFacts
<1>3. KindTotal(k) = SumFunctionOnSet(f, PoolsOf(k))
  BY SumOver DEF KindTotal
<1>4. KindTotal(k) \in Nat /\ KindTotal(k) <= InPools
  BY <1>1, InPoolsFacts
<1>5. f[p] <= KindTotal(k)
  <2>1. IsFiniteSet(PoolsOf(k))
    BY <1>1, FinitelyMany
  <2> HIDE DEF f, k
  <2> QED BY <1>1, <1>2, <1>3, <2>1, SumOfNaturals
<1> QED BY <1>1, <1>2, <1>4, <1>5

(* What comes from an account or from the queue fits into a pool.          *)
LEMMA FitsPool ==
  ASSUME Books, Fits, NEW p \in Pools, NEW x \in Nat, x <= InAccounts \/ x <= InQueue
  PROVE  /\ pool[p].balance + x <= MaxBalance /\ total[Kind(p)] + x <= MaxBalance
         /\ InPools + x <= MaxBalance
<1>1. /\ pool[p].balance \in Nat /\ total[Kind(p)] \in Nat
      /\ pool[p].balance <= total[Kind(p)] /\ total[Kind(p)] <= InPools
  BY BookFacts, WithinPools DEF Books, Inv, TypeOK
<1>2. /\ InPools \in Nat /\ InAccounts \in Nat /\ InPools + InAccounts <= MaxBalance
      /\ InQueue \in Nat /\ InPools + InQueue <= MaxBalance
  BY BookFacts, TwoBooks
<1>3. \A b, t, i, j, m \in Nat : b <= t /\ t <= i /\ x <= j /\ i + j <= m
        => b + x <= m /\ t + x <= m /\ i + x <= m
  OBVIOUS
<1> QED BY <1>1, <1>2, <1>3, MaxBalanceAssumption

(* A withdrawal from an account.                                           *)
LEMMA AccountPays ==
  ASSUME RestOK, RestOK', NEW a \in Accounts, NEW x \in Balance, can_withdraw(a, x),
         withdraw(a, x)
  PROVE  InAccounts' = InAccounts - x /\ x <= InAccounts
<1>1. free' = [free EXCEPT ![a] = @ - x] /\ x <= free[a]
  BY DEF withdraw, can_withdraw
<1>2. x \in Nat /\ free[a] \in Nat /\ free[a] <= InAccounts /\ InAccounts \in Nat
  BY InAccountsFacts, MaxBalanceAssumption
<1>3. free'[a] = free[a] - x /\ \A b \in Accounts : b # a => free'[b] = free[b]
  BY <1>1 DEF RestOK
<1>4. InAccounts' = InAccounts - free[a] + free'[a]
  BY <1>3, AccountsChange
<1> QED BY <1>1, <1>2, <1>3, <1>4

(* A deposit moves its amount from the account to the pool.                *)
LEMMA AddBooks ==
  ASSUME Books, Fits, StepFits, Inv', NEW a \in Accounts, NEW p \in Pools,
         NEW x \in Balance, perform_do_add_delegate_stake(a, p, x),
         UNCHANGED <<queueVars, bondVars, histVars>>
  PROVE  BooksKept
<1>1. PoolsOK /\ PoolsOK' /\ RestOK /\ RestOK' /\ x \in Nat
  BY MaxBalanceAssumption DEF Books, Inv, TypeOK
<1>2. InAccounts' = InAccounts - x /\ x <= InAccounts
  BY <1>1, AccountPays DEF perform_do_add_delegate_stake
<1>3. pool[p].balance + x <= MaxBalance /\ total[Kind(p)] + x <= MaxBalance
  BY <1>1, <1>2, FitsPool
<1>4. pool'[p].shares < MaxBalance
  BY DEF StepFits
<1>5. handle_increase_account_delegate_stake(a, p, x)
  BY DEF perform_do_add_delegate_stake
<1>6. /\ pool'[p].balance = pool[p].balance + x
      /\ \A q \in Pools : q # p => pool'[q].balance = pool[q].balance
      /\ total'[Kind(p)] = total[Kind(p)] + x
      /\ \A k \in Kinds : k # Kind(p) => total'[k] = total[k]
      /\ \A q \in Pools : FairStep(q)
  BY <1>1, <1>3, <1>4, <1>5, BookFacts, Bought
<1>7. InPools' = InPools + x /\ \A k \in Kinds : total'[k] = KindTotal(k)'
  BY <1>1, <1>6, BookFacts, PoolTally
<1>8. /\ InLedgers' = InLedgers /\ InQueue' = InQueue /\ unbonding' = unbonding
      /\ minted' = minted /\ dropped' = dropped
  BY DEF queueVars, bondVars, histVars, InLedgers, InQueue
<1>9. TokensKept
  <2>1. InAccounts' + InPools' + InLedgers' + InQueue'
          = (InAccounts + InPools + InLedgers + InQueue)
              + (minted' - minted) - (dropped' - dropped)
    BY <1>1, <1>2, <1>7, <1>8, BookFacts
  <2> QED BY <2>1 DEF TokensKept, Held
<1>10. TotalsAgree'
  BY <1>7, <1>8, BookFacts DEF TotalsAgree, KindTotal
<1> QED BY <1>6, <1>8, <1>9, <1>10, BookFacts DEF BooksKept

(* So does a donation, which makes no shares for anyone.                   *)
LEMMA DonateBooks ==
  ASSUME Books, Fits, StepFits, Inv', NEW a \in Accounts, NEW p \in Pools,
         NEW x \in Balance, donate(a, p, x)
  PROVE  BooksKept
<1>1. PoolsOK /\ PoolsOK' /\ RestOK /\ RestOK' /\ x \in Nat
  BY MaxBalanceAssumption DEF Books, Inv, TypeOK
<1>2. InAccounts' = InAccounts - x /\ x <= InAccounts
  BY <1>1, AccountPays DEF donate
<1>3. pool[p].balance + x <= MaxBalance /\ total[Kind(p)] + x <= MaxBalance
  BY <1>1, <1>2, FitsPool
<1>4. /\ pool' = [pool EXCEPT ![p] = do_increase_delegate_stake(@, x)]
      /\ total' = [total EXCEPT ![Kind(p)] = SatAdd(@, x)] /\ shares' = shares
  BY DEF donate
<1>5. /\ pool'[p] = do_increase_delegate_stake(pool[p], x)
      /\ pool[p] \in [balance : Balance, shares : Balance]
      /\ \A q \in Pools : q # p => pool'[q] = pool[q]
  BY <1>1, <1>4 DEF PoolsOK
<1>6. pool'[p].shares < MaxBalance
  BY DEF StepFits
<1>7. /\ pool'[p].balance = pool[p].balance + x
      /\ \E dead \in {0, MIN_LIQUIDITY} :
           /\ pool'[p].shares = pool[p].shares + dead
           /\ pool[p].shares = 0 => dead = MIN_LIQUIDITY
           /\ pool[p].balance # 0 /\ pool[p].shares # 0 => dead = 0
  BY <1>1, <1>3, <1>5, <1>6, Grown
<1>8. total'[Kind(p)] = total[Kind(p)] + x /\ \A k \in Kinds : k # Kind(p) => total'[k] = total[k]
  <2>1. /\ total'[Kind(p)] = SatAdd(total[Kind(p)], x)
        /\ \A k \in Kinds : k # Kind(p) => total'[k] = total[k]
    BY <1>1, <1>4, KindType DEF PoolsOK
  <2>2. total[Kind(p)] \in Nat
    BY <1>1, KindType, MaxBalanceAssumption DEF PoolsOK
  <2> QED BY <1>1, <1>3, <2>1, <2>2, Exact
<1>9. \A q \in Pools : SharesHeld(q)' = SharesHeld(q)
  BY <1>4 DEF SharesHeld
<1>10. FairStep(p)
  <2>1. PICK dead \in {0, MIN_LIQUIDITY} :
           /\ pool'[p].shares = pool[p].shares + dead
           /\ pool[p].shares = 0 => dead = MIN_LIQUIDITY
           /\ pool[p].balance # 0 /\ pool[p].shares # 0 => dead = 0
    BY <1>7
  <2> QED BY <1>1, <1>7, <1>9, <2>1, BookFacts, GrownPool
<1>11. ASSUME NEW q \in Pools, q # p PROVE FairStep(q)
  BY <1>1, <1>5, <1>9, <1>11, BookFacts, StillPool
<1>12. InPools' = InPools + x /\ \A k \in Kinds : total'[k] = KindTotal(k)'
  BY <1>1, <1>5, <1>7, <1>8, BookFacts, PoolTally
<1>13. /\ InLedgers' = InLedgers /\ InQueue' = InQueue /\ unbonding' = unbonding
       /\ minted' = minted /\ dropped' = dropped
  BY DEF donate, queueVars, bondVars, histVars, InLedgers, InQueue
<1>14. TokensKept
  <2>1. InAccounts' + InPools' + InLedgers' + InQueue'
          = (InAccounts + InPools + InLedgers + InQueue)
              + (minted' - minted) - (dropped' - dropped)
    BY <1>1, <1>2, <1>12, <1>13, BookFacts
  <2> QED BY <2>1 DEF TokensKept, Held
<1>15. TotalsAgree'
  BY <1>12, <1>13, BookFacts DEF TotalsAgree, KindTotal
<1> QED BY <1>10, <1>11, <1>13, <1>14, <1>15, BookFacts DEF BooksKept

(* A transfer of shares the sender holds.                                  *)
LEMMA TransferBooks ==
  ASSUME Books, Fits, StepFits, Inv', OwnedTransfersOnly,
         NEW a \in Accounts, NEW to \in Accounts, NEW p \in Pools, NEW n \in Balance,
         do_transfer_delegate_stake(a, to, p, n),
         UNCHANGED <<queueVars, bondVars, histVars, free>>
  PROVE  BooksKept
<1>1. PoolsOK /\ PoolsOK' /\ n \in Nat
  BY MaxBalanceAssumption DEF Books, Inv, TypeOK
<1>2. a # to /\ n <= shares[a][p] /\ total' = total
  BY DEF do_transfer_delegate_stake
<1>3. /\ shares' = [shares EXCEPT ![a][p] = SatSub(@, n), ![to][p] = SatAdd(@, n)]
      /\ pool' = [pool EXCEPT ![p].shares = SatAdd(SatSub(@, n), n)]
  BY DEF do_transfer_delegate_stake
<1>4. /\ shares[a][p] \in Nat /\ shares[to][p] \in Nat /\ SharesHeld(p) \in Nat
      /\ shares[a][p] + shares[to][p] <= SharesHeld(p) /\ shares[a][p] <= SharesHeld(p)
      /\ pool[p].shares \in Nat /\ SharesHeld(p) <= pool[p].shares
      /\ pool[p].shares < MaxBalance
  BY <1>1, <1>2, BookFacts, HeldFacts, TwoHeld, BackedFacts DEF Fits
<1>5. /\ SatSub(shares[a][p], n) = shares[a][p] - n
      /\ SatAdd(shares[to][p], n) = shares[to][p] + n
      /\ SatAdd(SatSub(pool[p].shares, n), n) = pool[p].shares
  <2>1. PICK f \in Nat : f = shares[a][p]
    BY <1>4
  <2>2. PICK t \in Nat : t = shares[to][p]
    BY <1>4
  <2>3. PICK h \in Nat : h = SharesHeld(p)
    BY <1>4
  <2>4. PICK s \in Nat : s = pool[p].shares
    BY <1>4
  <2>5. n <= f /\ f + t <= h /\ f <= h /\ h <= s /\ s < MaxBalance
    BY <1>2, <1>4, <2>1, <2>2, <2>3, <2>4
  <2>6. /\ f <= MaxBalance /\ t + n <= MaxBalance /\ n <= s /\ s - n \in Nat
        /\ (s - n) + n <= MaxBalance /\ (s - n) + n = s
    BY <1>1, <2>5, MaxBalanceAssumption
  <2>7. SatSub(f, n) = f - n /\ SatAdd(t, n) = t + n /\ SatSub(s, n) = s - n
    BY <1>1, <2>5, <2>6, Exact, MaxBalanceAssumption
  <2>8. SatAdd(s - n, n) = s
    BY <1>1, <2>6, Exact
  <2> QED BY <2>1, <2>2, <2>4, <2>7, <2>8
<1>6. /\ shares'[a][p] = shares[a][p] - n /\ shares'[to][p] = shares[to][p] + n
      /\ \A b \in Accounts, q \in Pools :
           q # p \/ (b # a /\ b # to) => shares'[b][q] = shares[b][q]
  <2>1. shares'[a][p] = SatSub(shares[a][p], n)
    BY <1>1, <1>2, <1>3 DEF PoolsOK
  <2>2. shares'[to][p] = SatAdd(shares[to][p], n)
    BY <1>1, <1>2, <1>3 DEF PoolsOK
  <2>3. ASSUME NEW b \in Accounts, NEW q \in Pools, q # p \/ (b # a /\ b # to)
        PROVE  shares'[b][q] = shares[b][q]
    <3>1. CASE b # a /\ b # to
      <4>1. shares'[b] = shares[b]
        BY <1>1, <1>3, <3>1 DEF PoolsOK
      <4> QED BY <4>1
    <3>2. CASE q # p /\ b = a
      BY <1>1, <1>2, <1>3, <3>2 DEF PoolsOK
    <3>3. CASE q # p /\ b = to
      BY <1>1, <1>2, <1>3, <3>3 DEF PoolsOK
    <3> QED BY <2>3, <3>1, <3>2, <3>3
  <2> QED BY <1>5, <2>1, <2>2, <2>3
<1>7. \A q \in Pools : SharesHeld(q)' = SharesHeld(q)
  BY <1>1, <1>2, <1>6, TransferKeepsHeld
<1>8. \A q \in Pools : pool'[q].balance = pool[q].balance /\ pool'[q].shares = pool[q].shares
  BY <1>1, <1>3, <1>5 DEF PoolsOK
<1>9. \A q \in Pools : FairStep(q)
  BY <1>1, <1>7, <1>8, BookFacts, StillPool
<1>10. InPools' = InPools /\ \A k \in Kinds : KindTotal(k)' = KindTotal(k)
  <2>1. [q \in Pools |-> pool'[q].balance] = [q \in Pools |-> pool[q].balance]
    BY <1>8
  <2>2. ASSUME NEW k \in Kinds
        PROVE  [q \in PoolsOf(k) |-> pool'[q].balance] = [q \in PoolsOf(k) |-> pool[q].balance]
    BY <1>8, FinitelyMany
  <2>3. ASSUME NEW k \in Kinds PROVE PoolsOf(k)' = PoolsOf(k)
    BY DEF PoolsOf
  <2> QED BY <2>1, <2>2 DEF InPools, KindTotal, PoolsOf
<1>11. /\ InLedgers' = InLedgers /\ InQueue' = InQueue /\ unbonding' = unbonding
       /\ minted' = minted /\ dropped' = dropped /\ InAccounts' = InAccounts
  BY DEF queueVars, bondVars, histVars, InLedgers, InQueue, InAccounts
<1>12. TokensKept
  <2>1. InAccounts' + InPools' + InLedgers' + InQueue'
          = (InAccounts + InPools + InLedgers + InQueue)
              + (minted' - minted) - (dropped' - dropped)
    BY <1>10, <1>11, BookFacts
  <2> QED BY <2>1 DEF TokensKept, Held
<1>13. TotalsAgree'
  <2>1. \A k \in Kinds : total'[k] = KindTotal(k)'
    BY <1>2, <1>10, BookFacts
  <2> QED BY <1>11, <2>1, BookFacts DEF TotalsAgree, KindTotal
<1> QED BY <1>9, <1>11, <1>12, <1>13, BookFacts DEF BooksKept

(* What a claim pays, and what it leaves in the ledger.                    *)
LEMMA PayoutFacts ==
  ASSUME BondsOK, LedgersFinite, NEW a \in Accounts
  PROVE  /\ Payout(a) \in Nat /\ Payout(a) <= SumFunction(ledger[a])
         /\ SumFunction(ledger[a]) \in Nat /\ SumFunction(ledger[a]) <= InLedgers
         /\ SumFunction(Unclaimed(a)) = SumFunction(ledger[a]) - Payout(a)
         /\ IsFiniteSet(DOMAIN Unclaimed(a)) /\ DOMAIN Unclaimed(a) \subseteq DOMAIN ledger[a]
         /\ \A c \in DOMAIN Unclaimed(a) : Unclaimed(a)[c] = ledger[a][c]
<1>1. IsFiniteSet(DOMAIN ledger[a]) /\ \A c \in DOMAIN ledger[a] : ledger[a][c] \in Nat
  BY MaxBalanceAssumption DEF BondsOK, IsLedger, LedgersFinite
<1>2. Matured(a) \in SUBSET DOMAIN ledger[a]
  BY DEF Matured
<1>3. /\ SumFunction(ledger[a]) \in Nat /\ SumFunction(ledger[a]) <= InLedgers
      /\ Payout(a) \in Nat /\ Payout(a) <= SumFunction(ledger[a])
  BY <1>2, InLedgersFacts DEF Payout
<1>4. SumFunction(Unclaimed(a)) = SumFunction(ledger[a]) - Payout(a)
  BY <1>1, <1>2, RestrictSum DEF Unclaimed, Payout
<1>5. /\ DOMAIN Unclaimed(a) = DOMAIN ledger[a] \ Matured(a)
      /\ \A c \in DOMAIN Unclaimed(a) : Unclaimed(a)[c] = ledger[a][c]
  BY DEF Unclaimed, Restrict
<1>6. IsFiniteSet(DOMAIN Unclaimed(a))
  BY <1>1, <1>5, FS_Subset
<1> QED BY <1>3, <1>4, <1>5, <1>6

(* An account is paid what a ledger held.                                  *)
LEMMA AccountPaid ==
  ASSUME Books, Fits, RestOK', NEW a \in Accounts, NEW paid \in Nat, paid <= InLedgers,
         free' = [free EXCEPT ![a] = SatAdd(@, paid)]
  PROVE  InAccounts' = InAccounts + paid
<1>1. RestOK
  BY DEF Books, Inv, TypeOK
<1>2. free[a] \in Nat /\ free[a] <= InAccounts /\ InAccounts \in Nat /\ InLedgers \in Nat
  BY <1>1, InAccountsFacts, BookFacts
<1>3. free[a] + paid <= MaxBalance
  <2>1. InAccounts + InLedgers <= MaxBalance
    BY TwoBooks
  <2>2. \A f, i, l, m \in Nat : f <= i /\ paid <= l /\ i + l <= m => f + paid <= m
    OBVIOUS
  <2> HIDE DEF Balance
  <2> QED BY <1>2, <2>1, <2>2, MaxBalanceAssumption
<1>4. free'[a] = SatAdd(free[a], paid) /\ \A b \in Accounts : b # a => free'[b] = free[b]
  BY <1>1 DEF RestOK
<1>5. free'[a] = free[a] + paid
  BY <1>2, <1>3, <1>4, Exact
<1>6. InAccounts' = InAccounts - free[a] + free'[a]
  BY <1>1, <1>4, AccountsChange
<1> QED BY <1>2, <1>5, <1>6

(* A claim moves its payout from the ledger to the account.                *)
LEMMA ClaimMoves ==
  ASSUME Books, Fits, BondsOK', RestOK', LedgersFinite', NEW a \in Accounts,
         do_claim_unbondings(a)
  PROVE  InAccounts' + InLedgers' = InAccounts + InLedgers /\ unbonding' = InLedgers'
         /\ InAccounts' \in Int /\ InLedgers' \in Int
<1>1. /\ free' = [free EXCEPT ![a] = SatAdd(@, Payout(a))]
      /\ ledger' = [ledger EXCEPT ![a] = Unclaimed(a)]
      /\ unbonding' = SatSub(unbonding, Payout(a))
  BY DEF do_claim_unbondings
<1>2. BondsOK /\ LedgersFinite
  BY DEF Books, Inv, TypeOK
<1>3. PICK paid : paid = Payout(a)
  OBVIOUS
<1>4. PICK old : old = SumFunction(ledger[a])
  OBVIOUS
<1>5. /\ paid \in Nat /\ paid <= old /\ old \in Nat /\ old <= InLedgers /\ paid <= InLedgers
      /\ SumFunction(Unclaimed(a)) = old - paid
      /\ InLedgers \in Nat /\ InAccounts \in Nat /\ unbonding = InLedgers
      /\ InLedgers <= MaxBalance
  <2>1. /\ paid \in Nat /\ paid <= old /\ old \in Nat /\ old <= InLedgers
        /\ SumFunction(Unclaimed(a)) = old - paid
    BY <1>2, <1>3, <1>4, PayoutFacts
  <2>2. /\ InLedgers \in Nat /\ InAccounts \in Nat /\ unbonding = InLedgers
        /\ InAccounts + InLedgers <= MaxBalance
    BY BookFacts, TwoBooks
  <2> QED BY <2>1, <2>2, MaxBalanceAssumption
<1>6. InAccounts' = InAccounts + paid
  BY <1>1, <1>3, <1>5, AccountPaid
<1>7. ledger'[a] = Unclaimed(a) /\ \A b \in Accounts : b # a => ledger'[b] = ledger[b]
  BY <1>1, <1>2 DEF BondsOK
<1>8. InLedgers' = InLedgers - old + SumFunction(ledger'[a])
  BY <1>2, <1>4, <1>7, LedgersChange
<1>9. InLedgers' = InLedgers - paid
  BY <1>5, <1>7, <1>8
<1>10. unbonding' = InLedgers - paid
  BY <1>1, <1>3, <1>5, Exact
<1> QED BY <1>5, <1>6, <1>9, <1>10

(* An unbonding, and the claim it may force.                               *)
LEMMA UnbondMoves ==
  ASSUME Books, Fits, BondsOK', RestOK', LedgersFinite', NEW a \in Accounts,
         NEW claim, NEW v \in Nat, InLedgers + v <= MaxBalance, Unbond(a, claim, v)
  PROVE  /\ InAccounts' + InLedgers' = InAccounts + InLedgers + v /\ unbonding' = InLedgers'
         /\ InAccounts' \in Int /\ InLedgers' \in Int
<1> DEFINE first == MustClaim(a, claim)
<1>1. PICK kept : kept = IF first THEN Unclaimed(a) ELSE ledger[a]
  OBVIOUS
<1>2. PICK paid : paid = IF first THEN Payout(a) ELSE 0
  OBVIOUS
<1>3. /\ free' = [free EXCEPT ![a] = SatAdd(@, paid)]
      /\ ledger' = [ledger EXCEPT ![a] = Deposited(kept, claim, v)]
      /\ unbonding' = SatAdd(SatSub(unbonding, paid), v)
  BY <1>1, <1>2 DEF Unbond
<1> HIDE DEF first
<1>4. BondsOK /\ LedgersFinite
  BY DEF Books, Inv, TypeOK
<1>5. PICK old : old = SumFunction(ledger[a])
  OBVIOUS
<1>6. /\ paid \in Nat /\ paid <= old /\ old \in Nat /\ old <= InLedgers
      /\ SumFunction(kept) = old - paid
      /\ IsFiniteSet(DOMAIN kept) /\ DOMAIN kept \subseteq DOMAIN ledger[a]
      /\ \A c \in DOMAIN kept : kept[c] = ledger[a][c]
  <2>1. CASE first
    BY <1>1, <1>2, <1>4, <1>5, <2>1, PayoutFacts
  <2>2. CASE ~first
    <3>1. kept = ledger[a] /\ paid = 0
      BY <1>1, <1>2, <2>2
    <3>2. old \in Nat /\ old <= InLedgers
      BY <1>4, <1>5, PayoutFacts
    <3>3. IsFiniteSet(DOMAIN ledger[a])
      BY <1>4 DEF LedgersFinite
    <3> QED BY <1>5, <3>1, <3>2, <3>3
  <2> QED BY <2>1, <2>2
<1>7. InLedgers \in Nat /\ InAccounts \in Nat /\ unbonding = InLedgers
  BY BookFacts
<1>8. /\ paid <= InLedgers /\ InLedgers <= MaxBalance /\ v <= MaxBalance
      /\ InLedgers + v <= MaxBalance /\ (InLedgers - paid) + v <= MaxBalance
      /\ InLedgers - paid \in Nat
  BY <1>6, <1>7, MaxBalanceAssumption
<1>9. InAccounts' = InAccounts + paid
  BY <1>3, <1>6, <1>8, AccountPaid
<1>10. \A c \in DOMAIN kept : kept[c] \in Nat /\ kept[c] + v <= MaxBalance
  <2> SUFFICES ASSUME NEW c \in DOMAIN kept PROVE kept[c] \in Nat /\ kept[c] + v <= MaxBalance
    OBVIOUS
  <2>1. kept[c] \in Nat /\ kept[c] <= old
    <3>1. c \in DOMAIN ledger[a] /\ kept[c] = ledger[a][c]
      BY <1>6
    <3> QED BY <1>4, <1>5, <3>1, InLedgersFacts
  <2> QED BY <1>6, <1>7, <1>8, <2>1, MaxBalanceAssumption
<1>11. SumFunction(Deposited(kept, claim, v)) = (old - paid) + v
  <2>1. SumFunction(Deposited(kept, claim, v)) = SumFunction(kept) + v
    BY <1>6, <1>8, <1>10, DepositedSum
  <2> QED BY <1>6, <2>1
<1>12. ledger'[a] = Deposited(kept, claim, v) /\ \A b \in Accounts : b # a => ledger'[b] = ledger[b]
  BY <1>3, <1>4 DEF BondsOK
<1>13. InLedgers' = InLedgers - old + SumFunction(ledger'[a])
  BY <1>4, <1>5, <1>12, LedgersChange
<1>14. InLedgers' = (InLedgers - paid) + v
  BY <1>6, <1>7, <1>11, <1>12, <1>13
<1>15. unbonding' = (InLedgers - paid) + v
  <2>1. SatSub(InLedgers, paid) = InLedgers - paid
    BY <1>6, <1>7, <1>8, Exact
  <2>2. SatAdd(InLedgers - paid, v) = (InLedgers - paid) + v
    BY <1>8, Exact
  <2> QED BY <1>3, <1>7, <2>1, <2>2
<1> QED BY <1>6, <1>7, <1>9, <1>14, <1>15

(* What a withdrawal and a swap take from a pool.                          *)
LEMMA PoolPays ==
  ASSUME Books, Fits, PoolsOK', NEW a \in Accounts, NEW p \in Pools, NEW n \in Balance,
         perform_do_remove_delegate_stake(a, p, n)
  PROVE  /\ BalanceOf(n, p) \in Nat /\ BalanceOf(n, p) <= InPools
         /\ InPools' = InPools - BalanceOf(n, p)
         /\ \A k \in Kinds : total'[k] = KindTotal(k)'
         /\ \A q \in Pools : FairStep(q)
<1>1. PoolsOK /\ n \in Nat
  BY MaxBalanceAssumption DEF Books, Inv, TypeOK
<1>2. /\ n # 0 /\ shares[a][p] >= n
      /\ decrease_account_delegate_stake(a, p, BalanceOf(n, p), n)
  BY DEF perform_do_remove_delegate_stake
<1>3. /\ pool[p].balance \in Nat /\ total[Kind(p)] \in Nat
      /\ pool[p].balance <= total[Kind(p)] /\ total[Kind(p)] <= InPools
  BY <1>1, BookFacts, WithinPools
<1>4. PICK v : v = BalanceOf(n, p)
  OBVIOUS
<1>5. /\ BalanceOf(n, p) \in Nat /\ BalanceOf(n, p) <= pool[p].balance
      /\ pool'[p].balance = pool[p].balance - BalanceOf(n, p)
      /\ \A q \in Pools : q # p => pool'[q].balance = pool[q].balance
      /\ total'[Kind(p)] = total[Kind(p)] - BalanceOf(n, p)
      /\ \A k \in Kinds : k # Kind(p) => total'[k] = total[k]
      /\ \A q \in Pools : FairStep(q)
  BY <1>1, <1>2, <1>3, BookFacts, Sold
<1>6. PICK d \in Int : d = 0 - v
  BY <1>4, <1>5
<1>7. /\ pool'[p].balance = pool[p].balance + d
      /\ total'[Kind(p)] = total[Kind(p)] + d
  BY <1>3, <1>4, <1>5, <1>6
<1>8. InPools' = InPools + d /\ \A k \in Kinds : total'[k] = KindTotal(k)'
  BY <1>1, <1>5, <1>7, BookFacts, PoolTally
<1>9. v <= InPools /\ InPools + d = InPools - v
  <2>1. InPools \in Nat
    BY BookFacts
  <2> QED BY <1>3, <1>4, <1>5, <1>6, <2>1
<1> QED BY <1>4, <1>5, <1>8, <1>9

(* A withdrawal moves what the shares are worth from the pool to the ledger. *)
LEMMA RemoveBooks ==
  ASSUME Books, Fits, Inv', LedgersFinite', NEW a \in Accounts, NEW p \in Pools,
         NEW n \in Balance, do_remove_delegate_stake(a, p, n),
         UNCHANGED <<queueVars, histVars>>
  PROVE  BooksKept
<1>1. PoolsOK' /\ BondsOK' /\ RestOK'
  BY DEF Inv, TypeOK
<1>2. PICK v : v = BalanceOf(n, p)
  OBVIOUS
<1>3. /\ v \in Nat /\ v <= InPools /\ InPools' = InPools - v
      /\ \A k \in Kinds : total'[k] = KindTotal(k)'
      /\ \A q \in Pools : FairStep(q)
  BY <1>1, <1>2, PoolPays DEF do_remove_delegate_stake
<1>4. PICK claim : claim = block + Cooldown
  OBVIOUS
<1>5. Unbond(a, claim, v)
  BY <1>2, <1>4 DEF do_remove_delegate_stake, add_balance_to_unbonding_ledger
<1>6. /\ InAccounts' + InLedgers' = InAccounts + InLedgers + v /\ unbonding' = InLedgers'
      /\ InAccounts' \in Int /\ InLedgers' \in Int
  <2>1. InLedgers + v <= MaxBalance
    <3>1. InLedgers \in Nat /\ InPools \in Nat /\ InLedgers + InPools <= MaxBalance
      BY BookFacts, TwoBooks
    <3> QED BY <1>3, <3>1, MaxBalanceAssumption
  <2> QED BY <1>1, <1>3, <1>5, <2>1, UnbondMoves
<1>7. InQueue' = InQueue /\ minted' = minted /\ dropped' = dropped
  BY DEF queueVars, histVars, InQueue
<1>8. TokensKept
  <2>1. InAccounts' + InPools' + InLedgers' + InQueue'
          = (InAccounts + InPools + InLedgers + InQueue)
              + (minted' - minted) - (dropped' - dropped)
    BY <1>3, <1>6, <1>7, BookFacts
  <2> QED BY <2>1 DEF TokensKept, Held
<1>9. TotalsAgree'
  BY <1>3, <1>6 DEF TotalsAgree, KindTotal
<1> QED BY <1>3, <1>7, <1>8, <1>9, BookFacts DEF BooksKept

(* A step that changes no pool.                                            *)
LEMMA SamePools ==
  ASSUME Books, Fits, UNCHANGED <<pool, shares, total>>
  PROVE  /\ InPools' = InPools /\ \A k \in Kinds : total'[k] = KindTotal(k)'
         /\ \A q \in Pools : FairStep(q)
<1>1. PoolsOK
  BY DEF Books, Inv, TypeOK
<1>2. pool' = pool /\ shares' = shares /\ total' = total
  OBVIOUS
<1>3. InPools' = InPools /\ \A k \in Kinds : KindTotal(k)' = KindTotal(k)
  BY <1>2 DEF InPools, KindTotal, PoolsOf
<1>4. ASSUME NEW q \in Pools PROVE FairStep(q)
  <2>1. SharesHeld(q)' = SharesHeld(q)
    BY <1>2 DEF SharesHeld
  <2> QED BY <1>1, <1>2, <2>1, BookFacts, StillPool
<1> QED BY <1>2, <1>3, <1>4, BookFacts

(* A claim keeps the books.                                                *)
LEMMA ClaimBooks ==
  ASSUME Books, Fits, Inv', LedgersFinite', NEW a \in Accounts, claim_unbondings(a)
  PROVE  BooksKept
<1>1. BondsOK' /\ RestOK' /\ do_claim_unbondings(a)
      /\ UNCHANGED <<pool, shares, total, queueVars, histVars>>
  BY DEF Inv, TypeOK, claim_unbondings, poolVars
<1>2. /\ InPools' = InPools /\ \A k \in Kinds : total'[k] = KindTotal(k)'
      /\ \A q \in Pools : FairStep(q)
  BY <1>1, SamePools
<1>3. /\ InAccounts' + InLedgers' = InAccounts + InLedgers /\ unbonding' = InLedgers'
      /\ InAccounts' \in Int /\ InLedgers' \in Int
  BY <1>1, ClaimMoves
<1>4. InQueue' = InQueue /\ minted' = minted /\ dropped' = dropped
  BY <1>1 DEF queueVars, histVars, InQueue
<1>5. TokensKept
  <2>1. InAccounts' + InPools' + InLedgers' + InQueue'
          = (InAccounts + InPools + InLedgers + InQueue)
              + (minted' - minted) - (dropped' - dropped)
    BY <1>2, <1>3, <1>4, BookFacts
  <2> QED BY <2>1 DEF TokensKept, Held
<1>6. TotalsAgree'
  BY <1>2, <1>3 DEF TotalsAgree, KindTotal
<1> QED BY <1>2, <1>4, <1>5, <1>6, BookFacts DEF BooksKept

(* A swap moves what the shares are worth from the pool to the queue.      *)
LEMMA SwapBooks ==
  ASSUME Books, Fits, Inv', NEW a \in Accounts, NEW from \in Pools, NEW to \in Pools,
         NEW n \in Balance, do_swap(a, from, to, n)
  PROVE  BooksKept
<1>1. PoolsOK' /\ Inv
  BY DEF Books, Inv, TypeOK
<1>2. /\ perform_do_remove_delegate_stake(a, from, n)
      /\ queue_swap(a, to, BalanceOf(n, from))
      /\ UNCHANGED <<bondVars, histVars, free>>
  BY DEF do_swap
<1>3. PICK v : v = BalanceOf(n, from)
  OBVIOUS
<1>4. /\ v \in Nat /\ v <= InPools /\ InPools' = InPools - v
      /\ \A k \in Kinds : total'[k] = KindTotal(k)'
      /\ \A q \in Pools : FairStep(q)
  BY <1>1, <1>2, <1>3, PoolPays
<1>5. InQueue' = InQueue + v
  <2>1. queue_swap(a, to, v)
    BY <1>2, <1>3
  <2> QED BY <1>1, <1>4, <2>1, QueueGains
<1>6. /\ InAccounts' = InAccounts /\ InLedgers' = InLedgers /\ unbonding' = unbonding
      /\ minted' = minted /\ dropped' = dropped
  BY <1>2 DEF bondVars, histVars, InAccounts, InLedgers
<1>7. TokensKept
  <2>1. InAccounts' + InPools' + InLedgers' + InQueue'
          = (InAccounts + InPools + InLedgers + InQueue)
              + (minted' - minted) - (dropped' - dropped)
    BY <1>4, <1>5, <1>6, BookFacts
  <2> QED BY <2>1 DEF TokensKept, Held
<1>8. TotalsAgree'
  BY <1>4, <1>6, BookFacts DEF TotalsAgree, KindTotal
<1> QED BY <1>4, <1>6, <1>7, <1>8, BookFacts DEF BooksKept

(* A step that moves no tokens.                                            *)
LEMMA FrameBooks ==
  ASSUME Books, Fits,
         UNCHANGED <<pool, shares, total, bondVars, minted, dropped, free>>,
         InQueue' = InQueue
  PROVE  BooksKept
<1>1. /\ InPools' = InPools /\ \A k \in Kinds : total'[k] = KindTotal(k)'
      /\ \A q \in Pools : FairStep(q)
  BY SamePools
<1>2. /\ InAccounts' = InAccounts /\ InLedgers' = InLedgers /\ unbonding' = unbonding
      /\ minted' = minted /\ dropped' = dropped
  BY DEF bondVars, InAccounts, InLedgers
<1>3. TokensKept
  <2>1. InAccounts' + InPools' + InLedgers' + InQueue'
          = (InAccounts + InPools + InLedgers + InQueue)
              + (minted' - minted) - (dropped' - dropped)
    BY <1>1, <1>2, BookFacts
  <2> QED BY <2>1 DEF TokensKept, Held
<1>4. TotalsAgree'
  BY <1>1, <1>2, BookFacts DEF TotalsAgree, KindTotal
<1> QED BY <1>1, <1>2, <1>3, <1>4, BookFacts DEF BooksKept

(* A step that changes no balance, no shares and no queued swap.           *)
LEMMA StillBooks ==
  ASSUME Books, Fits,
         UNCHANGED <<pool, shares, total, minted, bondVars, dropped, free, calls>>
  PROVE  BooksKept
<1>1. InQueue' = InQueue
  BY DEF InQueue
<1> QED BY <1>1, FrameBooks

(* The hook executes a swap: its amount goes into the pool, or is dropped. *)
LEMMA ExecuteBooks ==
  ASSUME Books, Fits, StepFits, Inv', ExecuteSwap
  PROVE  BooksKept
<1>1. PoolsOK /\ PoolsOK' /\ Inv
  BY DEF Books, Inv, TypeOK
<1>2. PICK item : item = calls[Head(order)]
  OBVIOUS
<1>3. /\ order # <<>> /\ Dequeue /\ UNCHANGED <<bondVars, minted, free>>
      /\ execute_swap_call_internal(item)
  BY <1>2 DEF ExecuteSwap, HeadReady
<1>4. Head(order) \in DOMAIN calls /\ InQueue' = InQueue - item.balance
  BY <1>1, <1>2, <1>3, QueueLoses
<1>5. PICK p \in Pools : p = item.to
  BY <1>1, <1>2, <1>4 DEF Inv, TypeOK, QueueOK, SwapItem
<1>6. PICK a \in Accounts : a = item.account
  BY <1>1, <1>2, <1>4 DEF Inv, TypeOK, QueueOK, SwapItem
<1>7. PICK x \in Balance : x = item.balance
  BY <1>1, <1>2, <1>4 DEF Inv, TypeOK, QueueOK, SwapItem
<1>8. x \in Nat /\ x <= InQueue /\ InQueue' = InQueue - x
  BY <1>1, <1>2, <1>4, <1>7, InQueueFacts
<1>9. /\ InAccounts' = InAccounts /\ InLedgers' = InLedgers /\ unbonding' = unbonding
      /\ minted' = minted
  BY <1>3 DEF bondVars, InAccounts, InLedgers
<1>10. pool'[p].shares < MaxBalance
  BY DEF StepFits
<1>11. CASE handle_increase_account_delegate_stake(a, p, x) /\ dropped' = dropped
  <2>1. pool[p].balance + x <= MaxBalance /\ total[Kind(p)] + x <= MaxBalance
    BY <1>8, FitsPool
  <2>2. /\ pool'[p].balance = pool[p].balance + x
        /\ \A q \in Pools : q # p => pool'[q].balance = pool[q].balance
        /\ total'[Kind(p)] = total[Kind(p)] + x
        /\ \A k \in Kinds : k # Kind(p) => total'[k] = total[k]
        /\ \A q \in Pools : FairStep(q)
    BY <1>1, <1>10, <1>11, <2>1, BookFacts, Bought
  <2>3. InPools' = InPools + x /\ \A k \in Kinds : total'[k] = KindTotal(k)'
    BY <1>1, <1>8, <2>2, BookFacts, PoolTally
  <2>4. TokensKept
    <3>1. InAccounts' + InPools' + InLedgers' + InQueue'
            = (InAccounts + InPools + InLedgers + InQueue)
                + (minted' - minted) - (dropped' - dropped)
      BY <1>8, <1>9, <1>11, <2>3, BookFacts
    <3> QED BY <3>1 DEF TokensKept, Held
  <2>5. TotalsAgree'
    BY <1>9, <2>3, BookFacts DEF TotalsAgree, KindTotal
  <2> QED BY <1>9, <1>11, <2>2, <2>4, <2>5, BookFacts DEF BooksKept
<1>12. CASE /\ pool' = [pool EXCEPT ![p] = MintDeadShares(@)]
            /\ dropped' = dropped + x /\ UNCHANGED <<shares, total>>
  <2>1. /\ pool'[p] = MintDeadShares(pool[p])
        /\ pool[p] \in [balance : Balance, shares : Balance]
        /\ \A q \in Pools : q # p => pool'[q] = pool[q]
    BY <1>1, <1>12 DEF PoolsOK
  <2>2. PICK dead \in {0, MIN_LIQUIDITY} :
          /\ pool'[p].balance = pool[p].balance
          /\ pool'[p].shares = pool[p].shares + dead
          /\ pool[p].shares = 0 <=> dead = MIN_LIQUIDITY
    BY <1>10, <2>1, Minted
  <2>3. \A q \in Pools : SharesHeld(q)' = SharesHeld(q)
    BY <1>12 DEF SharesHeld
  <2>4. pool[p].balance \in Nat /\ total[Kind(p)] \in Nat
    BY <1>1, BookFacts, WithinPools
  <2>5. FairStep(p)
    <3>1. pool'[p].balance = pool[p].balance + 0
      BY <2>2, <2>4
    <3>2. pool[p].shares # 0 => dead = 0
      BY <2>2
    <3> QED BY <1>1, <2>2, <2>3, <3>1, <3>2, BookFacts, GrownPool
  <2>6. ASSUME NEW q \in Pools, q # p PROVE FairStep(q)
    BY <1>1, <2>1, <2>3, <2>6, BookFacts, StillPool
  <2>7. InPools' = InPools + 0 /\ \A k \in Kinds : total'[k] = KindTotal(k)'
    <3>1. pool'[p].balance = pool[p].balance + 0 /\ total'[Kind(p)] = total[Kind(p)] + 0
      BY <1>12, <2>2, <2>4
    <3>2. /\ \A q \in Pools : q # p => pool'[q].balance = pool[q].balance
          /\ \A k \in Kinds : k # Kind(p) => total'[k] = total[k]
      BY <1>12, <2>1
    <3> QED BY <1>1, <3>1, <3>2, BookFacts, PoolTally
  <2>8. TokensKept
    <3>1. InAccounts' + InPools' + InLedgers' + InQueue'
            = (InAccounts + InPools + InLedgers + InQueue)
                + (minted' - minted) - (dropped' - dropped)
      BY <1>8, <1>9, <1>12, <2>7, BookFacts
    <3> QED BY <3>1 DEF TokensKept, Held
  <2>9. TotalsAgree'
    BY <1>9, <2>7, BookFacts DEF TotalsAgree, KindTotal
  <2>10. minted' \in Nat /\ dropped' \in Nat
    BY <1>8, <1>9, <1>12, BookFacts
  <2> QED BY <2>5, <2>6, <2>8, <2>9, <2>10 DEF BooksKept
<1> QED BY <1>3, <1>5, <1>6, <1>7, <1>11, <1>12 DEF execute_swap_call_internal

(* An emission step mints what it pays into the pools.                     *)
LEMMA RewardBooks ==
  ASSUME Books, Fits, StepFits, Inv', NEW plan \in EmissionPlans,
         distribute_rewards(plan), UNCHANGED <<shares, queueVars, bondVars, dropped, free>>
  PROVE  BooksKept
<1>1. PoolsOK /\ PoolsOK'
  BY DEF Books, Inv, TypeOK
<1>2. PICK paid : paid = Rewarded(plan)
  OBVIOUS
<1>3. /\ pool' = [p \in Pools |-> IF p \in paid THEN do_increase_delegate_stake(pool[p], plan[p])
                                               ELSE pool[p]]
      /\ total' = [k \in Kinds |-> SatAdd(total[k], SumFunctionOnSet(plan, paid \cap PoolsOf(k)))]
      /\ minted' = minted + SumFunctionOnSet(plan, paid)
  BY <1>2 DEF distribute_rewards
<1>4. paid \in SUBSET Pools /\ \A p \in paid : plan[p] \in Nat
  <2>1. DOMAIN plan \subseteq Pools /\ \A p \in DOMAIN plan : plan[p] \in Balance
    BY StakingAssumption
  <2>2. paid \subseteq DOMAIN plan
    BY <1>2 DEF Rewarded
  <2> QED BY <2>1, <2>2, MaxBalanceAssumption
<1>5. PICK X : X = SumFunctionOnSet(plan, paid)
  OBVIOUS
<1>6. IsFiniteSet(paid)
  BY <1>4, FinitelyMany, FS_Subset
<1>7. /\ X \in Nat /\ \A p \in paid : plan[p] <= X
      /\ \A T \in SUBSET paid : SumFunctionOnSet(plan, T) \in Nat /\ SumFunctionOnSet(plan, T) <= X
  BY <1>4, <1>5, <1>6, SumOfNaturals
<1>8. InPools \in Nat /\ InPools + X <= MaxBalance /\ minted' = minted + X
  <2>1. /\ InAccounts \in Nat /\ InPools \in Nat /\ InLedgers \in Nat /\ InQueue \in Nat
        /\ minted \in Nat
    BY BookFacts
  <2>2. minted' = minted + X
    BY <1>3, <1>5
  <2>3. InAccounts + InPools + InLedgers + InQueue + (minted' - minted) <= MaxBalance
    BY DEF StepFits, Held
  <2> QED BY <1>7, <2>1, <2>2, <2>3, MaxBalanceAssumption
<1>9. ASSUME NEW p \in paid
      PROVE  /\ pool'[p].balance = pool[p].balance + plan[p]
             /\ FairStep(p)
  <2>1. p \in Pools /\ plan[p] \in Nat /\ plan[p] <= X
    BY <1>4, <1>7
  <2>2. /\ pool'[p] = do_increase_delegate_stake(pool[p], plan[p])
        /\ pool[p] \in [balance : Balance, shares : Balance]
    BY <1>1, <1>3, <2>1 DEF PoolsOK
  <2>3. pool[p].balance \in Nat /\ pool[p].balance <= InPools
    BY <1>1, <2>1, InPoolsFacts
  <2>4. pool[p].balance + plan[p] <= MaxBalance
    BY <1>7, <1>8, <2>1, <2>3, MaxBalanceAssumption
  <2>5. pool'[p].shares < MaxBalance
    BY <2>1 DEF StepFits
  <2>6. /\ pool'[p].balance = pool[p].balance + plan[p]
        /\ \E dead \in {0, MIN_LIQUIDITY} :
             /\ pool'[p].shares = pool[p].shares + dead
             /\ pool[p].shares = 0 => dead = MIN_LIQUIDITY
             /\ pool[p].balance # 0 /\ pool[p].shares # 0 => dead = 0
    BY <2>1, <2>2, <2>4, <2>5, Grown
  <2>7. PICK dead \in {0, MIN_LIQUIDITY} :
             /\ pool'[p].shares = pool[p].shares + dead
             /\ pool[p].shares = 0 => dead = MIN_LIQUIDITY
             /\ pool[p].balance # 0 /\ pool[p].shares # 0 => dead = 0
    BY <2>6
  <2>8. SharesHeld(p)' = SharesHeld(p)
    BY DEF SharesHeld
  <2> QED BY <1>1, <2>1, <2>6, <2>7, <2>8, BookFacts, GrownPool
<1>10. ASSUME NEW p \in Pools, p \notin paid
       PROVE  pool'[p].balance = pool[p].balance /\ FairStep(p)
  <2>1. pool'[p] = pool[p]
    BY <1>3, <1>10
  <2>2. SharesHeld(p)' = SharesHeld(p)
    BY DEF SharesHeld
  <2> QED BY <1>1, <2>1, <2>2, BookFacts, StillPool
<1> DEFINE b == [p \in Pools |-> pool[p].balance]
           g == [p \in Pools |-> IF p \in paid THEN plan[p] ELSE 0]
           c == [p \in Pools |-> pool'[p].balance]
<1>11. \A p \in Pools : b[p] \in Int /\ g[p] \in Int /\ c[p] = b[p] + g[p]
  <2> SUFFICES ASSUME NEW p \in Pools PROVE b[p] \in Int /\ g[p] \in Int /\ c[p] = b[p] + g[p]
    OBVIOUS
  <2>1. b[p] = pool[p].balance /\ b[p] \in Nat /\ c[p] = pool'[p].balance
    BY <1>1, InPoolsFacts
  <2>2. CASE p \in paid
    <3>1. g[p] = plan[p] /\ plan[p] \in Nat
      BY <1>4, <2>2
    <3> QED BY <1>9, <2>1, <2>2, <3>1
  <2>3. CASE p \notin paid
    <3>1. g[p] = 0
      BY <2>3
    <3>2. c[p] = b[p]
      BY <1>10, <2>1, <2>3
    <3> QED BY <2>1, <3>1, <3>2
  <2> QED BY <2>2, <2>3
<1>12. /\ \A p \in Pools \cap paid : plan[p] \in Int /\ g[p] = plan[p]
       /\ \A p \in Pools \ paid : g[p] = 0
  BY <1>4
<1>13. ASSUME NEW S \in SUBSET Pools
       PROVE  SumFunctionOnSet(c, S) = SumFunctionOnSet(b, S) + SumFunctionOnSet(plan, paid \cap S)
  <2>1. IsFiniteSet(S)
    BY FinitelyMany, FS_Subset
  <2> HIDE DEF b, g, c
  <2>2. SumFunctionOnSet(c, S) = SumFunctionOnSet(b, S) + SumFunctionOnSet(g, S)
    BY <1>11, <2>1, SumOfSums
  <2>3. SumFunctionOnSet(g, S) = SumFunctionOnSet(plan, paid \cap S)
    BY <1>12, <2>1, SumOfSome
  <2> QED BY <2>2, <2>3
<1>14. InPools' = InPools + X
  <2>1. InPools = SumFunctionOnSet(b, Pools) /\ InPools' = SumFunctionOnSet(c, Pools)
    BY SumOver DEF InPools
  <2>2. paid \cap Pools = paid
    BY <1>4
  <2> HIDE DEF b, c
  <2> QED BY <1>5, <1>13, <2>1, <2>2
<1>15. ASSUME NEW k \in Kinds PROVE total'[k] = KindTotal(k)'
  <2> DEFINE bk == [p \in PoolsOf(k) |-> pool[p].balance]
             ck == [p \in PoolsOf(k) |-> pool'[p].balance]
             Y  == SumFunctionOnSet(plan, paid \cap PoolsOf(k))
  <2>1. PoolsOf(k) \in SUBSET Pools /\ IsFiniteSet(PoolsOf(k))
    BY FinitelyMany
  <2>2. KindTotal(k) = SumFunctionOnSet(bk, PoolsOf(k)) /\ KindTotal(k)' = SumFunctionOnSet(ck, PoolsOf(k))
    BY SumOver DEF KindTotal, PoolsOf
  <2>3. \A p \in PoolsOf(k) : bk[p] = b[p] /\ ck[p] = c[p]
    BY <2>1
  <2>4. paid \cap PoolsOf(k) \in SUBSET paid
    OBVIOUS
  <2>5. Y \in Nat /\ Y <= X
    BY <1>7, <2>4
  <2>6. total'[k] = SatAdd(total[k], Y)
    BY <1>3
  <2> HIDE DEF b, c, bk, ck
  <2>7. KindTotal(k) = SumFunctionOnSet(b, PoolsOf(k)) /\ KindTotal(k)' = SumFunctionOnSet(c, PoolsOf(k))
    BY <2>1, <2>2, <2>3, SumEqual
  <2>8. KindTotal(k)' = KindTotal(k) + Y
    BY <1>13, <2>1, <2>7
  <2> HIDE DEF Y
  <2>9. total[k] = KindTotal(k) /\ KindTotal(k) \in Nat /\ KindTotal(k) <= InPools
    BY <1>1, BookFacts, InPoolsFacts
  <2>10. KindTotal(k) + Y <= MaxBalance
    BY <1>7, <1>8, <2>5, <2>9, MaxBalanceAssumption
  <2>11. SatAdd(KindTotal(k), Y) = KindTotal(k) + Y
    BY <2>5, <2>9, <2>10, Exact
  <2> QED BY <2>6, <2>8, <2>9, <2>11
<1>16. /\ InAccounts' = InAccounts /\ InLedgers' = InLedgers /\ unbonding' = unbonding
       /\ InQueue' = InQueue /\ dropped' = dropped
  BY DEF bondVars, queueVars, InAccounts, InLedgers, InQueue
<1>17. TokensKept
  <2>1. InAccounts' + InPools' + InLedgers' + InQueue'
          = (InAccounts + InPools + InLedgers + InQueue)
              + (minted' - minted) - (dropped' - dropped)
    BY <1>7, <1>8, <1>14, <1>16, BookFacts
  <2> QED BY <2>1 DEF TokensKept, Held
<1>18. TotalsAgree'
  BY <1>15, <1>16, BookFacts DEF TotalsAgree, KindTotal
<1>19. minted' \in Nat /\ dropped' \in Nat
  BY <1>7, <1>8, <1>16, BookFacts
<1> QED BY <1>9, <1>10, <1>17, <1>18, <1>19 DEF BooksKept

(* What has been minted is a number, before and after.                     *)
LEMMA MintedType == minted \in Nat /\ [AnyNext]_vars => minted' \in Nat
<1> SUFFICES ASSUME minted \in Nat, [AnyNext]_vars PROVE minted' \in Nat
  OBVIOUS
<1>1. CASE AnyCall
  BY <1>1, AnyDepositFrame, AnyWithdrawalFrame, AnyTransferFrame, AnySwapFrame
     DEF AnyCall, histVars
<1>2. CASE Environment
  BY <1>2, EnvironmentFrame
<1>3. CASE NewBlock
  <2>1. ASSUME NEW plan \in EmissionPlans, distribute_rewards(plan)
        PROVE  minted' \in Nat
    <3>1. PICK paid : paid = Rewarded(plan)
      OBVIOUS
    <3>2. paid \in SUBSET Pools /\ \A p \in paid : plan[p] \in Nat
      <4>1. DOMAIN plan \subseteq Pools /\ \A p \in DOMAIN plan : plan[p] \in Balance
        BY <2>1, StakingAssumption
      <4>2. paid \subseteq DOMAIN plan
        BY <3>1 DEF Rewarded
      <4> QED BY <4>1, <4>2, MaxBalanceAssumption
    <3>3. IsFiniteSet(paid)
      BY <3>2, FinitelyMany, FS_Subset
    <3>4. SumFunctionOnSet(plan, paid) \in Nat
      BY <3>2, <3>3, SumOfNaturals
    <3> QED BY <2>1, <3>1, <3>4 DEF distribute_rewards
  <2> QED BY <1>3, <2>1 DEF NewBlock
<1>4. CASE NewBlockWhilePaused \/ ExecuteSwap \/ HookDone \/ UNCHANGED vars
  BY <1>4 DEF NewBlockWhilePaused, ExecuteSwap, HookDone, vars, histVars
<1> QED BY <1>1, <1>2, <1>3, <1>4 DEF AnyNext, Hook

(* Every step keeps the books.                                             *)
LEMMA NextBooks ==
  ASSUME Books, LedgersBounded, Fits, StepFits, [AnyNext]_vars,
         OwnedTransfersOnly \/ [NoTransfer]_vars
  PROVE  BooksKept /\ Inv' /\ LedgersFinite'
<1>1. Inv' /\ LedgersFinite'
  BY NextType, NextCoherent, NextUninterrupted, NextBounded DEF Books, Inv
<1> SUFFICES BooksKept
  BY <1>1
<1>4. CASE AnyDeposit
  BY <1>1, <1>4, AddBooks, DonateBooks DEF AnyDeposit, add_delegate_stake
<1>5. CASE AnyWithdrawal
  BY <1>1, <1>5, ClaimBooks, RemoveBooks DEF AnyWithdrawal, remove_delegate_stake
<1>6. CASE AnyTransfer /\ OwnedTransfersOnly
  BY <1>1, <1>6, TransferBooks DEF AnyTransfer, transfer_delegate_stake
<1>7. CASE AnySwap
  <2>1. PICK a \in Accounts :
          \/ \E n \in Balance, from \in Pools, to \in Pools : do_swap(a, from, to, n)
          \/ \E id \in DOMAIN calls, to \in Pools : update_swap_queue(a, id, to)
    BY <1>7 DEF AnySwap
  <2>2. CASE \E n \in Balance, from \in Pools, to \in Pools : do_swap(a, from, to, n)
    BY <1>1, <2>2, SwapBooks
  <2>3. CASE \E id \in DOMAIN calls, to \in Pools : update_swap_queue(a, id, to)
    <3>1. PICK id, to : update_swap_queue(a, id, to)
      BY <2>3
    <3>2. InQueue' = InQueue
      BY <3>1, QueueKeeps DEF Books
    <3>3. UNCHANGED <<pool, shares, total, bondVars, minted, dropped, free>>
      BY <3>1 DEF update_swap_queue, histVars, poolVars
    <3> QED BY <3>2, <3>3, FrameBooks
  <2> QED BY <2>1, <2>2, <2>3
<1>8. CASE NewBlock
  <2>1. CASE \E plan \in EmissionPlans : distribute_rewards(plan)
    <3>1. UNCHANGED <<shares, queueVars, bondVars, dropped, free>>
      BY <1>8 DEF NewBlock
    <3> QED BY <1>1, <2>1, <3>1, RewardBooks
  <2>2. CASE UNCHANGED <<pool, total, minted>>
    <3>1. UNCHANGED <<pool, shares, total, minted, bondVars, dropped, free, calls>>
      BY <1>8, <2>2 DEF NewBlock, queueVars
    <3> QED BY <3>1, StillBooks
  <2> QED BY <1>8, <2>1, <2>2 DEF NewBlock
<1>9. CASE ExecuteSwap
  BY <1>1, <1>9, ExecuteBooks
<1>10. CASE NewBlockWhilePaused \/ HookDone \/ Environment \/ UNCHANGED vars
  <2>1. UNCHANGED <<pool, shares, total, minted, bondVars, dropped, free, calls>>
    <3>1. CASE NewBlockWhilePaused
      BY <3>1 DEF NewBlockWhilePaused, poolVars, queueVars, histVars
    <3>2. CASE HookDone
      BY <3>2 DEF HookDone, poolVars, queueVars, histVars
    <3>3. CASE Environment
      BY <3>3, EnvironmentFrame DEF poolVars, queueVars
    <3>4. CASE UNCHANGED vars
      BY <3>4 DEF vars, poolVars, queueVars, histVars
    <3> QED BY <1>10, <3>1, <3>2, <3>3, <3>4
  <2> QED BY <2>1, StillBooks
<1> QED BY <1>4, <1>5, <1>6, <1>7, <1>8, <1>9, <1>10 DEF AnyNext, AnyCall, Hook, NoTransfer

(* The books kept, step by step, with the backing of the pools.            *)
LEMMA KeptIsBooks ==
  ASSUME Books, BooksKept, Inv', LedgersFinite'
  PROVE  Books' /\ \A p \in Pools : PriceKept(p)
<1>1. ASSUME NEW p \in Pools PROVE Backed(p)' /\ PriceKept(p)
  <2>1. PoolsOK /\ Backed(p) /\ FairStep(p)
    BY BackedPools DEF Books, Inv, TypeOK, BooksKept
  <2> QED BY <2>1, FairStepKeeps
<1>2. SharesBacked'
  BY <1>1 DEF SharesBacked, Backed
<1> QED BY <1>1, <1>2 DEF Books, BooksKept

(* The books balance in the initial state, in which accounts hold all.     *)
LEMMA InitBooks == Init => Books /\ Held = Supply /\ Supply \in Nat
<1> SUFFICES ASSUME Init PROVE Books /\ Held = Supply /\ Supply \in Nat
  OBVIOUS
<1>1. Inv /\ LedgersFinite
  <2>1. Inv
    <3>1. QueueCoherent
      BY StakingAssumption DEF Init, QueueCoherent, Range, EmptyMap
    <3>2. HookUninterrupted
      BY DEF Init, HookUninterrupted
    <3> QED BY <3>1, <3>2, InitType DEF Inv
  <2>2. \A a \in Accounts : DOMAIN ledger[a] = {}
    BY DEF Init, EmptyMap
  <2> QED BY <2>1, <2>2, FS_EmptySet DEF LedgersFinite
<1>2. \A p \in Pools : SharesHeld(p) = 0 /\ pool[p].balance = 0 /\ pool[p].shares = 0
  <2> SUFFICES ASSUME NEW p \in Pools
               PROVE  SharesHeld(p) = 0 /\ pool[p].balance = 0 /\ pool[p].shares = 0
    OBVIOUS
  <2>1. pool[p].balance = 0 /\ pool[p].shares = 0
    BY DEF Init, EmptyPool
  <2> DEFINE f == [a \in Accounts |-> shares[a][p]]
  <2>2. \A a \in Accounts : f[a] = 0
    BY DEF Init
  <2>3. SharesHeld(p) = SumFunctionOnSet(f, Accounts)
    BY SumOver DEF SharesHeld
  <2> HIDE DEF f
  <2>4. SumFunctionOnSet(f, Accounts) = 0
    BY <2>2, FinitelyMany, SumOfZeros
  <2> QED BY <2>1, <2>3, <2>4
<1>3. SharesBacked
  <2>1. ASSUME NEW p \in Pools PROVE Backed(p)
    <3>1. pool[p].shares - SharesHeld(p) = 0
      BY <1>2
    <3> QED BY <1>2, <3>1 DEF Backed, MIN_LIQUIDITY
  <2> QED BY <2>1, BackedPools
<1>4. InPools = 0 /\ \A k \in Kinds : KindTotal(k) = 0
  <2> DEFINE f == [p \in Pools |-> pool[p].balance]
  <2>1. InPools = SumFunctionOnSet(f, Pools)
    BY SumOver DEF InPools
  <2>2. \A p \in Pools : f[p] = 0
    BY <1>2
  <2>3. InPools = 0
    <3> HIDE DEF f
    <3> QED BY <2>1, <2>2, FinitelyMany, SumOfZeros
  <2>4. PoolsOK
    BY <1>1 DEF Inv, TypeOK
  <2>5. \A k \in Kinds : KindTotal(k) \in Nat /\ KindTotal(k) <= InPools
    BY <2>4, InPoolsFacts
  <2> QED BY <2>3, <2>5
<1>5. InLedgers = 0
  <2> DEFINE f == [a \in Accounts |-> SumFunction(ledger[a])]
  <2>1. ASSUME NEW a \in Accounts PROVE f[a] = 0
    <3>1. DOMAIN ledger[a] = {}
      BY DEF Init, EmptyMap
    <3> QED BY <3>1, SumOfNone DEF SumFunction
  <2>2. InLedgers = SumFunctionOnSet(f, Accounts)
    BY SumOver DEF InLedgers
  <2> HIDE DEF f
  <2> QED BY <2>1, <2>2, FinitelyMany, SumOfZeros
<1>6. InQueue = 0
  <2> DEFINE f == [i \in DOMAIN calls |-> calls[i].balance]
  <2>1. DOMAIN f = {}
    BY DEF Init, EmptyMap
  <2>2. InQueue = SumFunctionOnSet(f, {})
    BY <2>1, SumOver DEF InQueue
  <2> QED BY <2>2, SumOfNone
<1>7. InAccounts = Supply /\ Supply \in Nat
  <2>1. DOMAIN free = Accounts /\ \A a \in Accounts : free[a] = InitialBalance
    BY DEF Init
  <2>2. InAccounts = SumFunctionOnSet(free, Accounts)
    BY <2>1, SumOver DEF InAccounts
  <2>3. InitialBalance \in Int
    BY StakingAssumption, MaxBalanceAssumption
  <2>4. InAccounts = Supply
    BY <2>1, <2>2, <2>3, FinitelyMany, SumConstant DEF Supply
  <2>5. RestOK
    BY <1>1 DEF Inv, TypeOK
  <2> QED BY <2>4, <2>5, InAccountsFacts
<1>8. minted = 0 /\ dropped = 0 /\ unbonding = 0 /\ \A k \in Kinds : total[k] = 0
  BY DEF Init
<1>9. Held = Supply
  BY <1>4, <1>5, <1>6, <1>7 DEF Held
<1>10. TotalsAgree
  BY <1>4, <1>5, <1>8 DEF TotalsAgree, KindTotal
<1> QED BY <1>1, <1>3, <1>7, <1>8, <1>9, <1>10 DEF Books

(* The books are an inductive invariant of the behaviours that do not      *)
(* saturate, and each of their steps keeps the price of every pool.        *)
LEMMA BooksInvariance ==
  ASSUME OwnedTransfersOnly
  PROVE  Spec /\ []Unsaturated
           => []Books /\ []Conservation /\ [][\A p \in Pools : PriceKept(p)]_vars
<1>0. Supply \in Nat /\ Supply' = Supply
  BY FinitelyMany, FS_CardinalityType, StakingAssumption, MaxBalanceAssumption DEF Supply
<1>1. Init => Books /\ Conservation
  <2> SUFFICES ASSUME Init PROVE Books /\ Conservation
    OBVIOUS
  <2>1. Books /\ Held = Supply /\ minted = 0 /\ dropped = 0
    BY InitBooks DEF Init
  <2> QED BY <1>0, <2>1 DEF Conservation, Held
<1>2. ASSUME Books, Conservation, LedgersBounded, Unsaturated, Unsaturated', [Next]_vars
      PROVE  Books' /\ Conservation' /\ [\A p \in Pools : PriceKept(p)]_vars
  <2>1. [AnyNext]_vars
    BY <1>2, NextIsAny
  <2>2. /\ Held = Supply + minted - dropped /\ minted \in Nat /\ dropped \in Nat
        /\ Supply + minted <= MaxBalance /\ Supply + minted' <= MaxBalance
    BY <1>0, <1>2 DEF Conservation, Held, Books, Unsaturated
  <2>3. Fits
    BY <1>0, <1>2, <2>2, MaxBalanceAssumption DEF Fits, Unsaturated
  <2>4. StepFits
    <3>1. minted' \in Nat
      BY <2>1, <2>2, MintedType
    <3>2. Held + (minted' - minted) = Supply + minted' - dropped
      BY <1>0, <2>2, <3>1
    <3>3. \A t, m, d, top \in Nat : t + m <= top => t + m - d <= top
      OBVIOUS
    <3>4. Held + (minted' - minted) <= MaxBalance
      BY <1>0, <2>2, <3>1, <3>2, <3>3, MaxBalanceAssumption
    <3> QED BY <1>2, <3>4 DEF StepFits, Unsaturated
  <2>5. BooksKept /\ Inv' /\ LedgersFinite'
    BY <1>2, <2>1, <2>3, <2>4, NextBooks
  <2>6. Books' /\ \A p \in Pools : PriceKept(p)
    BY <1>2, <2>5, KeptIsBooks
  <2>7. Conservation'
    <3>1. /\ Held' = Held + (minted' - minted) - (dropped' - dropped)
          /\ minted' \in Nat /\ dropped' \in Nat
      BY <2>5 DEF BooksKept, TokensKept
    <3>2. Held' = Supply + minted' - dropped'
      BY <1>0, <2>2, <3>1
    <3> QED BY <1>0, <3>2 DEF Conservation, Held
  <2> QED BY <2>6, <2>7
<1> QED BY <1>1, <1>2, LedgersStayBounded, PTL DEF Spec

(* A pool whose shares are backed can pay them all.                        *)
LEMMA BackedIsSolvent == PoolsOK /\ SharesBacked => PoolsSolvent
<1> SUFFICES ASSUME PoolsOK, SharesBacked, NEW p \in Pools
             PROVE  SumFunction([a \in Accounts |-> BalanceOf(shares[a][p], p)])
                      <= pool[p].balance
  BY DEF PoolsSolvent
<1> DEFINE f == [a \in Accounts |-> BalanceOf(shares[a][p], p)]
           g == [a \in Accounts |-> shares[a][p]]
<1>1. Backed(p)
  BY BackedPools
<1>2. PICK B \in Nat : B = pool[p].balance
  BY <1>1, BackedFacts
<1>3. PICK m \in Nat : m = pool[p].shares + 10
  BY <1>1, BackedFacts
<1>4. PICK H \in Nat : H = SharesHeld(p)
  BY <1>1, BackedFacts
<1>5. H + 10 <= m
  BY <1>1, <1>3, <1>4, BackedFacts
<1>6. \A a \in Accounts : f[a] \in Int /\ g[a] \in Int /\ m * f[a] <= (B + 1) * g[a]
  <2> SUFFICES ASSUME NEW a \in Accounts
               PROVE  f[a] \in Int /\ g[a] \in Int /\ m * f[a] <= (B + 1) * g[a]
    OBVIOUS
  <2>1. PICK n \in Nat : n = shares[a][p]
    BY HeldFacts
  <2>2. n <= SharesHeld(p)
    BY <2>1, HeldFacts
  <2>3. /\ BalanceOf(n, p) \in Nat
        /\ (pool[p].shares + 10) * BalanceOf(n, p) <= (pool[p].balance + 1) * n
    BY <1>1, <2>2, Worth DEF VirtualShares
  <2>4. f[a] = BalanceOf(n, p) /\ g[a] = n
    BY <2>1
  <2> HIDE DEF f, g
  <2> QED BY <1>2, <1>3, <2>3, <2>4
<1>7. H = SumFunctionOnSet(g, Accounts)
  BY <1>4, SumOver DEF SharesHeld
<1>8. SumFunction(f) = SumFunctionOnSet(f, Accounts)
  BY SumOver
<1> HIDE DEF f, g
<1>9. PICK F \in Int : F = SumFunctionOnSet(f, Accounts)
  BY <1>6, FinitelyMany, SumType
<1>10. m * F <= (B + 1) * H
  BY <1>6, <1>7, <1>9, FinitelyMany, SumOrdered
<1>11. F <= B
  <2> SUFFICES ASSUME F >= B + 1 PROVE FALSE
    BY <1>9
  <2>1. F \in Nat /\ B + 1 \in Nat
    OBVIOUS
  <2>2. m * (B + 1) <= m * F
    BY <2>1, Product
  <2>3. (B + 1) * H < m * (B + 1)
    <3>1. (H + 10) * (B + 1) <= m * (B + 1)
      BY <1>5, <2>1, Product
    <3>2. (B + 1) * H < (H + 10) * (B + 1)
      OBVIOUS
    <3> QED BY <2>1, <3>1, <3>2
  <2> QED BY <1>10, <2>1, <2>2, <2>3
<1> QED BY <1>2, <1>8, <1>9, <1>11 DEF f

(* The shares of a pool are those its accounts hold and the dead shares that *)
(* the first deposit or reward makes, always in whole lots of MIN_LIQUIDITY, *)
(* and a pool that holds anything has its dead shares. Every call that buys, *)
(* sells, swaps, transfers or donates, every emission step and every step of *)
(* the block hook keeps it so, while transfers move what the sender holds  *)
(* and no sum reaches the end of u128.                                     *)
THEOREM SharesStayBacked ==
  ASSUME OwnedTransfersOnly
  PROVE  Spec /\ []Unsaturated => []SharesBacked
<1>1. Books => SharesBacked
  BY DEF Books
<1> QED BY <1>1, BooksInvariance, PTL

(* What the accounts, the pools, the ledgers and the queue hold is what was *)
(* issued, minted and not dropped; the totals the pallet keeps per kind and *)
(* for the ledgers are the sums they stand for; and the shares of a pool are *)
(* together never worth more than it holds, so that everyone can leave in  *)
(* any order. No deposit, withdrawal, claim, swap, execution of a swap or  *)
(* reward ever creates or loses a token, or rounds in its own favour.      *)
THEOREM BooksAlwaysBalance ==
  ASSUME OwnedTransfersOnly
  PROVE  Spec /\ []Unsaturated => []BooksBalance
<1>1. Books /\ Conservation => BooksBalance
  BY BackedIsSolvent DEF Books, BooksBalance, Inv, TypeOK
<1> QED BY <1>1, BooksInvariance, PTL

(* No step lowers what a share of a pool with tokens is worth: neither a   *)
(* purchase, whose shares are rounded down, nor a sale, whose tokens are, nor *)
(* a donation or a reward, nor a swap the block hook executes at the price of *)
(* that block.                                                             *)
THEOREM NobodyIsDiluted ==
  ASSUME OwnedTransfersOnly
  PROVE  Spec /\ []Unsaturated => PriceNeverFalls
<1>1. (\A p \in Pools : PriceKept(p)) =>
        \A p \in Pools : pool[p].balance # 0 =>
          (pool'[p].balance + 1) * (pool[p].shares + VirtualShares)
            >= (pool[p].balance + 1) * (pool'[p].shares + VirtualShares)
  BY DEF PriceKept
<1> QED BY <1>1, BooksInvariance, PTL DEF PriceNeverFalls
================================================================================

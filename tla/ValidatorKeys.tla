----------------------------- MODULE ValidatorKeys -----------------------------
(***************************************************************************)
(* Validators and their keys (the validator calls of lib.rs and            *)
(* utilities/validator.rs), on top of the staking they delegate.           *)
(*                                                                         *)
(* A validator is an id with a coldkey, which owns its stake, and a        *)
(* hotkey, which works for it.  Five maps hold the keys, so that each can  *)
(* be looked up from the others, and every call that changes a key changes *)
(* several of them.  A validator also has the rate of its rewards that     *)
(* goes to its delegators, and may have an account that takes a share of   *)
(* what is left; its identity is text and is left out.                     *)
(***************************************************************************)
EXTENDS Staking

CONSTANTS
  NoKey,                                  \* no account
  FirstColdkey, FirstHotkey,              \* keys of the validators of LiveAtStart
  FirstRate, FirstDelegate,               \* their rate and delegate account
  Full,                                   \* percentage_factor: 100 %
  MaxDelegateStakePercentage, MaxRewardRateDecrease, NodeRewardRateUpdatePeriod,
  RegisterRates, NewRates, DelegateRates  \* arguments of calls

Keep == -1        \* an optional rate that is not given

ASSUME KeysAssumption ==
  /\ Validators \subseteq Nat \ {0} /\ NoKey \notin Accounts
  /\ FirstColdkey \in [LiveAtStart \cap Validators -> Accounts]
  /\ FirstHotkey \in [LiveAtStart \cap Validators -> Accounts]
  /\ \A v, w \in LiveAtStart \cap Validators :
       FirstColdkey[v] = FirstColdkey[w] \/ FirstHotkey[v] = FirstHotkey[w] => v = w
  /\ Full \in Nat \ {0}
  /\ {MaxDelegateStakePercentage, MaxRewardRateDecrease, NodeRewardRateUpdatePeriod,
      FirstRate} \subseteq Nat
  /\ FirstDelegate \in [account : Accounts \cup {NoKey}, rate : Nat]
  /\ RegisterRates \subseteq Nat /\ NewRates \subseteq Nat /\ DelegateRates \subseteq Nat

VARIABLES
  ColdkeyValidatorId, HotkeyValidatorId,   \* key -> id, 0 if it is not one
  ValidatorColdkey, ValidatorIdHotkey,     \* id -> key
  ValidatorColdkeyHotkey,                  \* coldkey -> hotkey
  ValidatorsData                           \* id -> hotkey, rates, delegate account

keyVars == <<ColdkeyValidatorId, HotkeyValidatorId, ValidatorColdkey, ValidatorIdHotkey,
             ValidatorColdkeyHotkey, ValidatorsData>>

NoDelegate == [account |-> NoKey, rate |-> 0]
NoData == [hotkey |-> NoKey, delegate_reward_rate |-> 0,
           last_delegate_reward_rate_update |-> 0, delegate_account |-> NoDelegate]

First == LiveAtStart \cap Validators
IdOf(key, a) == IF \E v \in First : key[v] = a THEN CHOOSE v \in First : key[v] = a ELSE 0

KeysInit ==
  /\ ColdkeyValidatorId = [a \in Accounts |-> IdOf(FirstColdkey, a)]
  /\ HotkeyValidatorId = [a \in Accounts |-> IdOf(FirstHotkey, a)]
  /\ ValidatorColdkey = [v \in Validators |-> IF v \in First THEN FirstColdkey[v] ELSE NoKey]
  /\ ValidatorIdHotkey = [v \in Validators |-> IF v \in First THEN FirstHotkey[v] ELSE NoKey]
  /\ ValidatorColdkeyHotkey =
       [a \in Accounts |-> IF IdOf(FirstColdkey, a) = 0 THEN NoKey
                           ELSE FirstHotkey[IdOf(FirstColdkey, a)]]
  /\ ValidatorsData =
       [v \in Validators |->
          IF v \in First
          THEN [hotkey |-> FirstHotkey[v], delegate_reward_rate |-> FirstRate,
                last_delegate_reward_rate_update |-> 0, delegate_account |-> FirstDelegate]
          ELSE NoData]
--------------------------------------------------------------------------------
ensure_canonical_validator_coldkey(a, v) ==
  ColdkeyValidatorId[a] = v /\ ValidatorColdkey[v] = a

ensure_canonical_validator_hotkey(v, a, h) ==
  /\ ensure_canonical_validator_coldkey(a, v)
  /\ ValidatorIdHotkey[v] = h /\ ValidatorColdkeyHotkey[a] = h
  /\ v \in live /\ ValidatorsData[v].hotkey = h
  /\ HotkeyValidatorId[h] = v

validate_validator_delegate_account(delegate, h, a) ==
  /\ delegate.account # h /\ delegate.account # a
  /\ delegate.rate <= Full /\ delegate.rate > 0

(* TotalValidatorIds counts the validators; an id is never given twice.    *)
NextValidatorId == Cardinality(live \cap Validators) + 1

(* The rate is stored as it comes.                                         *)
register_validator(a, h, rate, delegate) ==
  LET v == NextValidatorId
  IN  /\ v \in Validators
      /\ a # h
      /\ ValidatorColdkeyHotkey[a] = NoKey /\ HotkeyValidatorId[h] = 0
      /\ delegate # NoDelegate => validate_validator_delegate_account(delegate, h, a)
      /\ do_register_validator(v)
      /\ ValidatorIdHotkey' = [ValidatorIdHotkey EXCEPT ![v] = h]
      /\ ValidatorsData' =
           [ValidatorsData EXCEPT ![v] =
              [hotkey |-> h, delegate_reward_rate |-> rate,
               last_delegate_reward_rate_update |-> 0, delegate_account |-> delegate]]
      /\ ColdkeyValidatorId' = [ColdkeyValidatorId EXCEPT ![a] = v]
      /\ ValidatorColdkey' = [ValidatorColdkey EXCEPT ![v] = a]
      /\ ValidatorColdkeyHotkey' = [ValidatorColdkeyHotkey EXCEPT ![a] = h]
      /\ HotkeyValidatorId' = [HotkeyValidatorId EXCEPT ![h] = v]

(* A call of a validator, which leaves stakes and balances alone.          *)
KeyCall ==
  /\ Call /\ ~paused
  /\ UNCHANGED <<poolVars, queueVars, bondVars, timeVars, histVars, paused, live, free, lastTx>>

(* Not the key of anyone.                                                  *)
Unused(a) ==
  ColdkeyValidatorId[a] = 0 /\ ValidatorColdkeyHotkey[a] = NoKey /\ HotkeyValidatorId[a] = 0

(* Mutant: the coldkey's entry in ValidatorColdkeyHotkey is forgotten.     *)
ColdkeyLeavesHotkey(a, v, new) ==
  /\ KeyCall
  /\ ensure_canonical_validator_coldkey(a, v)
  /\ new # a /\ new # ValidatorIdHotkey[v] /\ Unused(new)
  /\ ColdkeyValidatorId' = [ColdkeyValidatorId EXCEPT ![a] = 0, ![new] = v]
  /\ ValidatorColdkey' = [ValidatorColdkey EXCEPT ![v] = new]
  /\ ValidatorColdkeyHotkey' = [ValidatorColdkeyHotkey EXCEPT ![new] = ValidatorIdHotkey[v]]
  /\ UNCHANGED <<HotkeyValidatorId, ValidatorIdHotkey, ValidatorsData>>

update_validator_coldkey(a, v, new) ==
  /\ KeyCall
  /\ ensure_canonical_validator_coldkey(a, v)
  /\ new # a /\ new # ValidatorIdHotkey[v] /\ Unused(new)
  /\ ColdkeyValidatorId' = [ColdkeyValidatorId EXCEPT ![a] = 0, ![new] = v]
  /\ ValidatorColdkey' = [ValidatorColdkey EXCEPT ![v] = new]
  /\ ValidatorColdkeyHotkey' =
       [ValidatorColdkeyHotkey EXCEPT ![a] = NoKey, ![new] = ValidatorIdHotkey[v]]
  /\ UNCHANGED <<HotkeyValidatorId, ValidatorIdHotkey, ValidatorsData>>

update_validator_hotkey(a, v, new) ==
  LET h == ValidatorIdHotkey[v]
  IN  /\ KeyCall
      /\ ensure_canonical_validator_hotkey(v, a, h)
      /\ new # a
      /\ \/ new = h /\ UNCHANGED keyVars
         \/ /\ new # h /\ Unused(new)
            /\ HotkeyValidatorId' = [HotkeyValidatorId EXCEPT ![h] = 0, ![new] = v]
            /\ ValidatorIdHotkey' = [ValidatorIdHotkey EXCEPT ![v] = new]
            /\ ValidatorColdkeyHotkey' = [ValidatorColdkeyHotkey EXCEPT ![a] = new]
            /\ ValidatorsData' = [ValidatorsData EXCEPT ![v].hotkey = new]
            /\ UNCHANGED <<ColdkeyValidatorId, ValidatorColdkey>>

OnlyData == UNCHANGED <<ColdkeyValidatorId, HotkeyValidatorId, ValidatorColdkey,
                        ValidatorIdHotkey, ValidatorColdkeyHotkey>>

(* A rate rises freely and falls by at most MaxRewardRateDecrease.         *)
update_validator_delegate_reward_rate(a, v, rate) ==
  LET data == ValidatorsData[v]
  IN  /\ KeyCall
      /\ ensure_canonical_validator_coldkey(a, v)
      /\ rate <= Full /\ rate <= MaxDelegateStakePercentage
      /\ v \in live
      /\ block - data.last_delegate_reward_rate_update >= NodeRewardRateUpdatePeriod
      /\ rate # data.delegate_reward_rate
      /\ data.delegate_reward_rate - rate <= MaxRewardRateDecrease
      /\ ValidatorsData' = [ValidatorsData EXCEPT ![v].delegate_reward_rate = rate,
                                                  ![v].last_delegate_reward_rate_update = block]
      /\ OnlyData

(* Either part may be left as it is, if there is one.                      *)
update_validator_delegate_account(a, v, account, rate) ==
  LET old == ValidatorsData[v].delegate_account
      new == [account |-> IF account # NoKey THEN account ELSE old.account,
              rate |-> IF rate # Keep THEN rate ELSE old.rate]
  IN  /\ KeyCall
      /\ ValidatorColdkey[v] = a
      /\ v \in live
      /\ account # NoKey \/ rate # Keep
      /\ account = NoKey \/ rate = Keep => old # NoDelegate
      /\ validate_validator_delegate_account(new, ValidatorsData[v].hotkey, a)
      /\ ValidatorsData' = [ValidatorsData EXCEPT ![v].delegate_account = new]
      /\ OnlyData

KeyCalls == \E a \in Accounts :
  \/ \E h \in Accounts, rate \in RegisterRates : register_validator(a, h, rate, NoDelegate)
  \/ \E h, d \in Accounts, rate \in RegisterRates, r \in DelegateRates :
       register_validator(a, h, rate, [account |-> d, rate |-> r])
  \/ \E v \in Validators :
       \/ \E k \in Accounts : update_validator_coldkey(a, v, k) \/ update_validator_hotkey(a, v, k)
       \/ \E r \in NewRates : update_validator_delegate_reward_rate(a, v, r)
       \/ \E d \in Accounts \cup {NoKey}, r \in DelegateRates \cup {Keep} :
            update_validator_delegate_account(a, v, d, r)
--------------------------------------------------------------------------------
(* The five maps describe one relation between validators, coldkeys and    *)
(* hotkeys: each agrees with the others and none has an entry of a         *)
(* validator that has moved on, in whatever order keys are replaced.  The  *)
(* calls that compare an account with one of them decide by it who owns    *)
(* the stake.                                                              *)
KeysAgree ==
  /\ \A a \in Accounts, v \in Validators :
       /\ ColdkeyValidatorId[a] = v <=> ValidatorColdkey[v] = a
       /\ HotkeyValidatorId[a] = v <=> ValidatorIdHotkey[v] = a
  /\ \A a \in Accounts :
       ValidatorColdkeyHotkey[a] =
         IF ColdkeyValidatorId[a] = 0 THEN NoKey ELSE ValidatorIdHotkey[ColdkeyValidatorId[a]]
  /\ \A v \in Validators : /\ ValidatorsData[v].hotkey = ValidatorIdHotkey[v]
                           /\ v \in live <=> ValidatorColdkey[v] # NoKey
================================================================================

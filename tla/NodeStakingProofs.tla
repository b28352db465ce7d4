--------------------------- MODULE NodeStakingProofs ----------------------------
(***************************************************************************)
(* Proofs about NodeStaking, for any number of accounts, validators,       *)
(* subnets, nodes and calls: the maps of the validators' keys agree, the   *)
(* stake of every node leads to the coldkey that may withdraw it, and      *)
(* every token is accounted for.                                           *)
(***************************************************************************)
EXTENDS NodeStaking, StakingProofs

USE DEF Balance
--------------------------------------------------------------------------------
(***************************************************************************)
(* Keys.                                                                   *)
(***************************************************************************)
Keys == Accounts \cup {NoKey}

KeyTypes ==
  /\ ColdkeyValidatorId \in [Accounts -> Validators \cup {0}]
  /\ HotkeyValidatorId \in [Accounts -> Validators \cup {0}]
  /\ ValidatorColdkey \in [Validators -> Keys] /\ ValidatorIdHotkey \in [Validators -> Keys]
  /\ ValidatorColdkeyHotkey \in [Accounts -> Keys]
  /\ DOMAIN ValidatorsData = Validators
  /\ \A v \in Validators : "hotkey" \in DOMAIN ValidatorsData[v]

(* KeysAgree is inductive once every validator has a hotkey.               *)
HaveHotkeys == \A v \in Validators : v \in live <=> ValidatorIdHotkey[v] # NoKey
KeyInv == KeyTypes /\ KeysAgree /\ HaveHotkeys

(* What leaves the keys alone and does not make or unmake a validator.     *)
LEMMA KeyFrame ==
  ASSUME KeyInv, UNCHANGED keyVars, \A v \in Validators : v \in live' <=> v \in live
  PROVE  KeyInv'
  BY DEF KeyInv, KeyTypes, KeysAgree, HaveHotkeys, keyVars

(* The facts that calls use: 0 and NoKey are nobody, and a key leads to    *)
(* one validator.                                                          *)
LEMMA KeyFacts ==
  ASSUME KeyInv
  PROVE  /\ 0 \notin Validators /\ NoKey \notin Accounts
         /\ \A a \in Accounts : ValidatorColdkeyHotkey[a] = NoKey <=> ColdkeyValidatorId[a] = 0
         /\ \A v \in Validators : v \notin live =>
              /\ ValidatorColdkey[v] = NoKey /\ ValidatorIdHotkey[v] = NoKey
              /\ \A a \in Accounts : ColdkeyValidatorId[a] # v /\ HotkeyValidatorId[a] # v
         /\ \A v \in Validators : v \in live =>
              ValidatorColdkey[v] \in Accounts /\ ValidatorIdHotkey[v] \in Accounts
<1>1. 0 \notin Validators /\ NoKey \notin Accounts
  BY KeysAssumption
<1>2. ASSUME NEW v \in Validators, v \in live
      PROVE  ValidatorColdkey[v] \in Accounts /\ ValidatorIdHotkey[v] \in Accounts
  BY <1>2 DEF KeyInv, KeyTypes, KeysAgree, HaveHotkeys, Keys
<1>3. ASSUME NEW v \in Validators, v \notin live
      PROVE  /\ ValidatorColdkey[v] = NoKey /\ ValidatorIdHotkey[v] = NoKey
             /\ \A a \in Accounts : ColdkeyValidatorId[a] # v /\ HotkeyValidatorId[a] # v
  BY <1>1, <1>3 DEF KeyInv, KeysAgree, HaveHotkeys
<1>4. ASSUME NEW a \in Accounts
      PROVE  ValidatorColdkeyHotkey[a] = NoKey <=> ColdkeyValidatorId[a] = 0
  <2>1. CASE ColdkeyValidatorId[a] = 0
    BY <2>1 DEF KeyInv, KeysAgree
  <2>2. CASE ColdkeyValidatorId[a] # 0
    <3>1. PICK v \in Validators : v = ColdkeyValidatorId[a]
      BY <2>2 DEF KeyInv, KeyTypes
    <3>2. v \in live /\ ValidatorColdkeyHotkey[a] = ValidatorIdHotkey[v]
      BY <1>3, <2>2, <3>1 DEF KeyInv, KeysAgree
    <3> QED BY <1>1, <1>2, <2>2, <3>2
  <2> QED BY <2>1, <2>2
<1> QED BY <1>1, <1>2, <1>3, <1>4

(* A new validator takes keys that are free.                               *)
LEMMA RegisterKeys ==
  ASSUME KeyInv, NEW a \in Accounts, NEW h \in Accounts, NEW rate, NEW delegate,
         register_validator(a, h, rate, delegate)
  PROVE  KeyInv'
<1>0. PICK v \in Validators : v = NextValidatorId
  BY DEF register_validator
<1> DEFINE d == [hotkey |-> h, delegate_reward_rate |-> rate,
                 last_delegate_reward_rate_update |-> 0, delegate_account |-> delegate]
<1>1. /\ v \notin live /\ live' = live \cup {v}
      /\ ValidatorColdkeyHotkey[a] = NoKey /\ HotkeyValidatorId[h] = 0
      /\ ValidatorIdHotkey' = [ValidatorIdHotkey EXCEPT ![v] = h]
      /\ ValidatorsData' = [ValidatorsData EXCEPT ![v] = d]
      /\ ColdkeyValidatorId' = [ColdkeyValidatorId EXCEPT ![a] = v]
      /\ ValidatorColdkey' = [ValidatorColdkey EXCEPT ![v] = a]
      /\ ValidatorColdkeyHotkey' = [ValidatorColdkeyHotkey EXCEPT ![a] = h]
      /\ HotkeyValidatorId' = [HotkeyValidatorId EXCEPT ![h] = v]
  BY <1>0 DEF register_validator, do_register_validator
<1>2. d.hotkey = h /\ "hotkey" \in DOMAIN d
  OBVIOUS
<1> HIDE DEF d
<1>3. /\ 0 \notin Validators /\ NoKey \notin Accounts /\ ColdkeyValidatorId[a] = 0
      /\ ValidatorColdkey[v] = NoKey /\ ValidatorIdHotkey[v] = NoKey
      /\ \A b \in Accounts : ColdkeyValidatorId[b] # v /\ HotkeyValidatorId[b] # v
  BY <1>1, KeyFacts
<1>4. KeyTypes'
  BY <1>1, <1>2 DEF KeyInv, KeyTypes, Keys
<1>5. ASSUME NEW b \in Accounts, NEW w \in Validators
      PROVE  /\ ColdkeyValidatorId'[b] = w <=> ValidatorColdkey'[w] = b
             /\ HotkeyValidatorId'[b] = w <=> ValidatorIdHotkey'[w] = b
  <2>1. /\ ColdkeyValidatorId[b] = w <=> ValidatorColdkey[w] = b
        /\ HotkeyValidatorId[b] = w <=> ValidatorIdHotkey[w] = b
    BY DEF KeyInv, KeysAgree
  <2>2. /\ ColdkeyValidatorId'[b] = IF b = a THEN v ELSE ColdkeyValidatorId[b]
        /\ HotkeyValidatorId'[b] = IF b = h THEN v ELSE HotkeyValidatorId[b]
        /\ ValidatorColdkey'[w] = IF w = v THEN a ELSE ValidatorColdkey[w]
        /\ ValidatorIdHotkey'[w] = IF w = v THEN h ELSE ValidatorIdHotkey[w]
    BY <1>1 DEF KeyInv, KeyTypes
  <2> QED BY <1>1, <1>3, <2>1, <2>2
<1>6. ASSUME NEW b \in Accounts
      PROVE  ValidatorColdkeyHotkey'[b] =
               IF ColdkeyValidatorId'[b] = 0 THEN NoKey
               ELSE ValidatorIdHotkey'[ColdkeyValidatorId'[b]]
  <2>1. ValidatorColdkeyHotkey[b] =
          IF ColdkeyValidatorId[b] = 0 THEN NoKey ELSE ValidatorIdHotkey[ColdkeyValidatorId[b]]
    BY DEF KeyInv, KeysAgree
  <2>2. CASE b = a
    BY <1>1, <1>3, <2>2 DEF KeyInv, KeyTypes
  <2>3. CASE b # a
    <3>1. /\ ColdkeyValidatorId'[b] = ColdkeyValidatorId[b] /\ ColdkeyValidatorId[b] # v
          /\ ValidatorColdkeyHotkey'[b] = ValidatorColdkeyHotkey[b]
          /\ ColdkeyValidatorId[b] \in Validators \cup {0}
          /\ \A w \in Validators : w # v => ValidatorIdHotkey'[w] = ValidatorIdHotkey[w]
      BY <1>1, <1>3, <2>3 DEF KeyInv, KeyTypes
    <3> QED BY <2>1, <3>1
  <2> QED BY <2>2, <2>3
<1>7. \A w \in Validators :
        /\ ValidatorsData'[w].hotkey = ValidatorIdHotkey'[w]
        /\ w \in live' <=> ValidatorColdkey'[w] # NoKey
        /\ w \in live' <=> ValidatorIdHotkey'[w] # NoKey
  BY <1>1, <1>2, <1>3 DEF KeyInv, KeyTypes, KeysAgree, HaveHotkeys
<1> QED BY <1>4, <1>5, <1>6, <1>7 DEF KeyInv, KeysAgree, HaveHotkeys

(* The coldkey changes in three maps.                                      *)
LEMMA ColdkeyKeys ==
  ASSUME KeyInv, NEW a \in Accounts, NEW v \in Validators, NEW new \in Accounts,
         update_validator_coldkey(a, v, new)
  PROVE  KeyInv'
<1>1. /\ ColdkeyValidatorId[a] = v /\ ValidatorColdkey[v] = a /\ new # a
      /\ ColdkeyValidatorId[new] = 0 /\ live' = live
      /\ ColdkeyValidatorId' = [ColdkeyValidatorId EXCEPT ![a] = 0, ![new] = v]
      /\ ValidatorColdkey' = [ValidatorColdkey EXCEPT ![v] = new]
      /\ ValidatorColdkeyHotkey' =
           [ValidatorColdkeyHotkey EXCEPT ![a] = NoKey, ![new] = ValidatorIdHotkey[v]]
      /\ UNCHANGED <<HotkeyValidatorId, ValidatorIdHotkey, ValidatorsData>>
  BY DEF update_validator_coldkey, KeyCall, ensure_canonical_validator_coldkey, Unused
<1>2. 0 \notin Validators /\ NoKey \notin Accounts /\ v \in live
  BY <1>1, KeyFacts
<1>3. KeyTypes'
  <2>1. ColdkeyValidatorId' \in [Accounts -> Validators \cup {0}]
    BY <1>1 DEF KeyInv, KeyTypes
  <2>2. ValidatorColdkeyHotkey' \in [Accounts -> Keys] /\ ValidatorColdkey' \in [Validators -> Keys]
    BY <1>1 DEF KeyInv, KeyTypes, Keys
  <2> QED BY <1>1, <2>1, <2>2 DEF KeyInv, KeyTypes
<1>4. /\ \A b \in Accounts :
           /\ ColdkeyValidatorId'[b] = IF b = new THEN v ELSE IF b = a THEN 0
                                       ELSE ColdkeyValidatorId[b]
           /\ ValidatorColdkeyHotkey'[b] =
                IF b = new THEN ValidatorIdHotkey[v] ELSE IF b = a THEN NoKey
                ELSE ValidatorColdkeyHotkey[b]
      /\ \A w \in Validators :
           ValidatorColdkey'[w] = IF w = v THEN new ELSE ValidatorColdkey[w]
  BY <1>1 DEF KeyInv, KeyTypes
<1>5. ASSUME NEW b \in Accounts, NEW w \in Validators
      PROVE  ColdkeyValidatorId'[b] = w <=> ValidatorColdkey'[w] = b
  <2>1. /\ ColdkeyValidatorId[b] = w <=> ValidatorColdkey[w] = b
        /\ ColdkeyValidatorId[a] = w <=> ValidatorColdkey[w] = a
        /\ ColdkeyValidatorId[new] = w <=> ValidatorColdkey[w] = new
    BY DEF KeyInv, KeysAgree
  <2>2. /\ ColdkeyValidatorId'[b] = IF b = new THEN v ELSE IF b = a THEN 0
                                    ELSE ColdkeyValidatorId[b]
        /\ ValidatorColdkey'[w] = IF w = v THEN new ELSE ValidatorColdkey[w]
    BY <1>4
  <2>3. w # 0 /\ ColdkeyValidatorId[a] = v /\ ColdkeyValidatorId[new] = 0 /\ new # a
    BY <1>1, <1>2
  <2>4. CASE b = new
    BY <2>1, <2>2, <2>3, <2>4
  <2>5. CASE b = a
    BY <2>1, <2>2, <2>3, <2>5
  <2>6. CASE b # a /\ b # new
    <3>1. ColdkeyValidatorId[b] # v
      BY <1>1, <2>6 DEF KeyInv, KeysAgree
    <3> QED BY <2>1, <2>2, <2>3, <2>6, <3>1
  <2> QED BY <2>4, <2>5, <2>6
<1>6. ASSUME NEW b \in Accounts
      PROVE  ValidatorColdkeyHotkey'[b] =
               IF ColdkeyValidatorId'[b] = 0 THEN NoKey
               ELSE ValidatorIdHotkey[ColdkeyValidatorId'[b]]
  <2>1. ValidatorColdkeyHotkey[b] =
          IF ColdkeyValidatorId[b] = 0 THEN NoKey ELSE ValidatorIdHotkey[ColdkeyValidatorId[b]]
    BY DEF KeyInv, KeysAgree
  <2>2. /\ ColdkeyValidatorId'[b] = IF b = new THEN v ELSE IF b = a THEN 0
                                    ELSE ColdkeyValidatorId[b]
        /\ ValidatorColdkeyHotkey'[b] =
             IF b = new THEN ValidatorIdHotkey[v] ELSE IF b = a THEN NoKey
             ELSE ValidatorColdkeyHotkey[b]
    BY <1>4
  <2>3. v # 0
    BY <1>2
  <2> QED BY <2>1, <2>2, <2>3
<1>7. ASSUME NEW w \in Validators
      PROVE  w \in live <=> ValidatorColdkey'[w] # NoKey
  <2>1. w \in live <=> ValidatorColdkey[w] # NoKey
    BY DEF KeyInv, KeysAgree
  <2>2. ValidatorColdkey'[w] = IF w = v THEN new ELSE ValidatorColdkey[w]
    BY <1>4
  <2> QED BY <1>2, <2>1, <2>2
<1>8. KeysAgree'
  <2>1. ASSUME NEW b \in Accounts, NEW w \in Validators
        PROVE  HotkeyValidatorId'[b] = w <=> ValidatorIdHotkey'[w] = b
    BY <1>1 DEF KeyInv, KeysAgree
  <2>2. ASSUME NEW b \in Accounts
        PROVE  ValidatorColdkeyHotkey'[b] =
                 IF ColdkeyValidatorId'[b] = 0 THEN NoKey
                 ELSE ValidatorIdHotkey'[ColdkeyValidatorId'[b]]
    <3>1. ValidatorIdHotkey' = ValidatorIdHotkey
      BY <1>1
    <3> QED BY <1>6, <3>1
  <2>3. ASSUME NEW w \in Validators
        PROVE  /\ ValidatorsData'[w].hotkey = ValidatorIdHotkey'[w]
               /\ w \in live' <=> ValidatorColdkey'[w] # NoKey
    BY <1>1, <1>7 DEF KeyInv, KeysAgree
  <2> QED BY <1>5, <2>1, <2>2, <2>3 DEF KeysAgree
<1>9. HaveHotkeys'
  BY <1>1 DEF KeyInv, HaveHotkeys
<1> QED BY <1>3, <1>8, <1>9 DEF KeyInv

(* The hotkey changes in four.                                             *)
LEMMA HotkeyKeys ==
  ASSUME KeyInv, NEW a \in Accounts, NEW v \in Validators, NEW new \in Accounts,
         update_validator_hotkey(a, v, new)
  PROVE  KeyInv'
<1>0. PICK h : h = ValidatorIdHotkey[v]
  OBVIOUS
<1>1. live' = live /\ ColdkeyValidatorId[a] = v /\ HotkeyValidatorId[h] = v /\ v \in live
  BY <1>0 DEF update_validator_hotkey, KeyCall, ensure_canonical_validator_coldkey,
     ensure_canonical_validator_hotkey
<1>2. CASE UNCHANGED keyVars
  BY <1>1, <1>2, KeyFrame
<1>3. CASE /\ new # h /\ Unused(new)
           /\ HotkeyValidatorId' = [HotkeyValidatorId EXCEPT ![h] = 0, ![new] = v]
           /\ ValidatorIdHotkey' = [ValidatorIdHotkey EXCEPT ![v] = new]
           /\ ValidatorColdkeyHotkey' = [ValidatorColdkeyHotkey EXCEPT ![a] = new]
           /\ ValidatorsData' = [ValidatorsData EXCEPT ![v].hotkey = new]
           /\ UNCHANGED <<ColdkeyValidatorId, ValidatorColdkey>>
  <2>1. 0 \notin Validators /\ NoKey \notin Accounts /\ h \in Accounts
    BY <1>0, <1>1, KeyFacts
  <2>2. /\ \A b \in Accounts :
             /\ HotkeyValidatorId'[b] = IF b = new THEN v ELSE IF b = h THEN 0
                                        ELSE HotkeyValidatorId[b]
             /\ ValidatorColdkeyHotkey'[b] = IF b = a THEN new ELSE ValidatorColdkeyHotkey[b]
        /\ \A w \in Validators :
             ValidatorIdHotkey'[w] = IF w = v THEN new ELSE ValidatorIdHotkey[w]
    BY <1>3 DEF KeyInv, KeyTypes
  <2>3. /\ DOMAIN ValidatorsData' = Validators
        /\ \A w \in Validators : /\ "hotkey" \in DOMAIN ValidatorsData'[w]
                                 /\ ValidatorsData'[w].hotkey =
                                      IF w = v THEN new ELSE ValidatorsData[w].hotkey
    BY <1>3 DEF KeyInv, KeyTypes
  <2>4. KeyTypes'
    <3>1. HotkeyValidatorId' \in [Accounts -> Validators \cup {0}]
      BY <1>3 DEF KeyInv, KeyTypes
    <3>2. ValidatorIdHotkey' \in [Validators -> Keys] /\ ValidatorColdkeyHotkey' \in [Accounts -> Keys]
      BY <1>3 DEF KeyInv, KeyTypes, Keys
    <3> QED BY <1>3, <2>3, <3>1, <3>2 DEF KeyInv, KeyTypes
  <2>5. ASSUME NEW b \in Accounts, NEW w \in Validators
        PROVE  HotkeyValidatorId'[b] = w <=> ValidatorIdHotkey'[w] = b
    <3>1. /\ HotkeyValidatorId[b] = w <=> ValidatorIdHotkey[w] = b
          /\ HotkeyValidatorId[h] = w <=> ValidatorIdHotkey[w] = h
          /\ HotkeyValidatorId[new] = w <=> ValidatorIdHotkey[w] = new
          /\ HotkeyValidatorId[new] = 0
      BY <1>3, <2>1 DEF KeyInv, KeysAgree, Unused
    <3>2. /\ HotkeyValidatorId'[b] = IF b = new THEN v ELSE IF b = h THEN 0
                                     ELSE HotkeyValidatorId[b]
          /\ ValidatorIdHotkey'[w] = IF w = v THEN new ELSE ValidatorIdHotkey[w]
      BY <2>2
    <3>3. w # 0 /\ HotkeyValidatorId[h] = v /\ new # h
      BY <1>1, <1>3, <2>1
    <3>4. CASE b = new
      BY <3>1, <3>2, <3>3, <3>4
    <3>5. CASE b = h
      BY <3>1, <3>2, <3>3, <3>5
    <3>6. CASE b # h /\ b # new
      <4>1. HotkeyValidatorId[b] # v
        BY <1>0, <3>6 DEF KeyInv, KeysAgree
      <4> QED BY <3>1, <3>2, <3>3, <3>6, <4>1
    <3> QED BY <3>4, <3>5, <3>6
  <2>6. ASSUME NEW b \in Accounts
        PROVE  ValidatorColdkeyHotkey'[b] =
                 IF ColdkeyValidatorId[b] = 0 THEN NoKey
                 ELSE ValidatorIdHotkey'[ColdkeyValidatorId[b]]
    <3>1. ValidatorColdkeyHotkey[b] =
            IF ColdkeyValidatorId[b] = 0 THEN NoKey ELSE ValidatorIdHotkey[ColdkeyValidatorId[b]]
      BY DEF KeyInv, KeysAgree
    <3>2. ColdkeyValidatorId[b] \in Validators \cup {0}
      BY DEF KeyInv, KeyTypes
    <3>3. ColdkeyValidatorId[b] = v => b = a
      BY <1>1 DEF KeyInv, KeysAgree
    <3> QED BY <1>1, <2>1, <2>2, <3>1, <3>2, <3>3
  <2>7. ASSUME NEW w \in Validators
        PROVE  /\ ValidatorsData'[w].hotkey = ValidatorIdHotkey'[w]
               /\ w \in live <=> ValidatorIdHotkey'[w] # NoKey
    <3>1. /\ ValidatorsData[w].hotkey = ValidatorIdHotkey[w]
          /\ w \in live <=> ValidatorIdHotkey[w] # NoKey
      BY DEF KeyInv, KeysAgree, HaveHotkeys
    <3>2. /\ ValidatorIdHotkey'[w] = IF w = v THEN new ELSE ValidatorIdHotkey[w]
          /\ ValidatorsData'[w].hotkey = IF w = v THEN new ELSE ValidatorsData[w].hotkey
      BY <2>2, <2>3
    <3> QED BY <1>1, <2>1, <3>1, <3>2
  <2>8. KeysAgree'
    <3>1. ASSUME NEW b \in Accounts, NEW w \in Validators
          PROVE  ColdkeyValidatorId'[b] = w <=> ValidatorColdkey'[w] = b
      BY <1>3 DEF KeyInv, KeysAgree
    <3>2. ASSUME NEW b \in Accounts
          PROVE  ValidatorColdkeyHotkey'[b] =
                   IF ColdkeyValidatorId'[b] = 0 THEN NoKey
                   ELSE ValidatorIdHotkey'[ColdkeyValidatorId'[b]]
      BY <1>3, <2>6
    <3>3. ASSUME NEW w \in Validators
          PROVE  /\ ValidatorsData'[w].hotkey = ValidatorIdHotkey'[w]
                 /\ w \in live' <=> ValidatorColdkey'[w] # NoKey
      BY <1>1, <1>3, <2>7 DEF KeyInv, KeysAgree
    <3> QED BY <2>5, <3>1, <3>2, <3>3 DEF KeysAgree
  <2>9. HaveHotkeys'
    BY <1>1, <2>7 DEF HaveHotkeys
  <2> QED BY <2>4, <2>8, <2>9 DEF KeyInv
<1> QED BY <1>0, <1>2, <1>3 DEF update_validator_hotkey

(* Rates and delegate accounts are beside the keys.                        *)
LEMMA DataKeys ==
  ASSUME KeyInv, NEW v \in Validators, OnlyData, live' = live,
         DOMAIN ValidatorsData' = DOMAIN ValidatorsData,
         \A w \in Validators : /\ "hotkey" \in DOMAIN ValidatorsData'[w]
                               /\ ValidatorsData'[w].hotkey = ValidatorsData[w].hotkey
  PROVE  KeyInv'
  BY DEF KeyInv, KeyTypes, KeysAgree, HaveHotkeys, OnlyData

(* A call of a validator, through the pallet or its precompile.            *)
LEMMA CallKeys ==
  ASSUME KeyInv, KeyCalls \/ \E a \in Accounts : EvmKeyCalls1(a) \/ EvmKeyCalls2(a)
  PROVE  KeyInv'
<1>1. ASSUME NEW a \in Accounts, NEW v \in Validators, NEW r,
             update_validator_delegate_reward_rate(a, v, r)
      PROVE  KeyInv'
  BY <1>1, DataKeys DEF update_validator_delegate_reward_rate, KeyCall, KeyInv, KeyTypes
<1>2. ASSUME NEW a \in Accounts, NEW v \in Validators, NEW d, NEW r,
             update_validator_delegate_account(a, v, d, r)
      PROVE  KeyInv'
  BY <1>2, DataKeys DEF update_validator_delegate_account, KeyCall, KeyInv, KeyTypes
<1> QED BY <1>1, <1>2, RegisterKeys, ColdkeyKeys, HotkeyKeys
       DEF KeyCalls, EvmKeyCalls1, EvmKeyCalls2

(* The validators of Init have their own keys.                             *)
LEMMA InitKeys == NodeInit => KeyInv
<1> SUFFICES ASSUME NodeInit PROVE KeyInv
  OBVIOUS
<1> USE KeysAssumption
<1>1. /\ live = LiveAtStart /\ 0 \notin Validators /\ NoKey \notin Accounts
      /\ ColdkeyValidatorId = [a \in Accounts |-> IdOf(FirstColdkey, a)]
      /\ HotkeyValidatorId = [a \in Accounts |-> IdOf(FirstHotkey, a)]
      /\ ValidatorColdkey = [v \in Validators |-> IF v \in First THEN FirstColdkey[v] ELSE NoKey]
      /\ ValidatorIdHotkey = [v \in Validators |-> IF v \in First THEN FirstHotkey[v] ELSE NoKey]
      /\ ValidatorColdkeyHotkey =
           [a \in Accounts |-> IF IdOf(FirstColdkey, a) = 0 THEN NoKey
                               ELSE FirstHotkey[IdOf(FirstColdkey, a)]]
      /\ DOMAIN ValidatorsData = Validators
  BY DEF NodeInit, Init, KeysInit
<1>2. /\ First \subseteq Validators
      /\ FirstColdkey \in [First -> Accounts] /\ FirstHotkey \in [First -> Accounts]
      /\ \A v, w \in First : FirstColdkey[v] = FirstColdkey[w] \/ FirstHotkey[v] = FirstHotkey[w]
                               => v = w
  BY DEF First
<1>3. ASSUME NEW key \in [First -> Accounts], \A v, w \in First : key[v] = key[w] => v = w,
             NEW a \in Accounts
      PROVE  /\ IdOf(key, a) \in First \cup {0}
             /\ \A v \in First : IdOf(key, a) = v <=> key[v] = a
  <2>1. CASE \E v \in First : key[v] = a
    <3>1. IdOf(key, a) \in First /\ key[IdOf(key, a)] = a
      BY <2>1 DEF IdOf
    <3> QED BY <1>3, <3>1
  <2>2. CASE ~\E v \in First : key[v] = a
    BY <1>1, <1>2, <2>2 DEF IdOf
  <2> QED BY <2>1, <2>2
<1>4. ASSUME NEW a \in Accounts
      PROVE  /\ IdOf(FirstColdkey, a) \in First \cup {0} /\ IdOf(FirstHotkey, a) \in First \cup {0}
             /\ \A v \in First : /\ IdOf(FirstColdkey, a) = v <=> FirstColdkey[v] = a
                                 /\ IdOf(FirstHotkey, a) = v <=> FirstHotkey[v] = a
  BY <1>2, <1>3
<1>5. \A v \in Validators : /\ "hotkey" \in DOMAIN ValidatorsData[v]
                            /\ ValidatorsData[v].hotkey = ValidatorIdHotkey[v]
  BY DEF NodeInit, KeysInit, NoData
<1>6. KeyTypes
  BY <1>1, <1>2, <1>4, <1>5 DEF KeyTypes, Keys
<1>7. \A v \in Validators : v \in live <=> v \in First
  BY <1>1 DEF First
<1>8. HaveHotkeys /\ \A v \in Validators : v \in live <=> ValidatorColdkey[v] # NoKey
  BY <1>1, <1>2, <1>7 DEF HaveHotkeys
<1>9. ASSUME NEW a \in Accounts, NEW v \in Validators
      PROVE  /\ ColdkeyValidatorId[a] = v <=> ValidatorColdkey[v] = a
             /\ HotkeyValidatorId[a] = v <=> ValidatorIdHotkey[v] = a
  BY <1>1, <1>2, <1>4
<1>10. ASSUME NEW a \in Accounts
       PROVE  ValidatorColdkeyHotkey[a] =
                IF ColdkeyValidatorId[a] = 0 THEN NoKey ELSE ValidatorIdHotkey[ColdkeyValidatorId[a]]
  BY <1>1, <1>2, <1>4
<1> QED BY <1>5, <1>6, <1>8, <1>9, <1>10 DEF KeyInv, KeysAgree

(***************************************************************************)
(* What the other actions do to the keys: nothing; and the only pools that *)
(* go are subnets.                                                         *)
(***************************************************************************)
SameValidators == \A v \in Validators : v \in live' <=> v \in live

(* The calls of delegate staking, and the hook, as NodeNext uses them.     *)
LEMMA DelegatesKeep ==
  ASSUME EvmCalls \/ Hooks
  PROVE  UNCHANGED <<keyVars, live, present, SubnetNodeValidatorId>>
<1>1. ASSUME NEW a \in Accounts, EvmStakingCalls1(a)
      PROVE  UNCHANGED <<keyVars, live, present, SubnetNodeValidatorId>>
  BY <1>1 DEF EvmStakingCalls1, OnlyDelegates, nodeVars, add_node_stake, remove_node_stake,
     claim_unbondings, add_delegate_stake
<1>2. ASSUME NEW a \in Accounts, EvmStakingCalls2(a)
      PROVE  UNCHANGED <<keyVars, live, present, SubnetNodeValidatorId>>
  BY <1>2 DEF EvmStakingCalls2, OnlyDelegates, nodeVars, swap_from_subnet_to_subnet, do_swap,
     transfer_delegate_stake, remove_delegate_stake, donate_delegate_stake, donate
<1>3. ASSUME NEW a \in Accounts, EvmStakingCalls3(a)
      PROVE  UNCHANGED <<keyVars, live, present, SubnetNodeValidatorId>>
  BY <1>3 DEF EvmStakingCalls3, OnlyDelegates, nodeVars, add_validator_delegate_stake,
     swap_from_validator_to_validator, do_swap, transfer_validator_delegate_stake,
     remove_validator_delegate_stake, donate_validator_delegate_stake, donate
<1>4. ASSUME NEW a \in Accounts, EvmStakingCalls4(a)
      PROVE  UNCHANGED <<keyVars, live, present, SubnetNodeValidatorId>>
  BY <1>4 DEF EvmStakingCalls4, OnlyDelegates, nodeVars, swap_from_validator_to_subnet,
     swap_from_subnet_to_validator, do_swap, update_swap_queue, remove_delegate_account_balance
<1>5. ASSUME Hooks
      PROVE  UNCHANGED <<keyVars, live, present, SubnetNodeValidatorId>>
  BY <1>5 DEF Hooks, EmissionBlock, OnlyDelegates, nodeVars, Hook, NewBlock,
     NewBlockWhilePaused, ExecuteSwap, HookDone
<1> QED BY <1>1, <1>2, <1>3, <1>4, <1>5 DEF EvmCalls

(* The operations on stake leave the keys of validators alone.             *)
LEMMA OthersKeepKeys ==
  ASSUME NodeCalls \/ Removals \/ EvmCalls \/ Hooks
  PROVE  UNCHANGED keyVars /\ SameValidators
<1>1. CASE NodeCalls
  BY <1>1 DEF NodeCalls, register_subnet_node, add_node_stake, remove_node_stake,
     remove_delegate_account_balance, SameValidators
<1>2. CASE Removals
  <2>1. PICK s \in Subnets : remove_subnet(s) \/ \E n \in NodeIds : perform_remove_subnet_node(s, n)
    BY <1>2 DEF Removals
  <2>2. s \notin Validators
    BY StakingAssumption
  <2> QED BY <2>1, <2>2 DEF remove_subnet, do_remove_subnet, perform_remove_subnet_node,
          SameValidators
<1>3. CASE EvmCalls \/ Hooks
  BY <1>3, DelegatesKeep DEF SameValidators
<1> QED BY <1>1, <1>2, <1>3

(* Every step keeps the keys in agreement.                                 *)
LEMMA StepKeys == KeyInv /\ [NodeNext]_allVars => KeyInv'
<1> SUFFICES ASSUME KeyInv, [NodeNext]_allVars PROVE KeyInv'
  OBVIOUS
<1>1. CASE NodeCalls \/ Removals \/ EvmCalls \/ Hooks
  BY <1>1, OthersKeepKeys, KeyFrame DEF SameValidators
<1>2. CASE KeyCalls \/ \E a \in Accounts : EvmKeyCalls1(a) \/ EvmKeyCalls2(a)
  BY <1>2, CallKeys
<1>3. CASE UNCHANGED allVars
  BY <1>3, KeyFrame DEF allVars, vars
<1> QED BY <1>1, <1>2, <1>3 DEF NodeNext

(***************************************************************************)
(* The five maps of the keys agree in every reachable state, whoever       *)
(* replaces which key and in which order, through the pallet's calls or    *)
(* the precompile (utilities/validator.rs).                                *)
(***************************************************************************)
THEOREM KeysAlwaysAgree == NodeSpec => []KeysAgree
<1>1. KeyInv => KeysAgree
  BY DEF KeyInv
<1> QED BY <1>1, InitKeys, StepKeys, PTL DEF NodeSpec
--------------------------------------------------------------------------------
(***************************************************************************)
(* Nodes.                                                                  *)
(***************************************************************************)
NodeTypes ==
  /\ NodeSubnetStake \in [Subnets -> [NodeIds -> Balance]]
  /\ SubnetNodeValidatorId \in [Subnets -> [NodeIds -> Validators \cup {0}]]
  /\ present \in [Subnets -> SUBSET NodeIds]
  /\ ValidatorSubnetNodes \in [Validators -> [Subnets -> SUBSET NodeIds]]

(* A node has a validator that exists, or there never was such a node.     *)
Owned == \A s \in Subnets : \A n \in NodeIds :
  IF SubnetNodeValidatorId[s][n] = 0
  THEN NodeSubnetStake[s][n] = 0 /\ n \notin present[s]
  ELSE SubnetNodeValidatorId[s][n] \in live

(* Ids are given in turn, so the next one is new.                          *)
Upto(s, k) == \A n \in NodeIds : SubnetNodeValidatorId[s][n] # 0 <=> n <= k
InTurn == \A s \in Subnets : \E k \in 0 .. MaxNodes : Upto(s, k)

Listed == \A v \in Validators : \A s \in Subnets : s \in live =>
  ValidatorSubnetNodes[v][s] = {n \in present[s] : SubnetNodeValidatorId[s][n] = v}

NodeInv == NodeTypes /\ Owned /\ InTurn /\ Listed

(* Saturation keeps amounts in u128.                                       *)
LEMMA SatAddBalance == \A x, y : SatAdd(x, y) \in Balance
  BY MaxBalanceAssumption DEF SatAdd

(* What is left of a balance is a balance.                                 *)
LEMMA SatSubBalance == \A x, y : SatSub(x, y) \in Balance
  BY MaxBalanceAssumption DEF SatSub

(* The count of the nodes there have been is the last id.                  *)
LEMMA CountUpto ==
  ASSUME NEW s \in Subnets, NEW k \in 0 .. MaxNodes, Upto(s, k)
  PROVE  NextNodeId(s) = k + 1
<1>1. MaxNodes \in Nat
  BY NodeAssumption
<1>2. {n \in NodeIds : SubnetNodeValidatorId[s][n] # 0} = 1 .. k
  BY <1>1 DEF Upto, NodeIds
<1>3. Cardinality(1 .. k) = k
  <2>1. Cardinality(1 .. k) = IF 1 > k THEN 0 ELSE k - 1 + 1
    BY <1>1, FS_Interval
  <2> QED BY <1>1, <2>1
<1> QED BY <1>2, <1>3 DEF NextNodeId

(* Stake moves on a node that has a validator; entries of validators for   *)
(* subnets that are gone may go; a subnet may go with its nodes.           *)
LEMMA StakeFrame ==
  ASSUME NodeInv, SameValidators, \A s \in Subnets : s \in live' => s \in live,
         NodeSubnetStake' \in [Subnets -> [NodeIds -> Balance]],
         \A s \in Subnets : \A n \in NodeIds :
           SubnetNodeValidatorId[s][n] = 0 => NodeSubnetStake'[s][n] = NodeSubnetStake[s][n],
         UNCHANGED SubnetNodeValidatorId,
         present' \in [Subnets -> SUBSET NodeIds],
         \A s \in Subnets : /\ present'[s] \subseteq present[s]
                            /\ s \in live' => present'[s] = present[s],
         ValidatorSubnetNodes' \in [Validators -> [Subnets -> SUBSET NodeIds]],
         \A v \in Validators : \A s \in Subnets : s \in live' =>
           ValidatorSubnetNodes'[v][s] = ValidatorSubnetNodes[v][s]
  PROVE  NodeInv'
<1>1. NodeTypes'
  BY DEF NodeInv, NodeTypes
<1>2. Owned'
  <2> SUFFICES ASSUME NEW s \in Subnets, NEW n \in NodeIds
               PROVE  IF SubnetNodeValidatorId[s][n] = 0
                      THEN NodeSubnetStake'[s][n] = 0 /\ n \notin present'[s]
                      ELSE SubnetNodeValidatorId[s][n] \in live'
    BY DEF Owned
  <2>1. IF SubnetNodeValidatorId[s][n] = 0
        THEN NodeSubnetStake[s][n] = 0 /\ n \notin present[s]
        ELSE SubnetNodeValidatorId[s][n] \in live
    BY DEF NodeInv, Owned
  <2>2. SubnetNodeValidatorId[s][n] \in Validators \cup {0}
    BY DEF NodeInv, NodeTypes
  <2> QED BY <2>1, <2>2 DEF SameValidators
<1>3. InTurn'
  BY DEF NodeInv, InTurn, Upto
<1>4. Listed'
  <2> SUFFICES ASSUME NEW v \in Validators, NEW s \in Subnets, s \in live'
               PROVE  ValidatorSubnetNodes'[v][s] =
                        {n \in present'[s] : SubnetNodeValidatorId[s][n] = v}
    BY DEF Listed
  <2>1. ValidatorSubnetNodes[v][s] = {n \in present[s] : SubnetNodeValidatorId[s][n] = v}
    BY DEF NodeInv, Listed
  <2> QED BY <2>1
<1> QED BY <1>1, <1>2, <1>3, <1>4 DEF NodeInv

(* The stake of one node with a validator becomes x.                       *)
LEMMA StakeMoves ==
  ASSUME NodeInv, NEW s \in Subnets, NEW n \in NodeIds, SubnetNodeValidatorId[s][n] # 0,
         NEW x \in Balance, NodeSubnetStake' = [NodeSubnetStake EXCEPT ![s][n] = x],
         UNCHANGED <<SubnetNodeValidatorId, present, live>>,
         ValidatorSubnetNodes' \in [Validators -> [Subnets -> SUBSET NodeIds]],
         \A v \in Validators : \A t \in Subnets : t \in live =>
           ValidatorSubnetNodes'[v][t] = ValidatorSubnetNodes[v][t]
  PROVE  NodeInv'
<1>1. NodeSubnetStake' \in [Subnets -> [NodeIds -> Balance]]
  BY DEF NodeInv, NodeTypes
<1>2. ASSUME NEW t \in Subnets, NEW m \in NodeIds, SubnetNodeValidatorId[t][m] = 0
      PROVE  NodeSubnetStake'[t][m] = NodeSubnetStake[t][m]
  BY <1>2 DEF NodeInv, NodeTypes
<1>3. present \in [Subnets -> SUBSET NodeIds]
  BY DEF NodeInv, NodeTypes
<1> QED BY <1>1, <1>2, <1>3, StakeFrame DEF SameValidators

(* Only what is beside the nodes changes.                                  *)
LEMMA NodeFrame ==
  ASSUME NodeInv, UNCHANGED <<NodeSubnetStake, SubnetNodeValidatorId, present,
                              ValidatorSubnetNodes>>,
         SameValidators \/ live \subseteq live', \A s \in Subnets : s \in live' => s \in live
  PROVE  NodeInv'
<1>1. NodeTypes' /\ InTurn' /\ Listed'
  BY DEF NodeInv, NodeTypes, InTurn, Upto, Listed
<1>2. Owned'
  <2> SUFFICES ASSUME NEW s \in Subnets, NEW n \in NodeIds
               PROVE  IF SubnetNodeValidatorId[s][n] = 0
                      THEN NodeSubnetStake[s][n] = 0 /\ n \notin present[s]
                      ELSE SubnetNodeValidatorId[s][n] \in live'
    BY DEF Owned
  <2>1. IF SubnetNodeValidatorId[s][n] = 0
        THEN NodeSubnetStake[s][n] = 0 /\ n \notin present[s]
        ELSE SubnetNodeValidatorId[s][n] \in live
    BY DEF NodeInv, Owned
  <2>2. SubnetNodeValidatorId[s][n] \in Validators \cup {0}
    BY DEF NodeInv, NodeTypes
  <2> QED BY <2>1, <2>2 DEF SameValidators
<1> QED BY <1>1, <1>2 DEF NodeInv

(* A new node has the next id, its validator and the first stake.          *)
LEMMA RegisterNodes ==
  ASSUME KeyInv, NodeInv, NEW a \in Accounts, NEW v \in Validators, NEW s \in Subnets, NEW x,
         register_subnet_node(a, v, s, x)
  PROVE  NodeInv'
<1>1. PICK k \in 0 .. MaxNodes : Upto(s, k)
  BY DEF NodeInv, InTurn
<1>2. PICK n \in NodeIds : n = k + 1 /\ n = NextNodeId(s)
  BY <1>1, CountUpto DEF register_subnet_node
<1>3. SubnetNodeValidatorId[s][n] = 0 /\ n \notin present[s]
  <2>1. SubnetNodeValidatorId[s][n] = 0
    BY <1>1, <1>2, NodeAssumption DEF Upto
  <2> QED BY <2>1 DEF NodeInv, Owned
<1>4. PICK y \in Balance : y = SatAdd(NodeSubnetStake[s][n], x)
  BY SatAddBalance
<1>5. /\ ValidatorColdkey[v] = a /\ s \in live /\ live' = live
      /\ SubnetNodeValidatorId' = [SubnetNodeValidatorId EXCEPT ![s][n] = v]
      /\ present' = [present EXCEPT ![s] = @ \cup {n}]
      /\ ValidatorSubnetNodes' = [ValidatorSubnetNodes EXCEPT ![v][s] = @ \cup {n}]
  BY <1>2 DEF register_subnet_node, ensure_canonical_validator_coldkey
<1>6. NodeSubnetStake' = [NodeSubnetStake EXCEPT ![s][n] = y]
  BY <1>2, <1>4 DEF register_subnet_node, increase_node_stake
<1>7. v \in live /\ v # 0
  <2>1. a # NoKey /\ v # 0
    BY KeysAssumption
  <2> QED BY <1>5, <2>1 DEF KeyInv, KeysAgree
<1>8. ASSUME NEW t \in Subnets, NEW m \in NodeIds
      PROVE  /\ SubnetNodeValidatorId'[t][m] =
                  IF t = s /\ m = n THEN v ELSE SubnetNodeValidatorId[t][m]
             /\ NodeSubnetStake'[t][m] = IF t = s /\ m = n THEN y ELSE NodeSubnetStake[t][m]
             /\ m \in present'[t] <=> m \in present[t] \/ (t = s /\ m = n)
  BY <1>5, <1>6 DEF NodeInv, NodeTypes
<1>9. NodeTypes'
  <2>1. NodeSubnetStake' \in [Subnets -> [NodeIds -> Balance]]
    BY <1>6 DEF NodeInv, NodeTypes
  <2>2. SubnetNodeValidatorId' \in [Subnets -> [NodeIds -> Validators \cup {0}]]
    BY <1>5 DEF NodeInv, NodeTypes
  <2>3. present' \in [Subnets -> SUBSET NodeIds]
    BY <1>5 DEF NodeInv, NodeTypes
  <2>4. ValidatorSubnetNodes' \in [Validators -> [Subnets -> SUBSET NodeIds]]
    BY <1>5 DEF NodeInv, NodeTypes
  <2> QED BY <2>1, <2>2, <2>3, <2>4 DEF NodeTypes
<1>10. Owned'
  <2> SUFFICES ASSUME NEW t \in Subnets, NEW m \in NodeIds
               PROVE  IF SubnetNodeValidatorId'[t][m] = 0
                      THEN NodeSubnetStake'[t][m] = 0 /\ m \notin present'[t]
                      ELSE SubnetNodeValidatorId'[t][m] \in live'
    BY DEF Owned
  <2>1. IF SubnetNodeValidatorId[t][m] = 0
        THEN NodeSubnetStake[t][m] = 0 /\ m \notin present[t]
        ELSE SubnetNodeValidatorId[t][m] \in live
    BY DEF NodeInv, Owned
  <2>2. CASE t = s /\ m = n
    BY <1>5, <1>7, <1>8, <2>2
  <2>3. CASE ~(t = s /\ m = n)
    BY <1>5, <1>8, <2>1, <2>3
  <2> QED BY <2>2, <2>3
<1>11. InTurn'
  <2> SUFFICES ASSUME NEW t \in Subnets PROVE \E j \in 0 .. MaxNodes : Upto(t, j)'
    BY DEF InTurn
  <2>1. CASE t = s
    <3>1. k + 1 \in 0 .. MaxNodes
      BY <1>2, NodeAssumption DEF NodeIds
    <3>2. \A m \in NodeIds : SubnetNodeValidatorId'[s][m] # 0 <=> m <= k + 1
      <4> SUFFICES ASSUME NEW m \in NodeIds
                   PROVE  SubnetNodeValidatorId'[s][m] # 0 <=> m <= k + 1
        OBVIOUS
      <4>1. SubnetNodeValidatorId[s][m] # 0 <=> m <= k
        BY <1>1 DEF Upto
      <4>2. CASE m = n
        BY <1>2, <1>7, <1>8, <4>2 DEF NodeIds
      <4>3. CASE m # n
        <5>1. m <= k + 1 <=> m <= k
          BY <1>2, <4>3, NodeAssumption DEF NodeIds
        <5> QED BY <1>8, <4>1, <4>3, <5>1
      <4> QED BY <4>2, <4>3
    <3> QED BY <2>1, <3>1, <3>2 DEF Upto
  <2>2. CASE t # s
    <3>1. PICK j \in 0 .. MaxNodes : Upto(t, j)
      BY DEF NodeInv, InTurn
    <3>2. Upto(t, j)'
      BY <1>8, <2>2, <3>1 DEF Upto
    <3> QED BY <3>2
  <2> QED BY <2>1, <2>2
<1>12. Listed'
  <2> SUFFICES ASSUME NEW w \in Validators, NEW t \in Subnets, t \in live
               PROVE  ValidatorSubnetNodes'[w][t] =
                        {m \in present'[t] : SubnetNodeValidatorId'[t][m] = w}
    BY <1>5 DEF Listed
  <2>1. ValidatorSubnetNodes[w][t] = {m \in present[t] : SubnetNodeValidatorId[t][m] = w}
    BY DEF NodeInv, Listed
  <2>2. ValidatorSubnetNodes'[w][t] =
          IF w = v /\ t = s THEN ValidatorSubnetNodes[w][t] \cup {n}
          ELSE ValidatorSubnetNodes[w][t]
    BY <1>5 DEF NodeInv, NodeTypes
  <2>3. present'[t] \subseteq NodeIds /\ present[t] \subseteq NodeIds
    BY <1>9 DEF NodeInv, NodeTypes
  <2>4. ASSUME NEW m
        PROVE  m \in ValidatorSubnetNodes'[w][t] <=>
                 m \in present'[t] /\ SubnetNodeValidatorId'[t][m] = w
    <3>1. CASE t = s /\ m = n
      <4>1. m \in present'[t] /\ SubnetNodeValidatorId'[t][m] = v
        BY <1>8, <3>1
      <4>2. m \notin ValidatorSubnetNodes[w][t]
        BY <1>3, <2>1, <3>1
      <4> QED BY <2>2, <3>1, <4>1, <4>2
    <3>2. CASE ~(t = s /\ m = n)
      <4>1. m \in ValidatorSubnetNodes'[w][t] <=> m \in ValidatorSubnetNodes[w][t]
        BY <2>2, <3>2
      <4>2. m \in present'[t] <=> m \in present[t]
        BY <1>8, <2>3, <3>2
      <4>3. m \in NodeIds => SubnetNodeValidatorId'[t][m] = SubnetNodeValidatorId[t][m]
        BY <1>8, <3>2
      <4> QED BY <2>1, <2>3, <4>1, <4>2, <4>3
    <3> QED BY <3>1, <3>2
  <2> QED BY <2>4
<1> QED BY <1>9, <1>10, <1>11, <1>12 DEF NodeInv

(* Stake is added to a node that has a coldkey.                            *)
LEMMA AddKeepsNodes ==
  ASSUME NodeInv, NEW a \in Accounts, NEW s \in Subnets, NEW n \in NodeIds, NEW x,
         add_node_stake(a, s, n, x)
  PROVE  NodeInv'
<1>1. PICK y \in Balance : y = SatAdd(NodeSubnetStake[s][n], x)
  BY SatAddBalance
<1>2. /\ SubnetNodeValidatorId[s][n] # 0
      /\ UNCHANGED <<SubnetNodeValidatorId, present, live, ValidatorSubnetNodes>>
      /\ NodeSubnetStake' = [NodeSubnetStake EXCEPT ![s][n] = y]
  BY <1>1 DEF add_node_stake, Owns, increase_node_stake
<1>3. ValidatorSubnetNodes \in [Validators -> [Subnets -> SUBSET NodeIds]]
  BY DEF NodeInv, NodeTypes
<1> QED BY <1>2, <1>3, StakeMoves

(* Stake is withdrawn; a validator whose last stake in a node that is gone *)
(* goes loses its entries for the subnets that are gone.                   *)
LEMMA RemoveKeepsNodes ==
  ASSUME NodeInv, NEW a \in Accounts, NEW s \in Subnets, NEW n \in NodeIds, NEW x,
         remove_node_stake(a, s, n, x)
  PROVE  NodeInv'
<1>1. PICK y \in Balance : y = SatSub(NodeSubnetStake[s][n], x)
  BY SatSubBalance
<1>2. PICK v : v = SubnetNodeValidatorId[s][n]
  OBVIOUS
<1>3. /\ v # 0 /\ UNCHANGED <<SubnetNodeValidatorId, present, live>>
      /\ NodeSubnetStake' = [NodeSubnetStake EXCEPT ![s][n] = y]
      /\ \/ ValidatorSubnetNodes' = clean_validator_subnet_nodes(v)
         \/ ValidatorSubnetNodes' = ValidatorSubnetNodes
  BY <1>1, <1>2 DEF remove_node_stake, Owns, decrease_node_stake
<1>4. v \in Validators
  BY <1>2, <1>3 DEF NodeInv, NodeTypes
<1>5. ValidatorSubnetNodes \in [Validators -> [Subnets -> SUBSET NodeIds]]
  BY DEF NodeInv, NodeTypes
<1>6. ValidatorSubnetNodes' \in [Validators -> [Subnets -> SUBSET NodeIds]]
  BY <1>3, <1>4, <1>5 DEF clean_validator_subnet_nodes
<1>7. \A w \in Validators : \A t \in Subnets : t \in live =>
        ValidatorSubnetNodes'[w][t] = ValidatorSubnetNodes[w][t]
  BY <1>3, <1>4, <1>5 DEF clean_validator_subnet_nodes
<1> QED BY <1>2, <1>3, <1>6, <1>7, StakeMoves

(* A node leaves the subnet and its validator's nodes.                     *)
LEMMA LeavingKeepsNodes ==
  ASSUME NodeInv, NEW s \in Subnets, NEW n \in NodeIds, perform_remove_subnet_node(s, n)
  PROVE  NodeInv'
<1>1. PICK v : v = SubnetNodeValidatorId[s][n]
  OBVIOUS
<1>2. /\ n \in present[s] /\ UNCHANGED <<SubnetNodeValidatorId, NodeSubnetStake, live>>
      /\ present' = [present EXCEPT ![s] = @ \ {n}]
      /\ ValidatorSubnetNodes' = [ValidatorSubnetNodes EXCEPT ![v][s] = @ \ {n}]
  BY <1>1 DEF perform_remove_subnet_node
<1>3. v \in Validators
  BY <1>1, <1>2 DEF NodeInv, Owned, NodeTypes
<1>4. NodeTypes'
  <2>1. present' \in [Subnets -> SUBSET NodeIds]
    BY <1>2 DEF NodeInv, NodeTypes
  <2>2. ValidatorSubnetNodes' \in [Validators -> [Subnets -> SUBSET NodeIds]]
    BY <1>2, <1>3 DEF NodeInv, NodeTypes
  <2> QED BY <1>2, <2>1, <2>2 DEF NodeInv, NodeTypes
<1>5. \A t \in Subnets : present'[t] = IF t = s THEN present[s] \ {n} ELSE present[t]
  BY <1>2 DEF NodeInv, NodeTypes
<1>6. Owned'
  BY <1>2, <1>5 DEF NodeInv, Owned
<1>7. InTurn'
  BY <1>2 DEF NodeInv, InTurn, Upto
<1>8. Listed'
  <2> SUFFICES ASSUME NEW w \in Validators, NEW t \in Subnets, t \in live
               PROVE  ValidatorSubnetNodes'[w][t] =
                        {m \in present'[t] : SubnetNodeValidatorId[t][m] = w}
    BY <1>2 DEF Listed
  <2>1. ValidatorSubnetNodes[w][t] = {m \in present[t] : SubnetNodeValidatorId[t][m] = w}
    BY DEF NodeInv, Listed
  <2>2. ValidatorSubnetNodes'[w][t] =
          IF w = v /\ t = s THEN ValidatorSubnetNodes[w][t] \ {n}
          ELSE ValidatorSubnetNodes[w][t]
    BY <1>2, <1>3 DEF NodeInv, NodeTypes
  <2> QED BY <1>1, <1>5, <2>1, <2>2
<1> QED BY <1>4, <1>6, <1>7, <1>8 DEF NodeInv

(* A subnet goes with its nodes; their stake and validators stay.          *)
LEMMA SubnetKeepsNodes ==
  ASSUME NodeInv, NEW s \in Subnets, remove_subnet(s)
  PROVE  NodeInv'
<1>1. /\ live' = live \ {s} /\ present' = [present EXCEPT ![s] = {}]
      /\ UNCHANGED <<NodeSubnetStake, SubnetNodeValidatorId, ValidatorSubnetNodes>>
  BY DEF remove_subnet, do_remove_subnet
<1>2. SameValidators /\ \A t \in Subnets : t \in live' => t \in live /\ t # s
  BY <1>1, StakingAssumption DEF SameValidators
<1>3. present' \in [Subnets -> SUBSET NodeIds]
  BY <1>1 DEF NodeInv, NodeTypes
<1>4. \A t \in Subnets : present'[t] = IF t = s THEN {} ELSE present[t]
  BY <1>1 DEF NodeInv, NodeTypes
<1>5. /\ NodeSubnetStake \in [Subnets -> [NodeIds -> Balance]]
      /\ ValidatorSubnetNodes \in [Validators -> [Subnets -> SUBSET NodeIds]]
  BY DEF NodeInv, NodeTypes
<1> QED BY <1>1, <1>2, <1>3, <1>4, <1>5, StakeFrame

(* A reward or a slash reaches a node that has or had a validator, also    *)
(* when it has left meanwhile.                                             *)
LEMMA EmissionKeepsNodes ==
  ASSUME NodeInv, EmissionBlock
  PROVE  NodeInv'
<1>1. PICK s \in Subnets, n \in NodeIds :
        /\ SubnetNodeValidatorId[s][n] # 0
        /\ \/ \E r \in NodeRewards : RewardNode(s, n, r) \/ handle_validator_reward(s, n, r)
           \/ \E d \in AttestationDeltas : slash_validator(s, n, d)
  BY DEF EmissionBlock
<1>2. UNCHANGED <<SubnetNodeValidatorId, present, live, ValidatorSubnetNodes>>
  BY DEF EmissionBlock
<1>3. \E x : increase_node_stake(s, n, x) \/ decrease_node_stake(s, n, x)
  BY <1>1 DEF RewardNode, handle_validator_reward, slash_validator
<1>4. PICK y \in Balance : NodeSubnetStake' = [NodeSubnetStake EXCEPT ![s][n] = y]
  BY <1>3, SatAddBalance, SatSubBalance DEF increase_node_stake, decrease_node_stake
<1>5. ValidatorSubnetNodes \in [Validators -> [Subnets -> SUBSET NodeIds]]
  BY DEF NodeInv, NodeTypes
<1> QED BY <1>1, <1>2, <1>4, <1>5, StakeMoves

(* A call of a validator may make one, and touches no subnet.              *)
LEMMA KeyCallsKeepNodes ==
  ASSUME NodeInv, UNCHANGED nodeVars,
         KeyCalls \/ \E a \in Accounts : EvmKeyCalls1(a) \/ EvmKeyCalls2(a)
  PROVE  NodeInv'
<1>1. ASSUME NEW a, NEW h, NEW rate, NEW delegate, register_validator(a, h, rate, delegate)
      PROVE  live \subseteq live' /\ \A s \in Subnets : s \in live' => s \in live
  <2>1. PICK v \in Validators : v = NextValidatorId
    BY <1>1 DEF register_validator
  <2>2. live' = live \cup {v}
    BY <1>1, <2>1 DEF register_validator, do_register_validator
  <2> QED BY <2>2, StakingAssumption
<1>2. live \subseteq live' /\ \A s \in Subnets : s \in live' => s \in live
  <2>1. ASSUME live' = live
        PROVE  live \subseteq live' /\ \A s \in Subnets : s \in live' => s \in live
    BY <2>1
  <2>2. KeyCall => live' = live
    BY DEF KeyCall
  <2>3. ASSUME NEW a, NEW v, NEW k, NEW r,
               \/ update_validator_coldkey(a, v, k) \/ update_validator_hotkey(a, v, k)
               \/ update_validator_delegate_reward_rate(a, v, r)
               \/ update_validator_delegate_account(a, v, k, r)
        PROVE  live' = live
    BY <2>2, <2>3 DEF update_validator_coldkey, update_validator_hotkey,
       update_validator_delegate_reward_rate, update_validator_delegate_account
  <2> QED BY <1>1, <2>1, <2>3 DEF KeyCalls, EvmKeyCalls1, EvmKeyCalls2
<1>3. UNCHANGED <<NodeSubnetStake, SubnetNodeValidatorId, present, ValidatorSubnetNodes>>
  BY DEF nodeVars
<1> QED BY <1>2, <1>3, NodeFrame

(* Calls of delegate staking and the hook, beside an emission, change the  *)
(* stake of nodes only through the precompile's two calls for it.          *)
LEMMA DelegatesKeepNodes ==
  ASSUME NodeInv, EvmCalls \/ (Hook /\ OnlyDelegates)
  PROVE  NodeInv'
<1>1. UNCHANGED live
  BY DelegatesKeep DEF Hooks
<1>2. ASSUME UNCHANGED <<NodeSubnetStake, SubnetNodeValidatorId, present, ValidatorSubnetNodes>>
      PROVE  NodeInv'
  BY <1>1, <1>2, NodeFrame
<1>3. CASE Hook /\ OnlyDelegates
  BY <1>2, <1>3 DEF OnlyDelegates, nodeVars
<1>4. ASSUME NEW a \in Accounts, EvmStakingCalls1(a)
      PROVE  NodeInv'
  BY <1>2, <1>4, AddKeepsNodes, RemoveKeepsNodes DEF EvmStakingCalls1, OnlyDelegates, nodeVars
<1>5. ASSUME NEW a \in Accounts, EvmStakingCalls2(a) \/ EvmStakingCalls3(a)
      PROVE  NodeInv'
  BY <1>2, <1>5 DEF EvmStakingCalls2, EvmStakingCalls3, OnlyDelegates, nodeVars
<1>6. ASSUME NEW a \in Accounts, EvmStakingCalls4(a)
      PROVE  NodeInv'
  BY <1>2, <1>6 DEF EvmStakingCalls4, OnlyDelegates, nodeVars, remove_delegate_account_balance
<1> QED BY <1>3, <1>4, <1>5, <1>6 DEF EvmCalls

(* Every step keeps the nodes owned and listed.                            *)
LEMMA StepNodes == KeyInv /\ NodeInv /\ [NodeNext]_allVars => NodeInv'
<1> SUFFICES ASSUME KeyInv, NodeInv, [NodeNext]_allVars PROVE NodeInv'
  OBVIOUS
<1>1. CASE NodeCalls
  <2>1. ASSUME NEW a \in Accounts, NEW x, remove_delegate_account_balance(a, x)
        PROVE  NodeInv'
    BY <2>1, NodeFrame DEF remove_delegate_account_balance, SameValidators
  <2> QED BY <1>1, <2>1, RegisterNodes, AddKeepsNodes, RemoveKeepsNodes DEF NodeCalls
<1>2. CASE Removals
  BY <1>2, SubnetKeepsNodes, LeavingKeepsNodes DEF Removals
<1>3. CASE EvmCalls \/ Hooks
  BY <1>3, DelegatesKeepNodes, EmissionKeepsNodes DEF Hooks
<1>4. CASE /\ KeyCalls \/ \E a \in Accounts : EvmKeyCalls1(a) \/ EvmKeyCalls2(a)
           /\ UNCHANGED nodeVars
  BY <1>4, KeyCallsKeepNodes
<1>5. CASE UNCHANGED allVars
  BY <1>5, NodeFrame DEF allVars, vars, nodeVars, SameValidators
<1> QED BY <1>1, <1>2, <1>3, <1>4, <1>5 DEF NodeNext

(* The network starts with its nodes owned and listed.                     *)
LEMMA InitNodes == NodeInit => NodeInv
<1> SUFFICES ASSUME NodeInit PROVE NodeInv
  OBVIOUS
<1>1. FirstOwner \in [Subnets -> First \cup {0}] /\ FirstStake \in Balance /\ MaxNodes \in Nat
  BY NodeAssumption
<1>2. /\ 0 \in Balance /\ First \subseteq Validators /\ First \subseteq live
      /\ 0 \notin Validators
  BY MaxBalanceAssumption, KeysAssumption DEF First, NodeInit, Init
<1>3. ASSUME NEW s \in Subnets, NEW n \in NodeIds
      PROVE  /\ NodeSubnetStake[s][n] = IF FirstNode(s, n) THEN FirstStake ELSE 0
             /\ SubnetNodeValidatorId[s][n] = IF FirstNode(s, n) THEN FirstOwner[s] ELSE 0
             /\ n \in present[s] <=> FirstNode(s, n)
  BY DEF NodeInit
<1>4. NodeTypes
  <2>1. NodeSubnetStake \in [Subnets -> [NodeIds -> Balance]]
    BY <1>1, <1>2 DEF NodeInit
  <2>2. SubnetNodeValidatorId \in [Subnets -> [NodeIds -> Validators \cup {0}]]
    BY <1>1, <1>2 DEF NodeInit
  <2>3. /\ present \in [Subnets -> SUBSET NodeIds]
        /\ ValidatorSubnetNodes \in [Validators -> [Subnets -> SUBSET NodeIds]]
    BY DEF NodeInit
  <2> QED BY <2>1, <2>2, <2>3 DEF NodeTypes
<1>5. Owned
  <2> SUFFICES ASSUME NEW s \in Subnets, NEW n \in NodeIds
               PROVE  IF SubnetNodeValidatorId[s][n] = 0
                      THEN NodeSubnetStake[s][n] = 0 /\ n \notin present[s]
                      ELSE SubnetNodeValidatorId[s][n] \in live
    BY DEF Owned
  <2>1. CASE FirstNode(s, n)
    BY <1>1, <1>2, <1>3, <2>1 DEF FirstNode
  <2>2. CASE ~FirstNode(s, n)
    BY <1>3, <2>2
  <2> QED BY <2>1, <2>2
<1>6. InTurn
  <2> SUFFICES ASSUME NEW s \in Subnets PROVE \E k \in 0 .. MaxNodes : Upto(s, k)
    BY DEF InTurn
  <2>1. CASE FirstOwner[s] # 0 /\ MaxNodes > 0
    <3>1. Upto(s, 1)
      BY <1>1, <1>3, <2>1 DEF Upto, FirstNode, NodeIds
    <3> QED BY <1>1, <2>1, <3>1
  <2>2. CASE FirstOwner[s] = 0 \/ MaxNodes = 0
    <3>1. Upto(s, 0)
      BY <1>1, <1>3, <2>2 DEF Upto, FirstNode, NodeIds
    <3> QED BY <1>1, <3>1
  <2> QED BY <1>1, <2>1, <2>2
<1>7. Listed
  <2> SUFFICES ASSUME NEW v \in Validators, NEW s \in Subnets
               PROVE  ValidatorSubnetNodes[v][s] =
                        {n \in present[s] : SubnetNodeValidatorId[s][n] = v}
    BY DEF Listed
  <2>1. ValidatorSubnetNodes[v][s] = {n \in NodeIds : FirstNode(s, n) /\ FirstOwner[s] = v}
    BY DEF NodeInit
  <2>2. present[s] = {n \in NodeIds : FirstNode(s, n)}
    BY DEF NodeInit
  <2> QED BY <1>2, <1>3, <2>1, <2>2
<1> QED BY <1>4, <1>5, <1>6, <1>7 DEF NodeInv

(* The validator of a node exists, and its coldkey may withdraw the stake. *)
LEMMA Reachable == KeyInv /\ NodeInv => StakeReachable
<1> SUFFICES ASSUME KeyInv, NodeInv PROVE StakeReachable
  OBVIOUS
<1>1. ASSUME NEW s \in Subnets, NEW n \in NodeIds, NodeSubnetStake[s][n] > 0
      PROVE  \E a \in Accounts : Owns(a, s, n)
  <2>1. SubnetNodeValidatorId[s][n] # 0
    BY <1>1 DEF NodeInv, Owned
  <2>2. PICK v \in Validators : v = SubnetNodeValidatorId[s][n]
    BY <2>1 DEF NodeInv, NodeTypes
  <2>3. v \in live
    BY <2>1, <2>2 DEF NodeInv, Owned
  <2>4. ValidatorColdkey[v] \in Accounts
    BY <2>3, KeyFacts
  <2> QED BY <2>1, <2>2, <2>4 DEF Owns
<1>2. \A v \in Validators : \A s \in Subnets \cap live :
        ValidatorSubnetNodes[v][s] = {n \in present[s] : SubnetNodeValidatorId[s][n] = v}
  BY DEF NodeInv, Listed
<1> QED BY <1>1, <1>2 DEF StakeReachable

(***************************************************************************)
(* Stake can always be taken out: in every reachable state the stake of a  *)
(* node leads over its validator to an account that remove_node_stake      *)
(* accepts, whatever happened to the node, its subnet and the keys         *)
(* meanwhile, and a validator is known by the nodes it has                 *)
(* (stake/node_staking.rs, utilities/validator.rs).                        *)
(***************************************************************************)
THEOREM StakeStaysReachable == NodeSpec => []StakeReachable
<1>1. NodeInit => KeyInv /\ NodeInv
  BY InitKeys, InitNodes
<1>2. (KeyInv /\ NodeInv) /\ [NodeNext]_allVars => (KeyInv /\ NodeInv)'
  BY StepKeys, StepNodes
<1> QED BY <1>1, <1>2, Reachable, PTL DEF NodeSpec
--------------------------------------------------------------------------------
(***************************************************************************)
(* What the steps of this component do to the books of delegate staking.   *)
(***************************************************************************)

(* The books of delegate staking are in order, and hold x more than before. *)
HeldGains(x) == Books' /\ LedgersBounded' /\ Held' = Held + x

(* The invariant of the swap queue, of a call that leaves queue and time   *)
(* alone.                                                                  *)
LEMMA CallInv ==
  ASSUME Inv, UNCHANGED <<queueVars, timeVars, paused, live>>,
         PoolsOK', BondsOK', free' \in [Accounts -> Balance], lastTx' \in [Accounts -> Nat]
  PROVE  Inv'
<1>1. QueueOK' /\ TimeOK'
  BY FrameType DEF Inv
<1>2. RestOK'
  BY DEF Inv, TypeOK, RestOK
<1>3. block' = block /\ phase' = phase /\ paused' = paused
  BY DEF timeVars
<1>4. block' \in Nat /\ block' >= block
  BY <1>3 DEF Inv, TypeOK, TimeOK
<1>5. QueueCoherent'
  BY <1>4, QueueFrame
<1>6. HookUninterrupted'
  BY <1>3 DEF Inv, HookUninterrupted
<1> QED BY <1>1, <1>2, <1>5, <1>6 DEF Inv, TypeOK

(* An account pays for something outside of delegate staking.              *)
LEMMA PaymentBooks ==
  ASSUME Books, LedgersBounded, Fits, NEW a \in Accounts, NEW x \in Balance,
         can_withdraw(a, x), withdraw(a, x), lastTx' \in [Accounts -> Nat],
         UNCHANGED <<poolVars, queueVars, bondVars, timeVars, histVars, paused, live>>
  PROVE  HeldGains(0 - x)
<1>1. PoolsOK' /\ BondsOK' /\ RestOK /\ free' \in [Accounts -> Balance]
  <2>1. free \in [Accounts -> Balance] /\ RestOK
    BY DEF Books, Inv, TypeOK, RestOK
  <2>2. free' \in [Accounts -> Balance]
    BY <2>1, WithdrawType
  <2> QED BY <2>1, <2>2, FrameType DEF Books, Inv
<1>2. Inv'
  BY <1>1, CallInv DEF Books
<1>3. /\ pool' = pool /\ shares' = shares /\ total' = total /\ ledger' = ledger
      /\ unbonding' = unbonding /\ calls' = calls /\ minted' = minted /\ dropped' = dropped
  BY DEF poolVars, queueVars, bondVars, histVars
<1>4. LedgersFinite' /\ LedgersBounded'
  BY <1>3 DEF Books, LedgersFinite, LedgersBounded
<1>5. InAccounts' = InAccounts - x /\ InLedgers' = InLedgers /\ InQueue' = InQueue
  <2>1. RestOK'
    BY <1>2 DEF Inv, TypeOK
  <2> QED BY <1>1, <1>3, <2>1, AccountPays DEF InLedgers, InQueue
<1>6. /\ InPools' = InPools /\ \A k \in Kinds : total'[k] = KindTotal(k)'
      /\ \A q \in Pools : FairStep(q)
  BY <1>3, SamePools
<1>7. SharesBacked' /\ TotalsAgree'
  <2>1. \A p \in Pools : Backed(p)'
    BY <1>6, FairStepKeeps, BookFacts DEF Books, Inv, TypeOK
  <2>2. unbonding = InLedgers
    BY BookFacts
  <2> QED BY <1>3, <1>5, <1>6, <2>1, <2>2 DEF SharesBacked, Backed, TotalsAgree, KindTotal
<1>8. Books'
  BY <1>2, <1>3, <1>4, <1>7 DEF Books
<1>9. Held' = Held + (0 - x)
  <2>1. x \in Nat
    BY MaxBalanceAssumption
  <2> QED BY <1>5, <1>6, <2>1, BookFacts DEF Held
<1> QED BY <1>4, <1>8, <1>9 DEF HeldGains

(* What was held outside of delegate staking unbonds.                      *)
LEMMA UnbondBooks ==
  ASSUME Books, LedgersBounded, Fits, NEW a \in Accounts, NEW claim \in Nat, NEW x \in Balance,
         Held + x <= MaxBalance, Unbond(a, claim, x), lastTx' \in [Accounts -> Nat],
         UNCHANGED <<poolVars, queueVars, timeVars, histVars, paused, live>>
  PROVE  HeldGains(x)
<1>1. PoolsOK' /\ BondsOK' /\ free' \in [Accounts -> Balance]
  <2>1. free \in [Accounts -> Balance] /\ BondsOK
    BY DEF Books, Inv, TypeOK, RestOK
  <2>2. BondsOK' /\ free' \in [Accounts -> Balance]
    BY <2>1, UnbondType
  <2> QED BY <2>2, FrameType DEF Books, Inv
<1>2. Inv'
  BY <1>1, CallInv DEF Books
<1>3. /\ pool' = pool /\ shares' = shares /\ total' = total /\ calls' = calls
      /\ minted' = minted /\ dropped' = dropped
  BY DEF poolVars, queueVars, histVars
<1>4. LedgersFinite' /\ LedgersBounded'
  BY UnbondBounded DEF Books
<1>5. x \in Nat /\ InLedgers + x <= MaxBalance
  <2>1. x \in Nat /\ MaxBalance \in Nat
    BY MaxBalanceAssumption
  <2>2. InAccounts \in Nat /\ InPools \in Nat /\ InLedgers \in Nat /\ InQueue \in Nat
    BY BookFacts
  <2>3. \A i, j, k, l, m \in Nat : i + j + k + l + x <= m => k + x <= m
    BY <2>1
  <2>4. InAccounts + InPools + InLedgers + InQueue + x <= MaxBalance
    BY DEF Held
  <2> HIDE DEF Balance
  <2> QED BY <2>1, <2>2, <2>3, <2>4
<1>6. /\ InAccounts' + InLedgers' = InAccounts + InLedgers + x /\ unbonding' = InLedgers'
      /\ InAccounts' \in Int /\ InLedgers' \in Int
  <2>1. RestOK'
    BY <1>2 DEF Inv, TypeOK
  <2> QED BY <1>1, <1>4, <1>5, <2>1, UnbondMoves
<1>7. /\ InPools' = InPools /\ \A k \in Kinds : total'[k] = KindTotal(k)'
      /\ \A q \in Pools : FairStep(q)
  BY <1>3, SamePools
<1>8. SharesBacked' /\ TotalsAgree'
  <2>1. \A p \in Pools : Backed(p)'
    BY <1>7, FairStepKeeps, BookFacts DEF Books, Inv, TypeOK
  <2> QED BY <1>6, <1>7, <2>1 DEF SharesBacked, Backed, TotalsAgree, KindTotal
<1>9. Books'
  BY <1>2, <1>3, <1>4, <1>8 DEF Books
<1>10. Held' = Held + x
  <2>1. InQueue' = InQueue
    BY <1>3 DEF InQueue
  <2> QED BY <1>5, <1>6, <1>7, <2>1, BookFacts DEF Held
<1> QED BY <1>4, <1>9, <1>10 DEF HeldGains

(* A block pays rewards, to the pools too or only outside of them.         *)
LEMMA BlockBooks ==
  ASSUME Books, LedgersBounded, Fits, ~paused, block' = block + 1, phase' = "swaps",
         left' \in Nat, minted' \in Nat, NEW d \in Int, InPools' = InPools + d,
         PoolsOK', \A k \in Kinds : total'[k] = KindTotal(k)', \A p \in Pools : FairStep(p),
         UNCHANGED <<queueVars, bondVars, dropped, paused, live, free, lastTx>>
  PROVE  HeldGains(d)
<1>1. block \in Nat
  BY DEF Books, Inv, TypeOK, TimeOK
<1>2. QueueOK' /\ BondsOK'
  BY FrameType DEF Books, Inv
<1>3. TimeOK' /\ RestOK'
  BY <1>1 DEF Books, Inv, TypeOK, TimeOK, RestOK
<1>4. QueueCoherent'
  BY <1>1, QueueFrame DEF Books
<1>5. Inv'
  BY <1>2, <1>3, <1>4 DEF Inv, TypeOK, HookUninterrupted
<1>6. ledger' = ledger /\ unbonding' = unbonding /\ calls' = calls
  BY DEF queueVars, bondVars
<1>7. LedgersFinite' /\ LedgersBounded'
  BY <1>6 DEF Books, LedgersFinite, LedgersBounded
<1>8. InAccounts' = InAccounts /\ InLedgers' = InLedgers /\ InQueue' = InQueue
  BY <1>6 DEF InAccounts, InLedgers, InQueue
<1>9. SharesBacked' /\ TotalsAgree'
  <2>1. \A p \in Pools : Backed(p)'
    BY FairStepKeeps, BookFacts DEF Books, Inv, TypeOK
  <2>2. unbonding = InLedgers
    BY BookFacts
  <2> QED BY <1>6, <1>8, <2>1, <2>2 DEF SharesBacked, Backed, TotalsAgree, KindTotal
<1>10. Books'
  BY <1>5, <1>7, <1>9 DEF Books
<1>11. Held' = Held + d
  BY <1>8, BookFacts DEF Held
<1> QED BY <1>7, <1>10, <1>11 DEF HeldGains

(* A step of delegate staking.                                             *)
LEMMA DelegateBooks ==
  ASSUME Books, LedgersBounded, Fits, StepFits, [AnyNext]_vars,
         OwnedTransfersOnly \/ [NoTransfer]_vars
  PROVE  /\ Books' /\ LedgersBounded' /\ dropped' \in Nat
         /\ Held' = Held + (minted' - minted) - (dropped' - dropped)
<1>1. BooksKept /\ Inv' /\ LedgersFinite'
  BY NextBooks
<1>2. LedgersBounded'
  BY NextBounded DEF Books
<1> QED BY <1>1, <1>2, KeptIsBooks DEF BooksKept, TokensKept
--------------------------------------------------------------------------------
(***************************************************************************)
(* What nodes and delegate accounts hold.                                  *)
(***************************************************************************)
InDelegates == SumFunction(DelegateAccountStake)

(* There are finitely many nodes.                                          *)
LEMMA FiniteNodes == IsFiniteSet(NodeIds) /\ IsFiniteSet(Subnets)
<1>1. 1 \in Int /\ MaxNodes \in Int
  BY NodeAssumption
<1>2. IsFiniteSet(1 .. MaxNodes)
  BY <1>1, FS_Interval
<1> QED BY <1>2, StakingAssumption DEF NodeIds

(* The stake of a node, of its subnet and of all nodes.                    *)
LEMMA InNodesFacts ==
  ASSUME NodeTypes
  PROVE  /\ InNodes \in Nat
         /\ \A s \in Subnets : /\ StakeOf(s) \in Nat /\ StakeOf(s) <= InNodes
                               /\ \A n \in NodeIds : /\ NodeSubnetStake[s][n] \in Nat
                                                     /\ NodeSubnetStake[s][n] <= StakeOf(s)
<1>1. IsFiniteSet(NodeIds) /\ IsFiniteSet(Subnets)
  BY FiniteNodes
<1>2. ASSUME NEW s \in Subnets
      PROVE  /\ StakeOf(s) \in Nat
             /\ \A n \in NodeIds : NodeSubnetStake[s][n] \in Nat /\ NodeSubnetStake[s][n] <= StakeOf(s)
  <2>1. /\ DOMAIN NodeSubnetStake[s] = NodeIds
        /\ \A n \in NodeIds : NodeSubnetStake[s][n] \in Nat
    BY MaxBalanceAssumption DEF NodeTypes
  <2>2. StakeOf(s) = SumFunctionOnSet(NodeSubnetStake[s], NodeIds)
    BY <2>1, SumOver DEF StakeOf
  <2> QED BY <1>1, <2>1, <2>2, SumOfNaturals
<1> DEFINE f == [s \in Subnets |-> StakeOf(s)]
<1>3. InNodes = SumFunctionOnSet(f, Subnets)
  BY SumOver DEF InNodes
<1>4. \A s \in Subnets : f[s] = StakeOf(s) /\ f[s] \in Nat
  BY <1>2
<1>5. InNodes \in Nat /\ \A s \in Subnets : f[s] <= InNodes
  <2> HIDE DEF f
  <2> QED BY <1>1, <1>3, <1>4, SumOfNaturals
<1> QED BY <1>2, <1>4, <1>5

(* The stake of one node becomes x.                                        *)
LEMMA NodesChange ==
  ASSUME NodeTypes, NEW s \in Subnets, NEW n \in NodeIds, NEW x \in Balance,
         NodeSubnetStake' = [NodeSubnetStake EXCEPT ![s][n] = x]
  PROVE  /\ StakeOf(s)' = StakeOf(s) - NodeSubnetStake[s][n] + x
         /\ \A t \in Subnets : t # s => StakeOf(t)' = StakeOf(t)
         /\ InNodes' = InNodes - NodeSubnetStake[s][n] + x
<1>0. /\ IsFiniteSet(NodeIds) /\ IsFiniteSet(Subnets) /\ x \in Nat
      /\ \A t \in Subnets : StakeOf(t) \in Nat
      /\ NodeSubnetStake[s][n] \in Nat
  BY FiniteNodes, MaxBalanceAssumption, InNodesFacts
<1>1. /\ DOMAIN NodeSubnetStake[s] = NodeIds /\ DOMAIN NodeSubnetStake'[s] = NodeIds
      /\ NodeSubnetStake'[s][n] = x
      /\ \A m \in NodeIds : /\ NodeSubnetStake[s][m] \in Int /\ NodeSubnetStake'[s][m] \in Int
                            /\ m # n => NodeSubnetStake'[s][m] = NodeSubnetStake[s][m]
      /\ \A t \in Subnets : t # s => NodeSubnetStake'[t] = NodeSubnetStake[t]
  BY MaxBalanceAssumption DEF NodeTypes
<1>2. StakeOf(s)' = StakeOf(s) - NodeSubnetStake[s][n] + x
  <2>1. /\ StakeOf(s) = SumFunctionOnSet(NodeSubnetStake[s], NodeIds)
        /\ StakeOf(s)' = SumFunctionOnSet(NodeSubnetStake'[s], NodeIds)
    BY <1>1, SumOver DEF StakeOf
  <2>2. SumFunctionOnSet(NodeSubnetStake'[s], NodeIds)
          = SumFunctionOnSet(NodeSubnetStake[s], NodeIds) - NodeSubnetStake[s][n] + x
    <3>1. PICK f : f = NodeSubnetStake[s]
      OBVIOUS
    <3>2. PICK g : g = NodeSubnetStake'[s]
      OBVIOUS
    <3>3. \A m \in NodeIds : f[m] \in Int /\ g[m] \in Int /\ (m # n => g[m] = f[m])
      BY <1>1, <3>1, <3>2
    <3>4. SumFunctionOnSet(g, NodeIds) = SumFunctionOnSet(f, NodeIds) - f[n] + g[n]
      BY <1>0, <3>3, SumExcept
    <3>5. f[n] = NodeSubnetStake[s][n] /\ g[n] = x
      BY <1>1, <3>1, <3>2
    <3> QED BY <3>1, <3>2, <3>4, <3>5
  <2> QED BY <2>1, <2>2
<1>3. \A t \in Subnets : t # s => StakeOf(t)' = StakeOf(t)
  BY <1>1 DEF StakeOf
<1>4. InNodes' = InNodes - NodeSubnetStake[s][n] + x
  <2> DEFINE f == [t \in Subnets |-> StakeOf(t)]
             g == [t \in Subnets |-> StakeOf(t)']
  <2>1. InNodes = SumFunctionOnSet(f, Subnets) /\ InNodes' = SumFunctionOnSet(g, Subnets)
    BY SumOver DEF InNodes
  <2>2. \A t \in Subnets : f[t] \in Int /\ g[t] \in Int /\ (t # s => g[t] = f[t])
    BY <1>0, <1>2, <1>3
  <2>3. f[s] = StakeOf(s) /\ g[s] = StakeOf(s)'
    OBVIOUS
  <2> HIDE DEF f, g
  <2>4. SumFunctionOnSet(g, Subnets) = SumFunctionOnSet(f, Subnets) - f[s] + g[s]
    BY <1>0, <2>2, SumExcept
  <2>5. SumFunctionOnSet(f, Subnets) \in Int
    BY <1>0, <2>2, SumType
  <2> QED BY <1>0, <1>2, <2>1, <2>3, <2>4, <2>5
<1> QED BY <1>2, <1>3, <1>4

(* The delegate accounts.                                                  *)
LEMMA InDelegatesFacts ==
  ASSUME DelegateAccountStake \in [Accounts -> Balance]
  PROVE  /\ InDelegates \in Nat
         /\ \A a \in Accounts : /\ DelegateAccountStake[a] \in Nat
                                /\ DelegateAccountStake[a] <= InDelegates
<1>1. /\ DOMAIN DelegateAccountStake = Accounts
      /\ \A a \in Accounts : DelegateAccountStake[a] \in Nat
  BY MaxBalanceAssumption
<1>2. InDelegates = SumFunctionOnSet(DelegateAccountStake, Accounts)
  BY <1>1, SumOver DEF InDelegates
<1> QED BY <1>1, <1>2, FinitelyMany, SumOfNaturals

(* One delegate account becomes x.                                         *)
LEMMA DelegatesChange ==
  ASSUME DelegateAccountStake \in [Accounts -> Balance], NEW a \in Accounts, NEW x \in Balance,
         DelegateAccountStake' = [DelegateAccountStake EXCEPT ![a] = x]
  PROVE  InDelegates' = InDelegates - DelegateAccountStake[a] + x
<1>1. /\ DOMAIN DelegateAccountStake = Accounts /\ DOMAIN DelegateAccountStake' = Accounts
      /\ \A b \in Accounts : /\ DelegateAccountStake[b] \in Int /\ DelegateAccountStake'[b] \in Int
                             /\ b # a => DelegateAccountStake'[b] = DelegateAccountStake[b]
      /\ DelegateAccountStake'[a] = x
  BY MaxBalanceAssumption
<1>2. /\ InDelegates = SumFunctionOnSet(DelegateAccountStake, Accounts)
      /\ InDelegates' = SumFunctionOnSet(DelegateAccountStake', Accounts)
  BY <1>1, SumOver DEF InDelegates
<1>3. PICK f : f = DelegateAccountStake
  OBVIOUS
<1>4. PICK g : g = DelegateAccountStake'
  OBVIOUS
<1>5. \A b \in Accounts : f[b] \in Int /\ g[b] \in Int /\ (b # a => g[b] = f[b])
  BY <1>1, <1>3, <1>4
<1>6. SumFunctionOnSet(g, Accounts) = SumFunctionOnSet(f, Accounts) - f[a] + g[a]
  BY <1>5, FinitelyMany, SumExcept
<1> QED BY <1>1, <1>2, <1>3, <1>4, <1>6

(* The totals the pallet keeps are at most the sums they stand for, and    *)
(* are those sums where no slash takes more than the stake.                *)
WithinSum(kept, sum) ==
  kept \in Nat /\ kept <= sum /\ (BaseSlashPercentage <= Full => kept = sum)
NodeTotals ==
  /\ DOMAIN TotalSubnetStake = Subnets
  /\ \A s \in Subnets : WithinSum(TotalSubnetStake[s], StakeOf(s))
  /\ WithinSum(TotalStake, InNodes)
DelegateTotals ==
  /\ DelegateAccountStake \in [Accounts -> Balance]
  /\ TotalAccountDelegateStake = InDelegates

(* What is left of a stake an amount is taken from.                        *)
Taken(amount, stake) == IF amount > stake THEN stake ELSE amount

(* A total rises with the sum it stands for.                               *)
LEMMA RaisedWithin ==
  ASSUME NEW kept, NEW sum \in Nat, NEW x \in Nat, WithinSum(kept, sum), sum + x <= MaxBalance
  PROVE  WithinSum(SatAdd(kept, x), sum + x)
<1>1. PICK k \in Nat : k = kept /\ k <= sum
  BY DEF WithinSum
<1>2. SatAdd(k, x) = k + x
  BY <1>1, Exact, MaxBalanceAssumption
<1> QED BY <1>1, <1>2 DEF WithinSum

(* A total that loses an amount loses at least what the sum loses.         *)
LEMMA LoweredWithin ==
  ASSUME NEW kept, NEW sum \in Nat, NEW x \in Nat, NEW stake \in Nat, WithinSum(kept, sum),
         stake <= sum, sum <= MaxBalance, BaseSlashPercentage <= Full => x <= stake
  PROVE  WithinSum(SatSub(kept, x), sum - Taken(x, stake))
<1>1. PICK k \in Nat : k = kept /\ k <= sum /\ (BaseSlashPercentage <= Full => k = sum)
  BY DEF WithinSum
<1>2. PICK y \in Nat : y = Taken(x, stake) /\ y <= x /\ y <= stake /\ (x <= stake => y = x)
  BY DEF Taken
<1>3. SatSub(k, x) = IF x <= k THEN k - x ELSE 0
  BY <1>1, MaxBalanceAssumption DEF SatSub, Balance
<1>4. SatSub(k, x) \in Nat /\ SatSub(k, x) <= sum - y
  BY <1>1, <1>2, <1>3
<1>5. ASSUME BaseSlashPercentage <= Full PROVE SatSub(k, x) = sum - y
  BY <1>1, <1>2, <1>3, <1>5
<1> QED BY <1>1, <1>2, <1>4, <1>5 DEF WithinSum

(* increase_node_stake raises the node, its subnet and the network alike.  *)
LEMMA IncreaseTotals ==
  ASSUME NodeTypes, NodeTotals, NEW s \in Subnets, NEW n \in NodeIds, NEW x \in Nat,
         InNodes + x <= MaxBalance, increase_node_stake(s, n, x)
  PROVE  NodeTotals' /\ InNodes' = InNodes + x
<1>1. /\ InNodes \in Nat /\ StakeOf(s) \in Nat /\ StakeOf(s) <= InNodes
      /\ NodeSubnetStake[s][n] \in Nat /\ NodeSubnetStake[s][n] <= StakeOf(s)
  BY InNodesFacts
<1>2. PICK old \in Nat : old = NodeSubnetStake[s][n]
  BY <1>1
<1>3. old + x <= MaxBalance /\ StakeOf(s) + x <= MaxBalance
  <2>1. \A i, j, k, m \in Nat : i <= j /\ j <= k /\ k + x <= m => i + x <= m /\ j + x <= m
    OBVIOUS
  <2> QED BY <1>1, <1>2, <2>1, MaxBalanceAssumption
<1>4. PICK y \in Balance : y = old + x
  BY <1>2, <1>3, MaxBalanceAssumption
<1>5. NodeSubnetStake' = [NodeSubnetStake EXCEPT ![s][n] = y]
  <2>1. SatAdd(NodeSubnetStake[s][n], x) = y
    BY <1>2, <1>3, <1>4, Exact
  <2> QED BY <2>1 DEF increase_node_stake
<1>6. /\ StakeOf(s)' = StakeOf(s) - old + y /\ InNodes' = InNodes - old + y
      /\ \A t \in Subnets : t # s => StakeOf(t)' = StakeOf(t)
  BY <1>2, <1>5, NodesChange
<1>7. StakeOf(s)' = StakeOf(s) + x /\ InNodes' = InNodes + x
  BY <1>1, <1>4, <1>6
<1>8. /\ DOMAIN TotalSubnetStake' = Subnets
      /\ TotalSubnetStake'[s] = SatAdd(TotalSubnetStake[s], x)
      /\ \A t \in Subnets : t # s => TotalSubnetStake'[t] = TotalSubnetStake[t]
      /\ TotalStake' = SatAdd(TotalStake, x)
  BY DEF increase_node_stake, NodeTotals
<1>9. /\ WithinSum(SatAdd(TotalSubnetStake[s], x), StakeOf(s) + x)
      /\ WithinSum(SatAdd(TotalStake, x), InNodes + x)
  BY <1>1, <1>3, RaisedWithin DEF NodeTotals
<1>10. /\ WithinSum(TotalSubnetStake'[s], StakeOf(s)') /\ WithinSum(TotalStake', InNodes')
       /\ \A t \in Subnets : t # s => WithinSum(TotalSubnetStake'[t], StakeOf(t)')
  BY <1>6, <1>7, <1>8, <1>9 DEF NodeTotals
<1>11. NodeTotals'
  BY <1>8, <1>10 DEF NodeTotals, WithinSum
<1> QED BY <1>7, <1>11

(* decrease_node_stake lowers them alike, by what there is.                *)
LEMMA DecreaseTotals ==
  ASSUME NodeTypes, NodeTotals, NEW s \in Subnets, NEW n \in NodeIds, NEW x \in Nat,
         BaseSlashPercentage <= Full => x <= NodeSubnetStake[s][n],
         InNodes <= MaxBalance, decrease_node_stake(s, n, x)
  PROVE  /\ NodeTotals' /\ InNodes' = InNodes - Taken(x, NodeSubnetStake[s][n])
         /\ Taken(x, NodeSubnetStake[s][n]) \in Nat
         /\ Taken(x, NodeSubnetStake[s][n]) <= InNodes
<1>1. /\ InNodes \in Nat /\ StakeOf(s) \in Nat /\ StakeOf(s) <= InNodes
      /\ NodeSubnetStake[s][n] \in Nat /\ NodeSubnetStake[s][n] <= StakeOf(s)
  BY InNodesFacts
<1>2. PICK old \in Nat : old = NodeSubnetStake[s][n]
  BY <1>1
<1>3. PICK z \in Nat : z = Taken(x, old) /\ z <= old /\ z <= x /\ (x <= old => z = x)
                       /\ (x > old => z = old)
  BY <1>2 DEF Taken
<1>4. /\ z <= StakeOf(s) /\ z <= InNodes /\ old <= StakeOf(s) /\ old <= InNodes
      /\ old <= MaxBalance /\ StakeOf(s) <= MaxBalance
  BY <1>1, <1>2, <1>3, MaxBalanceAssumption
<1>5. PICK y \in Balance : y = old - z
  BY <1>2, <1>3, <1>4, MaxBalanceAssumption DEF Balance
<1>6. NodeSubnetStake' = [NodeSubnetStake EXCEPT ![s][n] = y]
  <2>1. SatSub(NodeSubnetStake[s][n], x) = y
    BY <1>2, <1>3, <1>4, <1>5, MaxBalanceAssumption DEF SatSub, Balance
  <2> QED BY <2>1 DEF decrease_node_stake
<1>7. /\ StakeOf(s)' = StakeOf(s) - old + y /\ InNodes' = InNodes - old + y
      /\ \A t \in Subnets : t # s => StakeOf(t)' = StakeOf(t)
  BY <1>2, <1>6, NodesChange
<1>8. StakeOf(s)' = StakeOf(s) - z /\ InNodes' = InNodes - z
  BY <1>1, <1>5, <1>7
<1>9. /\ DOMAIN TotalSubnetStake' = Subnets
      /\ TotalSubnetStake'[s] = SatSub(TotalSubnetStake[s], x)
      /\ \A t \in Subnets : t # s => TotalSubnetStake'[t] = TotalSubnetStake[t]
      /\ TotalStake' = SatSub(TotalStake, x)
  BY DEF decrease_node_stake, NodeTotals
<1>10. BaseSlashPercentage <= Full => x <= old
  BY <1>2
<1>11. /\ WithinSum(SatSub(TotalSubnetStake[s], x), StakeOf(s) - z)
       /\ WithinSum(SatSub(TotalStake, x), InNodes - z)
  <2>1. WithinSum(TotalSubnetStake[s], StakeOf(s)) /\ WithinSum(TotalStake, InNodes)
    BY DEF NodeTotals
  <2> QED BY <1>1, <1>3, <1>4, <1>10, <2>1, LoweredWithin
<1>12. /\ WithinSum(TotalSubnetStake'[s], StakeOf(s)') /\ WithinSum(TotalStake', InNodes')
       /\ \A t \in Subnets : t # s => WithinSum(TotalSubnetStake'[t], StakeOf(t)')
  BY <1>7, <1>8, <1>9, <1>11 DEF NodeTotals
<1>13. NodeTotals'
  BY <1>9, <1>12 DEF NodeTotals, WithinSum
<1> QED BY <1>2, <1>3, <1>4, <1>8, <1>13

(* A delegate account is paid.                                             *)
LEMMA DelegatePaid ==
  ASSUME DelegateTotals, NEW a \in Accounts, NEW x \in Nat, InDelegates + x <= MaxBalance,
         DelegateAccountStake' = [DelegateAccountStake EXCEPT ![a] = SatAdd(@, x)],
         TotalAccountDelegateStake' = SatAdd(TotalAccountDelegateStake, x)
  PROVE  DelegateTotals' /\ InDelegates' = InDelegates + x
<1>1. /\ InDelegates \in Nat /\ DelegateAccountStake[a] \in Nat
      /\ DelegateAccountStake[a] <= InDelegates
  BY InDelegatesFacts DEF DelegateTotals
<1>2. PICK old \in Nat : old = DelegateAccountStake[a]
  BY <1>1
<1>3. old + x <= MaxBalance
  BY <1>1, <1>2, MaxBalanceAssumption
<1>4. PICK y \in Balance : y = old + x
  BY <1>2, <1>3, MaxBalanceAssumption
<1>5. SatAdd(DelegateAccountStake[a], x) = y
  BY <1>2, <1>3, <1>4, Exact
<1>6. /\ DelegateAccountStake' = [DelegateAccountStake EXCEPT ![a] = y]
      /\ DelegateAccountStake' \in [Accounts -> Balance]
  BY <1>5 DEF DelegateTotals
<1>7. InDelegates' = InDelegates - old + y
  BY <1>2, <1>6, DelegatesChange DEF DelegateTotals
<1>8. TotalAccountDelegateStake' = InDelegates + x
  BY <1>1, Exact DEF DelegateTotals
<1> QED BY <1>1, <1>4, <1>6, <1>7, <1>8 DEF DelegateTotals

(* A delegate account is paid out.                                         *)
LEMMA DelegatePays ==
  ASSUME DelegateTotals, NEW a \in Accounts, NEW x \in Nat, x <= DelegateAccountStake[a],
         InDelegates <= MaxBalance, decrease_delegate_account_balance(a, x)
  PROVE  DelegateTotals' /\ InDelegates' = InDelegates - x /\ x <= InDelegates
<1>1. /\ InDelegates \in Nat /\ DelegateAccountStake[a] \in Nat
      /\ DelegateAccountStake[a] <= InDelegates
  BY InDelegatesFacts DEF DelegateTotals
<1>2. PICK old \in Nat : old = DelegateAccountStake[a]
  BY <1>1
<1>3. x <= InDelegates /\ old <= MaxBalance /\ x <= old
  BY <1>1, <1>2, MaxBalanceAssumption
<1>4. PICK y \in Balance : y = old - x
  BY <1>2, <1>3, MaxBalanceAssumption
<1>5. SatSub(DelegateAccountStake[a], x) = y
  BY <1>2, <1>3, <1>4, Exact
<1>6. /\ DelegateAccountStake' = [DelegateAccountStake EXCEPT ![a] = y]
      /\ DelegateAccountStake' \in [Accounts -> Balance]
  BY <1>5 DEF DelegateTotals, decrease_delegate_account_balance
<1>7. InDelegates' = InDelegates - old + y
  BY <1>2, <1>6, DelegatesChange DEF DelegateTotals
<1>8. TotalAccountDelegateStake' = InDelegates - x
  BY <1>1, <1>3, Exact DEF DelegateTotals, decrease_delegate_account_balance
<1> QED BY <1>1, <1>3, <1>4, <1>6, <1>7, <1>8 DEF DelegateTotals
--------------------------------------------------------------------------------
(***************************************************************************)
(* Every step keeps all the books.                                         *)
(***************************************************************************)
AllHeld == Held + InNodes + InDelegates

(* A delegate account is an account, or there is none.                     *)
DelegatesTyped == \A v \in Validators :
  /\ "delegate_account" \in DOMAIN ValidatorsData[v]
  /\ ValidatorsData[v].delegate_account.account \in Keys

NodeBooks ==
  /\ Books /\ LedgersBounded /\ NodeTotals /\ DelegateTotals /\ DelegatesTyped /\ lost \in Nat

(* All there is fits a u128, before and after what a step mints.           *)
NodeFits == AllHeld <= MaxBalance /\ \A p \in Pools : pool[p].shares < MaxBalance
NodeStepFits ==
  /\ AllHeld + (minted' - minted) <= MaxBalance
  /\ \A p \in Pools : pool'[p].shares < MaxBalance

(* Tokens are minted, dropped by a swap, slashed or burnt, and else stay.  *)
NodeStep ==
  /\ NodeBooks'
  /\ AllHeld' = AllHeld + (minted' - minted) - (dropped' - dropped) - (lost' - lost)

(* What the parts hold, and that they fit.                                 *)
LEMMA NodeFacts ==
  ASSUME NodeBooks, NodeTypes, NodeFits
  PROVE  /\ Fits /\ Held \in Nat /\ InNodes \in Nat /\ InDelegates \in Nat
         /\ Held + InNodes <= MaxBalance /\ Held + InDelegates <= MaxBalance
         /\ InNodes <= MaxBalance /\ InDelegates <= MaxBalance
         /\ minted \in Nat /\ dropped \in Nat /\ lost \in Nat
<1>1. InAccounts \in Nat /\ InPools \in Nat /\ InLedgers \in Nat /\ InQueue \in Nat
  BY HeldParts DEF NodeBooks, Books
<1>2. Held \in Nat
  BY <1>1 DEF Held
<1>3. InNodes \in Nat /\ InDelegates \in Nat
  BY InNodesFacts, InDelegatesFacts DEF NodeBooks, DelegateTotals
<1>4. \A h, n, d, m \in Nat : h + n + d <= m =>
        h <= m /\ n <= m /\ d <= m /\ h + n <= m /\ h + d <= m
  OBVIOUS
<1>5. Held + InNodes + InDelegates <= MaxBalance
  BY DEF NodeFits, AllHeld
<1>6. Held <= MaxBalance /\ InNodes <= MaxBalance /\ InDelegates <= MaxBalance
      /\ Held + InNodes <= MaxBalance /\ Held + InDelegates <= MaxBalance
  BY <1>2, <1>3, <1>4, <1>5, MaxBalanceAssumption
<1> QED BY <1>2, <1>3, <1>6 DEF NodeFits, Fits, NodeBooks, Books

(* The parts together.                                                     *)
LEMMA Together ==
  ASSUME NodeBooks, NodeTypes, NodeFits, NEW h \in Int, NEW n \in Int, NEW d \in Int,
         HeldGains(h), NodeTotals', DelegateTotals', DelegatesTyped', lost' \in Nat,
         InNodes' = InNodes + n, InDelegates' = InDelegates + d,
         h + n + d = (minted' - minted) - (dropped' - dropped) - (lost' - lost)
  PROVE  NodeStep
<1>1. NodeBooks' /\ minted' \in Nat /\ dropped' \in Nat
  BY DEF NodeBooks, HeldGains, Books
<1>2. Held' = Held + h
  BY DEF HeldGains
<1>3. AllHeld' = AllHeld + (h + n + d)
  BY <1>2, NodeFacts DEF AllHeld
<1>4. AllHeld \in Int
  BY NodeFacts DEF AllHeld
<1>5. \A x \in Int : \A i, j, k \in Int : x + (i - j - k) = x + i - j - k
  OBVIOUS
<1>6. minted' - minted \in Int /\ dropped' - dropped \in Int /\ lost' - lost \in Int
  BY <1>1, NodeFacts
<1> QED BY <1>1, <1>3, <1>4, <1>5, <1>6 DEF NodeStep

(* What leaves the books of delegate staking alone.                        *)
LEMMA QuietBooks ==
  ASSUME Books, LedgersBounded, Fits, live' \subseteq Pools,
         UNCHANGED <<poolVars, queueVars, bondVars, timeVars, histVars, paused, free, lastTx>>
  PROVE  HeldGains(0)
<1>1. PoolsOK' /\ BondsOK' /\ QueueOK' /\ TimeOK'
  BY FrameType DEF Books, Inv
<1>2. RestOK'
  BY DEF Books, Inv, TypeOK, RestOK
<1>3. block' = block /\ phase' = phase /\ paused' = paused
  BY DEF timeVars
<1>4. block' \in Nat /\ block' >= block
  BY <1>3 DEF Books, Inv, TypeOK, TimeOK
<1>5. QueueCoherent'
  BY <1>4, QueueFrame DEF Books
<1>6. Inv'
  BY <1>1, <1>2, <1>3, <1>5 DEF Books, Inv, TypeOK, HookUninterrupted
<1>7. /\ pool' = pool /\ shares' = shares /\ total' = total /\ ledger' = ledger
      /\ unbonding' = unbonding /\ calls' = calls /\ minted' = minted /\ dropped' = dropped
  BY DEF poolVars, queueVars, bondVars, histVars
<1>8. LedgersFinite' /\ LedgersBounded'
  BY <1>7 DEF Books, LedgersFinite, LedgersBounded
<1>9. SharesBacked' /\ TotalsAgree'
  BY <1>7 DEF Books, SharesBacked, SharesHeld, TotalsAgree, InLedgers
<1>10. Books'
  BY <1>6, <1>7, <1>8, <1>9 DEF Books
<1>11. Held' = Held + 0
  BY <1>7, BookFacts DEF Held, InAccounts, InPools, InLedgers, InQueue
<1> QED BY <1>8, <1>10, <1>11 DEF HeldGains

(* The nodes and the delegate accounts, where they stay as they are.       *)
LEMMA SameNodes ==
  ASSUME NodeTotals, UNCHANGED <<NodeSubnetStake, TotalSubnetStake, TotalStake>>
  PROVE  NodeTotals' /\ InNodes' = InNodes
  BY DEF NodeTotals, WithinSum, InNodes, StakeOf

(* The same for the delegate accounts.                                     *)
LEMMA SameDelegates ==
  ASSUME DelegateTotals, UNCHANGED <<DelegateAccountStake, TotalAccountDelegateStake>>
  PROVE  DelegateTotals' /\ InDelegates' = InDelegates
  BY DEF DelegateTotals, InDelegates

(* A validator's data stays as it is.                                      *)
LEMMA SameDelegatesTyped ==
  ASSUME DelegatesTyped, UNCHANGED keyVars
  PROVE  DelegatesTyped'
  BY DEF DelegatesTyped, keyVars

(* The time of a call is noted.                                            *)
LEMMA NoteTx ==
  ASSUME Books, NEW a \in Accounts, lastTx' = [lastTx EXCEPT ![a] = block]
  PROVE  lastTx' \in [Accounts -> Nat]
  BY DEF Books, Inv, TypeOK, RestOK, TimeOK

(* What an account pays is at most what it has.                            *)
LEMMA PaysAtMost ==
  ASSUME Books, Fits, NEW a \in Accounts, NEW x \in Nat, can_withdraw(a, x)
  PROVE  x \in Balance /\ x <= Held
<1>1. RestOK
  BY DEF Books, Inv, TypeOK
<1>2. free[a] \in Nat /\ free[a] <= InAccounts
  BY <1>1, InAccountsFacts
<1>3. free[a] <= MaxBalance
  BY <1>1, MaxBalanceAssumption DEF RestOK
<1>4. x <= free[a]
  BY DEF can_withdraw
<1>5. /\ InAccounts \in Nat /\ InPools \in Nat /\ InLedgers \in Nat /\ InQueue \in Nat
  BY BookFacts
<1>6. x <= MaxBalance /\ x <= InAccounts
  BY <1>2, <1>3, <1>4, <1>5, MaxBalanceAssumption
<1>7. InAccounts <= Held
  BY <1>5 DEF Held
<1>8. Held \in Nat
  BY <1>5 DEF Held
<1> QED BY <1>5, <1>6, <1>7, <1>8

(* A registration moves the stake to the node and burns the fee.           *)
LEMMA RegisterStep ==
  ASSUME NodeBooks, NodeTypes, NodeFits, NEW a \in Accounts, NEW v \in Validators,
         NEW s \in Subnets, NEW x \in Balance, register_subnet_node(a, v, s, x)
  PROVE  NodeStep
<1>1. PICK n \in NodeIds : n = NextNodeId(s)
  BY DEF register_subnet_node
<1>2. x \in Nat /\ BurnAmount \in Nat /\ BurnAmount + x \in Nat
  BY MaxBalanceAssumption, NodeAssumption
<1>3. PICK y \in Nat : y = BurnAmount + x
  BY <1>2
<1>4. /\ can_withdraw(a, y) /\ withdraw(a, y) /\ lastTx' = [lastTx EXCEPT ![a] = block]
      /\ UNCHANGED <<poolVars, queueVars, bondVars, timeVars, histVars, paused, live>>
      /\ increase_node_stake(s, n, x) /\ lost' = lost + BurnAmount
      /\ UNCHANGED <<keyVars, DelegateAccountStake, TotalAccountDelegateStake>>
  BY <1>1, <1>3 DEF register_subnet_node
<1>5. Books /\ LedgersBounded /\ Fits
  BY NodeFacts DEF NodeBooks
<1>6. y \in Balance /\ y <= Held
  BY <1>4, <1>5, PaysAtMost
<1>7. HeldGains(0 - y)
  BY <1>4, <1>5, <1>6, NoteTx, PaymentBooks
<1>8. InNodes + x <= MaxBalance
  <2>1. \A h, i, b, m \in Nat : b + x <= h /\ h + i <= m => i + x <= m
    BY <1>2
  <2> QED BY <1>2, <1>3, <1>6, <2>1, NodeFacts, MaxBalanceAssumption
<1>9. NodeTotals' /\ InNodes' = InNodes + x
  BY <1>2, <1>4, <1>8, IncreaseTotals DEF NodeBooks
<1>10. DelegateTotals' /\ InDelegates' = InDelegates + 0
  BY <1>4, SameDelegates, NodeFacts DEF NodeBooks
<1>11. DelegatesTyped'
  BY <1>4, SameDelegatesTyped DEF NodeBooks
<1>12. /\ lost' \in Nat /\ minted' = minted /\ dropped' = dropped
       /\ (0 - y) + x + 0 = (minted' - minted) - (dropped' - dropped) - (lost' - lost)
  BY <1>2, <1>3, <1>4, NodeFacts DEF histVars
<1>13. 0 - y \in Int /\ x \in Int /\ 0 \in Int
  BY <1>2
<1> HIDE DEF Balance
<1> QED BY <1>7, <1>9, <1>10, <1>11, <1>12, <1>13, Together

(* Stake moves from an account to a node.                                  *)
LEMMA AddStep ==
  ASSUME NodeBooks, NodeTypes, NodeFits, NEW a \in Accounts, NEW s \in Subnets,
         NEW n \in NodeIds, NEW x \in Balance, add_node_stake(a, s, n, x)
  PROVE  NodeStep
<1>1. /\ can_withdraw(a, x) /\ withdraw(a, x) /\ lastTx' = [lastTx EXCEPT ![a] = block]
      /\ UNCHANGED <<poolVars, queueVars, bondVars, timeVars, histVars, paused, live>>
      /\ increase_node_stake(s, n, x)
      /\ UNCHANGED <<keyVars, DelegateAccountStake, TotalAccountDelegateStake, lost>>
  BY DEF add_node_stake
<1>2. x \in Nat
  BY MaxBalanceAssumption
<1>3. Books /\ LedgersBounded /\ Fits
  BY NodeFacts DEF NodeBooks
<1>4. x <= Held
  BY <1>1, <1>2, <1>3, PaysAtMost
<1>5. HeldGains(0 - x)
  BY <1>1, <1>3, NoteTx, PaymentBooks
<1>6. InNodes + x <= MaxBalance
  <2>1. \A h, i, m \in Nat : x <= h /\ h + i <= m => i + x <= m
    BY <1>2
  <2> QED BY <1>4, <2>1, NodeFacts, MaxBalanceAssumption
<1>7. NodeTotals' /\ InNodes' = InNodes + x
  BY <1>1, <1>2, <1>6, IncreaseTotals DEF NodeBooks
<1>8. DelegateTotals' /\ InDelegates' = InDelegates + 0
  BY <1>1, SameDelegates, NodeFacts DEF NodeBooks
<1>9. DelegatesTyped'
  BY <1>1, SameDelegatesTyped DEF NodeBooks
<1>10. /\ lost' \in Nat /\ minted' = minted /\ dropped' = dropped
       /\ (0 - x) + x + 0 = (minted' - minted) - (dropped' - dropped) - (lost' - lost)
  BY <1>1, <1>2, NodeFacts DEF histVars
<1>11. 0 - x \in Int /\ x \in Int /\ 0 \in Int
  BY <1>2
<1> HIDE DEF Balance
<1> QED BY <1>5, <1>7, <1>8, <1>9, <1>10, <1>11, Together

(* The block on which removed stake is due.                                *)
LEMMA StakeClaimType ==
  ASSUME Books
  PROVE  StakeClaim \in Nat
<1>1. block \in Nat /\ StakeCooldownEpochs \in Nat /\ EpochLength \in Nat
  BY NodeAssumption, StakingAssumption DEF Books, Inv, TypeOK, TimeOK
<1> QED BY <1>1 DEF StakeClaim

(* Stake moves from a node to a ledger.                                    *)
LEMMA RemoveStep ==
  ASSUME NodeBooks, NodeTypes, NodeFits, NEW a \in Accounts, NEW s \in Subnets,
         NEW n \in NodeIds, NEW x \in Balance, remove_node_stake(a, s, n, x)
  PROVE  NodeStep
<1>1. /\ Unbond(a, StakeClaim, x) /\ lastTx' = [lastTx EXCEPT ![a] = block]
      /\ UNCHANGED <<poolVars, queueVars, timeVars, histVars, paused, live>>
      /\ decrease_node_stake(s, n, x) /\ NodeSubnetStake[s][n] >= x
      /\ UNCHANGED <<keyVars, DelegateAccountStake, TotalAccountDelegateStake, lost>>
  BY DEF remove_node_stake
<1>2. x \in Nat /\ x <= NodeSubnetStake[s][n]
  BY <1>1, MaxBalanceAssumption, InNodesFacts
<1>3. Books /\ LedgersBounded /\ Fits
  BY NodeFacts DEF NodeBooks
<1>4. NodeTotals' /\ InNodes' = InNodes - x /\ x <= InNodes
  <2>1. Taken(x, NodeSubnetStake[s][n]) = x
    BY <1>2, InNodesFacts DEF Taken
  <2> QED BY <1>1, <1>2, <2>1, DecreaseTotals, NodeFacts DEF NodeBooks
<1>5. Held + x <= MaxBalance
  <2>1. \A h, i, m \in Nat : x <= i /\ h + i <= m => h + x <= m
    BY <1>2
  <2> QED BY <1>4, <2>1, NodeFacts, MaxBalanceAssumption
<1>6. PICK claim \in Nat : claim = StakeClaim
  BY <1>3, StakeClaimType
<1>7. HeldGains(x)
  BY <1>1, <1>3, <1>5, <1>6, NoteTx, UnbondBooks
<1>8. DelegateTotals' /\ InDelegates' = InDelegates + 0
  BY <1>1, SameDelegates, NodeFacts DEF NodeBooks
<1>9. DelegatesTyped'
  BY <1>1, SameDelegatesTyped DEF NodeBooks
<1>10. /\ lost' \in Nat /\ minted' = minted /\ dropped' = dropped
       /\ x + (0 - x) + 0 = (minted' - minted) - (dropped' - dropped) - (lost' - lost)
  BY <1>1, <1>2, NodeFacts DEF histVars
<1>11. 0 - x \in Int /\ x \in Int /\ 0 \in Int /\ InNodes' = InNodes + (0 - x)
  BY <1>2, <1>4, NodeFacts
<1> HIDE DEF Balance
<1> QED BY <1>4, <1>7, <1>8, <1>9, <1>10, <1>11, Together

(* What a delegate account holds moves to its ledger.                      *)
LEMMA RemoveDelegateStep ==
  ASSUME NodeBooks, NodeTypes, NodeFits, NEW a \in Accounts, NEW x \in Balance,
         remove_delegate_account_balance(a, x)
  PROVE  NodeStep
<1>1. /\ Unbond(a, StakeClaim, x)
      /\ UNCHANGED <<poolVars, queueVars, timeVars, histVars, paused, live, lastTx>>
      /\ decrease_delegate_account_balance(a, x) /\ DelegateAccountStake[a] >= x
      /\ UNCHANGED <<keyVars, NodeSubnetStake, TotalSubnetStake, TotalStake, lost>>
  BY DEF remove_delegate_account_balance
<1>2. x \in Nat /\ x <= DelegateAccountStake[a]
  BY <1>1, MaxBalanceAssumption, InDelegatesFacts DEF NodeBooks, DelegateTotals
<1>3. Books /\ LedgersBounded /\ Fits
  BY NodeFacts DEF NodeBooks
<1>4. DelegateTotals' /\ InDelegates' = InDelegates - x /\ x <= InDelegates
  BY <1>1, <1>2, DelegatePays, NodeFacts DEF NodeBooks
<1>5. Held + x <= MaxBalance
  <2>1. \A h, i, m \in Nat : x <= i /\ h + i <= m => h + x <= m
    BY <1>2
  <2> QED BY <1>4, <2>1, NodeFacts, MaxBalanceAssumption
<1>6. PICK claim \in Nat : claim = StakeClaim
  BY <1>3, StakeClaimType
<1>7. HeldGains(x)
  <2>1. lastTx' \in [Accounts -> Nat]
    BY <1>1, <1>3 DEF Books, Inv, TypeOK, RestOK
  <2> QED BY <1>1, <1>3, <1>5, <1>6, <2>1, UnbondBooks
<1>8. NodeTotals' /\ InNodes' = InNodes + 0
  BY <1>1, SameNodes, NodeFacts DEF NodeBooks
<1>9. DelegatesTyped'
  BY <1>1, SameDelegatesTyped DEF NodeBooks
<1>10. /\ lost' \in Nat /\ minted' = minted /\ dropped' = dropped
       /\ x + 0 + (0 - x) = (minted' - minted) - (dropped' - dropped) - (lost' - lost)
  BY <1>1, <1>2, NodeFacts DEF histVars
<1>11. 0 - x \in Int /\ x \in Int /\ 0 \in Int /\ InDelegates' = InDelegates + (0 - x)
  BY <1>2, <1>4, NodeFacts
<1> HIDE DEF Balance
<1> QED BY <1>4, <1>7, <1>8, <1>9, <1>10, <1>11, Together

(* A step that is quiet for delegate staking, nodes and delegate accounts. *)
LEMMA QuietStep ==
  ASSUME NodeBooks, NodeTypes, NodeFits, live' \subseteq Pools, DelegatesTyped',
         UNCHANGED <<poolVars, queueVars, bondVars, timeVars, histVars, paused, free, lastTx>>,
         UNCHANGED <<NodeSubnetStake, TotalSubnetStake, TotalStake, DelegateAccountStake,
                     TotalAccountDelegateStake, lost>>
  PROVE  NodeStep
<1>1. HeldGains(0)
  BY QuietBooks, NodeFacts DEF NodeBooks
<1>2. NodeTotals' /\ InNodes' = InNodes + 0
  BY SameNodes, NodeFacts DEF NodeBooks
<1>3. DelegateTotals' /\ InDelegates' = InDelegates + 0
  BY SameDelegates, NodeFacts DEF NodeBooks
<1>4. /\ lost' \in Nat /\ minted' = minted /\ dropped' = dropped
      /\ 0 + 0 + 0 = (minted' - minted) - (dropped' - dropped) - (lost' - lost)
  BY NodeFacts DEF histVars
<1>5. 0 \in Int
  OBVIOUS
<1> QED BY <1>1, <1>2, <1>3, <1>4, <1>5, Together

(* A node or a subnet goes; stakes stay where they are.                    *)
LEMMA RemovalStep ==
  ASSUME NodeBooks, NodeTypes, NodeFits, Removals
  PROVE  NodeStep
<1>1. live \subseteq Pools
  BY DEF NodeBooks, Books, Inv, TypeOK, RestOK
<1>2. PICK s \in Subnets : remove_subnet(s) \/ \E n \in NodeIds : perform_remove_subnet_node(s, n)
  BY DEF Removals
<1>3. CASE remove_subnet(s)
  <2>1. /\ live' \subseteq Pools /\ UNCHANGED keyVars
        /\ UNCHANGED <<poolVars, queueVars, bondVars, timeVars, histVars, paused, free, lastTx>>
        /\ UNCHANGED <<NodeSubnetStake, TotalSubnetStake, TotalStake, DelegateAccountStake,
                       TotalAccountDelegateStake, lost>>
    BY <1>1, <1>3 DEF remove_subnet, do_remove_subnet
  <2> QED BY <2>1, SameDelegatesTyped, QuietStep DEF NodeBooks
<1>4. CASE \E n \in NodeIds : perform_remove_subnet_node(s, n)
  <2>1. /\ live' \subseteq Pools /\ UNCHANGED keyVars
        /\ UNCHANGED <<poolVars, queueVars, bondVars, timeVars, histVars, paused, free, lastTx>>
        /\ UNCHANGED <<NodeSubnetStake, TotalSubnetStake, TotalStake, DelegateAccountStake,
                       TotalAccountDelegateStake, lost>>
    BY <1>1, <1>4 DEF perform_remove_subnet_node
  <2> QED BY <2>1, SameDelegatesTyped, QuietStep DEF NodeBooks
<1> QED BY <1>2, <1>3, <1>4

(* A step of delegate staking fits if the step fits.                       *)
LEMMA StepFitsToo ==
  ASSUME NodeBooks, NodeTypes, NodeFits, NodeStepFits, minted' \in Nat
  PROVE  StepFits
<1>1. PICK e \in Int : e = minted' - minted
  BY NodeFacts
<1>2. \A h, n, d, m \in Nat : h + n + d + e <= m => h + e <= m
  OBVIOUS
<1>3. Held + InNodes + InDelegates + e <= MaxBalance
  BY <1>1 DEF NodeStepFits, AllHeld
<1>4. Held + e <= MaxBalance
  BY <1>2, <1>3, NodeFacts, MaxBalanceAssumption
<1> QED BY <1>1, <1>4 DEF NodeStepFits, StepFits

(* A step of delegate staking.                                             *)
LEMMA DelegateStep ==
  ASSUME NodeBooks, NodeTypes, NodeFits, NodeStepFits, [AnyNext]_vars, OnlyDelegates,
         OwnedTransfersOnly \/ [NoTransfer]_vars
  PROVE  NodeStep
<1>1. Books /\ LedgersBounded /\ Fits
  BY NodeFacts DEF NodeBooks
<1>2. minted' \in Nat
  BY <1>1, MintedType DEF Books
<1>3. StepFits
  BY <1>2, StepFitsToo
<1>4. /\ Books' /\ LedgersBounded' /\ dropped' \in Nat
      /\ Held' = Held + (minted' - minted) - (dropped' - dropped)
  BY <1>1, <1>3, DelegateBooks
<1>5. PICK h \in Int : h = (minted' - minted) - (dropped' - dropped)
  BY <1>2, <1>4, NodeFacts
<1>6. HeldGains(h)
  <2>1. Held' = Held + h
    BY <1>2, <1>4, <1>5, NodeFacts
  <2> QED BY <1>4, <2>1 DEF HeldGains
<1>7. NodeTotals' /\ InNodes' = InNodes + 0
  BY SameNodes, NodeFacts DEF NodeBooks, OnlyDelegates, nodeVars
<1>8. DelegateTotals' /\ InDelegates' = InDelegates + 0
  BY SameDelegates, NodeFacts DEF NodeBooks, OnlyDelegates, nodeVars
<1>9. DelegatesTyped'
  BY SameDelegatesTyped DEF NodeBooks, OnlyDelegates
<1>10. /\ lost' \in Nat
       /\ h + 0 + 0 = (minted' - minted) - (dropped' - dropped) - (lost' - lost)
  BY <1>5, NodeFacts DEF OnlyDelegates, nodeVars
<1>11. 0 \in Int
  OBVIOUS
<1> QED BY <1>6, <1>7, <1>8, <1>9, <1>10, <1>11, Together

(* The amounts of the precompiles fit.                                     *)
LEMMA EvmAmountsFit == EvmAmounts \subseteq Balance
<1> SUFFICES ASSUME NEW word \in EvmWords PROVE unique_saturated_into(word) \in Balance
  BY DEF EvmAmounts
<1>1. word \in Nat
  BY NodeAssumption
<1> QED BY <1>1, MaxBalanceAssumption DEF unique_saturated_into

(* The calls of the staking precompile are those of the pallet, with any   *)
(* amount.                                                                 *)
LEMMA EvmCallsAre ==
  ASSUME NEW a \in Accounts,
         EvmStakingCalls1(a) \/ EvmStakingCalls2(a) \/ EvmStakingCalls3(a) \/ EvmStakingCalls4(a)
  PROVE  \/ AnyCall /\ OnlyDelegates
         \/ \E s \in Subnets, n \in NodeIds, x \in Balance :
              add_node_stake(a, s, n, x) \/ remove_node_stake(a, s, n, x)
         \/ \E x \in Balance : remove_delegate_account_balance(a, x)
<1>1. \A x \in EvmAmounts : x \in Balance
  BY EvmAmountsFit
<1>2. \A p : p \in Subnets \/ p \in Validators => p \in Pools
  BY DEF Pools
<1> HIDE DEF Balance
<1>3. ASSUME EvmStakingCalls1(a)
      PROVE  \/ AnyCall /\ OnlyDelegates
             \/ \E s \in Subnets, n \in NodeIds, x \in Balance :
                  add_node_stake(a, s, n, x) \/ remove_node_stake(a, s, n, x)
  <2>1. claim_unbondings(a) => AnyCall
    BY Zenon DEF AnyCall, AnyWithdrawal
  <2>2. ASSUME NEW s \in Subnets, NEW x \in EvmAmounts, add_delegate_stake(a, s, x)
        PROVE  AnyCall
    BY <1>1, <1>2, <2>2, Zenon DEF AnyCall, AnyDeposit
  <2> QED BY <1>1, <1>3, <2>1, <2>2, Zenon DEF EvmStakingCalls1
<1>4. ASSUME EvmStakingCalls2(a)
      PROVE  AnyCall /\ OnlyDelegates
  <2>1. PICK s \in Subnets, x \in EvmAmounts :
          /\ \/ \E t \in Subnets : swap_from_subnet_to_subnet(a, s, t, x)
             \/ \E to \in Accounts : transfer_delegate_stake(a, to, s, x)
             \/ remove_delegate_stake(a, s, x)
             \/ donate_delegate_stake(a, s, x)
          /\ OnlyDelegates
    BY <1>4 DEF EvmStakingCalls2
  <2>2. x \in Balance /\ s \in Pools
    BY <1>1, <1>2
  <2>3. ASSUME NEW t \in Subnets, swap_from_subnet_to_subnet(a, s, t, x) PROVE AnyCall
    BY <1>2, <2>2, <2>3, Zenon DEF AnyCall, AnySwap, swap_from_subnet_to_subnet
  <2>4. ASSUME NEW to \in Accounts, transfer_delegate_stake(a, to, s, x) PROVE AnyCall
    BY <2>2, <2>4, Zenon DEF AnyCall, AnyTransfer
  <2>5. ASSUME remove_delegate_stake(a, s, x) PROVE AnyCall
    BY <2>2, <2>5, Zenon DEF AnyCall, AnyWithdrawal
  <2>6. ASSUME donate_delegate_stake(a, s, x) PROVE AnyCall
    BY <2>2, <2>6, Zenon DEF AnyCall, AnyDeposit, donate_delegate_stake
  <2> QED BY <2>1, <2>3, <2>4, <2>5, <2>6
<1>5. ASSUME EvmStakingCalls3(a)
      PROVE  AnyCall /\ OnlyDelegates
  <2>1. PICK v \in Validators, x \in EvmAmounts :
          /\ \/ add_validator_delegate_stake(a, v, x)
             \/ \E w \in Validators : swap_from_validator_to_validator(a, v, w, x)
             \/ \E to \in Accounts : transfer_validator_delegate_stake(a, to, v, x)
             \/ remove_validator_delegate_stake(a, v, x)
             \/ donate_validator_delegate_stake(a, v, x)
          /\ OnlyDelegates
    BY <1>5 DEF EvmStakingCalls3
  <2>2. x \in Balance /\ v \in Pools
    BY <1>1, <1>2
  <2>3. ASSUME NEW w \in Validators, swap_from_validator_to_validator(a, v, w, x) PROVE AnyCall
    BY <1>2, <2>2, <2>3, Zenon DEF AnyCall, AnySwap, swap_from_validator_to_validator
  <2>4. ASSUME NEW to \in Accounts, transfer_validator_delegate_stake(a, to, v, x) PROVE AnyCall
    BY <2>2, <2>4, Zenon DEF AnyCall, AnyTransfer, transfer_validator_delegate_stake,
       transfer_delegate_stake
  <2>5. ASSUME remove_validator_delegate_stake(a, v, x) PROVE AnyCall
    BY <2>2, <2>5, Zenon DEF AnyCall, AnyWithdrawal, remove_validator_delegate_stake,
       remove_delegate_stake
  <2>6. ASSUME donate_validator_delegate_stake(a, v, x) PROVE AnyCall
    BY <2>2, <2>6, Zenon DEF AnyCall, AnyDeposit, donate_validator_delegate_stake
  <2>7. ASSUME add_validator_delegate_stake(a, v, x) PROVE AnyCall
    BY <2>2, <2>7, Zenon DEF AnyCall, AnyDeposit, add_validator_delegate_stake,
       add_delegate_stake
  <2> QED BY <2>1, <2>3, <2>4, <2>5, <2>6, <2>7
<1>6. ASSUME EvmStakingCalls4(a)
      PROVE  \/ AnyCall /\ OnlyDelegates
             \/ \E x \in Balance : remove_delegate_account_balance(a, x)
  <2>1. ASSUME NEW v \in Validators, NEW s \in Subnets, NEW x \in EvmAmounts,
               swap_from_validator_to_subnet(a, v, s, x) \/ swap_from_subnet_to_validator(a, s, v, x)
        PROVE  AnyCall
    BY <1>1, <1>2, <2>1, Zenon DEF AnyCall, AnySwap, swap_from_validator_to_subnet,
       swap_from_subnet_to_validator
  <2>2. ASSUME NEW id \in DOMAIN calls, NEW to \in Pools, update_swap_queue(a, id, to)
        PROVE  AnyCall
    BY <2>2, Zenon DEF AnyCall, AnySwap
  <2> QED BY <1>1, <1>6, <2>1, <2>2, Zenon DEF EvmStakingCalls4
<1> QED BY <1>3, <1>4, <1>5, <1>6

(* A call of the precompile.                                               *)
LEMMA EvmStep ==
  ASSUME OwnedTransfersOnly, NodeBooks, NodeTypes, NodeFits, NodeStepFits, EvmCalls
  PROVE  NodeStep
<1>1. PICK a \in Accounts :
        EvmStakingCalls1(a) \/ EvmStakingCalls2(a) \/ EvmStakingCalls3(a) \/ EvmStakingCalls4(a)
  BY DEF EvmCalls
<1>2. \/ AnyCall /\ OnlyDelegates
      \/ \E s \in Subnets, n \in NodeIds, x \in Balance :
           add_node_stake(a, s, n, x) \/ remove_node_stake(a, s, n, x)
      \/ \E x \in Balance : remove_delegate_account_balance(a, x)
  BY <1>1, EvmCallsAre
<1>3. CASE AnyCall /\ OnlyDelegates
  BY <1>3, DelegateStep DEF AnyNext
<1> QED BY <1>2, <1>3, AddStep, RemoveStep, RemoveDelegateStep

(* A call that changes keys keeps delegate accounts accounts.              *)
LEMMA KeyCallsTyped ==
  ASSUME KeyTypes, DelegatesTyped,
         KeyCalls \/ \E a \in Accounts : EvmKeyCalls1(a) \/ EvmKeyCalls2(a)
  PROVE  DelegatesTyped'
<1>1. ASSUME NEW a \in Accounts, NEW h, NEW rate, NEW delegate, delegate.account \in Keys,
             register_validator(a, h, rate, delegate)
      PROVE  DelegatesTyped'
  <2>1. PICK v \in Validators : v = NextValidatorId
    BY <1>1 DEF register_validator
  <2> DEFINE d == [hotkey |-> h, delegate_reward_rate |-> rate,
                   last_delegate_reward_rate_update |-> 0, delegate_account |-> delegate]
  <2>2. ValidatorsData' = [ValidatorsData EXCEPT ![v] = d]
    BY <1>1, <2>1 DEF register_validator
  <2>3. d.delegate_account = delegate /\ "delegate_account" \in DOMAIN d
    OBVIOUS
  <2> HIDE DEF d
  <2>4. \A w \in Validators : ValidatorsData'[w] = IF w = v THEN d ELSE ValidatorsData[w]
    BY <2>2 DEF KeyTypes
  <2> QED BY <1>1, <2>3, <2>4 DEF DelegatesTyped
<1>2. NoDelegate.account \in Keys
  BY DEF NoDelegate, Keys
<1>3. ASSUME NEW d \in Accounts, NEW r PROVE [account |-> d, rate |-> r].account \in Keys
  BY DEF Keys
<1>4. ASSUME NEW a, NEW v, NEW k, update_validator_coldkey(a, v, k)
      PROVE  DelegatesTyped'
  BY <1>4 DEF update_validator_coldkey, DelegatesTyped
<1>5. ASSUME NEW a, NEW v \in Validators, NEW k, update_validator_hotkey(a, v, k)
      PROVE  DelegatesTyped'
  <2>1. \/ ValidatorsData' = ValidatorsData
        \/ ValidatorsData' = [ValidatorsData EXCEPT ![v].hotkey = k]
    BY <1>5 DEF update_validator_hotkey, keyVars
  <2>2. \A w \in Validators :
          /\ DOMAIN ValidatorsData'[w] = DOMAIN ValidatorsData[w]
          /\ ValidatorsData'[w].delegate_account = ValidatorsData[w].delegate_account
    BY <2>1 DEF KeyTypes, DelegatesTyped
  <2> QED BY <2>2 DEF DelegatesTyped
<1>6. ASSUME NEW a, NEW v \in Validators, NEW r, update_validator_delegate_reward_rate(a, v, r)
      PROVE  DelegatesTyped'
  <2>1. ValidatorsData' = [ValidatorsData EXCEPT ![v].delegate_reward_rate = r,
                                                 ![v].last_delegate_reward_rate_update = block]
    BY <1>6 DEF update_validator_delegate_reward_rate
  <2>2. \A w \in Validators :
          /\ DOMAIN ValidatorsData'[w] = DOMAIN ValidatorsData[w]
          /\ ValidatorsData'[w].delegate_account = ValidatorsData[w].delegate_account
    BY <2>1 DEF KeyTypes
  <2> QED BY <2>2 DEF DelegatesTyped
<1>7. ASSUME NEW a, NEW v \in Validators, NEW k \in Keys, NEW r,
             update_validator_delegate_account(a, v, k, r)
      PROVE  DelegatesTyped'
  <2>1. PICK new : /\ ValidatorsData' = [ValidatorsData EXCEPT ![v].delegate_account = new]
                   /\ new.account = IF k # NoKey THEN k
                                    ELSE ValidatorsData[v].delegate_account.account
    <3> DEFINE acc == IF k # NoKey THEN k ELSE ValidatorsData[v].delegate_account.account
               rec == [account |-> acc,
                       rate |-> IF r # Keep THEN r ELSE ValidatorsData[v].delegate_account.rate]
    <3>1. ValidatorsData' = [ValidatorsData EXCEPT ![v].delegate_account = rec]
      BY <1>7 DEF update_validator_delegate_account
    <3>2. rec.account = acc
      OBVIOUS
    <3> HIDE DEF rec
    <3> QED BY <3>1, <3>2
  <2>2. new.account \in Keys
    BY <1>7, <2>1 DEF DelegatesTyped, Keys
  <2>3. ASSUME NEW w \in Validators
        PROVE  /\ DOMAIN ValidatorsData'[w] = DOMAIN ValidatorsData[w]
               /\ ValidatorsData'[w].delegate_account =
                    IF w = v THEN new ELSE ValidatorsData[w].delegate_account
    BY <2>1 DEF KeyTypes, DelegatesTyped
  <2> QED BY <2>2, <2>3 DEF DelegatesTyped
<1>8. CASE KeyCalls
  BY <1>1, <1>2, <1>3, <1>4, <1>5, <1>6, <1>7, <1>8 DEF KeyCalls, Keys
<1>9. CASE \E a \in Accounts : EvmKeyCalls1(a) \/ EvmKeyCalls2(a)
  BY <1>1, <1>2, <1>3, <1>4, <1>5, <1>6, <1>7, <1>9 DEF EvmKeyCalls1, EvmKeyCalls2, Keys
<1> QED BY <1>8, <1>9

(* What a call that changes keys leaves alone.                             *)
LEMMA KeyCallsQuiet ==
  ASSUME live \subseteq Pools,
         KeyCalls \/ \E a \in Accounts : EvmKeyCalls1(a) \/ EvmKeyCalls2(a)
  PROVE  /\ live' \subseteq Pools
         /\ UNCHANGED <<poolVars, queueVars, bondVars, timeVars, histVars, paused, free, lastTx>>
<1> DEFINE Q == /\ live' \subseteq Pools
                /\ UNCHANGED <<poolVars, queueVars, bondVars, timeVars, histVars, paused, free,
                               lastTx>>
<1>1. ASSUME NEW a, NEW h, NEW rate, NEW delegate, register_validator(a, h, rate, delegate)
      PROVE  Q
  <2>1. PICK v \in Validators : v = NextValidatorId
    BY <1>1 DEF register_validator
  <2>2. do_register_validator(v)
    BY <1>1, <2>1 DEF register_validator
  <2>3. live' = live \cup {v} /\ v \in Pools
    BY <2>2 DEF do_register_validator, Pools
  <2> QED BY <2>2, <2>3 DEF do_register_validator
<1>2. KeyCall => Q
  BY DEF KeyCall
<1> HIDE DEF Q
<1>3. ASSUME NEW a, NEW v, NEW k, NEW r,
             \/ update_validator_coldkey(a, v, k) \/ update_validator_hotkey(a, v, k)
             \/ update_validator_delegate_reward_rate(a, v, r)
             \/ update_validator_delegate_account(a, v, k, r)
      PROVE  Q
  BY <1>2, <1>3 DEF update_validator_coldkey, update_validator_hotkey,
     update_validator_delegate_reward_rate, update_validator_delegate_account
<1>4. Q
  BY <1>1, <1>3 DEF KeyCalls, EvmKeyCalls1, EvmKeyCalls2
<1> QED BY <1>4 DEF Q

(* A call that changes keys.                                               *)
LEMMA KeyStep ==
  ASSUME NodeBooks, NodeTypes, KeyTypes, NodeFits, UNCHANGED nodeVars,
         KeyCalls \/ \E a \in Accounts : EvmKeyCalls1(a) \/ EvmKeyCalls2(a)
  PROVE  NodeStep
<1>1. live \subseteq Pools
  BY DEF NodeBooks, Books, Inv, TypeOK, RestOK
<1>2. /\ live' \subseteq Pools
      /\ UNCHANGED <<poolVars, queueVars, bondVars, timeVars, histVars, paused, free, lastTx>>
  BY <1>1, KeyCallsQuiet
<1>3. DelegatesTyped'
  BY KeyCallsTyped DEF NodeBooks
<1> QED BY <1>2, <1>3, QuietStep DEF nodeVars
--------------------------------------------------------------------------------
(***************************************************************************)
(* The emission step of a subnet.                                          *)
(***************************************************************************)

(* A percentage of an amount is at most the amount.                        *)
LEMMA PercentWithin ==
  ASSUME NEW x \in Balance, NEW rate \in 0 .. Full
  PROVE  percent_mul(x, rate) \in Balance /\ percent_mul(x, rate) <= x
<1>1. x \in Nat /\ rate \in Nat /\ rate <= Full /\ Full \in Nat /\ Full > 0 /\ x <= MaxBalance
  BY MaxBalanceAssumption, KeysAssumption
<1>2. PICK p \in Nat : p = x * rate
  BY <1>1
<1>3. p <= x * Full
  BY <1>1, <1>2, Product
<1>4. PICK q \in Nat : q = p \div Full /\ Full * q <= p
  BY <1>1, <1>2, FloorDiv
<1>5. q <= x
  <2> SUFFICES ASSUME q >= x + 1 PROVE FALSE
    BY <1>1, <1>4
  <2>1. Full * (x + 1) <= Full * q
    BY <1>1, <1>4, Product
  <2>2. Full * (x + 1) = x * Full + Full
    BY <1>1
  <2>3. PICK y \in Nat : y = x * Full
    BY <1>1
  <2>4. PICK z \in Nat : z = Full * q
    BY <1>1
  <2> QED BY <1>1, <1>2, <1>3, <1>4, <2>1, <2>2, <2>3, <2>4
<1>6. q \in Balance
  BY <1>1, <1>4, <1>5, MaxBalanceAssumption
<1> QED BY <1>2, <1>4, <1>5, <1>6 DEF percent_mul, MulDiv

(* A slash of at most 100 % takes no more than there is.                   *)
LEMMA SlashWithin ==
  ASSUME NEW stake \in Balance, NEW delta \in AttestationDeltas
  PROVE  /\ get_slash_amount(stake, delta) \in Nat
         /\ BaseSlashPercentage <= Full => get_slash_amount(stake, delta) <= stake
<1>1. /\ BaseSlashPercentage \in Nat /\ delta \in 0 .. Full /\ MaxSlashAmount \in Nat
      /\ Full \in Nat
  BY NodeAssumption, KeysAssumption
<1>2. PICK x \in Balance : /\ x = percent_mul(stake, BaseSlashPercentage)
                           /\ BaseSlashPercentage <= Full => x <= stake
  <2>1. percent_mul(stake, BaseSlashPercentage) \in Balance
    BY MaxBalanceAssumption DEF percent_mul, MulDiv
  <2>2. ASSUME BaseSlashPercentage <= Full
        PROVE  percent_mul(stake, BaseSlashPercentage) <= stake
    <3>1. BaseSlashPercentage \in 0 .. Full
      BY <1>1, <2>2
    <3> QED BY <3>1, PercentWithin
  <2> QED BY <2>1, <2>2
<1>3. PICK y \in Balance : y = percent_mul(x, delta) /\ y <= x
  BY <1>1, PercentWithin
<1>4. get_slash_amount(stake, delta) = IF y > MaxSlashAmount THEN MaxSlashAmount ELSE y
  BY <1>2, <1>3 DEF get_slash_amount
<1>5. x \in Nat /\ y \in Nat /\ stake \in Nat
  BY MaxBalanceAssumption
<1> QED BY <1>1, <1>2, <1>3, <1>4, <1>5

(* A reward to the delegators of a validator, if it has any.               *)
LEMMA RewardPool ==
  ASSUME Books, Fits, PoolsOK', NEW v \in Validators, NEW x \in Nat, InPools + x <= MaxBalance,
         pool'[v].shares < MaxBalance, shares' = shares,
         total' = [total EXCEPT !["validator"] = SatAdd(@, x)],
         \/ pool' = [pool EXCEPT ![v] = do_increase_delegate_stake(@, x)]
         \/ pool' = pool /\ x = 0
  PROVE  /\ InPools' = InPools + x /\ \A k \in Kinds : total'[k] = KindTotal(k)'
         /\ \A q \in Pools : FairStep(q)
<1>1. v \in Pools /\ Kind(v) = "validator" /\ Kind(v) \in Kinds /\ PoolsOK
  BY StakingAssumption DEF Kind, Kinds, Pools, Books, Inv, TypeOK
<1>2. /\ pool[v].balance \in Nat /\ total[Kind(v)] \in Nat /\ InPools \in Nat
      /\ pool[v].balance <= total[Kind(v)] /\ total[Kind(v)] <= InPools
  BY <1>1, BookFacts, WithinPools
<1>3. pool[v].balance + x <= MaxBalance /\ total[Kind(v)] + x <= MaxBalance
  <2>1. \A i, j, k, m \in Nat : i <= j /\ j <= k /\ k + x <= m => i + x <= m /\ j + x <= m
    OBVIOUS
  <2> QED BY <1>2, <2>1, MaxBalanceAssumption
<1>4. total'[Kind(v)] = total[Kind(v)] + x /\ \A k \in Kinds : k # Kind(v) => total'[k] = total[k]
  <2>1. /\ total'[Kind(v)] = SatAdd(total[Kind(v)], x)
        /\ \A k \in Kinds : k # Kind(v) => total'[k] = total[k]
    BY <1>1 DEF PoolsOK
  <2> QED BY <1>2, <1>3, <2>1, Exact
<1>5. \A q \in Pools : SharesHeld(q)' = SharesHeld(q)
  BY DEF SharesHeld
<1>6. CASE pool' = [pool EXCEPT ![v] = do_increase_delegate_stake(@, x)]
  <2>1. /\ pool'[v] = do_increase_delegate_stake(pool[v], x)
        /\ pool[v] \in [balance : Balance, shares : Balance]
        /\ \A q \in Pools : q # v => pool'[q] = pool[q]
    BY <1>1, <1>6 DEF PoolsOK
  <2>2. /\ pool'[v].balance = pool[v].balance + x
        /\ \E dead \in {0, MIN_LIQUIDITY} :
             /\ pool'[v].shares = pool[v].shares + dead
             /\ pool[v].shares = 0 => dead = MIN_LIQUIDITY
             /\ pool[v].balance # 0 /\ pool[v].shares # 0 => dead = 0
    BY <1>3, <2>1, Grown
  <2>3. FairStep(v)
    <3>1. PICK dead \in {0, MIN_LIQUIDITY} :
             /\ pool'[v].shares = pool[v].shares + dead
             /\ pool[v].shares = 0 => dead = MIN_LIQUIDITY
             /\ pool[v].balance # 0 /\ pool[v].shares # 0 => dead = 0
      BY <2>2
    <3> QED BY <1>1, <1>5, <2>2, <3>1, BookFacts, GrownPool
  <2>4. ASSUME NEW q \in Pools, q # v PROVE FairStep(q)
    BY <1>1, <1>5, <2>1, <2>4, BookFacts, StillPool
  <2>5. InPools' = InPools + x /\ \A k \in Kinds : total'[k] = KindTotal(k)'
    BY <1>1, <1>4, <2>1, <2>2, BookFacts, PoolTally
  <2> QED BY <2>3, <2>4, <2>5
<1>7. CASE pool' = pool /\ x = 0
  <2>1. pool'[v].balance = pool[v].balance + x
    BY <1>2, <1>7
  <2>2. ASSUME NEW q \in Pools PROVE FairStep(q)
    <3>1. /\ pool'[q].balance = pool[q].balance /\ pool'[q].shares = pool[q].shares
          /\ SharesHeld(q)' = SharesHeld(q)
      BY <1>5, <1>7
    <3> QED BY <1>1, <3>1, BookFacts, StillPool
  <2>3. InPools' = InPools + x /\ \A k \in Kinds : total'[k] = KindTotal(k)'
    <3>1. \A q \in Pools : q # v => pool'[q].balance = pool[q].balance
      BY <1>7
    <3>2. x \in Int /\ \A k \in Kinds : total[k] = KindTotal(k)
      BY BookFacts
    <3> QED BY <1>1, <1>4, <2>1, <3>1, <3>2, PoolTally
  <2> QED BY <2>2, <2>3
<1> QED BY <1>6, <1>7

(* The parts of a reward: to the delegators, the delegate account and the  *)
(* node.                                                                   *)
LEMMA RewardParts ==
  ASSUME NEW s \in Subnets, NEW n \in NodeIds, NEW r, RewardNode(s, n, r),
         NEW v, v = SubnetNodeValidatorId[s][n],
         NEW to, to = ValidatorsData[v].delegate_account.account
  PROVE  \E x, y, z \in Balance :
           /\ \/ pool' = [pool EXCEPT ![v] = do_increase_delegate_stake(@, x)]
              \/ pool' = pool /\ x = 0
           /\ total' = [total EXCEPT !["validator"] = SatAdd(@, x)]
           /\ \/ /\ to # NoKey
                 /\ DelegateAccountStake' = [DelegateAccountStake EXCEPT ![to] = SatAdd(@, y)]
              \/ DelegateAccountStake' = DelegateAccountStake /\ y = 0
           /\ TotalAccountDelegateStake' = SatAdd(TotalAccountDelegateStake, y)
           /\ increase_node_stake(s, n, z)
           /\ minted' = minted + x + y + z /\ lost' = lost
<1>1. \A i, j, k : MulDiv(i, j, k) \in Balance
  BY MaxBalanceAssumption DEF MulDiv
<1>2. 0 \in Balance
  BY MaxBalanceAssumption
<1> HIDE DEF Balance
<1> DEFINE data == ValidatorsData[v]
           delegated == data.delegate_reward_rate # 0 /\ pool[v].shares # 0
           x == IF delegated THEN percent_mul(r, data.delegate_reward_rate) ELSE 0
           y == IF to # NoKey THEN percent_mul(SatSub(r, x), data.delegate_account.rate) ELSE 0
           z == SatSub(SatSub(r, x), y)
<1>3. x \in Balance /\ y \in Balance /\ z \in Balance
  BY <1>1, <1>2, SatSubType DEF percent_mul
<1>4. /\ pool' = IF delegated THEN [pool EXCEPT ![v] = do_increase_delegate_stake(@, x)] ELSE pool
      /\ total' = [total EXCEPT !["validator"] = SatAdd(@, x)]
      /\ DelegateAccountStake' =
           IF to # NoKey THEN [DelegateAccountStake EXCEPT ![to] = SatAdd(@, y)]
           ELSE DelegateAccountStake
      /\ TotalAccountDelegateStake' = SatAdd(TotalAccountDelegateStake, y)
      /\ increase_node_stake(s, n, z)
      /\ minted' = minted + x + y + z /\ lost' = lost
  BY Zenon DEF RewardNode
<1>5. ~delegated => x = 0
  OBVIOUS
<1>6. to = NoKey => y = 0
  OBVIOUS
<1> HIDE DEF x, y, z, delegated
<1>7. /\ \/ pool' = [pool EXCEPT ![v] = do_increase_delegate_stake(@, x)]
         \/ pool' = pool /\ x = 0
      /\ \/ /\ to # NoKey
            /\ DelegateAccountStake' = [DelegateAccountStake EXCEPT ![to] = SatAdd(@, y)]
         \/ DelegateAccountStake' = DelegateAccountStake /\ y = 0
  BY <1>4, <1>5, <1>6
<1>8. PICK X \in Balance, Y \in Balance, Z \in Balance : X = x /\ Y = y /\ Z = z
  BY <1>3
<1>9. /\ \/ pool' = [pool EXCEPT ![v] = do_increase_delegate_stake(@, X)]
         \/ pool' = pool /\ X = 0
      /\ total' = [total EXCEPT !["validator"] = SatAdd(@, X)]
      /\ \/ /\ to # NoKey
            /\ DelegateAccountStake' = [DelegateAccountStake EXCEPT ![to] = SatAdd(@, Y)]
         \/ DelegateAccountStake' = DelegateAccountStake /\ Y = 0
      /\ TotalAccountDelegateStake' = SatAdd(TotalAccountDelegateStake, Y)
      /\ increase_node_stake(s, n, Z)
      /\ minted' = minted + X + Y + Z /\ lost' = lost
  BY <1>4, <1>7, <1>8, Zenon
<1> QED BY <1>9, Zenon

(* The types of the pools after an emission.                               *)
LEMMA EmissionTypes ==
  ASSUME Books, EmissionBlock
  PROVE  PoolsOK' /\ left' \in Nat
<1>1. PoolsOK /\ left' \in Nat
  BY StakingAssumption DEF Books, Inv, TypeOK, EmissionBlock
<1>2. netFlow' \in [Subnets -> Int] /\ shares' = shares
  BY <1>1 DEF EmissionBlock, TakeNetFlows, PoolsOK
<1>3. PICK s \in Subnets, n \in NodeIds :
        \/ \E r \in NodeRewards : RewardNode(s, n, r) \/ handle_validator_reward(s, n, r)
        \/ \E d \in AttestationDeltas : slash_validator(s, n, d)
  BY DEF EmissionBlock
<1>4. ASSUME NEW r, RewardNode(s, n, r)
      PROVE  /\ pool' \in [Pools -> [balance : Balance, shares : Balance]]
             /\ total' \in [Kinds -> Balance]
  <2>1. PICK v, x :
          /\ x \in Balance
          /\ \/ pool' = [pool EXCEPT ![v] = do_increase_delegate_stake(@, x)]
             \/ pool' = pool /\ x = 0
          /\ total' = [total EXCEPT !["validator"] = SatAdd(@, x)]
    BY <1>4, RewardParts
  <2>2. \A p \in Pools : \A y :
          do_increase_delegate_stake(pool[p], y) \in [balance : Balance, shares : Balance]
    BY <1>1, SatAddType DEF do_increase_delegate_stake, PoolsOK
  <2>3. pool' \in [Pools -> [balance : Balance, shares : Balance]]
    BY <1>1, <2>1, <2>2 DEF PoolsOK
  <2>4. total' \in [Kinds -> Balance]
    BY <1>1, <2>1, SatAddType DEF PoolsOK
  <2> QED BY <2>3, <2>4
<1>5. /\ pool' \in [Pools -> [balance : Balance, shares : Balance]]
      /\ total' \in [Kinds -> Balance]
  <2>1. CASE UNCHANGED <<pool, total>>
    BY <1>1, <2>1 DEF PoolsOK
  <2> QED BY <1>3, <1>4, <2>1 DEF handle_validator_reward, slash_validator
<1> QED BY <1>1, <1>2, <1>5 DEF PoolsOK

(* What an emission leaves alone.                                          *)
LEMMA EmissionFrame ==
  ASSUME EmissionBlock
  PROVE  /\ ~paused /\ block' = block + 1 /\ phase' = "swaps" /\ shares' = shares
         /\ dropped' = dropped /\ UNCHANGED keyVars
         /\ UNCHANGED <<queueVars, bondVars, dropped, paused, live, free, lastTx>>
  BY DEF EmissionBlock

(* A reward goes to the delegators of the validator, to its delegate       *)
(* account and to the node, and is minted.                                 *)
LEMMA RewardStep ==
  ASSUME NodeBooks, NodeTypes, NodeFits, NodeStepFits, EmissionBlock,
         NEW s \in Subnets, NEW n \in NodeIds, NEW r,
         SubnetNodeValidatorId[s][n] # 0, RewardNode(s, n, r)
  PROVE  NodeStep
<1>1. PICK v \in Validators : v = SubnetNodeValidatorId[s][n]
  BY DEF NodeTypes
<1>2. PICK to \in Keys : to = ValidatorsData[v].delegate_account.account
  BY DEF NodeBooks, DelegatesTyped
<1>3. PICK x \in Balance, y \in Balance, z \in Balance :
        /\ \/ pool' = [pool EXCEPT ![v] = do_increase_delegate_stake(@, x)]
           \/ pool' = pool /\ x = 0
        /\ total' = [total EXCEPT !["validator"] = SatAdd(@, x)]
        /\ \/ /\ to # NoKey
              /\ DelegateAccountStake' = [DelegateAccountStake EXCEPT ![to] = SatAdd(@, y)]
           \/ DelegateAccountStake' = DelegateAccountStake /\ y = 0
        /\ TotalAccountDelegateStake' = SatAdd(TotalAccountDelegateStake, y)
        /\ increase_node_stake(s, n, z)
        /\ minted' = minted + x + y + z /\ lost' = lost
  BY <1>1, <1>2, RewardParts
<1>4. x \in Nat /\ y \in Nat /\ z \in Nat /\ minted' \in Nat
  BY <1>3, NodeFacts, MaxBalanceAssumption
<1>5. Books /\ LedgersBounded /\ Fits
  BY NodeFacts DEF NodeBooks
<1>6. InPools + x <= MaxBalance /\ InDelegates + y <= MaxBalance /\ InNodes + z <= MaxBalance
  <2>1. /\ InAccounts \in Nat /\ InPools \in Nat /\ InLedgers \in Nat /\ InQueue \in Nat
    BY <1>5, BookFacts
  <2>2. InPools <= Held
    BY <2>1 DEF Held
  <2>3. PICK e \in Int : e = minted' - minted /\ e = x + y + z
    BY <1>3, <1>4, NodeFacts
  <2>4. Held + InNodes + InDelegates + (x + y + z) <= MaxBalance
    BY <2>3 DEF NodeStepFits, AllHeld
  <2>5. \A p, h, i, d, m \in Nat : p <= h /\ h + i + d + (x + y + z) <= m
          => p + x <= m /\ d + y <= m /\ i + z <= m
    BY <1>4
  <2> QED BY <2>1, <2>2, <2>4, <2>5, NodeFacts, MaxBalanceAssumption
<1>7. PoolsOK' /\ left' \in Nat
  BY <1>5, EmissionTypes
<1>8. pool'[v].shares < MaxBalance
  BY DEF NodeStepFits, Pools
<1>9. /\ InPools' = InPools + x /\ \A k \in Kinds : total'[k] = KindTotal(k)'
      /\ \A q \in Pools : FairStep(q)
  BY <1>3, <1>4, <1>5, <1>6, <1>7, <1>8, EmissionFrame, RewardPool
<1>10. HeldGains(x)
  <2>1. x \in Int
    BY <1>4
  <2> QED BY <1>4, <1>5, <1>7, <1>9, <2>1, EmissionFrame, BlockBooks
<1>11. NodeTotals' /\ InNodes' = InNodes + z
  BY <1>3, <1>4, <1>6, IncreaseTotals DEF NodeBooks
<1>12. DelegateTotals' /\ InDelegates' = InDelegates + y
  <2>1. CASE /\ to # NoKey
             /\ DelegateAccountStake' = [DelegateAccountStake EXCEPT ![to] = SatAdd(@, y)]
    <3>1. to \in Accounts
      BY <2>1 DEF Keys
    <3> QED BY <1>3, <1>4, <1>6, <2>1, <3>1, DelegatePaid DEF NodeBooks
  <2>2. CASE DelegateAccountStake' = DelegateAccountStake /\ y = 0
    <3>1. TotalAccountDelegateStake' = TotalAccountDelegateStake
      BY <1>3, <1>6, <2>2, Exact, NodeFacts DEF NodeBooks, DelegateTotals
    <3> QED BY <2>2, <3>1, SameDelegates, NodeFacts DEF NodeBooks
  <2> QED BY <1>3, <2>1, <2>2
<1>13. DelegatesTyped'
  BY SameDelegatesTyped, EmissionFrame DEF NodeBooks
<1>14. /\ lost' \in Nat
       /\ x + z + y = (minted' - minted) - (dropped' - dropped) - (lost' - lost)
  BY <1>3, <1>4, EmissionFrame, NodeFacts
<1>15. x \in Int /\ y \in Int /\ z \in Int
  BY <1>4
<1> HIDE DEF Balance
<1> QED BY <1>10, <1>11, <1>12, <1>13, <1>14, <1>15, Together

(* The validator's own reward is minted into its node.                     *)
LEMMA ValidatorRewardStep ==
  ASSUME NodeBooks, NodeTypes, NodeFits, NodeStepFits, EmissionBlock,
         NEW s \in Subnets, NEW n \in NodeIds, NEW r \in Balance,
         handle_validator_reward(s, n, r)
  PROVE  NodeStep
<1>1. /\ increase_node_stake(s, n, r) /\ minted' = minted + r
      /\ UNCHANGED <<pool, total, DelegateAccountStake, TotalAccountDelegateStake, lost>>
  BY DEF handle_validator_reward
<1>2. r \in Nat /\ minted' \in Nat
  BY <1>1, NodeFacts, MaxBalanceAssumption
<1>3. Books /\ LedgersBounded /\ Fits
  BY NodeFacts DEF NodeBooks
<1>4. InNodes + r <= MaxBalance
  <2>1. PICK e \in Int : e = minted' - minted /\ e = r
    BY <1>1, <1>2, NodeFacts
  <2>2. Held + InNodes + InDelegates + r <= MaxBalance
    BY <2>1 DEF NodeStepFits, AllHeld
  <2>3. \A h, i, d, m \in Nat : h + i + d + r <= m => i + r <= m
    BY <1>2
  <2> QED BY <2>2, <2>3, NodeFacts, MaxBalanceAssumption
<1>5. PoolsOK' /\ left' \in Nat
  BY <1>3, EmissionTypes
<1>6. /\ InPools' = InPools /\ \A k \in Kinds : total'[k] = KindTotal(k)'
      /\ \A q \in Pools : FairStep(q)
  BY <1>1, <1>3, EmissionFrame, SamePools
<1>7. HeldGains(0)
  <2>1. InPools' = InPools + 0 /\ 0 \in Int
    BY <1>3, <1>6, BookFacts
  <2> QED BY <1>2, <1>3, <1>5, <1>6, <2>1, EmissionFrame, BlockBooks
<1>8. NodeTotals' /\ InNodes' = InNodes + r
  BY <1>1, <1>2, <1>4, IncreaseTotals DEF NodeBooks
<1>9. DelegateTotals' /\ InDelegates' = InDelegates + 0
  BY <1>1, SameDelegates, NodeFacts DEF NodeBooks
<1>10. DelegatesTyped'
  BY SameDelegatesTyped, EmissionFrame DEF NodeBooks
<1>11. /\ lost' \in Nat
       /\ 0 + r + 0 = (minted' - minted) - (dropped' - dropped) - (lost' - lost)
  BY <1>1, <1>2, EmissionFrame, NodeFacts
<1>12. 0 \in Int /\ r \in Int
  BY <1>2
<1> HIDE DEF Balance
<1> QED BY <1>7, <1>8, <1>9, <1>10, <1>11, <1>12, Together

(* A slash is lost to the node and to everybody.                           *)
LEMMA SlashStep ==
  ASSUME NodeBooks, NodeTypes, NodeFits, EmissionBlock,
         NEW s \in Subnets, NEW n \in NodeIds, NEW delta \in AttestationDeltas,
         slash_validator(s, n, delta)
  PROVE  NodeStep
<1>1. PICK stake \in Balance : stake = NodeSubnetStake[s][n]
  BY DEF NodeTypes
<1>2. PICK x \in Nat : /\ x = get_slash_amount(stake, delta)
                       /\ BaseSlashPercentage <= Full => x <= stake
  BY SlashWithin
<1>3. /\ decrease_node_stake(s, n, x) /\ lost' = lost + Taken(x, stake) /\ minted' = minted
      /\ UNCHANGED <<pool, total, DelegateAccountStake, TotalAccountDelegateStake>>
  BY <1>1, <1>2 DEF slash_validator, Taken
<1>4. Books /\ LedgersBounded /\ Fits
  BY NodeFacts DEF NodeBooks
<1>5. PoolsOK' /\ left' \in Nat
  BY <1>4, EmissionTypes
<1>6. /\ InPools' = InPools /\ \A k \in Kinds : total'[k] = KindTotal(k)'
      /\ \A q \in Pools : FairStep(q)
  BY <1>3, <1>4, EmissionFrame, SamePools
<1>7. HeldGains(0)
  <2>1. InPools' = InPools + 0 /\ 0 \in Int /\ minted' \in Nat
    BY <1>3, <1>4, <1>6, BookFacts
  <2> QED BY <1>4, <1>5, <1>6, <2>1, EmissionFrame, BlockBooks
<1>8. PICK y \in Nat : y = Taken(x, stake) /\ NodeTotals' /\ InNodes' = InNodes - y
  BY <1>1, <1>2, <1>3, DecreaseTotals, NodeFacts DEF NodeBooks
<1>9. DelegateTotals' /\ InDelegates' = InDelegates + 0
  BY <1>3, SameDelegates, NodeFacts DEF NodeBooks
<1>10. DelegatesTyped'
  BY SameDelegatesTyped, EmissionFrame DEF NodeBooks
<1>11. /\ lost' \in Nat
       /\ 0 + (0 - y) + 0 = (minted' - minted) - (dropped' - dropped) - (lost' - lost)
  BY <1>3, <1>8, EmissionFrame, NodeFacts
<1>12. 0 \in Int /\ 0 - y \in Int /\ InNodes' = InNodes + (0 - y)
  BY <1>8, NodeFacts
<1> QED BY <1>7, <1>8, <1>9, <1>10, <1>11, <1>12, Together

(* The emission step of a subnet.                                          *)
LEMMA EmissionStep ==
  ASSUME NodeBooks, NodeTypes, NodeFits, NodeStepFits, EmissionBlock
  PROVE  NodeStep
<1>1. PICK s \in Subnets, n \in NodeIds :
        /\ SubnetNodeValidatorId[s][n] # 0
        /\ \/ \E r \in NodeRewards : RewardNode(s, n, r) \/ handle_validator_reward(s, n, r)
           \/ \E d \in AttestationDeltas : slash_validator(s, n, d)
  BY DEF EmissionBlock
<1>2. \A r \in NodeRewards : r \in Balance
  BY NodeAssumption
<1> HIDE DEF Balance
<1> QED BY <1>1, <1>2, RewardStep, ValidatorRewardStep, SlashStep

(* Every step keeps the books.                                             *)
LEMMA NextStep ==
  ASSUME OwnedTransfersOnly, NodeBooks, NodeTypes, KeyTypes, NodeFits, NodeStepFits,
         [NodeNext]_allVars
  PROVE  NodeStep
<1>1. \A x \in StakeAmounts : x \in Balance
  BY NodeAssumption
<1> HIDE DEF Balance
<1>2. CASE NodeCalls
  BY <1>1, <1>2, RegisterStep, AddStep, RemoveStep, RemoveDelegateStep DEF NodeCalls
<1>3. CASE Removals
  BY <1>3, RemovalStep
<1>4. CASE EvmCalls
  BY <1>4, EvmStep
<1>5. CASE Hooks
  <2>1. CASE EmissionBlock
    BY <2>1, EmissionStep
  <2>2. CASE Hook /\ OnlyDelegates
    BY <2>2, DelegateStep DEF AnyNext
  <2> QED BY <1>5, <2>1, <2>2 DEF Hooks
<1>6. CASE /\ KeyCalls \/ \E a \in Accounts : EvmKeyCalls1(a) \/ EvmKeyCalls2(a)
           /\ UNCHANGED nodeVars
  BY <1>6, KeyStep
<1>7. CASE UNCHANGED allVars
  BY <1>7, DelegateStep DEF allVars, OnlyDelegates
<1> QED BY <1>2, <1>3, <1>4, <1>5, <1>6, <1>7 DEF NodeNext

(* What is minted is a number.                                             *)
LEMMA NodeMinted ==
  ASSUME minted \in Nat, NodeTypes, [NodeNext]_allVars
  PROVE  minted' \in Nat
<1>1. \A x \in Balance : x \in Nat
  BY MaxBalanceAssumption
<1>2. \A r \in NodeRewards : r \in Nat
  BY <1>1, NodeAssumption
<1> HIDE DEF Balance
<1>3. ASSUME NEW a, NEW s, NEW n, NEW x, NEW v,
             \/ register_subnet_node(a, v, s, x) \/ add_node_stake(a, s, n, x)
             \/ remove_node_stake(a, s, n, x) \/ remove_delegate_account_balance(a, x)
      PROVE  minted' = minted
  BY <1>3 DEF register_subnet_node, add_node_stake, remove_node_stake,
     remove_delegate_account_balance, histVars
<1>4. CASE NodeCalls
  BY <1>3, <1>4 DEF NodeCalls
<1>5. CASE Removals
  BY <1>5 DEF Removals, remove_subnet, do_remove_subnet, perform_remove_subnet_node, histVars
<1>6. CASE EvmCalls
  <2>1. PICK a \in Accounts :
          EvmStakingCalls1(a) \/ EvmStakingCalls2(a) \/ EvmStakingCalls3(a) \/ EvmStakingCalls4(a)
    BY <1>6 DEF EvmCalls
  <2>2. \/ AnyCall /\ OnlyDelegates
        \/ \E s \in Subnets, n \in NodeIds, x \in Balance :
             add_node_stake(a, s, n, x) \/ remove_node_stake(a, s, n, x)
        \/ \E x \in Balance : remove_delegate_account_balance(a, x)
    BY <2>1, EvmCallsAre
  <2>3. AnyCall => minted' \in Nat
    BY MintedType DEF AnyNext
  <2> QED BY <1>3, <2>2, <2>3
<1>7. CASE Hooks
  <2>1. CASE Hook
    BY <2>1, MintedType DEF AnyNext
  <2>2. CASE EmissionBlock
    <3>1. PICK s \in Subnets, n \in NodeIds :
            \/ \E r \in NodeRewards : RewardNode(s, n, r) \/ handle_validator_reward(s, n, r)
            \/ \E d \in AttestationDeltas : slash_validator(s, n, d)
      BY <2>2 DEF EmissionBlock
    <3>2. ASSUME NEW r, RewardNode(s, n, r) PROVE minted' \in Nat
      <4>1. \E x, y, z \in Balance : minted' = minted + x + y + z
        BY <3>2, RewardParts
      <4> QED BY <1>1, <4>1
    <3>3. ASSUME NEW r \in NodeRewards, handle_validator_reward(s, n, r) PROVE minted' \in Nat
      BY <1>2, <3>3 DEF handle_validator_reward
    <3>4. ASSUME NEW d, slash_validator(s, n, d) PROVE minted' \in Nat
      BY <3>4 DEF slash_validator
    <3> QED BY <3>1, <3>2, <3>3, <3>4
  <2> QED BY <1>7, <2>1, <2>2 DEF Hooks
<1>8. CASE KeyCalls \/ \E a \in Accounts : EvmKeyCalls1(a) \/ EvmKeyCalls2(a)
  <2>1. do_register_validator(NextValidatorId) \/ KeyCall => minted' = minted
    BY DEF do_register_validator, KeyCall, histVars
  <2>2. ASSUME NEW a, NEW h, NEW rate, NEW delegate, register_validator(a, h, rate, delegate)
        PROVE  minted' = minted
    BY <2>1, <2>2 DEF register_validator
  <2>3. ASSUME NEW a, NEW v, NEW k, NEW r,
               \/ update_validator_coldkey(a, v, k) \/ update_validator_hotkey(a, v, k)
               \/ update_validator_delegate_reward_rate(a, v, r)
               \/ update_validator_delegate_account(a, v, k, r)
        PROVE  minted' = minted
    BY <2>1, <2>3 DEF update_validator_coldkey, update_validator_hotkey,
       update_validator_delegate_reward_rate, update_validator_delegate_account
  <2> QED BY <1>8, <2>2, <2>3 DEF KeyCalls, EvmKeyCalls1, EvmKeyCalls2
<1>9. CASE UNCHANGED allVars
  BY <1>9 DEF allVars, vars, histVars
<1> QED BY <1>4, <1>5, <1>6, <1>7, <1>8, <1>9 DEF NodeNext

(* The first stakes.                                                       *)
LEMMA InitTotals ==
  ASSUME NodeInit
  PROVE  /\ NodeTotals /\ InNodes = SumFunction(InitialStake) /\ SumFunction(InitialStake) \in Nat
         /\ DelegateTotals /\ InDelegates = 0
<1>1. /\ FirstStake \in Nat /\ IsFiniteSet(NodeIds) /\ 1 \in NodeIds /\ 0 \in Balance
  <2>1. 1 \in NodeIds
    BY NodeAssumption DEF NodeIds
  <2>2. FirstStake \in Nat /\ 0 \in Balance
    BY NodeAssumption, MaxBalanceAssumption
  <2> QED BY <2>1, <2>2, FiniteNodes
<1>2. ASSUME NEW s \in Subnets
      PROVE  StakeOf(s) = InitialStake[s]
  <2> DEFINE f == [n \in NodeIds |-> IF FirstNode(s, n) THEN FirstStake ELSE 0]
             z == [n \in NodeIds |-> 0]
  <2>1. StakeOf(s) = SumFunctionOnSet(f, NodeIds)
    <3>1. NodeSubnetStake[s] = f
      BY DEF NodeInit
    <3> QED BY <3>1, SumOver DEF StakeOf
  <2>2. \A n \in NodeIds : z[n] = 0 /\ f[n] \in Int /\ (n # 1 => f[n] = 0)
    BY <1>1 DEF FirstNode
  <2>3. f[1] = InitialStake[s]
    BY <1>1 DEF FirstNode, InitialStake
  <2> HIDE DEF f, z
  <2>4. SumFunctionOnSet(z, NodeIds) = 0
    BY <1>1, <2>2, SumOfZeros
  <2>5. SumFunctionOnSet(f, NodeIds) = SumFunctionOnSet(z, NodeIds) - z[1] + f[1]
    BY <1>1, <2>2, SumExcept
  <2> QED BY <1>1, <2>1, <2>2, <2>3, <2>4, <2>5
<1>3. InitialStake = [s \in Subnets |-> StakeOf(s)]
  <2>1. DOMAIN InitialStake = Subnets /\ InitialStake = [s \in Subnets |-> InitialStake[s]]
    BY DEF InitialStake
  <2> QED BY <1>2, <2>1
<1>4. InNodes = SumFunction(InitialStake)
  BY <1>3 DEF InNodes
<1>5. NodeTotals
  <2>1. TotalSubnetStake = InitialStake /\ TotalStake = SumFunction(InitialStake)
    BY DEF NodeInit
  <2>2. DOMAIN InitialStake = Subnets
    BY DEF InitialStake
  <2>3. InNodes \in Nat /\ \A s \in Subnets : StakeOf(s) \in Nat
    BY InitNodes, InNodesFacts DEF NodeInv
  <2> QED BY <1>2, <1>4, <2>1, <2>2, <2>3 DEF NodeTotals, WithinSum
<1>6. InNodes \in Nat
  BY InitNodes, InNodesFacts DEF NodeInv
<1>7. InDelegates = 0 /\ DelegateAccountStake \in [Accounts -> Balance]
  <2>1. /\ DOMAIN DelegateAccountStake = Accounts
        /\ \A a \in Accounts : DelegateAccountStake[a] = 0
    BY DEF NodeInit
  <2>2. InDelegates = SumFunctionOnSet(DelegateAccountStake, Accounts)
    BY <2>1, SumOver DEF InDelegates
  <2>3. DelegateAccountStake \in [Accounts -> Balance]
    BY <1>1 DEF NodeInit
  <2>4. PICK f : f = DelegateAccountStake
    OBVIOUS
  <2>5. SumFunctionOnSet(f, Accounts) = 0
    BY <2>1, <2>4, FinitelyMany, SumOfZeros
  <2> QED BY <2>2, <2>3, <2>4, <2>5
<1>8. TotalAccountDelegateStake = 0
  BY DEF NodeInit
<1> QED BY <1>4, <1>5, <1>6, <1>7, <1>8 DEF DelegateTotals

(* The books balance in the initial state.                                 *)
LEMMA InitNodeBooks ==
  ASSUME NodeInit
  PROVE  /\ NodeBooks /\ AllHeld = Supply + SumFunction(InitialStake)
         /\ Supply \in Nat /\ minted = 0 /\ dropped = 0 /\ lost = 0
<1>1. Init /\ minted = 0 /\ dropped = 0 /\ lost = 0
  BY DEF NodeInit, Init
<1>2. Books /\ Held = Supply /\ Supply \in Nat
  BY <1>1, InitBooks
<1>3. LedgersBounded
  <2> SUFFICES ASSUME NEW a \in Accounts PROVE Cardinality(DOMAIN ledger[a]) <= MaxUnbondings
    BY DEF LedgersBounded
  <2>1. DOMAIN ledger[a] = {}
    BY <1>1 DEF Init, EmptyMap
  <2>2. Cardinality({}) = 0 /\ MaxUnbondings \in Nat
    BY FS_EmptySet, StakingAssumption
  <2> QED BY <2>1, <2>2
<1>4. DelegatesTyped
  <2> SUFFICES ASSUME NEW v \in Validators
               PROVE  /\ "delegate_account" \in DOMAIN ValidatorsData[v]
                      /\ ValidatorsData[v].delegate_account.account \in Keys
    BY DEF DelegatesTyped
  <2>1. FirstDelegate.account \in Keys /\ NoDelegate.account \in Keys
    BY KeysAssumption DEF NoDelegate, Keys
  <2>2. CASE v \in First
    BY <2>1, <2>2 DEF NodeInit, KeysInit
  <2>3. CASE v \notin First
    BY <2>1, <2>3 DEF NodeInit, KeysInit, NoData
  <2> QED BY <2>2, <2>3
<1>5. /\ NodeTotals /\ InNodes = SumFunction(InitialStake) /\ SumFunction(InitialStake) \in Nat
      /\ DelegateTotals /\ InDelegates = 0
  BY InitTotals
<1>6. AllHeld = Supply + SumFunction(InitialStake)
  BY <1>2, <1>5 DEF AllHeld
<1> QED BY <1>1, <1>2, <1>3, <1>4, <1>5, <1>6 DEF NodeBooks

(* The tokens there are fit an u128, and no pool has as many shares as an  *)
(* u128 can count.                                                         *)
NodeUnsaturated ==
  /\ Supply + SumFunction(InitialStake) + minted <= MaxBalance
  /\ \A p \in Pools : pool[p].shares < MaxBalance

(* The inductive invariant: the books of all parts, their owners, and      *)
(* where every token is.                                                   *)
NodesHold == AllHeld = Supply + SumFunction(InitialStake) + minted - dropped - lost
NodeBooksInv == NodeBooks /\ KeyInv /\ NodeInv /\ NodesHold

(* A step of a behaviour that does not saturate.                           *)
LEMMA NodeBooksStep ==
  ASSUME OwnedTransfersOnly, NodeBooksInv, NodeUnsaturated, NodeUnsaturated',
         Supply \in Nat, SumFunction(InitialStake) \in Nat, [NodeNext]_allVars
  PROVE  NodeBooksInv'
<1>1. NodeTypes /\ KeyTypes /\ NodeBooks /\ NodesHold
  BY DEF NodeBooksInv, NodeInv, KeyInv
<1>2. minted \in Nat /\ dropped \in Nat /\ lost \in Nat
  BY <1>1 DEF NodeBooks, Books
<1>3. minted' \in Nat
  BY <1>1, <1>2, NodeMinted
<1>4. PICK S \in Nat : S = Supply + SumFunction(InitialStake)
  OBVIOUS
<1>6. /\ AllHeld = S + minted - dropped - lost
      /\ S + minted <= MaxBalance /\ S + minted' <= MaxBalance
  <2>1. Supply + SumFunction(InitialStake) + minted' <= MaxBalance
    BY DEF NodeUnsaturated, Supply
  <2> QED BY <1>1, <1>4, <2>1 DEF NodesHold, NodeUnsaturated
<1>7. NodeFits
  <2>1. \A i, j, k, l, m \in Nat : i + j <= m => i + j - k - l <= m
    OBVIOUS
  <2>2. AllHeld <= MaxBalance
    BY <1>2, <1>6, <2>1, MaxBalanceAssumption
  <2> QED BY <2>2 DEF NodeFits, NodeUnsaturated
<1>8. NodeStepFits
  <2>1. AllHeld + (minted' - minted) = S + minted' - dropped - lost
    BY <1>2, <1>3, <1>6
  <2>2. \A i, j, k, l, m \in Nat : i + j <= m => i + j - k - l <= m
    OBVIOUS
  <2>3. AllHeld + (minted' - minted) <= MaxBalance
    BY <1>2, <1>3, <1>6, <2>1, <2>2, MaxBalanceAssumption
  <2> QED BY <2>3 DEF NodeStepFits, NodeUnsaturated
<1>9. NodeStep
  BY <1>1, <1>7, <1>8, NextStep
<1>10. NodesHold'
  <2>1. /\ AllHeld' = AllHeld + (minted' - minted) - (dropped' - dropped) - (lost' - lost)
        /\ dropped' \in Nat /\ lost' \in Nat
    BY <1>9 DEF NodeStep, NodeBooks, Books
  <2>2. AllHeld' = S + minted' - dropped' - lost'
    BY <1>2, <1>3, <1>6, <2>1
  <2>3. (Supply + SumFunction(InitialStake))' = Supply + SumFunction(InitialStake)
    BY DEF Supply
  <2> QED BY <1>4, <2>2, <2>3 DEF NodesHold
<1>11. KeyInv' /\ NodeInv'
  BY StepKeys, StepNodes DEF NodeBooksInv
<1> QED BY <1>9, <1>10, <1>11 DEF NodeBooksInv, NodeStep

(***************************************************************************)
(* Every token is accounted for across delegate staking, nodes and         *)
(* delegate accounts: registrations, deposits, withdrawals, rewards to     *)
(* nodes that have left, slashes, removals and the precompiles' calls move *)
(* amounts between them, mint them or burn them, and the totals of         *)
(* stake/delegate_account.rs stay the sums they stand for and those of     *)
(* stake/node_staking.rs never exceed them, whatever percentage the        *)
(* collective sets for slashes; with at most 100 % they are the sums.      *)
(* Transfers move what the sender holds, no sum reaches the end of u128.   *)
(***************************************************************************)
THEOREM StakesStayAccounted ==
  ASSUME OwnedTransfersOnly
  PROVE  NodeSpec /\ []NodeUnsaturated => []StakesAccounted
<1>1. NodeInit => NodeBooksInv /\ Supply \in Nat /\ SumFunction(InitialStake) \in Nat
  <2> SUFFICES ASSUME NodeInit
               PROVE  NodeBooksInv /\ Supply \in Nat /\ SumFunction(InitialStake) \in Nat
    OBVIOUS
  <2>1. /\ NodeBooks /\ AllHeld = Supply + SumFunction(InitialStake)
        /\ Supply \in Nat /\ minted = 0 /\ dropped = 0 /\ lost = 0
    BY InitNodeBooks
  <2>2. SumFunction(InitialStake) \in Nat
    BY InitTotals
  <2>3. NodesHold
    BY <2>1, <2>2 DEF NodesHold
  <2> QED BY <2>1, <2>2, <2>3, InitKeys, InitNodes DEF NodeBooksInv
<1>2. (NodeBooksInv /\ Supply \in Nat /\ SumFunction(InitialStake) \in Nat)
        /\ NodeUnsaturated /\ NodeUnsaturated' /\ [NodeNext]_allVars
        => (NodeBooksInv /\ Supply \in Nat /\ SumFunction(InitialStake) \in Nat)'
  BY NodeBooksStep DEF Supply
<1>3. NodeBooksInv => StakesAccounted
  <2> SUFFICES ASSUME NodeBooksInv PROVE StakesAccounted
    OBVIOUS
  <2>1. /\ NodeTotals /\ DelegateTotals /\ NodesHold
    BY DEF NodeBooksInv, NodeBooks
  <2>2. InAccounts + InPools + InLedgers + InQueue + InNodes + SumFunction(DelegateAccountStake)
          = AllHeld
    BY DEF AllHeld, Held, InDelegates
  <2> QED BY <2>1, <2>2 DEF NodesHold, NodeTotals, WithinSum, DelegateTotals, InDelegates, StakesAccounted
<1> QED BY <1>1, <1>2, <1>3, PTL DEF NodeSpec
================================================================================

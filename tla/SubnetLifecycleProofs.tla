------------------------ MODULE SubnetLifecycleProofs ------------------------
(***************************************************************************)
(* Proofs about SubnetLifecycle, for every number of subnets, slots, names *)
(* and accounts and every length of the periods.                           *)
(***************************************************************************)
EXTENDS SubnetLifecycle, FiniteSetTheorems, WellFoundedInduction, TLAPS

(* The invariant: each part needs others of it.                            *)
Inv ==
  /\ TypeOK /\ SlotDirectory /\ NameDirectory
  /\ LivesOnce /\ OffersStand /\ RegistrationEnds

(* A percentage of a percentage.                                           *)
LEMMA Share ==
  ASSUME NEW x \in Percent, NEW y \in Percent
  PROVE  (x * y) \div 100 \in 0 .. x
<1>1. x * y \in Nat /\ x * y <= x * 100
  BY DEF Percent
<1>2. ASSUME NEW p \in Nat, p <= x * 100 PROVE p \div 100 \in 0 .. x
  BY <1>2 DEF Percent
<1> QED BY <1>1, <1>2

(* decrease_rep stays within the scale and never raises a reputation.      *)
LEMMA DecreaseRep ==
  ASSUME NEW r \in Percent, NEW factor \in Percent
  PROVE  decrease_rep(r, factor) \in 0 .. r
<1>1. (r * factor) \div 100 \in 0 .. r
  BY Share
<1> QED BY <1>1 DEF decrease_rep, Percent

(* The steps of a removal: those who may be removed, and with which        *)
(* reputations.                                                            *)
Removes(S, rep) ==
  /\ S \in SUBSET DOMAIN subnets
  /\ DOMAIN rep = DOMAIN reputation /\ \A i \in DOMAIN rep : rep[i] \in Percent
  /\ RemoveSubnets(S, rep)
  /\ due' \subseteq due
  /\ UNCHANGED <<uids, activation>>

(* The hook keeps reputations within the scale.                            *)
LEMMA PenalizedPercent ==
  ASSUME Inv, NEW e, NEW stake, NEW staffed
  PROVE  LET rep == Penalized(e, stake, staffed)
         IN  DOMAIN rep = DOMAIN reputation /\ \A i \in DOMAIN rep : rep[i] \in Percent
<1>1. \A i \in DOMAIN reputation : reputation[i] \in Percent
  BY DEF Inv, TypeOK, IsMap
<1>2. MaxPauseEpochsFactor \in Percent /\ LessThanMinNodesFactor \in Percent
  BY LifecycleAssumption
<1>3. \A r, f \in Percent : decrease_rep(r, f) \in Percent
  <2> TAKE r, f \in Percent
  <2>1. decrease_rep(r, f) \in 0 .. r
    BY DecreaseRep
  <2> QED BY <2>1 DEF Percent
<1> QED BY <1>1, <1>2, <1>3 DEF Penalized

(* Removal of subnets, by a call or by the hook, keeps the slots apart.    *)
LEMMA RemoveSlots ==
  ASSUME SlotDirectory, NEW S, NEW rep, Removes(S, rep)
  PROVE  SlotDirectory'
<1> DEFINE left == DOMAIN subnets \ S
           freed == {slotOf[i] : i \in S}
           gone == {friendlyOf[i] : i \in S}
<1>1. /\ subnets' = Drop(subnets, S) /\ slotOf' = Drop(slotOf, S)
      /\ friendlyOf' = Drop(friendlyOf, S) /\ assigned' = assigned \ freed
      /\ subnetAt' = Drop(subnetAt, freed) /\ friendlyTo' = Drop(friendlyTo, gone)
  BY DEF Removes, RemoveSubnets, free_slots_of_subnets
<1>2. /\ DOMAIN subnets' = left /\ DOMAIN slotOf' = left /\ DOMAIN friendlyOf' = left
      /\ DOMAIN subnetAt' = assigned' /\ DOMAIN friendlyTo' = DOMAIN friendlyTo \ gone
  <2>1. /\ DOMAIN slotOf = DOMAIN subnets /\ DOMAIN friendlyOf = DOMAIN subnets
        /\ DOMAIN subnetAt = assigned
    BY DEF SlotDirectory
  <2> HIDE DEF freed, gone
  <2> QED BY <1>1, <2>1 DEF Drop, Restrict
<1>3. /\ \A i \in left : slotOf'[i] = slotOf[i] /\ friendlyOf'[i] = friendlyOf[i]
      /\ \A s \in assigned' : subnetAt'[s] = subnetAt[s]
      /\ \A f \in DOMAIN friendlyTo' : friendlyTo'[f] = friendlyTo[f]
  <2>1. /\ DOMAIN slotOf = DOMAIN subnets /\ DOMAIN friendlyOf = DOMAIN subnets
        /\ DOMAIN subnetAt = assigned
    BY DEF SlotDirectory
  <2> HIDE DEF freed, gone
  <2> QED BY <1>1, <1>2, <2>1 DEF Drop, Restrict
<1>4. \A i \in left : slotOf[i] \in assigned' /\ subnetAt[slotOf[i]] = i
  BY <1>1 DEF Removes, SlotDirectory
<1>5. \A s \in assigned' : subnetAt[s] \in left /\ slotOf[subnetAt[s]] = s
  BY <1>1 DEF SlotDirectory
<1>6. \A i \in left : friendlyOf[i] \in DOMAIN friendlyTo' /\ friendlyTo[friendlyOf[i]] = i
  BY <1>2 DEF Removes, SlotDirectory
<1>7. \A f \in DOMAIN friendlyTo' : friendlyTo[f] \in left /\ friendlyOf[friendlyTo[f]] = f
  BY <1>2 DEF SlotDirectory
<1>8. \A i \in left : friendlyOf[i] = slotOf[i] - DesignatedEpochSlots + 1
  BY DEF SlotDirectory
<1> HIDE DEF left, freed, gone
<1> QED BY <1>2, <1>3, <1>4, <1>5, <1>6, <1>7, <1>8 DEF SlotDirectory

(* Removal keeps every map within its types.                               *)
LEMMA RemoveTypes ==
  ASSUME Inv, NEW S, NEW rep, Removes(S, rep),
         epoch' \in Nat, phase' \in {"start", "slots"}, spared' \subseteq Uids
  PROVE  TypeOK'
<1> USE DEF Inv, TypeOK
<1>1. \A f, D, R, T : IsMap(f, D, R) => IsMap(Drop(f, T), D, R)
  BY DEF IsMap, Drop, Restrict
<1>2. DOMAIN rep \subseteq Uids /\ IsMap(rep, Uids, Percent)
  BY DEF IsMap, Removes
<1>3. S \subseteq Uids
  BY DEF IsMap, Removes
<1>4. Minus(active, Cardinality(ActivatedAmong(S))) \in Nat /\ Minus(total, Cardinality(S)) \in Nat
  <2>1. MaxUid \in Nat
    BY LifecycleAssumption
  <2>2. IsFiniteSet(Uids)
    <3>1. IsFiniteSet(1 .. MaxUid)
      BY <2>1, FS_Interval
    <3> QED BY <3>1 DEF Uids
  <2>3. IsFiniteSet(S) /\ IsFiniteSet(ActivatedAmong(S))
    BY <1>3, <2>2, FS_Subset DEF ActivatedAmong
  <2>4. Cardinality(S) \in Nat /\ Cardinality(ActivatedAmong(S)) \in Nat
    BY <2>3, FS_CardinalityType
  <2> QED BY <2>4 DEF Minus
<1>5. /\ IsMap(subnets', Uids, [state : States, start : Nat, name : Names])
      /\ IsMap(nameTo', Names, Uids)
      /\ IsMap(slotOf', Uids, Slots) /\ IsMap(subnetAt', Slots, Uids)
      /\ IsMap(friendlyOf', Uids, Nat) /\ IsMap(friendlyTo', Nat, Uids)
      /\ IsMap(owner', Uids, Accounts) /\ IsMap(pending', Uids, Accounts)
      /\ IsMap(offeredBy', Uids, Accounts)
      /\ IsMap(registeredAt', Uids, Nat) /\ IsMap(unpausedAt', Uids, Nat)
      /\ IsMap(reputation', Uids, Percent)
  BY <1>1, <1>2 DEF Removes, RemoveSubnets, free_slots_of_subnets
<1>6. uids' \in 0 .. MaxUid /\ activation' \in Nat /\ assigned' \subseteq Slots
      /\ active' \in Nat /\ total' \in Nat /\ due' \subseteq Uids /\ removed' \subseteq Uids
  BY <1>3, <1>4 DEF Removes, RemoveSubnets, free_slots_of_subnets
<1> QED BY <1>5, <1>6

(* Removal frees the names of those removed, and no others.                *)
LEMMA RemoveNames ==
  ASSUME NameDirectory, NEW S, NEW rep, Removes(S, rep)
  PROVE  NameDirectory'
<1> DEFINE freed == {subnets[i].name : i \in S}
<1>1. subnets' = Drop(subnets, S) /\ nameTo' = Drop(nameTo, freed)
  BY DEF Removes, RemoveSubnets
<1>2. DOMAIN subnets' = DOMAIN subnets \ S /\ \A i \in DOMAIN subnets' : subnets'[i] = subnets[i]
  BY <1>1 DEF Drop, Restrict
<1>3. DOMAIN nameTo' = DOMAIN nameTo \ freed /\ \A n \in DOMAIN nameTo' : nameTo'[n] = nameTo[n]
  <2> HIDE DEF freed
  <2> QED BY <1>1 DEF Drop, Restrict
<1>4. \A i \in DOMAIN subnets' : subnets[i].name \in DOMAIN nameTo' /\ nameTo[subnets[i].name] = i
  BY <1>2, <1>3 DEF NameDirectory, Removes
<1>5. \A n \in DOMAIN nameTo' : \E i \in DOMAIN subnets' : subnets[i].name = n
  BY <1>2, <1>3 DEF NameDirectory, Removes
<1> HIDE DEF freed
<1> QED BY <1>2, <1>3, <1>4, <1>5 DEF NameDirectory

(* A removed id moves to the removed ones, its weight with it.             *)
LEMMA RemoveLives ==
  ASSUME LivesOnce, NEW S, NEW rep, Removes(S, rep)
  PROVE  LivesOnce'
<1>1. /\ subnets' = Drop(subnets, S) /\ reputation' = Drop(rep, S) /\ due' \subseteq due
      /\ removed' = removed \cup S /\ uids' = uids
  BY DEF Removes, RemoveSubnets
<1>2. DOMAIN subnets' = DOMAIN subnets \ S /\ \A i \in DOMAIN subnets' : subnets'[i] = subnets[i]
  BY <1>1 DEF Drop, Restrict
<1>3. DOMAIN reputation' = DOMAIN subnets'
  BY <1>1, <1>2 DEF Drop, Restrict, Removes, LivesOnce
<1> QED BY <1>1, <1>2, <1>3 DEF LivesOnce, Removes, In

(* Owner, offer and its maker go together.                                 *)
LEMMA RemoveOffers ==
  ASSUME OffersStand, NEW S, NEW rep, Removes(S, rep)
  PROVE  OffersStand'
<1>1. /\ subnets' = Drop(subnets, S) /\ owner' = Drop(owner, S) /\ pending' = Drop(pending, S)
      /\ offeredBy' = Drop(offeredBy, S)
  BY DEF Removes, RemoveSubnets
<1>2. /\ DOMAIN subnets' = DOMAIN subnets \ S /\ DOMAIN owner' = DOMAIN owner \ S
      /\ DOMAIN pending' = DOMAIN pending \ S /\ DOMAIN offeredBy' = DOMAIN offeredBy \ S
  BY <1>1 DEF Drop, Restrict
<1>3. /\ \A i \in DOMAIN owner' : owner'[i] = owner[i]
      /\ \A i \in DOMAIN offeredBy' : offeredBy'[i] = offeredBy[i]
  BY <1>1 DEF Drop, Restrict
<1> QED BY <1>2, <1>3 DEF OffersStand

(* Removal of any set of subnets, as far as the clock and the history      *)
(* allow.                                                                  *)
LEMMA RemoveInv ==
  ASSUME Inv, NEW S, NEW rep, Removes(S, rep),
         epoch' \in Nat, phase' \in {"start", "slots"}, spared' \subseteq Uids,
         \A i \in (In("Registered") \ S) \ spared' : epoch' <= EnactmentEnd(i)
  PROVE  Inv'
<1>1. TypeOK' /\ SlotDirectory' /\ NameDirectory' /\ LivesOnce' /\ OffersStand'
  BY RemoveTypes, RemoveSlots, RemoveNames, RemoveLives, RemoveOffers DEF Inv
<1>2. subnets' = Drop(subnets, S) /\ registeredAt' = Drop(registeredAt, S)
  BY DEF Removes, RemoveSubnets
<1>3. DOMAIN registeredAt = In("Registered")
  BY DEF Inv, RegistrationEnds
<1>4. /\ DOMAIN subnets' = DOMAIN subnets \ S /\ DOMAIN registeredAt' = DOMAIN registeredAt \ S
      /\ \A i \in DOMAIN subnets' : subnets'[i] = subnets[i]
      /\ \A i \in DOMAIN registeredAt' : registeredAt'[i] = registeredAt[i]
  BY <1>2 DEF Drop, Restrict
<1>5. In("Registered")' = In("Registered") \ S
  BY <1>4 DEF In
<1>6. RegistrationEnds'
  <2>1. DOMAIN registeredAt' = In("Registered")'
    BY <1>3, <1>4, <1>5
  <2>2. \A i \in In("Registered")' \ spared' :
          epoch' <= registeredAt'[i] + SubnetRegistrationEpochs + SubnetEnactmentEpochs
    BY <1>3, <1>4, <1>5 DEF EnactmentEnd
  <2> QED BY <2>1, <2>2 DEF RegistrationEnds
<1> QED BY <1>1, <1>6 DEF Inv

(* A subnet removed by its owner, the collective or a failed activation.   *)
LEMMA CallIsRemoval ==
  ASSUME Inv, NEW i \in DOMAIN subnets, RemoveSubnet(i)
  PROVE  Removes({i}, reputation)
  BY DEF Inv, TypeOK, IsMap, Removes, RemoveSubnet

(* Such a removal preserves the invariant.                                 *)
LEMMA CallRemoves ==
  ASSUME Inv, NEW i \in DOMAIN subnets, RemoveSubnet(i)
  PROVE  Inv'
<1>1. Removes({i}, reputation)
  BY CallIsRemoval
<1>2. epoch' = epoch /\ phase' = phase /\ spared' = spared \ {i}
  BY DEF RemoveSubnet, clockVars
<1>3. \A j \in (In("Registered") \ {i}) \ spared' : epoch' <= EnactmentEnd(j)
  BY <1>2 DEF Inv, RegistrationEnds, EnactmentEnd
<1>4. epoch' \in Nat /\ phase' \in {"start", "slots"} /\ spared' \subseteq Uids
  BY <1>2 DEF Inv, TypeOK
<1> QED BY <1>1, <1>3, <1>4, RemoveInv

(* The preliminaries remove some of the subnets there are; a registered    *)
(* one whose time is over is among them, or remembered as spared.          *)
LEMMA HookIsRemoval ==
  ASSUME Inv, NewEpoch
  PROVE  \E S, rep :
           /\ Removes(S, rep)
           /\ spared' \subseteq Uids
           /\ \A i \in (In("Registered") \ S) \ spared' : epoch' <= EnactmentEnd(i)
<1> DEFINE e == epoch + 1
<1>1. PICK stake \in [DOMAIN subnets -> Stakes], staffed \in SUBSET DOMAIN subnets :
        do_epoch_preliminaries(e, stake, staffed)
  BY DEF NewEpoch
<1>2. e \in Nat /\ epoch' = e /\ phase' = "start" /\ UNCHANGED <<uids, activation>>
  BY DEF NewEpoch, Inv, TypeOK
<1> HIDE DEF e
<1> DEFINE rep == Penalized(e, stake, staffed)
           fallen == Disgraced(OverPaused(e) \cup Checked(e, stake), rep)
           doomed == Expired(e) \cup Deserted(e, staffed) \cup Poor(e, stake) \cup fallen
           weakest == Excess(e, stake, Checked(e, stake) \ fallen)
<1>3. PICK last \in IF weakest = {} THEN {{}} ELSE {{i} : i \in weakest} :
        \E skipped \in SUBSET (doomed \cup last) :
          LET gone == (doomed \cup last) \ skipped
          IN  /\ RemoveSubnets(gone, rep)
              /\ spared' = (spared \ gone) \cup skipped
  BY <1>1 DEF do_epoch_preliminaries
<1>4. PICK skipped \in SUBSET (doomed \cup last) :
        /\ RemoveSubnets((doomed \cup last) \ skipped, rep)
        /\ spared' = (spared \ ((doomed \cup last) \ skipped)) \cup skipped
  BY <1>3
<1>5. Expired(e) \subseteq doomed
  OBVIOUS
<1>6. doomed \subseteq DOMAIN subnets /\ weakest \subseteq DOMAIN subnets
  BY DEF Disgraced, OverPaused, Checked, Expired, Deserted, Poor, Excess, LiveAt, In
<1>7. DOMAIN rep = DOMAIN reputation /\ \A i \in DOMAIN rep : rep[i] \in Percent
  BY PenalizedPercent
<1> HIDE DEF doomed, weakest, rep
<1>8. last \subseteq DOMAIN subnets
  BY <1>3, <1>6
<1> DEFINE gone == (doomed \cup last) \ skipped
<1>9. gone \subseteq DOMAIN subnets /\ Removes(gone, rep)
  BY <1>2, <1>4, <1>6, <1>7, <1>8 DEF Removes, NewEpoch
<1>10. spared' \subseteq Uids
  <2>1. DOMAIN subnets \subseteq Uids /\ spared \subseteq Uids
    BY DEF Inv, TypeOK, IsMap
  <2> QED BY <2>1, <1>4, <1>6, <1>8
<1>11. \A i \in (In("Registered") \ gone) \ spared' : epoch' <= EnactmentEnd(i)
  <2> SUFFICES ASSUME NEW i \in (In("Registered") \ gone) \ spared' PROVE epoch' <= EnactmentEnd(i)
    OBVIOUS
  <2>1. i \notin Expired(e)
    BY <1>4, <1>5
  <2>2. ~ (EnactmentEnd(i) < e)
    BY <2>1 DEF Expired
  <2>3. EnactmentEnd(i) \in Nat
    <3>1. registeredAt[i] \in Nat
      BY DEF Inv, TypeOK, IsMap, RegistrationEnds
    <3>2. SubnetRegistrationEpochs \in Nat /\ SubnetEnactmentEpochs \in Nat
      BY LifecycleAssumption
    <3> QED BY <3>1, <3>2 DEF EnactmentEnd
  <2> QED BY <1>2, <2>2, <2>3
<1> HIDE DEF gone
<1> QED BY <1>9, <1>10, <1>11

(* The first block of an epoch preserves the invariant.                    *)
LEMMA NewEpochInv ==
  ASSUME Inv, NewEpoch
  PROVE  Inv'
<1>1. PICK S, rep :
        /\ Removes(S, rep)
        /\ spared' \subseteq Uids
        /\ \A i \in (In("Registered") \ S) \ spared' : epoch' <= EnactmentEnd(i)
  BY HookIsRemoval
<1>2. epoch' \in Nat /\ phase' \in {"start", "slots"}
  BY DEF NewEpoch, Inv, TypeOK
<1> QED BY <1>1, <1>2, RemoveInv

(* Insertions keep a map within its types.                                 *)
LEMMA PutTypes ==
  ASSUME NEW f, NEW D, NEW R, NEW k \in D, NEW v \in R, IsMap(f, D, R)
  PROVE  IsMap(Put(f, k, v), D, R)
  BY DEF IsMap, Put

(* Registration takes an id nobody had, a slot nobody has and a free name. *)
LEMMA RegisterInv ==
  ASSUME Inv, NEW a \in Accounts, NEW n \in Names, do_register_subnet(a, n)
  PROVE  Inv'
<1> DEFINE i == uids + 1
           r == [state |-> "Registered", start |-> MaxEpoch + 1, name |-> n]
<1>1. MaxUid \in Nat /\ MaxEpoch \in Nat /\ DesignatedEpochSlots \in Nat /\ EpochLength \in Nat
      /\ SubnetRegistrationEpochs \in Nat /\ SubnetEnactmentEpochs \in Nat
  BY LifecycleAssumption
<1>2. uids \in Nat /\ i \in Uids /\ i \notin DOMAIN subnets /\ i \notin removed
  BY <1>1 DEF Inv, TypeOK, LivesOnce, Uids, do_register_subnet
<1>3. PICK s \in Slots :
        /\ get_available_subnet_slot(s)
        /\ insert_subnet_slot_assignment(i, s)
        /\ friendlyOf' = Put(friendlyOf, i, s - DesignatedEpochSlots + 1)
        /\ friendlyTo' = Put(friendlyTo, s - DesignatedEpochSlots + 1, i)
  BY DEF do_register_subnet, NextUid
<1> DEFINE f == s - DesignatedEpochSlots + 1
<1>4. s \in Int /\ s \notin assigned /\ f \in Nat
  BY <1>1, <1>3 DEF get_available_subnet_slot, FreeSlots, Slots
<1>5. /\ assigned' = assigned \cup {s}
      /\ slotOf' = Put(slotOf, i, s) /\ subnetAt' = Put(subnetAt, s, i)
      /\ friendlyOf' = Put(friendlyOf, i, f) /\ friendlyTo' = Put(friendlyTo, f, i)
  BY <1>3 DEF insert_subnet_slot_assignment
<1>6. /\ uids' = i /\ subnets' = Put(subnets, i, r) /\ owner' = Put(owner, i, a)
      /\ nameTo' = Put(nameTo, n, i) /\ registeredAt' = Put(registeredAt, i, epoch)
      /\ total' = total + 1 /\ reputation' = Put(reputation, i, 100)
      /\ n \notin DOMAIN nameTo
      /\ UNCHANGED <<epoch, phase, pending, offeredBy, unpausedAt, activation, active, due,
                     removed, spared>>
  BY DEF do_register_subnet, NextUid, clockVars, pastVars
<1>7. r \in [state : States, start : Nat, name : Names] /\ r.state = "Registered" /\ r.name = n
  BY <1>1 DEF States
<1> HIDE DEF r, f
<1>8. TypeOK'
  <2>1. /\ IsMap(subnets', Uids, [state : States, start : Nat, name : Names])
        /\ IsMap(slotOf', Uids, Slots) /\ IsMap(subnetAt', Slots, Uids)
        /\ IsMap(friendlyOf', Uids, Nat) /\ IsMap(friendlyTo', Nat, Uids)
        /\ IsMap(nameTo', Names, Uids) /\ IsMap(owner', Uids, Accounts)
        /\ IsMap(registeredAt', Uids, Nat) /\ IsMap(reputation', Uids, Percent)
    <3> 100 \in Percent
      BY DEF Percent
    <3> HIDE DEF i
    <3> QED BY <1>2, <1>4, <1>5, <1>6, <1>7, PutTypes DEF Inv, TypeOK
  <2>2. uids' \in 0 .. MaxUid /\ total' \in Nat
    BY <1>1, <1>2, <1>6 DEF Inv, TypeOK, Uids
  <2> QED BY <2>1, <2>2, <1>5, <1>6 DEF Inv, TypeOK, IsMap
<1> HIDE DEF i
<1>9. /\ DOMAIN subnets' = DOMAIN subnets \cup {i} /\ subnets'[i] = r
      /\ \A j \in DOMAIN subnets : subnets'[j] = subnets[j]
  BY <1>2, <1>6 DEF Put
<1>10. SlotDirectory'
  <2>1. /\ DOMAIN slotOf = DOMAIN subnets /\ DOMAIN subnetAt = assigned
        /\ DOMAIN friendlyOf = DOMAIN subnets
    BY DEF Inv, SlotDirectory
  <2>2. /\ DOMAIN slotOf' = DOMAIN subnets' /\ DOMAIN subnetAt' = assigned'
        /\ DOMAIN friendlyOf' = DOMAIN subnets' /\ DOMAIN friendlyTo' = DOMAIN friendlyTo \cup {f}
    BY <2>1, <1>5, <1>9 DEF Put
  <2>3. /\ slotOf'[i] = s /\ subnetAt'[s] = i /\ friendlyOf'[i] = f /\ friendlyTo'[f] = i
        /\ \A j \in DOMAIN subnets : slotOf'[j] = slotOf[j] /\ friendlyOf'[j] = friendlyOf[j]
        /\ \A t \in assigned : subnetAt'[t] = subnetAt[t]
        /\ \A g \in DOMAIN friendlyTo \ {f} : friendlyTo'[g] = friendlyTo[g]
    BY <2>1, <1>2, <1>4, <1>5 DEF Put
  <2>4. f \notin DOMAIN friendlyTo
    <3> SUFFICES ASSUME f \in DOMAIN friendlyTo PROVE FALSE
      OBVIOUS
    <3>1. PICK j \in DOMAIN slotOf : f = slotOf[j] - DesignatedEpochSlots + 1 /\ slotOf[j] \in assigned
      BY DEF Inv, SlotDirectory
    <3>2. slotOf[j] \in Int
      BY <3>1 DEF Inv, TypeOK, IsMap, Slots
    <3> QED BY <3>1, <3>2, <1>1, <1>4 DEF f
  <2>5. f = s - DesignatedEpochSlots + 1
    BY DEF f
  <2>6. /\ \A j \in DOMAIN slotOf' : slotOf'[j] \in assigned' /\ subnetAt'[slotOf'[j]] = j
        /\ \A t \in assigned' : subnetAt'[t] \in DOMAIN slotOf' /\ slotOf'[subnetAt'[t]] = t
    BY <2>1, <2>2, <2>3, <1>2, <1>4, <1>5, <1>9 DEF Inv, SlotDirectory
  <2>7. /\ \A j \in DOMAIN friendlyOf' :
             /\ friendlyOf'[j] = slotOf'[j] - DesignatedEpochSlots + 1
             /\ friendlyOf'[j] \in DOMAIN friendlyTo' /\ friendlyTo'[friendlyOf'[j]] = j
    BY <2>1, <2>2, <2>3, <2>4, <2>5, <1>9 DEF Inv, SlotDirectory
  <2>8. \A g \in DOMAIN friendlyTo' :
          friendlyTo'[g] \in DOMAIN friendlyOf' /\ friendlyOf'[friendlyTo'[g]] = g
    BY <2>1, <2>2, <2>3, <2>4, <1>9 DEF Inv, SlotDirectory
  <2> QED BY <2>2, <2>6, <2>7, <2>8 DEF SlotDirectory
<1>11. NameDirectory'
  <2>1. DOMAIN nameTo' = DOMAIN nameTo \cup {n} /\ nameTo'[n] = i
        /\ \A m \in DOMAIN nameTo : nameTo'[m] = nameTo[m]
    BY <1>6 DEF Put
  <2> QED BY <2>1, <1>2, <1>6, <1>7, <1>9 DEF Inv, NameDirectory
<1>12. LivesOnce'
  <2>1. DOMAIN reputation' = DOMAIN reputation \cup {i}
    BY <1>6 DEF Put
  <2>2. 1 .. uids' = (1 .. uids) \cup {i}
    BY <1>2, <1>6 DEF i
  <2>3. due' \subseteq (DOMAIN subnets' \ In("Registered")') \cup removed'
    BY <1>2, <1>6, <1>9 DEF Inv, LivesOnce, In
  <2> QED BY <2>1, <2>2, <2>3, <1>2, <1>6, <1>9 DEF Inv, LivesOnce
<1>13. OffersStand'
  <2>1. DOMAIN owner' = DOMAIN owner \cup {i} /\ \A j \in DOMAIN owner \ {i} : owner'[j] = owner[j]
    BY <1>6 DEF Put
  <2> QED BY <2>1, <1>2, <1>6, <1>9 DEF Inv, OffersStand
<1>14. RegistrationEnds'
  <2>1. In("Registered")' = In("Registered") \cup {i}
    BY <1>2, <1>7, <1>9 DEF In
  <2>2. DOMAIN registeredAt = In("Registered") /\ i \notin In("Registered")
    BY <1>2 DEF Inv, RegistrationEnds, In
  <2>3. DOMAIN registeredAt' = In("Registered")' /\ registeredAt'[i] = epoch
        /\ \A j \in In("Registered") : registeredAt'[j] = registeredAt[j]
    BY <2>1, <2>2, <1>6 DEF Put
  <2>4. epoch \in Nat
    BY DEF Inv, TypeOK
  <2>5. epoch <= epoch + SubnetRegistrationEpochs + SubnetEnactmentEpochs
    BY <2>4, <1>1
  <2> QED BY <2>1, <2>3, <2>5, <1>6 DEF Inv, RegistrationEnds
<1> QED BY <1>8, <1>10, <1>11, <1>12, <1>13, <1>14 DEF Inv

(* A subnet enters another state: all but its state and start stays.       *)
LEMMA StateChange ==
  ASSUME Inv, NEW i \in DOMAIN subnets, NEW st \in {"Active", "Paused"}, NEW e \in Nat,
         subnets' = [subnets EXCEPT ![i].state = st, ![i].start = e],
         UNCHANGED <<slotVars, nameTo, ownerVars, reputation, uids, removed, due>>
  PROVE  /\ IsMap(subnets', Uids, [state : States, start : Nat, name : Names])
         /\ SlotDirectory' /\ NameDirectory' /\ LivesOnce' /\ OffersStand'
         /\ In("Registered")' = In("Registered") \ {i}
<1>1. /\ DOMAIN subnets \subseteq Uids
      /\ \A j \in DOMAIN subnets : subnets[j] \in [state : States, start : Nat, name : Names]
  BY DEF Inv, TypeOK, IsMap
<1>2. /\ DOMAIN subnets' = DOMAIN subnets
      /\ \A j \in DOMAIN subnets : j # i => subnets'[j] = subnets[j]
      /\ subnets'[i] \in [state : States, start : Nat, name : Names]
      /\ subnets'[i].state = st /\ subnets'[i].name = subnets[i].name
  BY <1>1 DEF States
<1>3. IsMap(subnets', Uids, [state : States, start : Nat, name : Names])
  BY <1>1, <1>2 DEF IsMap
<1>4. SlotDirectory'
  BY <1>2 DEF Inv, SlotDirectory, slotVars
<1>5. NameDirectory'
  <2>1. \A j \in DOMAIN subnets : subnets'[j].name = subnets[j].name
    BY <1>2
  <2> QED BY <1>2, <2>1 DEF Inv, NameDirectory
<1>6. In("Registered")' = In("Registered") \ {i}
  BY <1>2 DEF In
<1>7. LivesOnce'
  BY <1>2, <1>6 DEF Inv, LivesOnce
<1>8. OffersStand'
  BY <1>2 DEF Inv, OffersStand, ownerVars
<1> QED BY <1>3, <1>4, <1>5, <1>6, <1>7, <1>8

(* An activated subnet loses its registration epoch as it leaves the       *)
(* registered ones.                                                        *)
LEMMA ActivateInv ==
  ASSUME Inv, NEW i, NEW staffed, NEW staked, do_activate_subnet(i, staffed, staked)
  PROVE  Inv'
<1>1. i \in DOMAIN subnets /\ i \in Uids /\ epoch \in Nat /\ epoch + 1 \in Nat
  BY DEF do_activate_subnet, ActivationDue, In, Inv, TypeOK, IsMap
<1>2. /\ IsMap(subnets', Uids, [state : States, start : Nat, name : Names])
      /\ SlotDirectory' /\ NameDirectory' /\ LivesOnce' /\ OffersStand'
      /\ In("Registered")' = In("Registered") \ {i}
  BY <1>1, StateChange DEF do_activate_subnet, pastVars
<1>3. /\ registeredAt' = Drop(registeredAt, {i}) /\ unpausedAt' = Put(unpausedAt, i, epoch)
      /\ active' = active + 1 /\ activation' = epoch
      /\ UNCHANGED <<epoch, phase, uids, assigned, slotOf, subnetAt, friendlyOf, friendlyTo,
                     nameTo, owner, pending, offeredBy, reputation, total, due, removed,
                     spared>>
  BY DEF do_activate_subnet, clockVars, slotVars, ownerVars, pastVars
<1>4. /\ DOMAIN registeredAt' = DOMAIN registeredAt \ {i}
      /\ \A j \in DOMAIN registeredAt' : registeredAt'[j] = registeredAt[j]
  BY <1>3 DEF Drop, Restrict
<1>5. IsMap(registeredAt', Uids, Nat) /\ IsMap(unpausedAt', Uids, Nat)
  <2>1. IsMap(registeredAt', Uids, Nat)
    BY <1>4 DEF IsMap, Inv, TypeOK
  <2>2. IsMap(unpausedAt', Uids, Nat)
    BY <1>1, <1>3, PutTypes DEF Inv, TypeOK
  <2> QED BY <2>1, <2>2
<1>6. TypeOK'
  BY <1>1, <1>2, <1>3, <1>5 DEF Inv, TypeOK
<1>7. RegistrationEnds'
  BY <1>2, <1>3, <1>4 DEF Inv, RegistrationEnds
<1> QED BY <1>2, <1>6, <1>7 DEF Inv

(* Pausing and unpausing leave registered subnets alone.                   *)
LEMMA PauseInv ==
  ASSUME Inv, NEW i, do_owner_pause_subnet(i) \/ do_owner_unpause_subnet(i)
  PROVE  Inv'
<1>1. /\ i \in DOMAIN subnets /\ i \in Uids /\ i \notin In("Registered")
      /\ epoch \in Nat /\ epoch + 1 \in Nat
  BY DEF do_owner_pause_subnet, do_owner_unpause_subnet, In, Inv, TypeOK, IsMap
<1>2. /\ UNCHANGED <<epoch, phase, uids, slotVars, assigned, slotOf, subnetAt, friendlyOf,
                     friendlyTo, nameTo, ownerVars, owner, pending, offeredBy, registeredAt,
                     activation, reputation, total, active, due, removed, spared>>
      /\ unpausedAt' = unpausedAt \/ unpausedAt' = Put(unpausedAt, i, epoch)
  BY DEF do_owner_pause_subnet, do_owner_unpause_subnet, clockVars, slotVars, ownerVars,
         totalVars, timeVars, pastVars
<1>3. /\ IsMap(subnets', Uids, [state : States, start : Nat, name : Names])
      /\ SlotDirectory' /\ NameDirectory' /\ LivesOnce' /\ OffersStand'
      /\ In("Registered")' = In("Registered") \ {i}
  <2>1. CASE do_owner_pause_subnet(i)
    <3>1. subnets' = [subnets EXCEPT ![i].state = "Paused", ![i].start = epoch]
      BY <2>1 DEF do_owner_pause_subnet
    <3> QED BY <1>1, <1>2, <3>1, StateChange
  <2>2. CASE do_owner_unpause_subnet(i)
    <3>1. subnets' = [subnets EXCEPT ![i].state = "Active", ![i].start = epoch + 1]
      BY <2>2 DEF do_owner_unpause_subnet
    <3> QED BY <1>1, <1>2, <3>1, StateChange
  <2> QED BY <2>1, <2>2
<1>4. IsMap(unpausedAt', Uids, Nat)
  BY <1>1, <1>2, PutTypes DEF Inv, TypeOK
<1>5. TypeOK'
  <2>1. UNCHANGED <<epoch, phase, uids, assigned, slotOf, subnetAt, friendlyOf, friendlyTo,
                    nameTo, owner, pending, offeredBy, registeredAt, activation, reputation,
                    total, active, due, removed, spared>>
    BY <1>2
  <2> QED BY <2>1, <1>3, <1>4 DEF Inv, TypeOK
<1>6. RegistrationEnds'
  BY <1>1, <1>2, <1>3 DEF Inv, RegistrationEnds
<1> QED BY <1>3, <1>5, <1>6 DEF Inv

(* A renamed subnet gives up its old name, which was its own.              *)
LEMMA RenameInv ==
  ASSUME Inv, NEW i, NEW n \in Names, do_owner_update_name(i, n)
  PROVE  Inv'
<1> DEFINE old == subnets[i].name
<1>1. /\ i \in DOMAIN subnets /\ n \notin DOMAIN nameTo
      /\ subnets' = [subnets EXCEPT ![i].name = n]
      /\ nameTo' = Put(Drop(nameTo, {old}), n, i)
  BY DEF do_owner_update_name
<1>2. UNCHANGED <<epoch, phase, uids, assigned, slotOf, subnetAt, friendlyOf, friendlyTo,
                  owner, pending, offeredBy, registeredAt, unpausedAt, activation, reputation,
                  total, active, due, removed, spared>>
  BY DEF do_owner_update_name, clockVars, slotVars, ownerVars, totalVars, timeVars, pastVars
<1>3. /\ DOMAIN subnets \subseteq Uids
      /\ \A j \in DOMAIN subnets : subnets[j] \in [state : States, start : Nat, name : Names]
      /\ IsMap(nameTo, Names, Uids)
  BY DEF Inv, TypeOK, IsMap
<1>4. /\ DOMAIN subnets' = DOMAIN subnets
      /\ \A j \in DOMAIN subnets : j # i => subnets'[j] = subnets[j]
      /\ subnets'[i] \in [state : States, start : Nat, name : Names]
      /\ subnets'[i].state = subnets[i].state /\ subnets'[i].name = n
  BY <1>1, <1>3
<1>5. \A j \in DOMAIN subnets : subnets'[j].state = subnets[j].state
  BY <1>4
<1>6. /\ DOMAIN nameTo' = (DOMAIN nameTo \ {old}) \cup {n} /\ nameTo'[n] = i
      /\ \A m \in DOMAIN nameTo \ {old} : nameTo'[m] = nameTo[m]
  <2> HIDE DEF old
  <2> QED BY <1>1 DEF Put, Drop, Restrict
<1>7. IsMap(subnets', Uids, [state : States, start : Nat, name : Names])
  BY <1>3, <1>4 DEF IsMap
<1>8. IsMap(nameTo', Names, Uids)
  <2> HIDE DEF old
  <2> QED BY <1>1, <1>3, <1>6 DEF IsMap
<1>9. TypeOK'
  BY <1>2, <1>7, <1>8 DEF Inv, TypeOK
<1>10. SlotDirectory'
  BY <1>2, <1>4 DEF Inv, SlotDirectory
<1>11. NameDirectory'
  <2>1. \A j \in DOMAIN subnets : subnets[j].name \in DOMAIN nameTo /\ nameTo[subnets[j].name] = j
    BY DEF Inv, NameDirectory
  <2>2. \A j \in DOMAIN subnets : j # i => subnets[j].name \in DOMAIN nameTo \ {old}
    BY <2>1, <1>1
  <2>3. ASSUME NEW j \in DOMAIN subnets'
        PROVE  subnets'[j].name \in DOMAIN nameTo' /\ nameTo'[subnets'[j].name] = j
    <3>1. CASE j = i
      BY <3>1, <1>1, <1>4, <1>6
    <3>2. CASE j # i
      <4>1. j \in DOMAIN subnets /\ subnets'[j].name = subnets[j].name
        BY <3>2, <2>3, <1>4
      <4> HIDE DEF old
      <4> QED BY <3>2, <4>1, <2>1, <2>2, <1>6
    <3> QED BY <3>1, <3>2
  <2>4. \A m \in DOMAIN nameTo' : \E j \in DOMAIN subnets' : subnets'[j].name = m
    <3>1. \A m \in DOMAIN nameTo \ {old} : \E j \in DOMAIN subnets : j # i /\ subnets[j].name = m
      BY DEF Inv, NameDirectory
    <3> QED BY <3>1, <1>1, <1>4, <1>6
  <2> QED BY <2>3, <2>4 DEF NameDirectory
<1>12. In("Registered")' = In("Registered")
  BY <1>4, <1>5 DEF In
<1>13. LivesOnce'
  BY <1>2, <1>4, <1>12 DEF Inv, LivesOnce
<1>14. OffersStand'
  BY <1>2, <1>4 DEF Inv, OffersStand
<1>15. RegistrationEnds'
  BY <1>2, <1>12 DEF Inv, RegistrationEnds
<1> QED BY <1>9, <1>10, <1>11, <1>13, <1>14, <1>15 DEF Inv

(* Offers and their acceptance touch owners only.                          *)
LEMMA OfferInv ==
  ASSUME Inv, NEW i,
         (\E a \in Accounts : do_transfer_subnet_ownership(i, a)) \/ do_accept_subnet_ownership(i)
  PROVE  Inv'
<1>1. UNCHANGED <<epoch, phase, subnets, uids, assigned, slotOf, subnetAt, friendlyOf, friendlyTo,
                  nameTo, registeredAt, unpausedAt, activation, reputation,
                  total, active, due, removed, spared>>
  BY DEF do_transfer_subnet_ownership, do_accept_subnet_ownership, clockVars, slotVars,
         totalVars, timeVars, pastVars
<1>2. /\ IsMap(owner', Uids, Accounts) /\ IsMap(pending', Uids, Accounts)
      /\ IsMap(offeredBy', Uids, Accounts) /\ OffersStand'
  <2>1. ASSUME NEW a \in Accounts, do_transfer_subnet_ownership(i, a)
        PROVE  /\ IsMap(owner', Uids, Accounts) /\ IsMap(pending', Uids, Accounts)
               /\ IsMap(offeredBy', Uids, Accounts) /\ OffersStand'
    <3>1. /\ i \in DOMAIN owner /\ owner' = owner
          /\ pending' = Put(pending, i, a) /\ offeredBy' = Put(offeredBy, i, owner[i])
      BY <2>1 DEF do_transfer_subnet_ownership
    <3>2. i \in Uids /\ owner[i] \in Accounts
      BY <3>1 DEF Inv, TypeOK, IsMap
    <3>3. IsMap(pending', Uids, Accounts) /\ IsMap(offeredBy', Uids, Accounts)
      BY <3>1, <3>2, PutTypes DEF Inv, TypeOK
    <3>4. OffersStand'
      <4>1. /\ DOMAIN pending' = DOMAIN pending \cup {i} /\ DOMAIN offeredBy' = DOMAIN offeredBy \cup {i}
            /\ offeredBy'[i] = owner[i]
            /\ \A j \in DOMAIN offeredBy \ {i} : offeredBy'[j] = offeredBy[j]
        BY <3>1 DEF Put
      <4> QED BY <3>1, <4>1, <1>1 DEF Inv, OffersStand
    <3> QED BY <3>1, <3>3, <3>4 DEF Inv, TypeOK
  <2>2. ASSUME do_accept_subnet_ownership(i)
        PROVE  /\ IsMap(owner', Uids, Accounts) /\ IsMap(pending', Uids, Accounts)
               /\ IsMap(offeredBy', Uids, Accounts) /\ OffersStand'
    <3>1. /\ i \in DOMAIN pending /\ i \in DOMAIN owner /\ owner' = [owner EXCEPT ![i] = pending[i]]
          /\ pending' = Drop(pending, {i}) /\ offeredBy' = Drop(offeredBy, {i})
      BY <2>2 DEF do_accept_subnet_ownership
    <3>2. /\ DOMAIN pending' = DOMAIN pending \ {i} /\ DOMAIN offeredBy' = DOMAIN offeredBy \ {i}
          /\ \A j \in DOMAIN pending' : pending'[j] = pending[j]
          /\ \A j \in DOMAIN offeredBy' : offeredBy'[j] = offeredBy[j]
          /\ DOMAIN owner' = DOMAIN owner /\ \A j \in DOMAIN owner : j # i => owner'[j] = owner[j]
          /\ owner'[i] = pending[i]
      BY <3>1 DEF Drop, Restrict
    <3>3. IsMap(owner', Uids, Accounts) /\ IsMap(pending', Uids, Accounts) /\ IsMap(offeredBy', Uids, Accounts)
      BY <3>1, <3>2 DEF Inv, TypeOK, IsMap
    <3>4. OffersStand'
      BY <3>2, <1>1 DEF Inv, OffersStand
    <3> QED BY <3>3, <3>4
  <2> QED BY <2>1, <2>2
<1>3. TypeOK'
  BY <1>1, <1>2 DEF Inv, TypeOK
<1>4. In("Registered")' = In("Registered")
  BY <1>1 DEF In
<1>5. SlotDirectory' /\ NameDirectory' /\ LivesOnce' /\ RegistrationEnds'
  BY <1>1, <1>4 DEF Inv, SlotDirectory, NameDirectory, LivesOnce, RegistrationEnds
<1> QED BY <1>2, <1>3, <1>5 DEF Inv

(* The other hooks: the clock, the subnets due and their reputations.      *)
LEMMA HookInv ==
  ASSUME Inv, MissEpoch \/ handle_subnet_emission_weights \/ \E i \in Uids : emission_step(i)
  PROVE  Inv'
<1>1. UNCHANGED <<subnets, uids, assigned, slotOf, subnetAt, friendlyOf, friendlyTo,
                  nameTo, owner, pending, offeredBy, registeredAt, unpausedAt, activation,
                  total, active, removed>>
  BY DEF MissEpoch, handle_subnet_emission_weights, emission_step, clockVars, slotVars,
         ownerVars, totalVars, timeVars, pastVars
<1>2. /\ epoch' \in Nat /\ phase' \in {"start", "slots"} /\ spared' \subseteq Uids
      /\ \/ spared' = spared /\ epoch' = epoch
         \/ spared' = spared \cup DOMAIN subnets
  BY DEF MissEpoch, handle_subnet_emission_weights, emission_step, clockVars, pastVars,
         Inv, TypeOK, IsMap
<1>3. due' \subseteq (DOMAIN subnets \ In("Registered")) \cup removed
  <2>1. due \subseteq (DOMAIN subnets \ In("Registered")) \cup removed
    BY DEF Inv, LivesOnce
  <2>2. LiveAt(epoch) \subseteq DOMAIN subnets \ In("Registered")
    BY DEF LiveAt, In
  <2> QED BY <2>1, <2>2 DEF MissEpoch, handle_subnet_emission_weights, emission_step
<1>4. DOMAIN reputation' = DOMAIN reputation /\ IsMap(reputation', Uids, Percent)
  <2>1. CASE MissEpoch \/ handle_subnet_emission_weights
    BY <2>1 DEF MissEpoch, handle_subnet_emission_weights, Inv, TypeOK
  <2>2. ASSUME NEW i \in Uids, emission_step(i)
        PROVE  DOMAIN reputation' = DOMAIN reputation /\ IsMap(reputation', Uids, Percent)
    <3>1. i \in DOMAIN reputation /\ reputation[i] \in Percent
      BY <2>2 DEF emission_step, Awaited, Inv, SlotDirectory, LivesOnce, TypeOK, IsMap
    <3>2. ReputationAfter(i) \subseteq Percent
      <4>1. ValidatorAbsentFactor \in Percent /\ NotInConsensusFactor \in Percent
            /\ Ratios \subseteq Percent /\ Raised \subseteq Percent
        BY LifecycleAssumption
      <4>2. \A r, f \in Percent : decrease_rep(r, f) \in Percent
        <5> TAKE r, f \in Percent
        <5>1. decrease_rep(r, f) \in 0 .. r
          BY DecreaseRep
        <5> QED BY <5>1 DEF Percent
      <4>3. \A r \in Ratios : (NotInConsensusFactor * (100 - r)) \div 100 \in Percent
        <5> TAKE r \in Ratios
        <5>1. 100 - r \in Percent
          BY <4>1 DEF Percent
        <5>2. (NotInConsensusFactor * (100 - r)) \div 100 \in 0 .. NotInConsensusFactor
          BY <4>1, <5>1, Share
        <5> QED BY <4>1, <5>2 DEF Percent
      <4> QED BY <3>1, <4>1, <4>2, <4>3 DEF ReputationAfter, increase_rep
    <3>3. PICK r \in ReputationAfter(i) : reputation' = [reputation EXCEPT ![i] = r]
      BY <2>2 DEF emission_step
    <3> QED BY <3>1, <3>2, <3>3 DEF Inv, TypeOK, IsMap
  <2> QED BY <2>1, <2>2
<1>5. In("Registered")' = In("Registered")
  BY <1>1 DEF In
<1>6. TypeOK'
  <2>1. due' \subseteq Uids
    BY <1>3 DEF Inv, TypeOK, IsMap
  <2> QED BY <1>1, <1>2, <1>4, <2>1 DEF Inv, TypeOK
<1>7. SlotDirectory' /\ NameDirectory' /\ OffersStand'
  BY <1>1 DEF Inv, SlotDirectory, NameDirectory, OffersStand
<1>8. LivesOnce'
  BY <1>1, <1>3, <1>4, <1>5 DEF Inv, LivesOnce
<1>9. RegistrationEnds'
  <2>1. In("Registered") \subseteq DOMAIN subnets
    BY DEF In
  <2> QED BY <2>1, <1>1, <1>2, <1>5 DEF Inv, RegistrationEnds
<1> QED BY <1>6, <1>7, <1>8, <1>9 DEF Inv

(* The empty storage satisfies the invariant.                              *)
LEMMA InitInv == Init => Inv
<1> SUFFICES ASSUME Init PROVE Inv
  OBVIOUS
<1>1. DOMAIN EmptyMap = {}
  BY DEF EmptyMap
<1>2. uids = 0 /\ 1 .. uids = {} /\ uids \in 0 .. MaxUid
  BY LifecycleAssumption DEF Init
<1>3. In("Registered") = {}
  BY <1>1 DEF Init, In
<1>4. TypeOK
  BY <1>1, <1>2 DEF Init, TypeOK, IsMap, FirstEpoch
<1>5. SlotDirectory /\ OffersStand
  BY <1>1 DEF Init, SlotDirectory, OffersStand
<1>6. NameDirectory
  BY <1>1 DEF Init, NameDirectory
<1>7. LivesOnce
  BY <1>1, <1>2, <1>3 DEF Init, LivesOnce
<1>8. RegistrationEnds
  BY <1>1, <1>3 DEF Init, RegistrationEnds
<1> QED BY <1>4, <1>5, <1>6, <1>7, <1>8 DEF Inv

(* What the precompile dispatches are calls anyone may make directly.      *)
LEMMA EvmCallsAreCalls == EvmCalls => Directory \/ Lifecycle
<1>1. EvmRegisterSubnet \/ EvmOwnership => Directory
  BY DEF EvmRegisterSubnet, EvmOwnership, Directory
<1>2. EvmActivateSubnet \/ EvmPauseCalls => Lifecycle
  BY DEF EvmActivateSubnet, EvmPauseCalls, Lifecycle
<1>3. EvmOwnerCalls => Directory \/ Lifecycle
  BY DEF EvmOwnerCalls, Directory, Lifecycle
<1> QED BY <1>1, <1>2, <1>3 DEF EvmCalls

(* Every call and every hook preserves the invariant.                      *)
LEMMA NextInv ==
  ASSUME Inv, [Next]_vars
  PROVE  Inv'
<1>1. CASE Directory
  <2>1. CASE \E a \in Accounts, n \in Names : do_register_subnet(a, n)
    BY <2>1, RegisterInv
  <2>2. CASE \E i \in Uids, n \in Names : do_owner_update_name(i, n)
    BY <2>2, RenameInv
  <2>3. CASE \E i \in Uids, a \in Accounts : do_transfer_subnet_ownership(i, a)
    BY <2>3, OfferInv
  <2>4. CASE \E i \in Uids : do_accept_subnet_ownership(i)
    BY <2>4, OfferInv
  <2> QED BY <1>1, <2>1, <2>2, <2>3, <2>4 DEF Directory
<1>2. CASE Lifecycle
  <2>1. PICK i \in Uids :
          \/ \E staffed, staked \in BOOLEAN : do_activate_subnet(i, staffed, staked)
          \/ \E staffed, staked \in BOOLEAN : FailActivation(i, staffed, staked)
          \/ do_owner_pause_subnet(i)
          \/ do_owner_unpause_subnet(i)
          \/ do_owner_deactivate_subnet(i)
          \/ do_collective_remove_subnet(i)
    BY <1>2 DEF Lifecycle
  <2>2. CASE \E staffed, staked \in BOOLEAN : do_activate_subnet(i, staffed, staked)
    BY <2>2, ActivateInv
  <2>3. CASE \E staffed, staked \in BOOLEAN : FailActivation(i, staffed, staked)
    <3>1. i \in DOMAIN subnets /\ RemoveSubnet(i)
      BY <2>3 DEF FailActivation, ActivationDue, In
    <3> QED BY <3>1, CallRemoves
  <2>4. CASE do_owner_pause_subnet(i) \/ do_owner_unpause_subnet(i)
    BY <2>4, PauseInv
  <2>5. CASE do_owner_deactivate_subnet(i) \/ do_collective_remove_subnet(i)
    BY <2>5, CallRemoves DEF do_owner_deactivate_subnet, do_collective_remove_subnet
  <2> QED BY <2>1, <2>2, <2>3, <2>4, <2>5
<1>3. CASE Hooks
  BY <1>3, NewEpochInv, HookInv DEF Hooks
<1>4. CASE UNCHANGED vars
  <2>1. /\ UNCHANGED <<epoch, phase, subnets, uids, assigned, slotOf, subnetAt, friendlyOf,
                       friendlyTo, nameTo, owner, pending, offeredBy, registeredAt, unpausedAt>>
        /\ UNCHANGED <<activation, reputation, total, active, due, removed, spared>>
    BY <1>4 DEF vars, clockVars, slotVars, ownerVars, totalVars, pastVars, timeVars
  <2> QED BY <2>1 DEF Inv, TypeOK, SlotDirectory, NameDirectory, LivesOnce, OffersStand,
                      RegistrationEnds, In, IsMap
<1> QED BY <1>1, <1>2, <1>3, <1>4, EvmCallsAreCalls DEF Next

(* The subnets are finitely many.                                          *)
LEMMA FinitelyMany ==
  ASSUME Inv
  PROVE  IsFiniteSet(DOMAIN subnets) /\ IsFiniteSet(DOMAIN subnets \ In("Registered"))
<1>1. MaxUid \in Nat
  BY LifecycleAssumption
<1>2. IsFiniteSet(Uids)
  BY <1>1, FS_Interval DEF Uids
<1>3. DOMAIN subnets \in SUBSET Uids /\ DOMAIN subnets \ In("Registered") \in SUBSET Uids
  BY DEF Inv, TypeOK, IsMap
<1> QED BY <1>2, <1>3, FS_Subset

(* A saturating subtraction of what was removed counts what is left.       *)
LEMMA CountLeft ==
  ASSUME NEW A, IsFiniteSet(A), NEW T \in SUBSET A
  PROVE  Minus(Cardinality(A), Cardinality(T)) = Cardinality(A \ T)
<1>1. Cardinality(A) \in Nat /\ Cardinality(T) \in Nat /\ Cardinality(T) <= Cardinality(A)
  BY FS_Subset, FS_CardinalityType
<1>2. A \cap T = T
  OBVIOUS
<1>3. Cardinality(A \ T) = Cardinality(A) - Cardinality(T)
  BY <1>2, FS_Difference
<1> QED BY <1>1, <1>3 DEF Minus

(* Both counters follow a removal, whatever states the subnets were in.    *)
LEMMA RemoveTotals ==
  ASSUME Inv, SubnetTotals, NEW S, NEW rep, Removes(S, rep)
  PROVE  SubnetTotals'
<1> DEFINE A == DOMAIN subnets
           B == DOMAIN subnets \ In("Registered")
<1>1. /\ subnets' = Drop(subnets, S) /\ active' = Minus(active, Cardinality(ActivatedAmong(S)))
      /\ total' = Minus(total, Cardinality(S)) /\ S \in SUBSET A
  BY DEF Removes, RemoveSubnets
<1>2. DOMAIN subnets' = A \ S /\ \A i \in DOMAIN subnets' : subnets'[i] = subnets[i]
  BY <1>1 DEF Drop, Restrict
<1>3. DOMAIN subnets' \ In("Registered")' = B \ ActivatedAmong(S)
  BY <1>1, <1>2 DEF In, ActivatedAmong
<1>4. ActivatedAmong(S) \in SUBSET B
  BY <1>1 DEF ActivatedAmong
<1>5. IsFiniteSet(A) /\ IsFiniteSet(B)
  BY FinitelyMany
<1>6. total = Cardinality(A) /\ active = Cardinality(B) /\ total <= MaxSubnets + 1
  BY DEF SubnetTotals
<1> HIDE DEF A, B
<1>7. total' = Cardinality(A \ S)
  BY <1>1, <1>5, <1>6, CountLeft
<1>8. active' = Cardinality(B \ ActivatedAmong(S))
  BY <1>1, <1>4, <1>5, <1>6, CountLeft
<1>9. total' <= MaxSubnets + 1
  <2>1. Cardinality(A) \in Nat /\ Cardinality(A \ S) \in Nat /\ Cardinality(A \ S) <= Cardinality(A)
    <3>1. A \ S \in SUBSET A
      OBVIOUS
    <3> QED BY <3>1, <1>5, FS_Subset, FS_CardinalityType
  <2>2. MaxSubnets \in Nat
    BY LifecycleAssumption
  <2> QED BY <2>1, <2>2, <1>6, <1>7
<1> QED BY <1>2, <1>3, <1>7, <1>8, <1>9 DEF SubnetTotals

(* Registration and activation count one more, of one kind each; nothing   *)
(* but a removal counts less.                                              *)
LEMMA TotalsNext ==
  ASSUME Inv, SubnetTotals, [Next]_vars
  PROVE  SubnetTotals'
<1>0. IsFiniteSet(DOMAIN subnets) /\ IsFiniteSet(DOMAIN subnets \ In("Registered"))
  BY FinitelyMany
<1>1. ASSUME DOMAIN subnets' = DOMAIN subnets, In("Registered")' = In("Registered"),
             UNCHANGED <<total, active>>
      PROVE  SubnetTotals'
  BY <1>1 DEF SubnetTotals
<1>2. ASSUME NEW a \in Accounts, NEW n \in Names, do_register_subnet(a, n) PROVE SubnetTotals'
  <2> DEFINE i == uids + 1
             r == [state |-> "Registered", start |-> MaxEpoch + 1, name |-> n]
  <2>1. /\ subnets' = Put(subnets, i, r) /\ total' = total + 1 /\ active' = active
        /\ Cardinality(DOMAIN subnets) < MaxSubnets + 1
    BY <1>2 DEF do_register_subnet, NextUid
  <2>2. i \notin DOMAIN subnets /\ r.state = "Registered"
    BY DEF Inv, TypeOK, LivesOnce
  <2> HIDE DEF i, r
  <2>3. DOMAIN subnets' = DOMAIN subnets \cup {i} /\ subnets'[i] = r
        /\ \A j \in DOMAIN subnets : subnets'[j] = subnets[j]
    BY <2>1, <2>2 DEF Put
  <2>4. DOMAIN subnets' \ In("Registered")' = DOMAIN subnets \ In("Registered")
    BY <2>2, <2>3 DEF In
  <2>5. Cardinality(DOMAIN subnets \cup {i}) = Cardinality(DOMAIN subnets) + 1
    BY <1>0, <2>2, FS_AddElement
  <2>6. Cardinality(DOMAIN subnets) \in Nat /\ MaxSubnets \in Nat
    BY <1>0, FS_CardinalityType, LifecycleAssumption
  <2> QED BY <2>1, <2>3, <2>4, <2>5, <2>6 DEF SubnetTotals
<1>3. ASSUME NEW i, NEW staffed, NEW staked, do_activate_subnet(i, staffed, staked)
      PROVE  SubnetTotals'
  <2>1. /\ i \in In("Registered") /\ i \in DOMAIN subnets /\ epoch + 1 \in Nat
        /\ DOMAIN subnets' = DOMAIN subnets /\ active' = active + 1 /\ total' = total
    BY <1>3 DEF do_activate_subnet, ActivationDue, In, Inv, TypeOK
  <2>2. In("Registered")' = In("Registered") \ {i}
    BY <1>3, <2>1, StateChange DEF do_activate_subnet, pastVars
  <2>3. DOMAIN subnets' \ In("Registered")' = (DOMAIN subnets \ In("Registered")) \cup {i}
    BY <2>1, <2>2
  <2>4. Cardinality((DOMAIN subnets \ In("Registered")) \cup {i})
          = Cardinality(DOMAIN subnets \ In("Registered")) + 1
    BY <1>0, <2>1, FS_AddElement
  <2> QED BY <2>1, <2>3, <2>4 DEF SubnetTotals
<1>4. ASSUME NEW i, do_owner_pause_subnet(i) PROVE SubnetTotals'
  <2>1. /\ i \in DOMAIN subnets /\ i \notin In("Registered") /\ epoch \in Nat
        /\ DOMAIN subnets' = DOMAIN subnets /\ UNCHANGED <<total, active>>
    BY <1>4 DEF do_owner_pause_subnet, In, totalVars, Inv, TypeOK
  <2>2. In("Registered")' = In("Registered") \ {i}
    BY <1>4, <2>1, StateChange DEF do_owner_pause_subnet, pastVars
  <2> QED BY <2>1, <2>2, <1>1
<1>5. ASSUME NEW i, do_owner_unpause_subnet(i) PROVE SubnetTotals'
  <2>1. /\ i \in DOMAIN subnets /\ i \notin In("Registered") /\ epoch + 1 \in Nat
        /\ DOMAIN subnets' = DOMAIN subnets /\ UNCHANGED <<total, active>>
    BY <1>5 DEF do_owner_unpause_subnet, In, totalVars, Inv, TypeOK
  <2>2. In("Registered")' = In("Registered") \ {i}
    BY <1>5, <2>1, StateChange DEF do_owner_unpause_subnet, pastVars
  <2> QED BY <2>1, <2>2, <1>1
<1>6. ASSUME NEW i \in DOMAIN subnets, RemoveSubnet(i) PROVE SubnetTotals'
  BY <1>6, CallIsRemoval, RemoveTotals
<1>7. ASSUME NewEpoch PROVE SubnetTotals'
  BY <1>7, HookIsRemoval, RemoveTotals
<1>8. ASSUME NEW i, NEW n \in Names, do_owner_update_name(i, n) PROVE SubnetTotals'
  <2>1. /\ subnets' = [subnets EXCEPT ![i].name = n] /\ DOMAIN subnets' = DOMAIN subnets
        /\ UNCHANGED <<total, active>>
    BY <1>8 DEF do_owner_update_name, totalVars
  <2>2. \A j \in DOMAIN subnets : subnets'[j].state = subnets[j].state
    BY <2>1 DEF Inv, TypeOK, IsMap
  <2> QED BY <2>1, <2>2, <1>1 DEF In
<1>9. ASSUME UNCHANGED <<subnets, total, active>> PROVE SubnetTotals'
  BY <1>9, <1>1 DEF In
<1>10. ASSUME Directory PROVE SubnetTotals'
  BY <1>2, <1>8, <1>9, <1>10 DEF Directory, do_transfer_subnet_ownership,
     do_accept_subnet_ownership, totalVars
<1>11. ASSUME Lifecycle PROVE SubnetTotals'
  BY <1>3, <1>4, <1>5, <1>6, <1>11 DEF Lifecycle, FailActivation, ActivationDue, In,
     do_owner_deactivate_subnet, do_collective_remove_subnet
<1>12. ASSUME Hooks PROVE SubnetTotals'
  BY <1>7, <1>9, <1>12 DEF Hooks, MissEpoch, handle_subnet_emission_weights, emission_step,
     totalVars
<1>13. ASSUME UNCHANGED vars PROVE SubnetTotals'
  BY <1>9, <1>13 DEF vars, totalVars
<1> QED BY <1>10, <1>11, <1>12, <1>13, EvmCallsAreCalls DEF Next

(* The inductive invariant holds in every state.                           *)
THEOREM LifecycleInvariant == Spec => []Inv
<1>1. Inv /\ [Next]_vars => Inv'
  BY NextInv
<1> QED BY InitInv, <1>1, PTL DEF Spec

(* All variables keep their types; in particular no penalty or reward of   *)
(* the hooks takes the reputation of a subnet off its scale.               *)
THEOREM LifecycleTypes == Spec => []TypeOK
<1>1. Inv => TypeOK
  BY DEF Inv
<1> QED BY LifecycleInvariant, <1>1, PTL

(* Whatever is registered and removed in whatever order, slots, friendly   *)
(* ids and the maps back agree, and no two subnets share a slot.           *)
THEOREM SlotsAgree == Spec => []SlotDirectory
<1>1. Inv => SlotDirectory
  BY DEF Inv
<1> QED BY LifecycleInvariant, <1>1, PTL

(* Names are those of the subnets, each of one subnet, whoever is renamed  *)
(* or removed.                                                             *)
THEOREM NamesAgree == Spec => []NameDirectory
<1>1. Inv => NameDirectory
  BY DEF Inv
<1> QED BY LifecycleInvariant, <1>1, PTL

(* Slots, friendly ids and names lead to the subnet that has them, with    *)
(* any number of subnets, slots and names.                                 *)
THEOREM DirectoriesStayRight == Spec => []DirectoriesAgree
<1>1. SlotDirectory /\ NameDirectory => DirectoriesAgree
  BY DEF DirectoriesAgree
<1> QED BY SlotsAgree, NamesAgree, <1>1, PTL

(* No id is given out twice, and only subnets that exist and have been     *)
(* activated wait for an emission step.                                    *)
THEOREM IdsLiveOnce == Spec => []LivesOnce
<1>1. Inv => LivesOnce
  BY DEF Inv
<1> QED BY LifecycleInvariant, <1>1, PTL

(* An open offer of a subnet was made by its present owner.                *)
THEOREM OffersAreCurrent == Spec => []OffersStand
<1>1. Inv => OffersStand
  BY DEF Inv
<1> QED BY LifecycleInvariant, <1>1, PTL

(* Whatever the lengths of the periods, no registered subnet outlives its  *)
(* enactment period unless a hook failed to see or to remove it.           *)
THEOREM RegistrationsEnd == Spec => []RegistrationEnds
<1>1. Inv => RegistrationEnds
  BY DEF Inv
<1> QED BY LifecycleInvariant, <1>1, PTL

(* TotalSubnets and TotalActiveSubnets count what they say, and there is   *)
(* never more than one subnet above MaxSubnets, for any MaxSubnets.        *)
THEOREM TotalsCount == Spec => []SubnetTotals
<1>1. Init => SubnetTotals
  <2> SUFFICES ASSUME Init PROVE SubnetTotals
    OBVIOUS
  <2>1. DOMAIN subnets = {} /\ DOMAIN subnets \ In("Registered") = {} /\ total = 0 /\ active = 0
    BY DEF Init, EmptyMap
  <2>2. MaxSubnets \in Nat
    BY LifecycleAssumption
  <2> QED BY <2>1, <2>2, FS_EmptySet DEF SubnetTotals
<1>2. Inv /\ SubnetTotals /\ [Next]_vars => SubnetTotals'
  BY TotalsNext
<1> QED BY LifecycleInvariant, <1>1, <1>2, PTL DEF Spec

(***************************************************************************)
(* The end of pauses.                                                      *)
(***************************************************************************)

(* Induction over the subsets of a finite set, the predicate being a set G. *)
LEMMA SubsetInduction ==
  ASSUME NEW S, IsFiniteSet(S), NEW G,
         \A T \in SUBSET S : (\A U \in SUBSET T : U # T => U \in G) => T \in G
  PROVE  \A T \in SUBSET S : T \in G
<1> DEFINE B == {T \in SUBSET S : T \notin G}
<1> SUFFICES ASSUME NEW A \in SUBSET S, A \notin G PROVE FALSE
  OBVIOUS
<1>1. IsWellFoundedOn(StrictSubsetOrdering(S), SUBSET S)
  <2>1. IsWellFoundedOn(StrictSubsetOrdering(S), FiniteSubsetsOf(S))
    BY FS_StrictSubsetOrderingWellFounded
  <2> QED BY <2>1, FS_FiniteSubsetsOfFinite
<1>2. PICK T \in B : \A U \in B : ~ (<<U, T>> \in StrictSubsetOrdering(S))
  <2>1. B \subseteq SUBSET S /\ B # {}
    OBVIOUS
  <2> HIDE DEF B
  <2> QED BY <1>1, <2>1, WFMin
<1>3. ASSUME NEW U \in SUBSET T, U # T PROVE U \in G
  <2>1. U \in SUBSET S /\ T \in SUBSET S
    BY <1>2
  <2>2. <<U, T>> \in StrictSubsetOrdering(S)
    BY <2>1, <1>3 DEF StrictSubsetOrdering
  <2> QED BY <2>1, <2>2, <1>2
<1> QED BY <1>2, <1>3

(* Induction over the natural numbers, the predicate being a set: the sets *)
(* 0 .. n are subsets of a finite one.                                     *)
LEMMA NaturalInduction ==
  ASSUME NEW G, 0 \in G, \A n \in Nat : n \in G => n + 1 \in G
  PROVE  \A n \in Nat : n \in G
<1> SUFFICES ASSUME NEW n \in Nat PROVE n \in G
  OBVIOUS
<1> DEFINE I == 0 .. n
           H == {T \in SUBSET I : \A m \in Nat : T = 0 .. m => m \in G}
<1>1. IsFiniteSet(I)
  BY FS_Interval
<1>2. ASSUME NEW T \in SUBSET I, \A U \in SUBSET T : U # T => U \in H
      PROVE  T \in H
  <2> SUFFICES ASSUME NEW m \in Nat, T = 0 .. m PROVE m \in G
    OBVIOUS
  <2>1. CASE m = 0
    BY <2>1
  <2>2. CASE m # 0
    <3>1. m - 1 \in Nat /\ (m - 1) + 1 = m /\ m \in T /\ m \notin 0 .. (m - 1)
      BY <2>2
    <3>2. 0 .. (m - 1) \in SUBSET T /\ 0 .. (m - 1) # T
      BY <3>1
    <3>3. 0 .. (m - 1) \in H
      BY <3>2, <1>2
    <3>4. m - 1 \in G
      BY <3>1, <3>3
    <3> QED BY <3>1, <3>4
  <2> QED BY <2>1, <2>2
<1>3. \A T \in SUBSET I : T \in H
  <2> HIDE DEF H, I
  <2> QED BY <1>1, <1>2, SubsetInduction
<1> QED BY <1>3

(* A lower reputation is not better off after the same loss.               *)
LEMMA DecreaseMonotone ==
  ASSUME NEW r \in Percent, NEW s \in Percent, r <= s, NEW f \in Percent
  PROVE  decrease_rep(r, f) <= decrease_rep(s, f)
<1>1. /\ r * f \in Nat /\ s * f \in Nat
      /\ s * f = r * f + (s - r) * f /\ (s - r) * f <= (s - r) * 100
  BY DEF Percent
<1>2. ASSUME NEW p \in Nat, NEW q \in Nat, q <= p + (s - r) * 100
      PROVE  r - p \div 100 <= s - q \div 100
  BY <1>2 DEF Percent
<1>3. s * f <= r * f + (s - r) * 100
  BY <1>1 DEF Percent
<1> QED BY <1>1, <1>2, <1>3 DEF decrease_rep

(* The losses of the first n epochs beyond the limit.                      *)
Losses(n, f) ==
  f = [m \in 0 .. n |-> IF m = 0 THEN 100 ELSE decrease_rep(f[m - 1], MaxPauseEpochsFactor)]

(* They can be computed for every n.                                       *)
LEMMA LossesExist == \A n \in Nat : \E f : Losses(n, f)
<1> DEFINE G == {n \in Nat : \E f : Losses(n, f)}
<1>1. 0 \in G
  <2> DEFINE f == [m \in 0 .. 0 |-> 100]
  <2>1. Losses(0, f)
    BY DEF Losses
  <2> QED BY <2>1
<1>2. ASSUME NEW n \in Nat, n \in G PROVE n + 1 \in G
  <2>1. PICK f : Losses(n, f)
    BY <1>2
  <2> DEFINE g == [m \in 0 .. (n + 1) |->
                     IF m = n + 1 THEN decrease_rep(f[n], MaxPauseEpochsFactor) ELSE f[m]]
  <2>2. \A m \in 0 .. n : f[m] = IF m = 0 THEN 100
                                 ELSE decrease_rep(f[m - 1], MaxPauseEpochsFactor)
    BY <2>1 DEF Losses
  <2>3. ASSUME NEW m \in 0 .. (n + 1)
        PROVE  g[m] = IF m = 0 THEN 100 ELSE decrease_rep(g[m - 1], MaxPauseEpochsFactor)
    <3>1. CASE m = n + 1
      <4>1. m - 1 = n /\ n \in 0 .. (n + 1) /\ n # n + 1 /\ m # 0
        BY <3>1
      <4>2. g[m - 1] = f[n] /\ g[m] = decrease_rep(f[n], MaxPauseEpochsFactor)
        BY <4>1, <3>1
      <4> QED BY <4>1, <4>2
    <3>2. CASE m # n + 1 /\ m # 0
      <4>1. m \in 0 .. n /\ m - 1 \in 0 .. n /\ m - 1 # n + 1 /\ m - 1 \in 0 .. (n + 1)
        BY <3>2
      <4>2. g[m - 1] = f[m - 1] /\ g[m] = f[m]
        BY <4>1, <3>2
      <4> HIDE DEF g
      <4> QED BY <4>1, <4>2, <3>2, <2>2
    <3>3. CASE m = 0
      <4>1. g[m] = f[0] /\ 0 \in 0 .. n
        BY <3>3
      <4> HIDE DEF g
      <4> QED BY <4>1, <3>3, <2>2
    <3> QED BY <3>1, <3>2, <3>3
  <2>4. Losses(n + 1, g)
    <3>1. g = [m \in 0 .. (n + 1) |-> g[m]]
      OBVIOUS
    <3> HIDE DEF g
    <3> QED BY <3>1, <2>3 DEF Losses
  <2> HIDE DEF g
  <2> QED BY <2>4
<1>3. \A n \in Nat : n \in G
  <2> HIDE DEF G
  <2> QED BY <1>1, <1>2, NaturalInduction
<1> QED BY <1>3

(* One value of them: longer computations begin like shorter ones.         *)
LEMMA LossesAgree ==
  ASSUME NEW k \in Nat, NEW f, NEW g, Losses(k, f), Losses(k + 1, g)
  PROVE  f[k] = g[k]
<1> DEFINE G == {n \in Nat : n <= k => f[n] = g[n]}
<1>0. /\ \A m \in 0 .. k : f[m] = IF m = 0 THEN 100
                                 ELSE decrease_rep(f[m - 1], MaxPauseEpochsFactor)
      /\ \A m \in 0 .. (k + 1) : g[m] = IF m = 0 THEN 100
                                       ELSE decrease_rep(g[m - 1], MaxPauseEpochsFactor)
  BY DEF Losses
<1>1. 0 \in G
  BY <1>0
<1>2. ASSUME NEW n \in Nat, n \in G PROVE n + 1 \in G
  <2> SUFFICES ASSUME n + 1 <= k PROVE f[n + 1] = g[n + 1]
    OBVIOUS
  <2>1. /\ n + 1 \in 0 .. k /\ n + 1 \in 0 .. (k + 1) /\ n + 1 # 0 /\ (n + 1) - 1 = n
        /\ f[n] = g[n]
    BY <1>2
  <2> QED BY <1>0, <2>1
<1>3. \A n \in Nat : n \in G
  <2> HIDE DEF G
  <2> QED BY <1>1, <1>2, NaturalInduction
<1> QED BY <1>3

(* FullAfter starts from a full reputation and loses a share in each epoch. *)
LEMMA FullAfterSteps ==
  /\ FullAfter[0] = 100
  /\ \A n \in Nat : FullAfter[n + 1] = decrease_rep(FullAfter[n], MaxPauseEpochsFactor)
<1> DEFINE F == MaxPauseEpochsFactor
           loss(n) == CHOOSE f : Losses(n, f)
           g == [n \in Nat |-> loss(n)[n]]
<1>1. \A n \in Nat : Losses(n, loss(n))
  BY LossesExist
<1>2. ASSUME NEW n \in Nat
      PROVE  g[n] = IF n = 0 THEN 100 ELSE g[n - 1] - (g[n - 1] * F) \div 100
  <2> HIDE DEF loss
  <2>1. loss(n)[n] = IF n = 0 THEN 100 ELSE decrease_rep(loss(n)[n - 1], F)
    BY <1>1 DEF Losses
  <2>2. CASE n = 0
    BY <2>1, <2>2
  <2>3. CASE n # 0
    <3>1. PICK k \in Nat : k = n - 1 /\ n = k + 1
      BY <2>3
    <3>2. loss(k)[k] = loss(n)[k]
      BY <1>1, <3>1, LossesAgree
    <3>3. g[n] = decrease_rep(g[k], F)
      BY <2>1, <2>3, <3>1, <3>2
    <3> HIDE DEF g
    <3> QED BY <2>3, <3>1, <3>3 DEF decrease_rep
  <2> QED BY <2>2, <2>3
<1>3. g = [n \in Nat |-> IF n = 0 THEN 100 ELSE g[n - 1] - (g[n - 1] * F) \div 100]
  <2>1. g = [n \in Nat |-> g[n]]
    OBVIOUS
  <2> HIDE DEF g
  <2> QED BY <2>1, <1>2
<1> HIDE DEF g
<1>4. FullAfter = [n \in Nat |-> IF n = 0 THEN 100
                                ELSE FullAfter[n - 1] - (FullAfter[n - 1] * F) \div 100]
  BY <1>3 DEF FullAfter
<1>5. ASSUME NEW n \in Nat PROVE FullAfter[n + 1] = decrease_rep(FullAfter[n], F)
  <2>1. n + 1 \in Nat /\ n + 1 # 0 /\ (n + 1) - 1 = n
    OBVIOUS
  <2> QED BY <1>4, <2>1 DEF decrease_rep
<1> QED BY <1>4, <1>5

(* It stays a percentage.                                                  *)
LEMMA FullAfterPercent == \A n \in Nat : FullAfter[n] \in Percent
<1> DEFINE G == {n \in Nat : FullAfter[n] \in Percent}
<1>1. 0 \in G
  BY FullAfterSteps DEF Percent
<1>2. ASSUME NEW n \in Nat, n \in G PROVE n + 1 \in G
  <2>1. decrease_rep(FullAfter[n], MaxPauseEpochsFactor) \in 0 .. FullAfter[n]
    BY <1>2, DecreaseRep, LifecycleAssumption
  <2> QED BY <1>2, <2>1, FullAfterSteps DEF Percent
<1>3. \A n \in Nat : n \in G
  <2> HIDE DEF G
  <2> QED BY <1>1, <1>2, NaturalInduction
<1> QED BY <1>3
(* How long a paused subnet is beyond the limit.                           *)
Late(i) == epoch - (subnets[i].start + MaxSubnetPauseEpochs)

(* A paused subnet waits for an emission step in the epoch of its pause    *)
(* only, and beyond the limit it has no more than the losses leave, and    *)
(* no less than what keeps it.                                             *)
Worn ==
  /\ \A i \in In("Paused") \cap due : subnets[i].start = epoch
  /\ \A i \in In("Paused") \ spared :
       Late(i) > 0 => reputation[i] \in MinSubnetReputation .. FullAfter[Late(i)]

(* What a paused subnet is made of.                                        *)
LEMMA PausedFacts ==
  ASSUME Inv, NEW i \in In("Paused")
  PROVE  /\ i \in DOMAIN subnets /\ i \in DOMAIN reputation
         /\ subnets[i].start \in Nat /\ reputation[i] \in Percent
         /\ epoch \in Nat /\ MaxSubnetPauseEpochs \in Nat /\ Late(i) \in Int
<1>1. i \in DOMAIN subnets /\ i \in DOMAIN reputation
  BY DEF Inv, LivesOnce, In
<1>2. subnets[i] \in [state : States, start : Nat, name : Names] /\ reputation[i] \in Percent
  BY <1>1 DEF Inv, TypeOK, IsMap
<1>3. epoch \in Nat /\ MaxSubnetPauseEpochs \in Nat
  BY LifecycleAssumption DEF Inv, TypeOK
<1> QED BY <1>1, <1>2, <1>3 DEF Late

(* Steps in which time stands still, those that are paused were so before, *)
(* nobody becomes due and no paused subnet's reputation changes.           *)
LEMMA WornFrame ==
  ASSUME Inv, Worn, epoch' = epoch,
         \A i \in In("Paused")' :
           \/ subnets'[i].start = epoch
           \/ /\ i \in In("Paused") /\ subnets'[i].start = subnets[i].start
              /\ i \in due' => i \in due
              /\ i \notin spared' => i \notin spared
              /\ reputation'[i] = reputation[i] \/ i \in due
  PROVE  Worn'
<1>1. epoch \in Nat /\ MaxSubnetPauseEpochs \in Nat
  BY LifecycleAssumption DEF Inv, TypeOK
<1>2. ASSUME NEW i \in In("Paused")', i \in due' PROVE subnets'[i].start = epoch'
  BY <1>2 DEF Worn
<1>3. ASSUME NEW i \in In("Paused")', i \notin spared', Late(i)' > 0
      PROVE  reputation'[i] \in MinSubnetReputation .. FullAfter[Late(i)']
  <2>1. subnets'[i].start # epoch
    BY <1>1, <1>3 DEF Late
  <2>2. /\ i \in In("Paused") /\ subnets'[i].start = subnets[i].start /\ i \notin spared
        /\ reputation'[i] = reputation[i] \/ i \in due
    BY <1>3, <2>1
  <2>3. i \notin due
    BY <2>1, <2>2 DEF Worn
  <2>4. Late(i)' = Late(i)
    BY <2>2 DEF Late
  <2> QED BY <1>3, <2>2, <2>3, <2>4 DEF Worn
<1> QED BY <1>2, <1>3 DEF Worn

(* The preliminaries of an epoch take their share from every subnet that   *)
(* is paused too long, and remove it when it falls below the minimum.      *)
LEMMA WornNewEpoch ==
  ASSUME Inv, Worn, NewEpoch
  PROVE  Worn'
<1> DEFINE e == epoch + 1
<1>1. PICK stake \in [DOMAIN subnets -> Stakes], staffed \in SUBSET DOMAIN subnets :
        do_epoch_preliminaries(e, stake, staffed)
  BY DEF NewEpoch
<1>2. epoch \in Nat /\ epoch' = e /\ due' = {}
  BY DEF NewEpoch, Inv, TypeOK
<1> HIDE DEF e
<1> DEFINE rep == Penalized(e, stake, staffed)
           fallen == Disgraced(OverPaused(e) \cup Checked(e, stake), rep)
           doomed == Expired(e) \cup Deserted(e, staffed) \cup Poor(e, stake) \cup fallen
           weakest == Excess(e, stake, Checked(e, stake) \ fallen)
<1>3. PICK last \in IF weakest = {} THEN {{}} ELSE {{i} : i \in weakest} :
        \E skipped \in SUBSET (doomed \cup last) :
          LET gone == (doomed \cup last) \ skipped
          IN  /\ RemoveSubnets(gone, rep)
              /\ spared' = (spared \ gone) \cup skipped
  BY <1>1 DEF do_epoch_preliminaries
<1>4. PICK skipped \in SUBSET (doomed \cup last) :
        /\ RemoveSubnets((doomed \cup last) \ skipped, rep)
        /\ spared' = (spared \ ((doomed \cup last) \ skipped)) \cup skipped
  BY <1>3
<1>5. fallen \subseteq doomed
  OBVIOUS
<1> HIDE DEF doomed, weakest
<1> DEFINE gone == (doomed \cup last) \ skipped
<1>6. subnets' = Drop(subnets, gone) /\ reputation' = Drop(rep, gone) /\ due' = {}
  BY <1>2, <1>4 DEF RemoveSubnets
<1>7. DOMAIN rep = DOMAIN reputation
  BY DEF Penalized
<1>8. ASSUME NEW i \in In("Paused")'
      PROVE  /\ i \in In("Paused") /\ i \notin gone /\ subnets'[i] = subnets[i]
             /\ reputation'[i] = rep[i]
  <2> HIDE DEF gone, rep
  <2>1. i \in DOMAIN subnets /\ i \notin gone /\ subnets'[i] = subnets[i]
    BY <1>6, <1>8 DEF Drop, Restrict, In
  <2>2. i \in In("Paused")
    BY <1>8, <2>1 DEF In
  <2>3. i \in DOMAIN rep
    BY <1>7, <2>2, PausedFacts
  <2> QED BY <1>6, <2>1, <2>2, <2>3 DEF Drop, Restrict
<1>9. ASSUME NEW i \in In("Paused")', i \notin spared', Late(i)' > 0
      PROVE  reputation'[i] \in MinSubnetReputation .. FullAfter[Late(i)']
  <2>1. /\ i \in In("Paused") /\ i \notin gone /\ subnets'[i] = subnets[i]
        /\ reputation'[i] = rep[i]
    BY <1>8
  <2>2. i \notin spared /\ i \notin doomed
    BY <1>4, <1>9, <2>1
  <2>3. /\ subnets[i].start \in Nat /\ reputation[i] \in Percent /\ i \in DOMAIN reputation
        /\ MaxSubnetPauseEpochs \in Nat
    BY <2>1, PausedFacts
  <2>4. PICK n \in Nat : Late(i) = n /\ Late(i)' = n + 1
    <3>1. Late(i)' = Late(i) + 1 /\ Late(i) \in Nat
      BY <1>2, <1>9, <2>1, <2>3 DEF Late, e
    <3> QED BY <3>1
  <2>5. i \in OverPaused(e)
    BY <1>2, <2>1, <2>3, <2>4 DEF OverPaused, Late, e
  <2>6. rep[i] = decrease_rep(reputation[i], MaxPauseEpochsFactor)
    BY <2>3, <2>5 DEF Penalized
  <2>7. ~ (rep[i] < MinSubnetReputation)
    BY <1>5, <2>2, <2>5 DEF Disgraced
  <2>8. reputation[i] <= FullAfter[n] /\ FullAfter[n] \in Percent
    <3>1. FullAfter[n] \in Percent
      BY FullAfterPercent
    <3>2. CASE n = 0
      BY <2>3, <3>1, <3>2, FullAfterSteps DEF Percent
    <3>3. CASE n > 0
      BY <2>1, <2>2, <2>4, <3>1, <3>3 DEF Worn
    <3> QED BY <3>1, <3>2, <3>3
  <2>9. MaxPauseEpochsFactor \in Percent /\ MinSubnetReputation \in Percent
    BY LifecycleAssumption
  <2>10. rep[i] <= FullAfter[n + 1]
    BY <2>3, <2>6, <2>8, <2>9, DecreaseMonotone, FullAfterSteps
  <2>11. rep[i] \in Int
    <3>1. decrease_rep(reputation[i], MaxPauseEpochsFactor) \in 0 .. reputation[i]
      BY <2>3, <2>9, DecreaseRep
    <3> QED BY <2>3, <2>6, <3>1 DEF Percent
  <2>12. FullAfter[n + 1] \in Percent
    BY FullAfterPercent
  <2> HIDE DEF rep
  <2> QED BY <2>1, <2>4, <2>7, <2>9, <2>10, <2>11, <2>12 DEF Percent
<1> QED BY <1>6, <1>9 DEF Worn

(* A removal leaves the other paused subnets as they are.                  *)
LEMMA WornRemoval ==
  ASSUME Inv, Worn, NEW i \in DOMAIN subnets, RemoveSubnet(i)
  PROVE  Worn'
<1>1. /\ subnets' = Drop(subnets, {i}) /\ reputation' = Drop(reputation, {i})
      /\ due' = due /\ spared' = spared \ {i} /\ epoch' = epoch
  BY DEF RemoveSubnet, RemoveSubnets, clockVars
<1>2. ASSUME NEW j \in In("Paused")'
      PROVE  /\ j \in In("Paused") /\ j # i /\ subnets'[j] = subnets[j]
             /\ reputation'[j] = reputation[j]
  <2>1. j \in DOMAIN subnets /\ j # i /\ subnets'[j] = subnets[j]
    BY <1>1, <1>2 DEF Drop, Restrict, In
  <2>2. j \in In("Paused")
    BY <1>2, <2>1 DEF In
  <2>3. j \in DOMAIN reputation
    BY <2>2, PausedFacts
  <2> QED BY <1>1, <2>1, <2>2, <2>3 DEF Drop, Restrict
<1> QED BY <1>1, <1>2, WornFrame

(* A pause begins with the epoch it is made in; its end ends it.           *)
LEMMA WornPause ==
  ASSUME Inv, Worn, NEW i,
         \/ do_owner_pause_subnet(i) \/ do_owner_unpause_subnet(i)
         \/ \E staffed, staked \in BOOLEAN : do_activate_subnet(i, staffed, staked)
  PROVE  Worn'
<1>1. /\ i \in DOMAIN subnets
      /\ \/ subnets' = [subnets EXCEPT ![i].state = "Paused", ![i].start = epoch]
         \/ subnets' = [subnets EXCEPT ![i].state = "Active", ![i].start = epoch + 1]
      /\ epoch' = epoch /\ due' = due /\ spared' = spared /\ reputation' = reputation
  BY DEF do_owner_pause_subnet, do_owner_unpause_subnet, do_activate_subnet, ActivationDue,
         clockVars, pastVars, In
<1>2. subnets[i] \in [state : States, start : Nat, name : Names]
  BY <1>1 DEF Inv, TypeOK, IsMap
<1>3. ASSUME NEW j \in In("Paused")', j # i
      PROVE  j \in In("Paused") /\ subnets'[j] = subnets[j]
  <2>1. j \in DOMAIN subnets' /\ subnets'[j].state = "Paused"
    BY <1>3 DEF In
  <2>2. CASE subnets' = [subnets EXCEPT ![i].state = "Paused", ![i].start = epoch]
    BY <1>3, <2>1, <2>2 DEF In
  <2>3. CASE subnets' = [subnets EXCEPT ![i].state = "Active", ![i].start = epoch + 1]
    BY <1>3, <2>1, <2>3 DEF In
  <2> QED BY <1>1, <2>2, <2>3
<1>4. ASSUME i \in In("Paused")' PROVE subnets'[i].start = epoch
  <2>1. subnets'[i].state = "Paused"
    BY <1>4 DEF In
  <2>2. CASE subnets' = [subnets EXCEPT ![i].state = "Paused", ![i].start = epoch]
    BY <1>1, <1>2, <2>2
  <2>3. CASE subnets' = [subnets EXCEPT ![i].state = "Active", ![i].start = epoch + 1]
    BY <1>1, <1>2, <2>1, <2>3
  <2> QED BY <1>1, <2>2, <2>3
<1> QED BY <1>1, <1>3, <1>4, WornFrame

(* The other calls do not touch the state of a subnet that is there.       *)
LEMMA WornDirectory ==
  ASSUME Inv, Worn, Directory
  PROVE  Worn'
<1>1. CASE \E a \in Accounts, n \in Names : do_register_subnet(a, n)
  <2>1. PICK a \in Accounts, n \in Names : do_register_subnet(a, n)
    BY <1>1
  <2>2. PICK i : i = NextUid
    OBVIOUS
  <2>3. /\ subnets' = Put(subnets, i, [state |-> "Registered", start |-> MaxEpoch + 1, name |-> n])
        /\ reputation' = Put(reputation, i, 100)
        /\ epoch' = epoch /\ due' = due /\ spared' = spared
    BY <2>1, <2>2 DEF do_register_subnet, clockVars, pastVars
  <2>4. ASSUME NEW j \in In("Paused")'
        PROVE  /\ j \in In("Paused") /\ subnets'[j] = subnets[j]
               /\ reputation'[j] = reputation[j]
    <3>1. j \in DOMAIN subnets' /\ subnets'[j].state = "Paused"
      BY <2>4 DEF In
    <3>2. j # i
      BY <2>3, <3>1 DEF Put
    <3>3. j \in DOMAIN subnets /\ subnets'[j] = subnets[j]
      BY <2>3, <3>1, <3>2 DEF Put
    <3>4. j \in In("Paused")
      BY <3>1, <3>3 DEF In
    <3>5. j \in DOMAIN reputation
      BY <3>4, PausedFacts
    <3> QED BY <2>3, <3>2, <3>3, <3>4, <3>5 DEF Put
  <2> QED BY <2>3, <2>4, WornFrame
<1>2. CASE \E i \in Uids, n \in Names : do_owner_update_name(i, n)
  <2>1. PICK i \in Uids, n \in Names : do_owner_update_name(i, n)
    BY <1>2
  <2>2. /\ i \in DOMAIN subnets /\ subnets' = [subnets EXCEPT ![i].name = n]
        /\ epoch' = epoch /\ due' = due /\ spared' = spared /\ reputation' = reputation
    BY <2>1 DEF do_owner_update_name, clockVars, pastVars
  <2>3. subnets[i] \in [state : States, start : Nat, name : Names]
    BY <2>2 DEF Inv, TypeOK, IsMap
  <2>4. /\ DOMAIN subnets' = DOMAIN subnets
        /\ \A j \in DOMAIN subnets :
             subnets'[j].state = subnets[j].state /\ subnets'[j].start = subnets[j].start
    BY <2>2, <2>3
  <2>5. \A j \in In("Paused")' : j \in In("Paused") /\ subnets'[j].start = subnets[j].start
    BY <2>4 DEF In
  <2> QED BY <2>2, <2>5, WornFrame
<1>3. CASE \E i \in Uids : \/ do_accept_subnet_ownership(i)
                           \/ \E a \in Accounts : do_transfer_subnet_ownership(i, a)
  <2>1. UNCHANGED <<epoch, subnets, due, spared, reputation>>
    BY <1>3 DEF do_accept_subnet_ownership, do_transfer_subnet_ownership, clockVars, pastVars
  <2>2. In("Paused")' = In("Paused")
    BY <2>1 DEF In
  <2> QED BY <2>1, <2>2, WornFrame
<1> QED BY <1>1, <1>2, <1>3 DEF Directory

(* The other hooks: a missed epoch spares everybody, weights go to those   *)
(* that run, and a paused subnet has a last emission step in its epoch.    *)
LEMMA WornHooks ==
  ASSUME Inv, Worn,
         MissEpoch \/ handle_subnet_emission_weights \/ \E i \in Uids : emission_step(i)
  PROVE  Worn'
<1>0. subnets' = subnets /\ In("Paused")' = In("Paused")
  BY DEF MissEpoch, handle_subnet_emission_weights, emission_step, In
<1>1. CASE MissEpoch
  <2>1. due' = {} /\ spared' = spared \cup DOMAIN subnets /\ In("Paused") \subseteq DOMAIN subnets
    BY <1>1 DEF MissEpoch, In
  <2> QED BY <1>0, <2>1 DEF Worn
<1>2. CASE handle_subnet_emission_weights
  <2>1. /\ epoch' = epoch /\ spared' = spared /\ reputation' = reputation
        /\ due' \subseteq LiveAt(epoch)
    BY <1>2 DEF handle_subnet_emission_weights, pastVars
  <2>2. \A i \in In("Paused") : i \notin due'
    BY <2>1 DEF LiveAt, In
  <2> QED BY <1>0, <2>1, <2>2, WornFrame
<1>3. ASSUME NEW i \in Uids, emission_step(i) PROVE Worn'
  <2>1. /\ epoch' = epoch /\ spared' = spared /\ due' \subseteq due /\ i \in due
        /\ \A j \in DOMAIN reputation : j # i => reputation'[j] = reputation[j]
    BY <1>3 DEF emission_step, Awaited, clockVars, pastVars
  <2>2. \A j \in In("Paused") : reputation'[j] = reputation[j] \/ j \in due
    BY <2>1, PausedFacts
  <2> QED BY <1>0, <2>1, <2>2, WornFrame
<1> QED BY <1>1, <1>2, <1>3

(* A pause beyond its limit ends: after n epochs a subnet that no hook     *)
(* failed to see is still paused only if n losses of a full reputation     *)
(* leave it above the minimum.                                             *)
THEOREM PausesEnd == Spec => []PauseEnds
<1>1. Init => Worn
  <2> SUFFICES ASSUME Init PROVE Worn
    OBVIOUS
  <2>1. In("Paused") = {}
    BY DEF Init, In, EmptyMap
  <2> QED BY <2>1 DEF Worn
<1>2. ASSUME Inv, Worn, [Next]_vars PROVE Worn'
  <2>1. CASE Directory
    BY <1>2, <2>1, WornDirectory
  <2>2. CASE Lifecycle
    <3>1. PICK i \in Uids :
            \/ \E staffed, staked \in BOOLEAN : do_activate_subnet(i, staffed, staked)
            \/ \E staffed, staked \in BOOLEAN : FailActivation(i, staffed, staked)
            \/ do_owner_pause_subnet(i)
            \/ do_owner_unpause_subnet(i)
            \/ do_owner_deactivate_subnet(i)
            \/ do_collective_remove_subnet(i)
      BY <2>2 DEF Lifecycle
    <3>2. CASE \/ \E staffed, staked \in BOOLEAN : do_activate_subnet(i, staffed, staked)
               \/ do_owner_pause_subnet(i) \/ do_owner_unpause_subnet(i)
      BY <1>2, <3>2, WornPause
    <3>3. CASE \/ \E staffed, staked \in BOOLEAN : FailActivation(i, staffed, staked)
               \/ do_owner_deactivate_subnet(i) \/ do_collective_remove_subnet(i)
      <4>1. i \in DOMAIN subnets /\ RemoveSubnet(i)
        BY <3>3 DEF FailActivation, ActivationDue, In, do_owner_deactivate_subnet,
                    do_collective_remove_subnet
      <4> QED BY <1>2, <4>1, WornRemoval
    <3> QED BY <3>1, <3>2, <3>3
  <2>3. CASE Hooks
    BY <1>2, <2>3, WornNewEpoch, WornHooks DEF Hooks
  <2>4. CASE UNCHANGED vars
    <3>1. UNCHANGED <<epoch, subnets, due, spared, reputation>>
      BY <2>4 DEF vars, clockVars, pastVars
    <3>2. In("Paused")' = In("Paused")
      BY <3>1 DEF In
    <3> QED BY <1>2, <3>1, <3>2, WornFrame
  <2> QED BY <1>2, <2>1, <2>2, <2>3, <2>4, EvmCallsAreCalls DEF Next
<1>3. ASSUME Inv, Worn PROVE PauseEnds
  <2> SUFFICES ASSUME NEW i \in In("Paused") \ spared, Late(i) > 0
               PROVE  FullAfter[Late(i)] >= MinSubnetReputation
    BY DEF PauseEnds, Late
  <2>1. reputation[i] \in MinSubnetReputation .. FullAfter[Late(i)]
    BY <1>3 DEF Worn
  <2>2. Late(i) \in Nat
    BY <1>3, PausedFacts
  <2>3. FullAfter[Late(i)] \in Percent /\ MinSubnetReputation \in Percent
    BY <2>2, FullAfterPercent, LifecycleAssumption
  <2> QED BY <2>1, <2>3 DEF Percent
<1> QED BY <1>1, <1>2, <1>3, LifecycleInvariant, PTL DEF Spec
==============================================================================

---------------------------- MODULE GovernanceProofs ----------------------------
(***************************************************************************)
(* Proofs about Governance, for every set of accounts and calls and every  *)
(* threshold: the collective's books are sound, and no parameter changes   *)
(* without the support its setter demands.                                 *)
(***************************************************************************)
EXTENDS Governance, FiniteSetTheorems, TLAPS

Motion == [index : Nat, threshold : Nat, ayes : SUBSET Accounts, nays : SUBSET Accounts,
           end : Nat]

(* A motion v of the members M agrees with the votes c that they cast: the *)
(* sets of ayes and nays hold nobody else, and nobody twice.               *)
Agrees(v, c, M) ==
  /\ v \in Motion /\ c \subseteq M \X BOOLEAN
  /\ v.ayes \subseteq M /\ v.nays \subseteq M /\ v.ayes \cap v.nays = {}
  /\ \A m \in M : (<<m, TRUE>> \in c <=> m \in v.ayes) /\ (<<m, FALSE>> \in c <=> m \in v.nays)

(* The invariant that is inductive.  An index is given out once, and       *)
(* whoever cast a vote still has it.                                       *)
VotesRecorded == \A h \in DOMAIN voting : Agrees(voting[h], cast[h], members)
Books ==
  /\ members \subseteq Accounts /\ prime \in members \cup {NoPrime}
  /\ proposals \subseteq Calls /\ proposalOf = proposals /\ DOMAIN voting = proposals
  /\ DOMAIN cast = proposals
  /\ voting = [h \in proposals |-> voting[h]] /\ cast = [h \in proposals |-> cast[h]]
  /\ IsFiniteSet(proposals) /\ Cardinality(proposals) <= MaxProposals
  /\ proposalCount \in 0 .. MaxIndex /\ block \in 0 .. MaxBlock
  /\ executed = {} \/ \E e : executed = {e}
Indexed ==
  \A h \in DOMAIN voting :
    /\ voting[h].index < proposalCount
    /\ \A g \in DOMAIN voting : voting[g].index = voting[h].index => g = h
Inv == Books /\ VotesRecorded /\ Indexed
--------------------------------------------------------------------------------
(***************************************************************************)
(* Votes.                                                                  *)
(***************************************************************************)

(* A vote takes the place of the one its member has cast before.           *)
LEMMA VoteAgrees ==
  ASSUME NEW M, M \subseteq Accounts, NEW v, NEW c, Agrees(v, c, M), NEW who \in M,
         NEW approve \in BOOLEAN
  PROVE  /\ Agrees(Voted(v, who, approve), {d \in c : d[1] # who} \cup {<<who, approve>>}, M)
         /\ Voted(v, who, approve).index = v.index
<1> DEFINE c2 == {d \in c : d[1] # who} \cup {<<who, approve>>}
           v2 == Voted(v, who, approve)
<1>1. /\ v \in Motion /\ v.ayes \subseteq M /\ v.nays \subseteq M
      /\ v.ayes \cap v.nays = {} /\ who \in Accounts
  BY DEF Agrees
<1>2. /\ v2 \in Motion /\ v2.index = v.index
      /\ approve => v2.ayes = v.ayes \cup {who} /\ v2.nays = v.nays \ {who}
      /\ ~approve => v2.nays = v.nays \cup {who} /\ v2.ayes = v.ayes \ {who}
  BY <1>1 DEF Voted, Motion
<1>3. c2 \subseteq M \X BOOLEAN
  BY DEF Agrees
<1>4. ASSUME NEW m \in M, NEW b \in BOOLEAN
      PROVE  <<m, b>> \in c2 <=> (IF m = who THEN b = approve ELSE <<m, b>> \in c)
  OBVIOUS
<1> HIDE DEF c2, v2
<1>5. v2.ayes \subseteq M /\ v2.nays \subseteq M /\ v2.ayes \cap v2.nays = {}
  BY <1>1, <1>2
<1>6. ASSUME NEW m \in M
      PROVE  /\ <<m, TRUE>> \in c2 <=> m \in v2.ayes
             /\ <<m, FALSE>> \in c2 <=> m \in v2.nays
  <2>1. /\ <<m, TRUE>> \in c2 <=> (IF m = who THEN approve ELSE <<m, TRUE>> \in c)
        /\ <<m, FALSE>> \in c2 <=> (IF m = who THEN ~approve ELSE <<m, FALSE>> \in c)
    BY <1>4
  <2>2. (<<m, TRUE>> \in c <=> m \in v.ayes) /\ (<<m, FALSE>> \in c <=> m \in v.nays)
    BY DEF Agrees
  <2> QED BY <1>2, <2>1, <2>2
<1>7. Agrees(v2, c2, M)
  BY <1>2, <1>3, <1>5, <1>6 DEF Agrees
<1> QED BY <1>2, <1>7 DEF c2, v2

(* Those who leave take their votes with them; those who join have none.   *)
LEMMA LeaveAgrees ==
  ASSUME NEW M, NEW new, new \subseteq Accounts, NEW v, NEW c, Agrees(v, c, M)
  PROVE  /\ Agrees(WithoutVotesOf(v, M \ new), {d \in c : d[1] \notin M \ new}, new)
         /\ WithoutVotesOf(v, M \ new).index = v.index
<1> DEFINE c2 == {d \in c : d[1] \notin M \ new}
           v2 == WithoutVotesOf(v, M \ new)
<1>1. /\ v \in Motion /\ v.ayes \subseteq M /\ v.nays \subseteq M
      /\ v.ayes \cap v.nays = {} /\ c \subseteq M \X BOOLEAN
  BY DEF Agrees
<1>2. /\ v2 \in Motion /\ v2.index = v.index
      /\ v2.ayes = v.ayes \ (M \ new) /\ v2.nays = v.nays \ (M \ new)
  BY <1>1 DEF WithoutVotesOf, Motion
<1>3. c2 \subseteq new \X BOOLEAN
  <2> SUFFICES ASSUME NEW d \in c2 PROVE d \in new \X BOOLEAN
    OBVIOUS
  <2>1. d = <<d[1], d[2]>> /\ d[1] \in M /\ d[2] \in BOOLEAN /\ d[1] \notin M \ new
    BY <1>1
  <2> QED BY <2>1
<1>4. ASSUME NEW m \in new, NEW b \in BOOLEAN
      PROVE  <<m, b>> \in c2 <=> m \in M /\ <<m, b>> \in c
  BY <1>1
<1> HIDE DEF c2, v2
<1>5. ASSUME NEW m \in new
      PROVE  /\ <<m, TRUE>> \in c2 <=> m \in v2.ayes
             /\ <<m, FALSE>> \in c2 <=> m \in v2.nays
  <2>1. m \in M => (<<m, TRUE>> \in c <=> m \in v.ayes) /\ (<<m, FALSE>> \in c <=> m \in v.nays)
    BY DEF Agrees
  <2>2. (<<m, TRUE>> \in c2 <=> m \in M /\ <<m, TRUE>> \in c)
          /\ (<<m, FALSE>> \in c2 <=> m \in M /\ <<m, FALSE>> \in c)
    BY <1>4
  <2> QED BY <1>1, <1>2, <2>1, <2>2
<1>6. v2.ayes \subseteq new /\ v2.nays \subseteq new /\ v2.ayes \cap v2.nays = {}
  BY <1>1, <1>2
<1>7. Agrees(v2, c2, new)
  BY <1>2, <1>3, <1>5, <1>6 DEF Agrees
<1> QED BY <1>2, <1>7 DEF c2, v2
--------------------------------------------------------------------------------
(***************************************************************************)
(* The steps of the collective.                                            *)
(***************************************************************************)

(* set_members by root.                                                    *)
LEMMA SetMembersInv ==
  ASSUME Inv, NEW new \in SUBSET Accounts, NEW p, set_members(new, p)
  PROVE  Inv'
<1>1. /\ members' = new /\ prime' = p /\ p \in new \cup {NoPrime} /\ executed' = {}
      /\ UNCHANGED <<proposals, proposalOf, proposalCount, block>>
      /\ voting' = [h \in proposals |-> WithoutVotesOf(voting[h], members \ new)]
      /\ cast' = [h \in proposals |-> {c \in cast[h] : c[1] \notin members \ new}]
  BY DEF set_members, ExecutesNothing, Inv, Books
<1>2. Books'
  BY <1>1 DEF Inv, Books
<1>3. ASSUME NEW h \in proposals
      PROVE  Agrees(voting'[h], cast'[h], new) /\ voting'[h].index = voting[h].index
  <2>1. Agrees(voting[h], cast[h], members)
    BY DEF Inv, Books, VotesRecorded
  <2>2. /\ voting'[h] = WithoutVotesOf(voting[h], members \ new)
        /\ cast'[h] = {c \in cast[h] : c[1] \notin members \ new}
    BY <1>1
  <2> QED BY <2>1, <2>2, LeaveAgrees
<1>4. DOMAIN voting = proposals /\ DOMAIN voting' = proposals
  BY <1>1 DEF Inv, Books
<1>5. VotesRecorded'
  BY <1>1, <1>3, <1>4 DEF VotesRecorded
<1>6. Indexed'
  <2>1. \A h \in proposals : voting'[h].index = voting[h].index
    BY <1>3
  <2>2. proposalCount' = proposalCount
    BY <1>1
  <2> QED BY <1>4, <2>1, <2>2 DEF Inv, Indexed
<1> QED BY <1>2, <1>5, <1>6 DEF Inv

(* A vote.                                                                 *)
LEMMA VoteInv ==
  ASSUME Inv, NEW who \in Accounts, NEW h, NEW index, NEW approve \in BOOLEAN,
         do_vote(who, h, index, approve)
  PROVE  Inv'
<1>1. /\ who \in members /\ h \in proposals /\ executed' = {}
      /\ UNCHANGED <<members, prime, proposals, proposalOf, proposalCount, block>>
      /\ voting' = [voting EXCEPT ![h] = Voted(@, who, approve)]
      /\ cast' = [cast EXCEPT ![h] = {c \in @ : c[1] # who} \cup {<<who, approve>>}]
  BY DEF do_vote, ExecutesNothing, Inv, Books
<1>2. /\ voting' = [g \in proposals |-> IF g = h THEN Voted(voting[h], who, approve) ELSE voting[g]]
      /\ cast' = [g \in proposals |-> IF g = h THEN {c \in cast[h] : c[1] # who} \cup {<<who, approve>>}
                                      ELSE cast[g]]
  BY <1>1 DEF Inv, Books
<1>3. Books'
  BY <1>1, <1>2 DEF Inv, Books
<1>4. ASSUME NEW g \in proposals
      PROVE  Agrees(voting'[g], cast'[g], members) /\ voting'[g].index = voting[g].index
  <2>1. CASE g = h
    BY <1>1, <1>2, <2>1, VoteAgrees DEF Inv, Books, VotesRecorded
  <2>2. CASE g # h
    BY <1>2, <2>2 DEF Inv, Books, VotesRecorded
  <2> QED BY <2>1, <2>2
<1>5. DOMAIN voting = proposals /\ DOMAIN voting' = proposals
  BY <1>2 DEF Inv, Books
<1>6. VotesRecorded'
  BY <1>1, <1>4, <1>5 DEF VotesRecorded
<1>7. Indexed'
  <2>1. proposalCount' = proposalCount /\ \A g \in proposals : voting'[g].index = voting[g].index
    BY <1>1, <1>4
  <2> QED BY <1>5, <2>1 DEF Inv, Indexed
<1> QED BY <1>3, <1>6, <1>7 DEF Inv

(* A new motion has a new index and no votes.                              *)
LEMMA ProposeInv ==
  ASSUME Inv, NEW h \in Calls, NEW threshold \in Nat, do_propose_proposed(threshold, h)
  PROVE  Inv'
<1> DEFINE v == [index |-> proposalCount, threshold |-> threshold,
                 ayes |-> {}, nays |-> {}, end |-> block + MotionDuration]
<1>1. /\ h \notin proposals /\ executed' = {} /\ Cardinality(proposals) < MaxProposals
      /\ proposals' = proposals \cup {h} /\ proposalOf' = proposalOf \cup {h}
      /\ proposalCount' = proposalCount + 1 /\ proposalCount < MaxIndex
      /\ voting' = [x \in proposals \cup {h} |-> IF x = h THEN v ELSE voting[x]]
      /\ cast' = [x \in proposals \cup {h} |-> IF x = h THEN {} ELSE cast[x]]
      /\ UNCHANGED <<members, prime, block>>
  BY DEF do_propose_proposed, ExecutesNothing, Inv, Books
<1>2. IsFiniteSet(proposals') /\ Cardinality(proposals') <= MaxProposals
  <2>1. IsFiniteSet(proposals) /\ Cardinality(proposals) \in Nat
    BY FS_CardinalityType DEF Inv, Books
  <2>2. IsFiniteSet(proposals') /\ Cardinality(proposals') = Cardinality(proposals) + 1
    BY <1>1, <2>1, FS_AddElement
  <2> QED BY <1>1, <2>1, <2>2, CollectiveAssumption
<1>3. Books'
  BY <1>1, <1>2, CollectiveAssumption DEF Inv, Books
<1>4. v \in Motion /\ Agrees(v, {}, members) /\ v.index = proposalCount
  BY CollectiveAssumption DEF Motion, Agrees, Inv, Books
<1> HIDE DEF v
<1>5. VotesRecorded'
  BY <1>1, <1>4 DEF Inv, Books, VotesRecorded
<1>6. Indexed'
  <2>1. \A g \in proposals : voting[g].index \in Nat /\ voting[g].index < proposalCount
    BY DEF Inv, Books, VotesRecorded, Agrees, Motion, Indexed
  <2>2. \A g \in proposals \cup {h} :
          voting'[g].index = IF g = h THEN proposalCount ELSE voting[g].index
    BY <1>1, <1>4
  <2>3. proposalCount \in Nat /\ DOMAIN voting' = proposals \cup {h} /\ DOMAIN voting = proposals
    BY <1>1, CollectiveAssumption DEF Inv, Books
  <2>4. ASSUME NEW f \in proposals \cup {h} PROVE voting'[f].index < proposalCount'
    <3>1. proposalCount' = proposalCount + 1
      BY <1>1
    <3>2. CASE f = h
      BY <2>2, <2>3, <3>1, <3>2
    <3>3. CASE f # h
      <4>1. voting'[f].index = voting[f].index /\ f \in proposals
        BY <2>2, <3>3
      <4> QED BY <2>1, <2>3, <3>1, <4>1
    <3> QED BY <3>2, <3>3
  <2>5. ASSUME NEW f \in proposals \cup {h}, NEW g \in proposals \cup {h},
               voting'[g].index = voting'[f].index
        PROVE  g = f
    <3>1. CASE f # h /\ g # h
      <4>1. voting[g].index = voting[f].index /\ f \in proposals /\ g \in proposals
        BY <2>2, <2>5, <3>1
      <4> QED BY <2>3, <4>1 DEF Inv, Indexed
    <3>2. CASE f = h /\ g # h
      <4>1. voting[g].index = proposalCount /\ g \in proposals
        BY <2>2, <2>5, <3>2
      <4> QED BY <2>1, <2>3, <4>1
    <3>3. CASE f # h /\ g = h
      <4>1. voting[f].index = proposalCount /\ f \in proposals
        BY <2>2, <2>5, <3>3
      <4> QED BY <2>1, <2>3, <4>1
    <3> QED BY <3>1, <3>2, <3>3
  <2> QED BY <2>3, <2>4, <2>5 DEF Indexed
<1> QED BY <1>3, <1>5, <1>6 DEF Inv

(* A motion that is closed or disapproved leaves nothing behind.           *)
LEMMA RemoveInv ==
  ASSUME Inv, NEW h, remove_proposal(h), executed' = {} \/ \E e : executed' = {e}
  PROVE  Inv'
<1>1. /\ proposals' = proposals \ {h} /\ proposalOf' = proposals \ {h}
      /\ voting' = [x \in proposals \ {h} |-> voting[x]]
      /\ cast' = [x \in proposals \ {h} |-> cast[x]]
      /\ UNCHANGED <<members, prime, proposalCount, block>>
  BY DEF remove_proposal, Restrict, Inv, Books
<1>2. IsFiniteSet(proposals') /\ Cardinality(proposals') <= MaxProposals
  <2>1. IsFiniteSet(proposals) /\ Cardinality(proposals) \in Nat
    BY FS_CardinalityType DEF Inv, Books
  <2>2. IsFiniteSet(proposals') /\ Cardinality(proposals') <= Cardinality(proposals)
          /\ Cardinality(proposals') \in Nat
    BY <1>1, <2>1, FS_Subset, FS_CardinalityType
  <2> QED BY <2>1, <2>2, CollectiveAssumption DEF Inv, Books
<1>3. Books'
  BY <1>1, <1>2 DEF Inv, Books
<1>4. VotesRecorded' /\ Indexed'
  BY <1>1 DEF Inv, Books, VotesRecorded, Indexed
<1> QED BY <1>3, <1>4 DEF Inv

(* Steps that change no motion and no member.                              *)
LEMMA QuietInv ==
  ASSUME Inv, UNCHANGED <<members, prime, motionVars, cast>>, block' \in 0 .. MaxBlock,
         executed' = {} \/ \E e : executed' = {e}
  PROVE  Inv'
  BY DEF Inv, Books, VotesRecorded, Indexed, motionVars

(* Every step keeps the books.                                             *)
LEMMA NextInv == Inv /\ [Next]_vars => Inv'
<1> SUFFICES ASSUME Inv, [Next]_vars PROVE Inv'
  OBVIOUS
<1>0. Thresholds \subseteq Nat /\ block \in 0 .. MaxBlock /\ MaxBlock \in Nat
  BY CollectiveAssumption DEF Inv, Books
<1>1. CASE CouncilNext
  <2>1. ASSUME NEW new \in SUBSET Accounts, NEW p \in Accounts \cup {NoPrime},
               set_members(new, p)
        PROVE  Inv'
    BY <2>1, SetMembersInv
  <2>2. ASSUME NEW who \in Accounts, NEW h \in Calls, execute(who, h) PROVE Inv'
    BY <1>0, <2>2, QuietInv DEF execute, Executes
  <2>3. ASSUME NEW who \in Accounts, NEW t \in Thresholds, NEW h \in Calls, propose(who, t, h)
        PROVE  Inv'
    <3>1. CASE do_propose_execute(h)
      BY <1>0, <3>1, QuietInv DEF do_propose_execute, Executes
    <3>2. CASE do_propose_proposed(t, h)
      BY <1>0, <3>2, ProposeInv
    <3> QED BY <2>3, <3>1, <3>2 DEF propose
  <2>4. ASSUME NEW who \in Accounts, NEW h \in Calls, NEW i \in 0 .. MaxIndex,
               NEW approve \in BOOLEAN, do_vote(who, h, i, approve)
        PROVE  Inv'
    BY <2>4, VoteInv
  <2>5. ASSUME NEW h \in Calls, disapprove_proposal(h) PROVE Inv'
    BY <2>5, RemoveInv DEF disapprove_proposal, ExecutesNothing
  <2>6. ASSUME NEW h \in Calls, NEW i \in 0 .. MaxIndex, do_close(h, i) PROVE Inv'
    <3>1. remove_proposal(h) /\ (executed' = {} \/ \E e : executed' = {e})
      BY <2>6 DEF do_close, Executes, ExecutesNothing
    <3> QED BY <3>1, RemoveInv
  <2>7. CASE NextBlock
    <3>1. block' \in 0 .. MaxBlock
      BY <1>0, <2>7 DEF NextBlock
    <3> QED BY <2>7, <3>1, QuietInv DEF NextBlock, ExecutesNothing
  <2> QED BY <1>1, <2>1, <2>2, <2>3, <2>4, <2>5, <2>6, <2>7 DEF CouncilNext
<1>2. CASE UNCHANGED councilVars
  <2>1. executed' = {} \/ \E e : executed' = {e}
    BY <1>2 DEF councilVars, Inv, Books
  <2> QED BY <1>0, <1>2, <2>1, QuietInv DEF councilVars
<1> QED BY <1>1, <1>2 DEF Next, CollectiveStep, EvmStep, vars

(* A collective begins without motions.                                    *)
LEMMA InitInv == Init => Inv
<1> SUFFICES ASSUME Init PROVE Inv
  OBVIOUS
<1>1. /\ members \subseteq Accounts /\ prime = NoPrime /\ proposals = {} /\ proposalOf = {}
      /\ voting = [h \in {} |-> 0] /\ cast = [h \in {} |-> {}]
      /\ proposalCount = 0 /\ block = 0 /\ executed = {}
  BY DEF Init, CouncilInit
<1>2. IsFiniteSet(proposals) /\ Cardinality(proposals) <= MaxProposals
  BY <1>1, FS_EmptySet, CollectiveAssumption
<1>3. /\ DOMAIN voting = {} /\ DOMAIN cast = {}
      /\ voting = [h \in proposals |-> voting[h]] /\ cast = [h \in proposals |-> cast[h]]
  BY <1>1
<1>4. Books
  BY <1>1, <1>2, <1>3, CollectiveAssumption DEF Books
<1> QED BY <1>3, <1>4 DEF Inv, VotesRecorded, Indexed

(* The books are kept.                                                     *)
LEMMA Invariance == Spec => []Inv
  BY InitInv, NextInv, PTL DEF Spec

(* Whoever proposes, votes, closes, joins and leaves, in whatever order:   *)
(* Proposals, ProposalOf and Voting hold the same motions, and only        *)
(* members vote, once each, so that do_close cannot underflow.             *)
THEOREM MotionsStaySound == Spec => []MotionsSound
<1>1. Inv => MotionsSound
  <2> SUFFICES ASSUME Inv PROVE MotionsSound
    OBVIOUS
  <2>1. \A h \in DOMAIN voting :
          /\ voting[h] \in Motion /\ cast[h] \subseteq members \X BOOLEAN
          /\ voting[h].ayes \subseteq members /\ voting[h].nays \subseteq members
          /\ voting[h].ayes \cap voting[h].nays = {}
    BY DEF Inv, VotesRecorded, Agrees
  <2>2. VotersAreMembers
    BY <2>1 DEF VotersAreMembers
  <2>3. MotionsConsistent
    BY DEF Inv, Books, Indexed, MotionsConsistent
  <2>4. Cardinality(executed) <= 1
    <3>1. CASE executed = {}
      BY <3>1, FS_EmptySet
    <3>2. CASE \E e : executed = {e}
      <4>1. PICK e : executed = {e}
        BY <3>2
      <4> QED BY <4>1, FS_Singleton
    <3> QED BY <3>1, <3>2 DEF Inv, Books
  <2>5. CouncilTypeOK
    BY <2>1, <2>4 DEF Inv, Books, Motion, CouncilTypeOK
  <2> QED BY <2>2, <2>3, <2>5 DEF MotionsSound
<1> QED BY <1>1, Invariance, PTL
--------------------------------------------------------------------------------
(***************************************************************************)
(* What a change of a parameter takes.                                     *)
(***************************************************************************)

(* No call is open to both majorities.                                     *)
LEMMA OneMajority == \A name \in SuperMajorityCalls : name \notin MajorityCalls
  BY DEF SuperMajorityCalls, MajorityCalls, OriginGroups, Origins1, Origins2, Origins3,
     Origins4, Origins5, Origins6

(* A parameter changes in a call whose origin may make it.                 *)
LEMMA ChangeNeedsOrigin ==
  ASSUME NEW origin, NEW h, Dispatch(origin, h), net' # net
  PROVE  MayCall(origin, h.name)
  BY DEF Dispatch

(* An origin with the votes of n members passes with enough of them.       *)
LEMMA OriginIsEnough ==
  ASSUME Seats \in Nat, NEW yes \in Nat, NEW n \in Nat, n >= yes, NEW name,
         MayCall(MembersOrigin(yes), name)
  PROVE  Enough(n, name)
<1>1. \/ name \in MajorityCalls /\ yes * 3 >= 2 * Seats
      \/ name \in SuperMajorityCalls /\ yes * 5 >= 4 * Seats
  BY DEF MayCall, EnsureProportionAtLeast, MembersOrigin
<1>2. CASE name \in SuperMajorityCalls
  BY <1>1, <1>2, OneMajority DEF Enough
<1>3. CASE name \notin SuperMajorityCalls
  BY <1>1, <1>3 DEF Enough
<1> QED BY <1>2, <1>3

(* The supporters of a motion are those counted as ayes, or all but the    *)
(* nays.                                                                   *)
LEMMA SupportersCounted ==
  ASSUME Inv, NEW h \in DOMAIN voting
  PROVE  /\ Seats \in Nat /\ Cardinality(voting[h].ayes) \in Nat
         /\ Cardinality(voting[h].nays) \in Nat /\ Cardinality(Supporters(h)) \in Nat
         /\ Cardinality(Supporters(h)) >= Cardinality(voting[h].ayes)
         /\ (block >= voting[h].end /\ PrimeDefaultVote(h)) =>
              Cardinality(Supporters(h)) = Seats - Cardinality(voting[h].nays)
<1> DEFINE v == voting[h]
           for == {m \in members : <<m, TRUE>> \in cast[h]}
           silent == {m \in members : \A c \in cast[h] : c[1] # m}
<1>1. Agrees(v, cast[h], members)
  BY DEF Inv, VotesRecorded
<1>2. IsFiniteSet(members)
  BY FS_Subset, CollectiveAssumption DEF Inv, Books
<1>3. for = v.ayes
  BY <1>1 DEF Agrees
<1>4. silent = members \ (v.ayes \cup v.nays)
  <2>1. ASSUME NEW m \in members, m \notin silent PROVE m \in v.ayes \cup v.nays
    <3>1. PICK c \in cast[h] : c[1] = m
      BY <2>1
    <3>2. c = <<m, c[2]>> /\ c[2] \in BOOLEAN
      BY <1>1, <3>1 DEF Agrees
    <3>3. <<m, TRUE>> \in cast[h] \/ <<m, FALSE>> \in cast[h]
      BY <3>2
    <3> QED BY <1>1, <3>3 DEF Agrees
  <2>2. ASSUME NEW m \in silent PROVE m \notin v.ayes /\ m \notin v.nays
    <3>1. <<m, TRUE>>[1] = m /\ <<m, FALSE>>[1] = m
      OBVIOUS
    <3>2. <<m, TRUE>> \notin cast[h] /\ <<m, FALSE>> \notin cast[h]
      BY <2>2, <3>1
    <3> QED BY <1>1, <2>2, <3>2 DEF Agrees
  <2> QED BY <2>1, <2>2
<1>5. v.ayes \subseteq members /\ v.nays \subseteq members /\ v.ayes \cap v.nays = {}
  BY <1>1 DEF Agrees
<1>6. Supporters(h) = IF block >= v.end /\ prime \in v.ayes THEN members \ v.nays ELSE v.ayes
  <2>1. Supporters(h) = IF block >= v.end /\ prime \in for THEN for \cup silent ELSE for
    BY DEF Supporters
  <2>2. for \cup silent = members \ v.nays
    BY <1>3, <1>4, <1>5
  <2> HIDE DEF for, silent
  <2> QED BY <1>3, <2>1, <2>2
<1> HIDE DEF v
<1>7. v.ayes \subseteq Supporters(h) /\ Supporters(h) \subseteq members
  BY <1>5, <1>6
<1>8. IsFiniteSet(v.ayes) /\ IsFiniteSet(v.nays) /\ IsFiniteSet(Supporters(h))
  BY <1>2, <1>5, <1>7, FS_Subset
<1>9. /\ Seats \in Nat /\ Cardinality(v.ayes) \in Nat /\ Cardinality(v.nays) \in Nat
      /\ Cardinality(Supporters(h)) \in Nat
  BY <1>2, <1>8, FS_CardinalityType DEF Seats
<1>10. Cardinality(Supporters(h)) >= Cardinality(v.ayes)
  <2>1. Cardinality(v.ayes) <= Cardinality(Supporters(h))
    BY <1>7, <1>8, FS_Subset
  <2> QED BY <1>9, <2>1
<1>11. ASSUME block >= v.end, prime \in v.ayes
       PROVE  Cardinality(Supporters(h)) = Seats - Cardinality(v.nays)
  <2>1. Supporters(h) = members \ v.nays /\ members \cap v.nays = v.nays
    BY <1>5, <1>6, <1>11
  <2> QED BY <1>2, <2>1, FS_Difference DEF Seats
<1> QED BY <1>9, <1>10, <1>11 DEF v, PrimeDefaultVote

(* A motion that is closed and changes a parameter had enough support.     *)
LEMMA CloseGoverns ==
  ASSUME Inv, NEW h \in Calls, NEW i, do_close(h, i), DispatchExecuted, net' # net
  PROVE  Closed(h) /\ Enough(Cardinality(Supporters(h)), h.name)
<1> DEFINE v == voting[h]
           yes == Cardinality(v.ayes)
           no == Cardinality(v.nays)
           n == Cardinality(Supporters(h))
<1>1. Closed(h) /\ h \in DOMAIN voting
  BY DEF Closed, do_close, remove_proposal, Restrict
<1>2. executed' # {}
  BY DEF DispatchExecuted, paramVars
<1>3. \/ Executes(MembersOrigin(yes), h)
      \/ /\ block >= v.end /\ PrimeDefaultVote(h)
         /\ Executes(MembersOrigin(yes + (Seats - (yes + no))), h)
  BY <1>2 DEF do_close, ExecutesNothing
<1>4. /\ Seats \in Nat /\ yes \in Nat /\ no \in Nat /\ n \in Nat /\ n >= yes
      /\ block >= v.end /\ PrimeDefaultVote(h) => n = Seats - no
  BY <1>1, SupportersCounted
<1>5. ASSUME NEW origin, Executes(origin, h) PROVE MayCall(origin, h.name)
  <2>1. Dispatch(origin, h)
    BY <1>2, <1>5 DEF DispatchExecuted, Executes
  <2> QED BY <2>1, ChangeNeedsOrigin
<1> HIDE DEF v, yes, no, n
<1>6. CASE Executes(MembersOrigin(yes), h)
  BY <1>1, <1>4, <1>5, <1>6, OriginIsEnough DEF n
<1>7. CASE /\ block >= v.end /\ PrimeDefaultVote(h)
           /\ Executes(MembersOrigin(yes + (Seats - (yes + no))), h)
  <2>1. yes + (Seats - (yes + no)) = n
    BY <1>4, <1>7
  <2>2. MayCall(MembersOrigin(n), h.name)
    BY <1>5, <1>7, <2>1
  <2>3. Enough(n, h.name)
    BY <1>4, <2>2, OriginIsEnough
  <2> QED BY <1>1, <2>3 DEF n
<1> QED BY <1>3, <1>6, <1>7

(* What a member proposes and executes at once changes a parameter only    *)
(* when nobody else has a seat.                                            *)
LEMMA ProposeGoverns ==
  ASSUME Inv, NEW who, NEW t, NEW h \in Calls, propose(who, t, h), DispatchExecuted,
         net' # net
  PROVE  ByTheOnlyMember(h)
<1>1. executed' # {}
  BY DEF DispatchExecuted, paramVars
<1>2. who \in members /\ h \notin proposalOf /\ Executes(MembersOrigin(1), h)
  BY <1>1 DEF propose, do_propose_execute, do_propose_proposed, ExecutesNothing
<1>3. Dispatch(MembersOrigin(1), h)
  BY <1>1, <1>2 DEF DispatchExecuted, Executes
<1>4. IsFiniteSet(members) /\ Seats \in Nat
  BY FS_Subset, FS_CardinalityType, CollectiveAssumption DEF Inv, Books, Seats
<1>5. Seats # 0
  BY <1>2, <1>4, FS_EmptySet DEF Seats
<1>6. 1 * 3 >= 2 * Seats \/ 1 * 5 >= 4 * Seats
  BY <1>3, ChangeNeedsOrigin DEF MayCall, EnsureProportionAtLeast, MembersOrigin
<1>7. Seats = 1
  BY <1>4, <1>5, <1>6
<1> QED BY <1>2, <1>7 DEF Inv, Books, ByTheOnlyMember

(* Nothing else changes a parameter: not a member alone, not a vote, not a *)
(* call from the EVM.                                                      *)
LEMMA NothingElseGoverns ==
  ASSUME Inv, DispatchExecuted,
         \/ ExecutesNothing
         \/ \E who \in Accounts, h \in Calls : execute(who, h)
  PROVE  net' = net
<1>1. CASE ExecutesNothing
  BY <1>1 DEF ExecutesNothing, DispatchExecuted, paramVars
<1>2. ASSUME NEW who, NEW h, execute(who, h) PROVE net' = net
  <2>1. Dispatch(MemberOrigin, h)
    BY <1>2 DEF execute, Executes, DispatchExecuted
  <2>2. ~MayCall(MemberOrigin, h.name)
    BY DEF MayCall, EnsureProportionAtLeast, MemberOrigin
  <2> QED BY <2>1, <2>2, ChangeNeedsOrigin
<1> QED BY <1>1, <1>2

(* A parameter changes only with the support of the share of the present   *)
(* members that its setter demands, for every collective: members who      *)
(* left, votes changed or repeated, low thresholds and calls from the EVM  *)
(* do not count.                                                           *)
THEOREM CouncilAlwaysGoverns == Spec => CouncilGoverns
<1> DEFINE Governed == net' # net =>
       \E h \in Calls :
         \/ Closed(h) /\ Enough(Cardinality(Supporters(h)), h.name)
         \/ ByTheOnlyMember(h)
<1>1. Inv /\ [Next]_vars => Governed
  <2> SUFFICES ASSUME Inv, [Next]_vars, net' # net PROVE Governed
    OBVIOUS
  <2>1. CASE CollectiveStep
    <3>1. CouncilNext /\ DispatchExecuted
      BY <2>1 DEF CollectiveStep
    <3>2. ~ExecutesNothing /\ ~\E who \in Accounts, h \in Calls : execute(who, h)
      BY <3>1, NothingElseGoverns
    <3>3. \/ \E who \in Accounts, t \in Thresholds, h \in Calls : propose(who, t, h)
          \/ \E h \in Calls, i \in 0 .. MaxIndex : do_close(h, i)
      BY <3>1, <3>2 DEF CouncilNext, set_members, do_vote, disapprove_proposal, NextBlock
    <3> QED BY <3>1, <3>3, CloseGoverns, ProposeGoverns
  <2>2. CASE EvmStep
    <3>1. PICK h \in Calls : EvmDispatch(h)
      BY <2>2 DEF EvmStep
    <3>2. Dispatch(Origin("Signed"), h)
      BY <3>1 DEF EvmDispatch
    <3>3. ~MayCall(Origin("Signed"), h.name)
      BY DEF MayCall, EnsureProportionAtLeast, Origin
    <3> QED BY <3>2, <3>3, ChangeNeedsOrigin
  <2>3. CASE UNCHANGED vars
    BY <2>3 DEF vars, paramVars
  <2> QED BY <2>1, <2>2, <2>3 DEF Next
<1> QED BY <1>1, Invariance, PTL DEF Spec, CouncilGoverns
================================================================================

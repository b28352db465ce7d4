------------------------------ MODULE Collective -------------------------------
(***************************************************************************)
(* The collective pallet: its members propose calls, vote on them and      *)
(* close the motions, and a motion that has been approved is dispatched    *)
(* with the origin Members(yes, seats).                                    *)
(*                                                                         *)
(* A proposal stands for its hash.  What a step dispatches it leaves in    *)
(* executed: the call and its origin; the module that composes the         *)
(* collective with the pallet it governs makes the call's changes in the   *)
(* same step.  A call that fails is rolled back by itself: its motion is   *)
(* removed all the same.                                                   *)
(*                                                                         *)
(* Left out: bounds on the length and weight of a proposal, which the      *)
(* caller chooses, and fees; a list of members that names one twice, which *)
(* set_members sorts and stores as it is, so that the seats (its length)   *)
(* outnumber the members; and MaxMembers, which set_members only logs: a   *)
(* longer list is stored, though try_state then fails.                     *)
(***************************************************************************)
EXTENDS Integers, FiniteSets, Functions

CONSTANTS
  Accounts, Calls, NoPrime,
  MotionDuration, MaxProposals,
  Thresholds, MaxIndex, MaxBlock     \* thresholds proposed, and bounds of the model

ASSUME CollectiveAssumption ==
  /\ IsFiniteSet(Accounts) /\ NoPrime \notin Accounts /\ Thresholds \subseteq Nat
  /\ {MotionDuration, MaxProposals, MaxIndex, MaxBlock} \subseteq Nat

VARIABLES
  members, prime,     \* Members, Prime
  proposals,          \* Proposals
  proposalOf,         \* ProposalOf: the proposals whose call is stored
  voting,             \* Voting: proposal -> index, threshold, ayes, nays and end
  proposalCount,      \* ProposalCount
  block,
  executed,           \* what the last step dispatched: at most one call with its origin
  cast                \* history: <<member, approve>>, the votes cast on each motion by
                      \* those who have been members since

motionVars == <<proposals, proposalOf, voting, proposalCount>>
councilVars == <<members, prime, motionVars, block, executed, cast>>

CouncilInit ==
  /\ members \in SUBSET Accounts /\ members # {}
  /\ prime = NoPrime
  /\ proposals = {} /\ proposalOf = {} /\ voting = [h \in {} |-> 0] /\ proposalCount = 0
  /\ block = 0 /\ executed = {} /\ cast = [h \in {} |-> {}]
--------------------------------------------------------------------------------
Seats == Cardinality(members)
MembersOrigin(yes) == [kind |-> "Members", yes |-> yes, seats |-> Seats]
MemberOrigin == [kind |-> "Member", yes |-> 0, seats |-> 0]

Executes(origin, h) == executed' = {[origin |-> origin, call |-> h]}
ExecutesNothing == executed' = {}

(* Mutant: a member who leaves keeps the vote.                             *)
KeepVotes(v, outgoing) == v

WithoutVotesOf(v, outgoing) ==
  [v EXCEPT !.ayes = @ \ outgoing, !.nays = @ \ outgoing]

(* Called by root: the new members, and one of them or nobody as prime.    *)
(* change_members_sorted drops the votes of those who leave.               *)
set_members(new, p) ==
  LET outgoing == members \ new
  IN  /\ p \in new \cup {NoPrime}
      /\ members' = new /\ prime' = p
      /\ voting' = [h \in DOMAIN voting |-> IF h \in proposals
                                            THEN WithoutVotesOf(voting[h], outgoing)
                                            ELSE voting[h]]
      /\ cast' = [h \in DOMAIN cast |-> {c \in cast[h] : c[1] \notin outgoing}]
      /\ ExecutesNothing
      /\ UNCHANGED <<proposals, proposalOf, proposalCount, block>>

execute(who, h) ==
  /\ who \in members
  /\ Executes(MemberOrigin, h)
  /\ UNCHANGED <<members, prime, motionVars, block, cast>>

(* Mutant: a proposal of one member is dispatched as the whole collective. *)
ExecuteAsAll(h) ==
  /\ h \notin proposalOf
  /\ Executes(MembersOrigin(Seats), h)
  /\ UNCHANGED <<members, prime, motionVars, block, cast>>

do_propose_execute(h) ==
  /\ h \notin proposalOf
  /\ Executes(MembersOrigin(1), h)
  /\ UNCHANGED <<members, prime, motionVars, block, cast>>

do_propose_proposed(threshold, h) ==
  /\ h \notin proposalOf
  /\ Cardinality(proposals) < MaxProposals /\ proposalCount < MaxIndex
  /\ proposals' = proposals \cup {h} /\ proposalOf' = proposalOf \cup {h}
  /\ proposalCount' = proposalCount + 1
  /\ voting' = [x \in DOMAIN voting \cup {h} |->
                  IF x = h THEN [index |-> proposalCount, threshold |-> threshold,
                                 ayes |-> {}, nays |-> {}, end |-> block + MotionDuration]
                  ELSE voting[x]]
  /\ cast' = [x \in DOMAIN cast \cup {h} |-> IF x = h THEN {} ELSE cast[x]]
  /\ ExecutesNothing
  /\ UNCHANGED <<members, prime, block>>

propose(who, threshold, h) ==
  /\ who \in members
  /\ IF threshold < 2 THEN do_propose_execute(h) ELSE do_propose_proposed(threshold, h)

(* Mutant: a member who changes sides stays on the other.                  *)
VoteBothWays(v, who, approve) ==
  IF approve THEN [v EXCEPT !.ayes = @ \cup {who}] ELSE [v EXCEPT !.nays = @ \cup {who}]

Voted(v, who, approve) ==
  IF approve THEN [v EXCEPT !.ayes = @ \cup {who}, !.nays = @ \ {who}]
  ELSE [v EXCEPT !.nays = @ \cup {who}, !.ayes = @ \ {who}]

do_vote(who, h, index, approve) ==
  /\ who \in members
  /\ h \in DOMAIN voting /\ voting[h].index = index
  /\ who \notin (IF approve THEN voting[h].ayes ELSE voting[h].nays)
  /\ voting' = [voting EXCEPT ![h] = Voted(@, who, approve)]
  /\ cast' = [cast EXCEPT ![h] = {c \in @ : c[1] # who} \cup {<<who, approve>>}]
  /\ ExecutesNothing
  /\ UNCHANGED <<members, prime, proposals, proposalOf, proposalCount, block>>

(* Mutant: the votes of a motion are kept for the next with its call.      *)
RemoveKeepsVotes(h) ==
  /\ proposals' = proposals \ {h} /\ proposalOf' = proposalOf \ {h}
  /\ cast' = Restrict(cast, DOMAIN cast \ {h})
  /\ UNCHANGED <<voting, members, prime, proposalCount, block>>

remove_proposal(h) ==
  /\ proposals' = proposals \ {h} /\ proposalOf' = proposalOf \ {h}
  /\ voting' = Restrict(voting, DOMAIN voting \ {h})
  /\ cast' = Restrict(cast, DOMAIN cast \ {h})
  /\ UNCHANGED <<members, prime, proposalCount, block>>

(* Called by root.                                                         *)
disapprove_proposal(h) ==
  /\ h \in proposals
  /\ ExecutesNothing /\ remove_proposal(h)

PrimeDefaultVote(h) == prime # NoPrime /\ prime \in voting[h].ayes

(* By any account.  Enough votes decide at once; at the end of the motion  *)
(* those who have not voted follow the prime, if the prime approves.       *)
do_close(h, index) ==
  LET v == voting[h]
      yes == Cardinality(v.ayes)
      no == Cardinality(v.nays)
      abstentions == Seats - (yes + no)
      final == IF PrimeDefaultVote(h) THEN yes + abstentions ELSE yes
  IN  /\ h \in DOMAIN voting /\ v.index = index
      /\ \/ yes >= v.threshold /\ h \in proposalOf /\ Executes(MembersOrigin(yes), h)
         \/ yes < v.threshold /\ Seats - no < v.threshold /\ ExecutesNothing
         \/ /\ yes < v.threshold /\ Seats - no >= v.threshold /\ block >= v.end
            /\ IF final >= v.threshold
               THEN h \in proposalOf /\ Executes(MembersOrigin(final), h)
               ELSE ExecutesNothing
      /\ remove_proposal(h)

NextBlock ==
  /\ block < MaxBlock /\ block' = block + 1
  /\ ExecutesNothing /\ UNCHANGED <<members, prime, motionVars, cast>>

CouncilNext ==
  \/ \E new \in SUBSET Accounts, p \in Accounts \cup {NoPrime} : set_members(new, p)
  \/ \E who \in Accounts, h \in Calls : execute(who, h)
  \/ \E who \in Accounts, t \in Thresholds, h \in Calls : propose(who, t, h)
  \/ \E who \in Accounts, h \in Calls, i \in 0 .. MaxIndex, approve \in BOOLEAN :
       do_vote(who, h, i, approve)
  \/ \E h \in Calls : disapprove_proposal(h)
  \/ \E h \in Calls, i \in 0 .. MaxIndex : do_close(h, i)
  \/ NextBlock
--------------------------------------------------------------------------------
(***************************************************************************)
(* Properties.                                                             *)
(***************************************************************************)
CouncilTypeOK ==
  /\ members \subseteq Accounts /\ prime \in Accounts \cup {NoPrime}
  /\ proposals \subseteq Calls /\ proposalOf \subseteq Calls /\ DOMAIN voting \subseteq Calls
  /\ DOMAIN cast = DOMAIN voting
  /\ \A h \in DOMAIN voting :
       /\ voting[h].index \in Nat /\ voting[h].threshold \in Nat /\ voting[h].end \in Nat
       /\ voting[h].ayes \subseteq Accounts /\ voting[h].nays \subseteq Accounts
       /\ cast[h] \subseteq Accounts \X BOOLEAN
  /\ proposalCount \in 0 .. MaxIndex /\ block \in 0 .. MaxBlock
  /\ Cardinality(executed) <= 1

(* Only members have a vote on a motion, and each has one: the subtraction *)
(* of the votes from the seats in do_close cannot underflow, however the   *)
(* members and their votes have changed since it was proposed.             *)
VotersAreMembers ==
  \A h \in DOMAIN voting :
    voting[h].ayes \cup voting[h].nays \subseteq members
      /\ voting[h].ayes \cap voting[h].nays = {}

(* Proposals, ProposalOf and Voting hold the same motions, each with an    *)
(* index of its own that ProposalCount has given out, and the prime is a   *)
(* member: what try_state of the pallet demands, after every call.         *)
MotionsConsistent ==
  /\ proposals = proposalOf /\ proposals = DOMAIN voting
  /\ Cardinality(proposals) <= MaxProposals
  /\ \A h \in DOMAIN voting :
       /\ voting[h].index < proposalCount
       /\ \A g \in DOMAIN voting : voting[g].index = voting[h].index => g = h
  /\ prime \in members \cup {NoPrime}

(* The members whose last vote on h since they joined was to approve it,   *)
(* and after its end those without a vote, if the prime is one of them.    *)
Supporters(h) ==
  LET for == {m \in members : <<m, TRUE>> \in cast[h]}
      silent == {m \in members : \A c \in cast[h] : c[1] # m}
  IN  IF block >= voting[h].end /\ prime \in for THEN for \cup silent ELSE for
================================================================================

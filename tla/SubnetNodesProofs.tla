--------------------------- MODULE SubnetNodesProofs ---------------------------
(***************************************************************************)
(* Proofs about SubnetNodes: for any number of nodes, validators, epochs,  *)
(* pauses and updates, any limits of the queue and of the subnet and any   *)
(* course of consensus, the storage maps of a subnet's nodes agree with    *)
(* each other, through every iteration of the emission step.               *)
(***************************************************************************)
EXTENDS SubnetNodes, FiniteSetTheorems, SequenceTheorems, WellFoundedInduction, TLAPS

(***************************************************************************)
(* The inductive invariant.                                                *)
(***************************************************************************)
States == {"Registered", "Active", "Paused", "Removed"}
Steps  == {"calls", "slash", "penalize", "queue", "unqueue", "reward", "elect"}

(* Time and the hook: no subnet is removed while the hook runs, nobody is  *)
(* elected until its end, and the loops have a submission.                 *)
Timed ==
  /\ epoch \in Nat \ {0} /\ tick \in {"early", "slot"}
  /\ step \in Steps /\ state \in States
  /\ startEpoch \in Nat /\ prevPause \in Nat /\ weighted \in BOOLEAN
  /\ state = "Paused" => startEpoch <= epoch
  /\ step # "calls" => state # "Removed" /\ elected = None
  /\ step \notin {"calls", "elect"} => submission # None

(* Nodes are kept under their ids, which were all handed out, and are      *)
(* either active or registered.                                            *)
NodeMap(f) == f \in [DOMAIN f -> Node] /\ \A i \in DOMAIN f : f[i].id = i
Mapped ==
  /\ uids \in 0 .. MaxUid
  /\ NodeMap(nodes) /\ DOMAIN nodes \subseteq 1 .. uids
  /\ NodeMap(registered) /\ DOMAIN registered \subseteq 1 .. uids
  /\ DOMAIN nodes \cap DOMAIN registered = {}

(* The ids in a sequence of nodes occur once each.                         *)
Distinct(s) == \A j, k \in 1 .. Len(s) : s[j].id = s[k].id => j = k

(* The queue has one copy of each registered node, with its owner.         *)
Queued ==
  /\ queue \in Seq(Node) /\ Len(queue) <= MaxRegisteredNodes + 1
  /\ Distinct(queue)
  /\ \A k \in 1 .. Len(queue) :
       /\ queue[k].id \in DOMAIN registered
       /\ queue[k].validator = registered[queue[k].id].validator
  /\ \A i \in DOMAIN registered : \E k \in 1 .. Len(queue) : queue[k].id = i

(* The index x finds every node of the slots s in its place.               *)
Coherent(s, x) ==
  /\ s \in Seq(Uids) /\ x \in [DOMAIN x -> Nat]
  /\ \A j, k \in 1 .. Len(s) : s[j] = s[k] => j = k
  /\ DOMAIN x = Range(s)
  /\ \A k \in 1 .. Len(s) : x[s[k]] = k - 1

(* The slots hold the active Validators, among them the emergency set.     *)
Emergency == [ids : SUBSET Uids, total : Nat, max : Nat]
Slotted ==
  /\ Coherent(slots, slotIndex)
  /\ Range(slots) = {i \in DOMAIN nodes : nodes[i].class = Validator}
  /\ emergency # None => emergency \in Emergency /\ emergency.ids \subseteq Range(slots)

(* The counters count, and the subnet has room for its active nodes.       *)
Counted == CountersAgree /\ all \in Counters /\ Cardinality(DOMAIN nodes) <= MaxSubnetNodes

(* Reputations and the owners' index cover the nodes there are.            *)
Listed(i, v) == \/ i \in DOMAIN nodes /\ nodes[i].validator = v
                \/ i \in DOMAIN registered /\ registered[i].validator = v
Owned ==
  /\ reputation \in [DOMAIN reputation -> Low .. Full] /\ DOMAIN reputation \subseteq Uids
  /\ owned \in [Validators -> SUBSET Uids] /\ DOMAIN uniqueOf \subseteq Uniques
  /\ state # "Removed" =>
       /\ DOMAIN reputation = DOMAIN nodes \cup DOMAIN registered
       /\ \A v \in Validators, i \in Uids : i \in owned[v] <=> Listed(i, v)

Tables == Mapped /\ Queued /\ Slotted /\ Counted /\ Owned

(* A node that was active once: its id is not handed out again.            *)
Known(i) == i \in 1 .. uids /\ i \notin DOMAIN registered

(* The proposal: its nodes are known, and those that are still there have  *)
(* the class and start they had, until the hook's loop comes to them.      *)
Submission ==
  [validator : Uids, nodes : {f \in UNION {[D -> Node] : D \in SUBSET Uids} : NodeMap(f)},
   validators : SUBSET Uids, data : SUBSET Uids, attests : SUBSET Uids,
   prioritize : Uids \cup {None}, remove : Uids \cup {None}]
Fresh(i) == i \in DOMAIN nodes => /\ nodes[i].class = submission.nodes[i].class
                                  /\ nodes[i].start = submission.nodes[i].start
Proposed ==
  /\ submission \in Submission /\ submission.validator \in submission.attests
  /\ state # "Removed" =>
       /\ \A i \in DOMAIN submission.nodes : Known(i)
       /\ \A i \in submission.attests : Known(i)
       /\ step \in {"slash", "penalize"} => todo \subseteq submission.attests
       /\ step = "reward" =>
            todo \subseteq DOMAIN submission.nodes /\ \A i \in todo : Fresh(i)
       /\ step \notin {"reward", "elect"} =>
            \A i \in DOMAIN submission.nodes : Fresh(i)
Hooked ==
  /\ todo \subseteq Uids /\ elected \in Uids \cup {None}
  /\ elected # None => Known(elected)
  /\ submission # None => Proposed
  /\ ElectedStays

Inv == Timed /\ Tables /\ Hooked
--------------------------------------------------------------------------------
(***************************************************************************)
(* Storage maps, natural numbers and sequences.                            *)
(***************************************************************************)

(* What insertion into a storage map does.                                 *)
LEMMA PutFacts ==
  ASSUME NEW f, NEW k, NEW v
  PROVE  /\ DOMAIN Put(f, k, v) = DOMAIN f \cup {k}
         /\ Put(f, k, v)[k] = v
         /\ \A x \in DOMAIN f : x # k => Put(f, k, v)[x] = f[x]
  BY DEF Put

(* What removal from a storage map does.                                   *)
LEMMA WithoutFacts ==
  ASSUME NEW f, NEW k
  PROVE  /\ DOMAIN Without(f, k) = DOMAIN f \ {k}
         /\ \A x \in DOMAIN f \ {k} : Without(f, k)[x] = f[x]
  BY DEF Without, Restrict

(* Induction over the subsets of a finite set, the predicate being a set G. *)
LEMMA SubsetInduction ==
  ASSUME NEW S, IsFiniteSet(S), NEW G,
         \A T \in SUBSET S : (\A U \in SUBSET T : U # T => U \in G) => T \in G
  PROVE  \A T \in SUBSET S : T \in G
<1> DEFINE B == {T \in SUBSET S : T \notin G}
<1> SUFFICES ASSUME NEW A \in SUBSET S, A \notin G PROVE FALSE
  OBVIOUS
<1>1. IsWellFoundedOn(StrictSubsetOrdering(S), SUBSET S)
  <2>1. IsWellFoundedOn(StrictSubsetOrdering(S), FiniteSubsetsOf(S))
    BY FS_StrictSubsetOrderingWellFounded
  <2> QED BY <2>1, FS_FiniteSubsetsOfFinite
<1>2. PICK T \in B : \A U \in B : ~ (<<U, T>> \in StrictSubsetOrdering(S))
  <2>1. B \subseteq SUBSET S /\ B # {}
    OBVIOUS
  <2> HIDE DEF B
  <2> QED BY <1>1, <2>1, WFMin
<1>3. ASSUME NEW U \in SUBSET T, U # T PROVE U \in G
  <2>1. U \in SUBSET S /\ T \in SUBSET S
    BY <1>2
  <2>2. <<U, T>> \in StrictSubsetOrdering(S)
    BY <2>1, <1>3 DEF StrictSubsetOrdering
  <2> QED BY <2>1, <2>2, <1>2
<1> QED BY <1>2, <1>3

(* Induction over the natural numbers, the predicate being a set: the sets *)
(* 0 .. n are subsets of a finite one.                                     *)
LEMMA NaturalInduction ==
  ASSUME NEW G, 0 \in G, \A n \in Nat : n \in G => n + 1 \in G
  PROVE  \A n \in Nat : n \in G
<1> SUFFICES ASSUME NEW n \in Nat PROVE n \in G
  OBVIOUS
<1> DEFINE I == 0 .. n
           H == {T \in SUBSET I : \A m \in Nat : T = 0 .. m => m \in G}
<1>1. IsFiniteSet(I)
  BY FS_Interval
<1>2. ASSUME NEW T \in SUBSET I, \A U \in SUBSET T : U # T => U \in H
      PROVE  T \in H
  <2> SUFFICES ASSUME NEW m \in Nat, T = 0 .. m PROVE m \in G
    OBVIOUS
  <2>1. CASE m = 0
    BY <2>1
  <2>2. CASE m # 0
    <3>1. m - 1 \in Nat /\ (m - 1) + 1 = m /\ m \in T /\ m \notin 0 .. (m - 1)
      BY <2>2
    <3>2. 0 .. (m - 1) \in SUBSET T /\ 0 .. (m - 1) # T
      BY <3>1
    <3>3. 0 .. (m - 1) \in H
      BY <3>2, <1>2
    <3>4. m - 1 \in G
      BY <3>1, <3>3
    <3> QED BY <3>1, <3>4
  <2> QED BY <2>1, <2>2
<1>3. \A T \in SUBSET I : T \in H
  <2> HIDE DEF H, I
  <2> QED BY <1>1, <1>2, SubsetInduction
<1> QED BY <1>3

(* A set of natural numbers that is not empty has a first element.         *)
LEMMA FirstFacts ==
  ASSUME NEW S, S \subseteq Nat, S # {}
  PROVE  First(S) \in S /\ \A j \in S : First(S) <= j
<1>1. \E i \in S : \A j \in S : i <= j
  <2> SUFFICES ASSUME \A i \in S : \E j \in S : j < i PROVE FALSE
    OBVIOUS
  <2> DEFINE G == {n \in Nat : \A j \in S : n < j}
  <2>1. 0 \in G
    <3> SUFFICES ASSUME NEW j \in S PROVE 0 < j
      OBVIOUS
    <3> QED OBVIOUS
  <2>2. ASSUME NEW n \in Nat, n \in G PROVE n + 1 \in G
    <3> SUFFICES ASSUME NEW j \in S PROVE n + 1 < j
      OBVIOUS
    <3>1. PICK k \in S : k < j
      OBVIOUS
    <3>2. n < k
      BY <2>2
    <3> QED BY <3>1, <3>2
  <2>3. \A n \in Nat : n \in G
    <3> HIDE DEF G
    <3> QED BY <2>1, <2>2, NaturalInduction
  <2>4. PICK a \in S : TRUE
    OBVIOUS
  <2> QED BY <2>3, <2>4
<1> QED BY <1>1 DEF First

(* The elements of a sequence.                                             *)
LEMMA RangeFacts ==
  ASSUME NEW T, NEW s \in Seq(T)
  PROVE  /\ DOMAIN s = 1 .. Len(s) /\ Len(s) \in Nat
         /\ Range(s) \subseteq T
         /\ \A k \in 1 .. Len(s) : s[k] \in T /\ s[k] \in Range(s)
         /\ \A x \in Range(s) : \E k \in 1 .. Len(s) : s[k] = x
<1>1. DOMAIN s = 1 .. Len(s) /\ Len(s) \in Nat /\ \A k \in 1 .. Len(s) : s[k] \in T
  BY LenProperties, ElementOfSeq
<1> QED BY <1>1 DEF Range

(* What appending does.                                                    *)
LEMMA AppendFacts ==
  ASSUME NEW T, NEW s \in Seq(T), NEW x \in T
  PROVE  /\ Append(s, x) \in Seq(T) /\ Len(Append(s, x)) = Len(s) + 1
         /\ \A k \in 1 .. Len(s) : Append(s, x)[k] = s[k]
         /\ Append(s, x)[Len(s) + 1] = x
         /\ Range(Append(s, x)) = Range(s) \cup {x}
<1>1. /\ Append(s, x) \in Seq(T) /\ Len(Append(s, x)) = Len(s) + 1
      /\ \A k \in 1 .. Len(s) : Append(s, x)[k] = s[k]
      /\ Append(s, x)[Len(s) + 1] = x
  BY AppendProperties, LenProperties
<1>2. Range(Append(s, x)) = Range(s) \cup {x}
  <2>1. Len(s) \in Nat
    BY LenProperties
  <2>2. ASSUME NEW y \in Range(Append(s, x)) PROVE y \in Range(s) \cup {x}
    <3>1. PICK k \in 1 .. Len(Append(s, x)) : Append(s, x)[k] = y
      BY <1>1, RangeFacts
    <3>2. k \in 1 .. Len(s) \/ k = Len(s) + 1
      BY <3>1, <2>1, <1>1
    <3> QED BY <3>1, <3>2, <1>1, RangeFacts
  <2>3. ASSUME NEW y \in Range(s) PROVE y \in Range(Append(s, x))
    <3>1. PICK k \in 1 .. Len(s) : s[k] = y
      BY RangeFacts
    <3>2. k \in 1 .. Len(Append(s, x)) /\ Append(s, x)[k] = y
      BY <3>1, <1>1, <2>1
    <3> QED BY <3>2, <1>1, RangeFacts
  <2>4. x \in Range(Append(s, x))
    <3>1. Len(s) + 1 \in 1 .. Len(Append(s, x))
      BY <1>1, <2>1
    <3>2. \A k \in 1 .. Len(Append(s, x)) : Append(s, x)[k] \in Range(Append(s, x))
      BY <1>1, RangeFacts
    <3>3. Append(s, x)[Len(s) + 1] \in Range(Append(s, x))
      BY <3>1, <3>2
    <3> QED BY <3>3, <1>1
  <2> QED BY <2>2, <2>3, <2>4
<1> QED BY <1>1, <1>2

(* A function on 1 .. n is a sequence of length n.                         *)
LEMMA FunctionIsSeq ==
  ASSUME NEW T, NEW n \in Nat, NEW f \in [1 .. n -> T]
  PROVE  f \in Seq(T) /\ Len(f) = n
  OBVIOUS

(* The first n elements of q but those with id i, in their order.          *)
Keeps(q, i, n, f) ==
  f = [m \in 0 .. n |-> IF m = 0 THEN <<>>
                        ELSE IF q[m].id = i THEN f[m - 1]
                        ELSE Append(f[m - 1], q[m])]

(* The function by which Retained filters the queue exists.                *)
LEMMA KeepsExists ==
  ASSUME NEW q, NEW i
  PROVE  \A n \in Nat : \E f : Keeps(q, i, n, f)
<1> DEFINE G == {n \in Nat : \E f : Keeps(q, i, n, f)}
<1>1. 0 \in G
  <2> DEFINE f == [m \in 0 .. 0 |-> <<>>]
  <2>1. Keeps(q, i, 0, f)
    BY DEF Keeps
  <2> QED BY <2>1
<1>2. ASSUME NEW n \in Nat, n \in G PROVE n + 1 \in G
  <2>1. PICK f : Keeps(q, i, n, f)
    BY <1>2
  <2> DEFINE last == IF q[n + 1].id = i THEN f[n] ELSE Append(f[n], q[n + 1])
             g == [m \in 0 .. (n + 1) |-> IF m = n + 1 THEN last ELSE f[m]]
  <2>2. \A m \in 0 .. n : f[m] = IF m = 0 THEN <<>>
                                 ELSE IF q[m].id = i THEN f[m - 1]
                                 ELSE Append(f[m - 1], q[m])
    BY <2>1 DEF Keeps
  <2>3. ASSUME NEW m \in 0 .. (n + 1)
        PROVE  g[m] = IF m = 0 THEN <<>>
                      ELSE IF q[m].id = i THEN g[m - 1]
                      ELSE Append(g[m - 1], q[m])
    <3>1. CASE m = n + 1
      <4>1. m - 1 = n /\ n \in 0 .. (n + 1) /\ n # n + 1 /\ m # 0
        BY <3>1
      <4>2. g[m - 1] = f[n] /\ g[m] = last
        BY <4>1, <3>1
      <4> QED BY <4>1, <4>2, <3>1
    <3>2. CASE m # n + 1 /\ m # 0
      <4>1. m \in 0 .. n /\ m - 1 \in 0 .. n /\ m - 1 # n + 1 /\ m - 1 \in 0 .. (n + 1)
        BY <3>2
      <4>2. g[m - 1] = f[m - 1] /\ g[m] = f[m]
        BY <4>1, <3>2
      <4> HIDE DEF g
      <4> QED BY <4>1, <4>2, <3>2, <2>2
    <3>3. CASE m = 0
      <4>1. g[m] = f[0] /\ 0 \in 0 .. n
        BY <3>3
      <4> HIDE DEF g
      <4> QED BY <4>1, <3>3, <2>2
    <3> QED BY <3>1, <3>2, <3>3
  <2>4. Keeps(q, i, n + 1, g)
    <3>1. g = [m \in 0 .. (n + 1) |-> g[m]]
      OBVIOUS
    <3> HIDE DEF g
    <3> QED BY <3>1, <2>3 DEF Keeps
  <2> HIDE DEF g
  <2> QED BY <2>4
<1>3. \A n \in Nat : n \in G
  <2> HIDE DEF G
  <2> QED BY <1>1, <1>2, NaturalInduction
<1> QED BY <1>3

(* What is kept of a sequence of nodes, one of each id: the elements with  *)
(* another id, and no more than there were.                                *)
LEMMA KeepsFacts ==
  ASSUME NEW T, NEW q \in Seq(T), Distinct(q), NEW i, NEW f, Keeps(q, i, Len(q), f)
  PROVE  /\ f[Len(q)] \in Seq(T) /\ Len(f[Len(q)]) <= Len(q) /\ Distinct(f[Len(q)])
         /\ \A k \in 1 .. Len(f[Len(q)]) :
              \E j \in 1 .. Len(q) : f[Len(q)][k] = q[j] /\ q[j].id # i
         /\ \A j \in 1 .. Len(q) : q[j].id # i =>
              \E k \in 1 .. Len(f[Len(q)]) : f[Len(q)][k] = q[j]
<1> DEFINE Good(n, s) ==
             /\ s \in Seq(T) /\ Len(s) <= n /\ Distinct(s)
             /\ \A k \in 1 .. Len(s) : \E j \in 1 .. n : s[k] = q[j] /\ q[j].id # i
             /\ \A j \in 1 .. n : q[j].id # i => \E k \in 1 .. Len(s) : s[k] = q[j]
           G == {n \in Nat : n <= Len(q) => Good(n, f[n])}
<1>0. Len(q) \in Nat /\ \A k \in 1 .. Len(q) : q[k] \in T
  BY RangeFacts
<1>1. 0 \in G
  <2>1. f[0] = <<>>
    BY <1>0 DEF Keeps
  <2>2. Len(<<>>) = 0 /\ <<>> \in Seq(T) /\ 1 .. 0 = {}
    OBVIOUS
  <2>3. Distinct(<<>>)
    BY <2>2 DEF Distinct
  <2>4. Good(0, <<>>)
    BY <2>2, <2>3
  <2> HIDE DEF Good
  <2>5. Good(0, f[0])
    BY <2>1, <2>4
  <2> QED BY <2>5
<1>2. ASSUME NEW n \in Nat, n \in G PROVE n + 1 \in G
  <2> SUFFICES ASSUME n + 1 <= Len(q) PROVE Good(n + 1, f[n + 1])
    OBVIOUS
  <2>1. Good(n, f[n]) /\ n + 1 \in 1 .. Len(q) /\ n + 1 \in 0 .. Len(q) /\ q[n + 1] \in T
    BY <1>2, <1>0
  <2>2. f[n + 1] = IF q[n + 1].id = i THEN f[n] ELSE Append(f[n], q[n + 1])
    <3>1. \A m \in 0 .. Len(q) : m # 0 =>
            f[m] = IF q[m].id = i THEN f[m - 1] ELSE Append(f[m - 1], q[m])
      BY DEF Keeps
    <3>2. (n + 1) - 1 = n /\ n + 1 # 0
      OBVIOUS
    <3> QED BY <3>1, <3>2, <2>1
  <2>3. CASE q[n + 1].id = i
    <3>1. f[n + 1] = f[n]
      BY <2>2, <2>3
    <3>2. Good(n + 1, f[n])
      <4>1. \A j \in 1 .. n + 1 : j \in 1 .. n \/ j = n + 1
        OBVIOUS
      <4>2. \A j \in 1 .. n : j \in 1 .. n + 1
        OBVIOUS
      <4>3. Len(f[n]) <= n + 1
        BY <2>1, RangeFacts
      <4> QED BY <4>1, <4>2, <4>3, <2>1, <2>3
    <3> QED BY <3>1, <3>2
  <2>4. CASE q[n + 1].id # i
    <3> DEFINE s == f[n]
               t == Append(s, q[n + 1])
    <3>1. f[n + 1] = t
      BY <2>2, <2>4
    <3>2. /\ t \in Seq(T) /\ Len(t) = Len(s) + 1 /\ Len(s) \in Nat
          /\ \A k \in 1 .. Len(s) : t[k] = s[k]
          /\ t[Len(s) + 1] = q[n + 1]
      BY <2>1, AppendFacts, RangeFacts
    <3> HIDE DEF t
    <3>3. Len(s) <= n /\ Len(t) <= n + 1
      BY <2>1, <3>2
    <3>4. \A k \in 1 .. Len(t) : k \in 1 .. Len(s) \/ k = Len(s) + 1
      BY <3>2
    <3>5. ASSUME NEW k \in 1 .. Len(t)
          PROVE  \E j \in 1 .. n + 1 : t[k] = q[j] /\ q[j].id # i
      <4>1. CASE k \in 1 .. Len(s)
        <5>1. PICK j \in 1 .. n : s[k] = q[j] /\ q[j].id # i
          BY <2>1, <4>1
        <5>2. j \in 1 .. n + 1
          OBVIOUS
        <5> QED BY <5>1, <5>2, <4>1, <3>2
      <4>2. CASE k = Len(s) + 1
        <5>1. n + 1 \in 1 .. n + 1
          OBVIOUS
        <5> QED BY <4>2, <5>1, <3>2, <2>4
      <4> QED BY <4>1, <4>2, <3>4
    <3>6. ASSUME NEW j \in 1 .. n + 1, q[j].id # i
          PROVE  \E k \in 1 .. Len(t) : t[k] = q[j]
      <4>1. CASE j \in 1 .. n
        <5>1. PICK k \in 1 .. Len(s) : s[k] = q[j]
          BY <2>1, <4>1, <3>6
        <5>2. k \in 1 .. Len(t)
          BY <3>2
        <5> QED BY <5>1, <5>2, <3>2
      <4>2. CASE j = n + 1
        <5>1. Len(s) + 1 \in 1 .. Len(t)
          BY <3>2
        <5> QED BY <4>2, <5>1, <3>2
      <4> QED BY <4>1, <4>2
    <3>7. ASSUME NEW a \in 1 .. Len(s) PROVE s[a].id # q[n + 1].id
      <4>1. PICK j \in 1 .. n : s[a] = q[j]
        BY <2>1
      <4>2. j \in 1 .. Len(q) /\ j # n + 1
        BY <2>1, <1>0
      <4>3. q[j].id # q[n + 1].id
        BY <4>2, <2>1 DEF Distinct
      <4> QED BY <4>1, <4>3
    <3>8. Distinct(t)
      <4> SUFFICES ASSUME NEW j \in 1 .. Len(t), NEW k \in 1 .. Len(t), t[j].id = t[k].id
                   PROVE  j = k
        BY DEF Distinct
      <4>1. CASE j \in 1 .. Len(s) /\ k \in 1 .. Len(s)
        <5>1. s[j].id = s[k].id
          BY <4>1, <3>2
        <5> QED BY <4>1, <5>1, <2>1 DEF Distinct
      <4>2. CASE j \in 1 .. Len(s) /\ k = Len(s) + 1
        BY <4>2, <3>2, <3>7
      <4>3. CASE j = Len(s) + 1 /\ k \in 1 .. Len(s)
        BY <4>3, <3>2, <3>7
      <4> QED BY <4>1, <4>2, <4>3, <3>4
    <3>9. Good(n + 1, t)
      BY <3>2, <3>3, <3>5, <3>6, <3>8
    <3> QED BY <3>1, <3>9
  <2> QED BY <2>3, <2>4
<1>3. \A n \in Nat : n \in G
  <2> HIDE DEF G
  <2> QED BY <1>1, <1>2, NaturalInduction
<1>4. Len(q) \in G
  <2> HIDE DEF G
  <2> QED BY <1>0, <1>3
<1>5. Len(q) <= Len(q)
  BY <1>0
<1>6. Good(Len(q), f[Len(q)])
  <2> HIDE DEF Good
  <2> QED BY <1>4, <1>5
<1> QED BY <1>6

(* Removal of one id from a queue of nodes that holds each id once.        *)
LEMMA RetainedFacts ==
  ASSUME NEW T, NEW q \in Seq(T), Distinct(q), NEW i
  PROVE  /\ Retained(q, i) \in Seq(T) /\ Len(Retained(q, i)) <= Len(q)
         /\ Distinct(Retained(q, i))
         /\ \A k \in 1 .. Len(Retained(q, i)) :
              \E j \in 1 .. Len(q) : Retained(q, i)[k] = q[j] /\ q[j].id # i
         /\ \A j \in 1 .. Len(q) : q[j].id # i =>
              \E k \in 1 .. Len(Retained(q, i)) : Retained(q, i)[k] = q[j]
<1> DEFINE f == CHOOSE g : Keeps(q, i, Len(q), g)
<1>1. Keeps(q, i, Len(q), f)
  <2>1. Len(q) \in Nat
    BY RangeFacts
  <2>2. \E g : Keeps(q, i, Len(q), g)
    BY <2>1, KeepsExists
  <2> QED BY <2>2
<1>2. Retained(q, i) = f[Len(q)]
  BY DEF Retained, Keeps
<1> HIDE DEF f
<1> QED BY <1>1, <1>2, KeepsFacts

--------------------------------------------------------------------------------
(***************************************************************************)
(* The election slots and their index.                                     *)
(***************************************************************************)

(* A new node at the end of the slots.                                     *)
LEMMA PushCoherent ==
  ASSUME NEW s, NEW x, Coherent(s, x), NEW i \in Uids, i \notin Range(s)
  PROVE  /\ Coherent(Append(s, i), Put(x, i, Len(s)))
         /\ Range(Append(s, i)) = Range(s) \cup {i} /\ Len(Append(s, i)) = Len(s) + 1
<1> DEFINE t == Append(s, i)
           y == Put(x, i, Len(s))
<1>1. /\ t \in Seq(Uids) /\ Len(t) = Len(s) + 1 /\ Len(s) \in Nat
      /\ \A k \in 1 .. Len(s) : t[k] = s[k]
      /\ t[Len(s) + 1] = i /\ Range(t) = Range(s) \cup {i}
  BY AppendFacts, RangeFacts DEF Coherent
<1>2. /\ DOMAIN y = DOMAIN x \cup {i} /\ y[i] = Len(s)
      /\ \A u \in DOMAIN x : u # i => y[u] = x[u]
      /\ y = [u \in DOMAIN y |-> y[u]]
  BY DEF Put
<1>3. \A k \in 1 .. Len(s) : s[k] \in Range(s) /\ s[k] # i
  BY RangeFacts DEF Coherent
<1> HIDE DEF t, y
<1>4. \A k \in 1 .. Len(t) : k \in 1 .. Len(s) \/ k = Len(s) + 1
  BY <1>1
<1>5. y \in [DOMAIN y -> Nat]
  <2>1. \A u \in DOMAIN y : y[u] \in Nat
    BY <1>1, <1>2 DEF Coherent
  <2> QED BY <2>1, <1>2
<1>6. ASSUME NEW j \in 1 .. Len(t), NEW k \in 1 .. Len(t), t[j] = t[k] PROVE j = k
  BY <1>1, <1>3, <1>4, <1>6 DEF Coherent
<1>7. ASSUME NEW k \in 1 .. Len(t) PROVE y[t[k]] = k - 1
  <2>1. CASE k \in 1 .. Len(s)
    BY <2>1, <1>1, <1>2, <1>3 DEF Coherent
  <2>2. CASE k = Len(s) + 1
    BY <2>2, <1>1, <1>2
  <2> QED BY <2>1, <2>2, <1>4
<1>8. Coherent(t, y)
  BY <1>1, <1>2, <1>5, <1>6, <1>7 DEF Coherent
<1> QED BY <1>1, <1>8 DEF t, y

(* swap_remove: the last node takes the place of the removed one, and its  *)
(* index follows.                                                          *)
LEMMA SwapCoherent ==
  ASSUME NEW s, NEW x, Coherent(s, x), NEW pos \in 1 .. Len(s), NEW y,
         y = Without(IF pos = Len(s) THEN x ELSE Put(x, s[Len(s)], pos - 1), s[pos])
  PROVE  /\ Coherent(SwapRemove(s, pos), y)
         /\ Range(SwapRemove(s, pos)) = Range(s) \ {s[pos]}
         /\ Len(SwapRemove(s, pos)) = Len(s) - 1
<1> DEFINE n == Len(s)
           i == s[pos]
           t == SwapRemove(s, pos)
           z == IF pos = n THEN x ELSE Put(x, s[n], pos - 1)
<1>1. /\ n \in Nat /\ n \in 1 .. n /\ n - 1 \in Nat
      /\ \A k \in 1 .. n : s[k] \in Uids /\ s[k] \in Range(s)
      /\ \A u \in Range(s) : \E k \in 1 .. n : s[k] = u
  BY RangeFacts DEF Coherent
<1>2. /\ t \in [1 .. n - 1 -> Uids]
      /\ \A k \in 1 .. n - 1 : t[k] = IF k = pos THEN s[n] ELSE s[k]
  BY <1>1 DEF SwapRemove
<1>3. t \in Seq(Uids) /\ Len(t) = n - 1
  <2> HIDE DEF t
  <2> QED BY <1>1, <1>2, FunctionIsSeq
<1>4. \A k \in 1 .. n - 1 : k \in 1 .. n /\ k # n
  BY <1>1
<1>5. ASSUME NEW k \in 1 .. n - 1 PROVE t[k] \in Range(s) \ {i}
  <2>1. k \in 1 .. n /\ n \in 1 .. n /\ pos \in 1 .. n /\ k # n
    BY <1>1, <1>4
  <2>2. CASE k = pos
    <3>1. t[k] = s[n] /\ s[n] # s[pos]
      BY <2>1, <2>2, <1>2 DEF Coherent
    <3> QED BY <3>1, <2>1, <1>1
  <2>3. CASE k # pos
    <3>1. t[k] = s[k] /\ s[k] # s[pos]
      BY <2>1, <2>3, <1>2 DEF Coherent
    <3> QED BY <3>1, <2>1, <1>1
  <2> QED BY <2>2, <2>3
<1>6. ASSUME NEW u \in Range(s) \ {i} PROVE \E k \in 1 .. n - 1 : t[k] = u
  <2>1. PICK k \in 1 .. n : s[k] = u
    BY <1>1
  <2>2. CASE k = n
    <3>1. pos \in 1 .. n - 1
      BY <2>1, <2>2, <1>1
    <3> QED BY <3>1, <2>1, <2>2, <1>2
  <2>3. CASE k # n
    <3>1. k \in 1 .. n - 1 /\ k # pos
      BY <2>1, <2>3, <1>1
    <3> QED BY <3>1, <2>1, <1>2
  <2> QED BY <2>2, <2>3
<1> HIDE DEF t
<1>7. Range(t) = Range(s) \ {i}
  <2>1. \A k \in 1 .. n - 1 : t[k] \in Range(t)
    BY <1>3, RangeFacts
  <2>2. \A u \in Range(t) : \E k \in 1 .. n - 1 : t[k] = u
    BY <1>3, RangeFacts
  <2> QED BY <2>1, <2>2, <1>5, <1>6
<1>8. ASSUME NEW j \in 1 .. n - 1, NEW k \in 1 .. n - 1, t[j] = t[k] PROVE j = k
  <2>1. t[j] = s[IF j = pos THEN n ELSE j] /\ t[k] = s[IF k = pos THEN n ELSE k]
    BY <1>2
  <2>2. (IF j = pos THEN n ELSE j) \in 1 .. n /\ (IF k = pos THEN n ELSE k) \in 1 .. n
    BY <1>1, <1>4
  <2>3. (IF j = pos THEN n ELSE j) = (IF k = pos THEN n ELSE k)
    BY <2>1, <2>2, <1>8 DEF Coherent
  <2> QED BY <2>3, <1>4
<1>9. /\ DOMAIN z = Range(s) /\ z \in [DOMAIN z -> Nat]
      /\ \A k \in 1 .. n - 1 : z[t[k]] = k - 1
  <2>1. CASE pos = n
    <3>1. z = x
      BY <2>1
    <3>2. \A k \in 1 .. n - 1 : t[k] = s[k] /\ x[s[k]] = k - 1
      BY <2>1, <1>2, <1>4 DEF Coherent
    <3> QED BY <3>1, <3>2 DEF Coherent
  <2>2. CASE pos # n
    <3>1. z = Put(x, s[n], pos - 1) /\ pos - 1 \in Nat
      BY <2>2
    <3>2. /\ DOMAIN z = DOMAIN x \cup {s[n]} /\ z[s[n]] = pos - 1
          /\ \A u \in DOMAIN x : u # s[n] => z[u] = x[u]
          /\ z = [u \in DOMAIN z |-> z[u]]
      <4>1. PICK last : last = s[n]
        OBVIOUS
      <4>2. z = [u \in DOMAIN x \cup {last} |-> IF u = last THEN pos - 1 ELSE x[u]]
        BY <3>1, <4>1 DEF Put
      <4> HIDE DEF z, n
      <4> QED BY <4>1, <4>2
    <3> HIDE DEF z
    <3>3. DOMAIN z = Range(s)
      <4>1. s[n] \in Range(s) /\ DOMAIN x = Range(s)
        BY <1>1 DEF Coherent
      <4> QED BY <4>1, <3>2
    <3>4. \A u \in DOMAIN z : z[u] \in Nat
      BY <3>1, <3>2 DEF Coherent
    <3>5. ASSUME NEW k \in 1 .. n - 1 PROVE z[t[k]] = k - 1
      <4>1. CASE k = pos
        BY <4>1, <3>2, <1>2
      <4>2. CASE k # pos
        <5>1. t[k] = s[k] /\ s[k] # s[n] /\ s[k] \in DOMAIN x
          BY <4>2, <1>1, <1>2, <1>4 DEF Coherent
        <5> QED BY <5>1, <3>2, <1>4 DEF Coherent
      <4> QED BY <4>1, <4>2
    <3> QED BY <3>2, <3>3, <3>4, <3>5
  <2> QED BY <2>1, <2>2
<1>10. /\ DOMAIN y = DOMAIN z \ {i}
       /\ \A u \in DOMAIN z \ {i} : y[u] = z[u]
       /\ y = [u \in DOMAIN y |-> y[u]]
  <2>1. y = Without(z, i)
    OBVIOUS
  <2> HIDE DEF z, i
  <2> QED BY <2>1 DEF Without, Restrict
<1> HIDE DEF z
<1>11. y \in [DOMAIN y -> Nat]
  <2>1. \A u \in DOMAIN y : y[u] \in Nat
    BY <1>9, <1>10
  <2> QED BY <2>1, <1>10
<1>12. ASSUME NEW k \in 1 .. n - 1 PROVE y[t[k]] = k - 1
  BY <1>5, <1>9, <1>10
<1>13. Coherent(t, y)
  BY <1>3, <1>7, <1>8, <1>9, <1>10, <1>11, <1>12 DEF Coherent
<1> QED BY <1>13, <1>7, <1>3 DEF t

--------------------------------------------------------------------------------
(***************************************************************************)
(* What the parts of the invariant say, and what they depend on.           *)
(***************************************************************************)

(* The invariant implies that the slots are coherent.                      *)
LEMMA SlottedCoherent == Slotted => SlotsCoherent
  BY DEF Slotted, SlotsCoherent, Coherent

(* A node under its id.                                                    *)
LEMMA NodeFacts ==
  ASSUME Mapped
  PROVE  /\ \A i \in DOMAIN nodes :
              /\ nodes[i] \in Node /\ nodes[i].id = i /\ i \in Uids /\ i \in 1 .. uids
              /\ nodes[i].validator \in Validators /\ nodes[i].unique \in Uniques \cup {None}
              /\ nodes[i].class \in Registered .. Validator /\ nodes[i].start \in Nat
              /\ i \notin DOMAIN registered
         /\ \A i \in DOMAIN registered :
              /\ registered[i] \in Node /\ registered[i].id = i /\ i \in Uids
              /\ registered[i].validator \in Validators /\ i \in 1 .. uids
              /\ registered[i].unique \in Uniques \cup {None}
              /\ i \notin DOMAIN nodes
         /\ IsFiniteSet(DOMAIN nodes) /\ IsFiniteSet(DOMAIN registered)
<1> USE SubnetNodesAssumption
<1>1. uids \in Nat /\ \A i \in 1 .. uids : i \in Uids
  BY DEF Mapped, Uids
<1>2. ASSUME NEW i \in DOMAIN nodes
      PROVE  /\ nodes[i] \in Node /\ nodes[i].id = i /\ i \in Uids /\ i \in 1 .. uids
             /\ nodes[i].validator \in Validators /\ nodes[i].unique \in Uniques \cup {None}
             /\ nodes[i].class \in Registered .. Validator /\ nodes[i].start \in Nat
             /\ i \notin DOMAIN registered
  <2>1. nodes[i] \in Node /\ nodes[i].id = i /\ i \in 1 .. uids
    BY DEF Mapped, NodeMap
  <2> QED BY <2>1, <1>1 DEF Node, Mapped
<1>3. ASSUME NEW i \in DOMAIN registered
      PROVE  /\ registered[i] \in Node /\ registered[i].id = i /\ i \in Uids
             /\ registered[i].validator \in Validators /\ i \in 1 .. uids
             /\ registered[i].unique \in Uniques \cup {None}
             /\ i \notin DOMAIN nodes
  <2>1. registered[i] \in Node /\ registered[i].id = i /\ i \in 1 .. uids
    BY DEF Mapped, NodeMap
  <2> QED BY <2>1, <1>1 DEF Node, Mapped
<1>4. IsFiniteSet(1 .. uids)
  BY <1>1, FS_Interval
<1>5. IsFiniteSet(DOMAIN nodes) /\ IsFiniteSet(DOMAIN registered)
  BY <1>4, FS_Subset DEF Mapped
<1> QED BY <1>2, <1>3, <1>5

(* What Put and Without do to a map of nodes.                              *)
LEMMA NodeMapFacts ==
  ASSUME NEW f, NodeMap(f), NEW i
  PROVE  /\ NodeMap(Without(f, i))
         /\ \A n \in Node : n.id = i => NodeMap(Put(f, i, n))
  BY DEF NodeMap, Put, Without, Restrict

(* A change of the counters that stays above zero.                         *)
LEMMA MovedFacts ==
  ASSUME NEW c \in Counters, NEW a \in Int, NEW b \in Int, NEW d \in Int,
         c.nodes + a >= 0, c.active + b >= 0, c.electable + d >= 0
  PROVE  Moved(c, <<a, b, d>>) = [nodes |-> c.nodes + a, active |-> c.active + b,
                                  electable |-> c.electable + d]
  BY DEF Moved, Plus, Counters

(* How many nodes are active, and how many are in the queue.               *)
NumActive == Cardinality(DOMAIN nodes)
NumQueued == Cardinality(DOMAIN registered)

(* What is counted is finite.                                              *)
LEMMA SizeFacts ==
  ASSUME Mapped, Slotted
  PROVE  /\ NumActive \in Nat /\ NumQueued \in Nat
         /\ Len(slots) \in Nat
         /\ \A i \in DOMAIN nodes : NumActive > 0
         /\ \A i \in DOMAIN registered : NumQueued > 0
<1>1. IsFiniteSet(DOMAIN nodes) /\ IsFiniteSet(DOMAIN registered)
  BY NodeFacts
<1>2. NumActive \in Nat /\ NumQueued \in Nat
  BY <1>1, FS_CardinalityType DEF NumActive, NumQueued
<1>3. /\ NumActive = 0 => DOMAIN nodes = {}
      /\ NumQueued = 0 => DOMAIN registered = {}
  BY <1>1, FS_EmptySet DEF NumActive, NumQueued
<1>4. Len(slots) \in Nat
  BY RangeFacts DEF Slotted, Coherent
<1> QED BY <1>2, <1>3, <1>4

(* The counters follow what they count.                                    *)
LEMMA TallyCounts ==
  ASSUME Tables, state # "Removed", NEW a \in Int, NEW b \in Int, NEW d \in Int,
         Tally(<<a, b, d>>), NEW n \in Nat, NEW r \in Nat, NEW l \in Nat,
         NumActive' = n, NumQueued' = r, Len(slots') = l,
         n = NumActive + b, n <= MaxSubnetNodes,
         n + r = NumActive + NumQueued + a,
         l = Len(slots) + d
  PROVE  Counted'
<1>1. /\ NumActive \in Nat /\ NumQueued \in Nat
      /\ Len(slots) \in Nat
  BY SizeFacts DEF Tables
<1>2. /\ counts = [nodes |-> NumActive + NumQueued,
                   active |-> NumActive, electable |-> Len(slots)]
      /\ all = counts
  BY DEF Tables, Counted, CountersAgree, NumActive, NumQueued
<1>3. counts \in Counters
  <2>1. \A x, y, z \in Nat : [nodes |-> x, active |-> y, electable |-> z] \in Counters
    BY DEF Counters
  <2>2. NumActive + NumQueued \in Nat
    BY <1>1
  <2> QED BY <2>1, <2>2, <1>1, <1>2
<1>4. /\ counts.nodes = NumActive + NumQueued
      /\ counts.active = NumActive /\ counts.electable = Len(slots)
  BY <1>2
<1>5. counts.nodes + a = n + r /\ counts.active + b = n /\ counts.electable + d = l
  BY <1>4, <1>1
<1>6. Moved(counts, <<a, b, d>>) = [nodes |-> n + r, active |-> n, electable |-> l]
  <2>1. counts.nodes + a >= 0 /\ counts.active + b >= 0 /\ counts.electable + d >= 0
    BY <1>5
  <2>2. Moved(counts, <<a, b, d>>) = [nodes |-> counts.nodes + a, active |-> counts.active + b,
                                     electable |-> counts.electable + d]
    BY <1>3, <2>1, MovedFacts
  <2> QED BY <2>2, <1>5
<1>7. counts' = [nodes |-> n + r, active |-> n, electable |-> l] /\ all' = counts'
  BY <1>6, <1>2 DEF Tally
<1>8. counts' \in Counters
  BY <1>7 DEF Counters
<1> QED BY <1>7, <1>8 DEF Counted, CountersAgree, NumActive, NumQueued

--------------------------------------------------------------------------------
(***************************************************************************)
(* The steps keep the tables.                                              *)
(***************************************************************************)

(* Removal of an active node, from the slots too when it is in them.       *)
LEMMA RemoveActiveTables ==
  ASSUME Tables, state # "Removed", NEW i \in DOMAIN nodes, remove_active_subnet_node(i),
         UNCHANGED <<uids, state>>
  PROVE  Tables' /\ nodes' = Without(nodes, i) /\ UNCHANGED registered
         /\ Range(slots') = Range(slots) \ {i}
<1>0. /\ nodes' = Without(nodes, i) /\ registered' = registered /\ queue' = queue
      /\ uids' = uids /\ state' = state
  BY DEF remove_active_subnet_node, queueVars
<1>1. DOMAIN nodes' = DOMAIN nodes \ {i} /\ \A j \in DOMAIN nodes' : nodes'[j] = nodes[j]
  BY <1>0, WithoutFacts
<1>2. Mapped'
  <2>1. NodeMap(nodes')
    BY <1>0, NodeMapFacts DEF Tables, Mapped
  <2> QED BY <2>1, <1>0, <1>1 DEF Tables, Mapped
<1>3. Queued'
  BY <1>0 DEF Tables, Queued, Distinct
<1>4. i \in Range(slots) <=> nodes[i].class = Validator
  BY DEF Tables, Slotted
<1>5. /\ Coherent(slots', slotIndex') /\ Range(slots') = Range(slots) \ {i}
      /\ Len(slots') = Len(slots) + (IF i \in Range(slots) THEN -1 ELSE 0)
  <2>1. CASE i \in Range(slots)
    <3>1. remove_node_from_election_slot(i)
      BY <2>1, <1>4 DEF remove_active_subnet_node
    <3> DEFINE pos == CHOOSE k \in 1 .. Len(slots) : slots[k] = i
    <3>2. pos \in 1 .. Len(slots) /\ slots[pos] = i
      <4>1. \E k \in 1 .. Len(slots) : slots[k] = i
        BY <2>1, RangeFacts DEF Tables, Slotted, Coherent
      <4> QED BY <4>1
    <3>3. /\ slots' = SwapRemove(slots, pos)
          /\ slotIndex' = Without(IF pos = Len(slots) THEN slotIndex
                                  ELSE Put(slotIndex, slots[Len(slots)], pos - 1), slots[pos])
      BY <3>1, <3>2 DEF remove_node_from_election_slot
    <3> HIDE DEF pos
    <3>4. /\ Coherent(SwapRemove(slots, pos), slotIndex')
          /\ Range(SwapRemove(slots, pos)) = Range(slots) \ {slots[pos]}
          /\ Len(SwapRemove(slots, pos)) = Len(slots) - 1
      BY <3>2, <3>3, SwapCoherent DEF Tables, Slotted
    <3>5. Len(slots) \in Nat
      BY SizeFacts DEF Tables
    <3> QED BY <3>2, <3>3, <3>4, <3>5, <2>1
  <2>2. CASE i \notin Range(slots)
    <3>1. slots' = slots /\ slotIndex' = slotIndex
      BY <2>2 DEF remove_active_subnet_node, slotVars
    <3>2. Len(slots) \in Nat
      BY SizeFacts DEF Tables
    <3>3. Range(slots') = Range(slots) \ {i}
      BY <3>1, <2>2
    <3>4. Len(slots') = Len(slots) + 0
      BY <3>1, <3>2
    <3> QED BY <3>1, <3>3, <3>4, <2>2 DEF Tables, Slotted
  <2> QED BY <2>1, <2>2
<1>6. Slotted'
  <2>1. Range(slots') = {j \in DOMAIN nodes' : nodes'[j].class = Validator}
    BY <1>1, <1>5 DEF Tables, Slotted
  <2>2. emergency' # None => emergency' \in Emergency /\ emergency'.ids \subseteq Range(slots')
    <3>1. emergency' = IF emergency = None THEN None
                       ELSE [emergency EXCEPT !.ids = @ \ {i}]
      BY DEF remove_active_subnet_node
    <3>2. CASE emergency = None
      BY <3>1, <3>2
    <3>3. CASE emergency # None
      <4>1. emergency \in Emergency /\ emergency.ids \subseteq Range(slots)
        BY <3>3 DEF Tables, Slotted
      <4>2. emergency' \in Emergency /\ emergency'.ids = emergency.ids \ {i}
        BY <3>1, <3>3, <4>1 DEF Emergency
      <4> QED BY <4>1, <4>2, <1>5
    <3> QED BY <3>2, <3>3
  <2> QED BY <2>1, <2>2, <1>5 DEF Slotted
<1>7. Counted'
  <2>1. PICK d \in {-1, 0} : d = IF i \in Range(slots) THEN -1 ELSE 0
    OBVIOUS
  <2>2. Tally(<<-1, -1, d>>)
    BY <2>1, <1>4 DEF remove_active_subnet_node
  <2>3. /\ NumActive \in Nat /\ NumQueued \in Nat
        /\ Len(slots) \in Nat /\ NumActive > 0
    BY SizeFacts DEF Tables
  <2>4. NumActive' = NumActive - 1
    <3>1. IsFiniteSet(DOMAIN nodes)
      BY NodeFacts DEF Tables
    <3> QED BY <3>1, <1>1, FS_RemoveElement DEF NumActive
  <2>5. Len(slots') = Len(slots) + d /\ Len(slots') \in Nat
    BY <1>5, <2>1, RangeFacts DEF Coherent
  <2>6. NumActive <= MaxSubnetNodes /\ MaxSubnetNodes \in Nat
    BY SubnetNodesAssumption DEF Tables, Counted, NumActive
  <2>7. PICK n \in Nat, r \in Nat, l \in Nat :
          n = NumActive' /\ r = NumQueued' /\ l = Len(slots')
    <3>1. NumActive' \in Nat /\ NumQueued' \in Nat
      BY <2>3, <2>4, <1>0 DEF NumQueued
    <3> QED BY <3>1, <2>5
  <2>8. /\ n = NumActive + -1 /\ n <= MaxSubnetNodes
        /\ n + r = NumActive + NumQueued + -1
    <3>1. NumQueued' = NumQueued
      BY <1>0 DEF NumQueued
    <3> QED BY <3>1, <2>3, <2>4, <2>6, <2>7
  <2>9. l = Len(slots) + d
    BY <2>5, <2>7
  <2>10. -1 \in Int /\ d \in Int
    BY <2>1
  <2> QED BY <2>2, <2>7, <2>8, <2>9, <2>10, TallyCounts
<1>8. Owned'
  <2>1. /\ reputation' = Without(reputation, i)
        /\ owned' = [owned EXCEPT ![nodes[i].validator] = @ \ {i}]
        /\ uniqueOf' = IF nodes[i].unique = None THEN uniqueOf
                       ELSE Without(uniqueOf, nodes[i].unique)
    BY NodeFacts DEF Tables, remove_active_subnet_node, common_remove_subnet_node
  <2>2. /\ DOMAIN reputation' = DOMAIN reputation \ {i}
        /\ reputation' \in [DOMAIN reputation' -> Low .. Full]
    <3>1. reputation \in [DOMAIN reputation -> Low .. Full]
      BY DEF Tables, Owned
    <3>2. reputation' = [j \in DOMAIN reputation \ {i} |-> reputation[j]]
      BY <2>1 DEF Without, Restrict
    <3> QED BY <3>1, <3>2
  <2>3. DOMAIN uniqueOf' \subseteq Uniques
    <3>1. CASE nodes[i].unique = None
      BY <3>1, <2>1 DEF Tables, Owned
    <3>2. CASE nodes[i].unique # None
      <4>1. PICK u : u = nodes[i].unique
        OBVIOUS
      <4>2. DOMAIN uniqueOf' = DOMAIN uniqueOf \ {u}
        BY <2>1, <3>2, <4>1, WithoutFacts
      <4> QED BY <4>2 DEF Tables, Owned
    <3> QED BY <3>1, <3>2
  <2>4. nodes[i].validator \in Validators /\ i \notin DOMAIN registered /\ i \in Uids
    BY NodeFacts DEF Tables
  <2>5. /\ owned' \in [Validators -> SUBSET Uids]
        /\ \A v \in Validators : owned'[v] = IF v = nodes[i].validator THEN owned[v] \ {i}
                                                                     ELSE owned[v]
    BY <2>1, <2>4 DEF Tables, Owned
  <2>6. ASSUME NEW v \in Validators, NEW j \in Uids
        PROVE  j \in owned'[v] <=> Listed(j, v)'
    <3>1. j \in owned[v] <=> Listed(j, v)
      BY DEF Tables, Owned
    <3>2. CASE j # i
      <4>1. j \in owned'[v] <=> j \in owned[v]
        BY <2>5, <3>2
      <4>2. Listed(j, v)' <=> Listed(j, v)
        BY <1>0, <1>1, <3>2 DEF Listed
      <4> QED BY <3>1, <4>1, <4>2
    <3>3. CASE j = i
      <4>1. ~Listed(j, v)'
        BY <1>0, <1>1, <2>4, <3>3 DEF Listed
      <4>2. j \in owned[v] => v = nodes[i].validator
        BY <3>1, <3>3, <2>4 DEF Listed
      <4> QED BY <4>1, <4>2, <2>5, <3>3
    <3> QED BY <3>2, <3>3
  <2>7. DOMAIN reputation' = DOMAIN nodes' \cup DOMAIN registered'
    BY <2>2, <2>4, <1>0, <1>1 DEF Tables, Owned
  <2>8. DOMAIN reputation' \subseteq Uids
    BY <2>2 DEF Tables, Owned
  <2> QED BY <2>2, <2>3, <2>5, <2>6, <2>7, <2>8 DEF Owned
<1> QED BY <1>0, <1>2, <1>3, <1>5, <1>6, <1>7, <1>8 DEF Tables

(* Removal of a node from the queue.                                       *)
LEMMA RemoveQueuedTables ==
  ASSUME Tables, state # "Removed", NEW i \in DOMAIN registered,
         remove_registered_subnet_node(i), UNCHANGED <<uids, state>>
  PROVE  /\ Tables' /\ UNCHANGED <<nodes, slots, emergency>>
         /\ registered' = Without(registered, i)
         /\ \A k \in 1 .. Len(queue') : \E j \in 1 .. Len(queue) : queue'[k] = queue[j]
<1>0. /\ registered' = Without(registered, i) /\ nodes' = nodes /\ queue' = Retained(queue, i)
      /\ slots' = slots /\ slotIndex' = slotIndex /\ emergency' = emergency
      /\ uids' = uids /\ state' = state
  BY DEF remove_registered_subnet_node, slotVars
<1>1. /\ DOMAIN registered' = DOMAIN registered \ {i}
      /\ \A j \in DOMAIN registered' : registered'[j] = registered[j]
  BY <1>0, WithoutFacts
<1>2. Mapped'
  <2>1. NodeMap(registered')
    BY <1>0, NodeMapFacts DEF Tables, Mapped
  <2> QED BY <2>1, <1>0, <1>1 DEF Tables, Mapped
<1>3. Queued' /\ \A k \in 1 .. Len(queue') : \E j \in 1 .. Len(queue) : queue'[k] = queue[j]
  <2> DEFINE q == Retained(queue, i)
  <2>1. queue \in Seq(Node) /\ Distinct(queue) /\ Len(queue) <= MaxRegisteredNodes + 1
    BY DEF Tables, Queued
  <2>2. /\ q \in Seq(Node) /\ Len(q) <= Len(queue) /\ Distinct(q)
        /\ \A k \in 1 .. Len(q) : \E j \in 1 .. Len(queue) : q[k] = queue[j] /\ queue[j].id # i
        /\ \A j \in 1 .. Len(queue) : queue[j].id # i => \E k \in 1 .. Len(q) : q[k] = queue[j]
    BY <2>1, RetainedFacts
  <2> HIDE DEF q
  <2>3. ASSUME NEW k \in 1 .. Len(q)
        PROVE  /\ q[k].id \in DOMAIN registered'
               /\ q[k].validator = registered'[q[k].id].validator
    <3>1. PICK j \in 1 .. Len(queue) : q[k] = queue[j] /\ queue[j].id # i
      BY <2>2
    <3>2. /\ queue[j].id \in DOMAIN registered
          /\ queue[j].validator = registered[queue[j].id].validator
      BY DEF Tables, Queued
    <3> QED BY <3>1, <3>2, <1>1
  <2>4. ASSUME NEW j \in DOMAIN registered' PROVE \E k \in 1 .. Len(q) : q[k].id = j
    <3>1. PICK m \in 1 .. Len(queue) : queue[m].id = j
      BY <1>1 DEF Tables, Queued
    <3>2. PICK k \in 1 .. Len(q) : q[k] = queue[m]
      BY <3>1, <1>1, <2>2
    <3> QED BY <3>1, <3>2
  <2>5. Len(q) <= MaxRegisteredNodes + 1
    <3>1. Len(q) \in Nat /\ Len(queue) \in Nat /\ MaxRegisteredNodes \in Nat
      BY <2>1, <2>2, RangeFacts, SubnetNodesAssumption
    <3> QED BY <3>1, <2>1, <2>2
  <2>6. queue' = q
    BY <1>0 DEF q
  <2> QED BY <2>2, <2>3, <2>4, <2>5, <2>6 DEF Queued
<1>4. Slotted'
  BY <1>0 DEF Tables, Slotted
<1>5. Counted'
  <2>1. Tally(<<-1, 0, 0>>)
    BY DEF remove_registered_subnet_node
  <2>2. /\ NumActive \in Nat /\ NumQueued \in Nat /\ Len(slots) \in Nat /\ NumQueued > 0
    BY SizeFacts DEF Tables
  <2>3. NumQueued' = NumQueued - 1
    <3>1. IsFiniteSet(DOMAIN registered)
      BY NodeFacts DEF Tables
    <3> QED BY <3>1, <1>1, FS_RemoveElement DEF NumQueued
  <2>4. NumActive' = NumActive /\ Len(slots') = Len(slots)
    BY <1>0 DEF NumActive
  <2>5. NumActive <= MaxSubnetNodes
    BY DEF Tables, Counted, NumActive
  <2>6. PICK n \in Nat, r \in Nat, l \in Nat : n = NumActive' /\ r = NumQueued' /\ l = Len(slots')
    <3>1. NumActive' \in Nat /\ NumQueued' \in Nat /\ Len(slots') \in Nat
      BY <2>2, <2>3, <2>4
    <3> QED BY <3>1
  <2>7. n = NumActive + 0 /\ n <= MaxSubnetNodes /\ n + r = NumActive + NumQueued + -1
    BY <2>2, <2>3, <2>4, <2>5, <2>6
  <2>8. l = Len(slots) + 0
    BY <2>2, <2>4, <2>6
  <2>9. -1 \in Int /\ 0 \in Int
    OBVIOUS
  <2> QED BY <2>1, <2>6, <2>7, <2>8, <2>9, TallyCounts
<1>6. Owned'
  <2>1. /\ reputation' = Without(reputation, i)
        /\ owned' = [owned EXCEPT ![registered[i].validator] = @ \ {i}]
        /\ uniqueOf' = IF registered[i].unique = None THEN uniqueOf
                       ELSE Without(uniqueOf, registered[i].unique)
    BY NodeFacts DEF Tables, remove_registered_subnet_node, common_remove_subnet_node
  <2>2. /\ DOMAIN reputation' = DOMAIN reputation \ {i}
        /\ reputation' \in [DOMAIN reputation' -> Low .. Full]
    <3>1. reputation \in [DOMAIN reputation -> Low .. Full]
      BY DEF Tables, Owned
    <3>2. reputation' = [j \in DOMAIN reputation \ {i} |-> reputation[j]]
      BY <2>1 DEF Without, Restrict
    <3> QED BY <3>1, <3>2
  <2>3. DOMAIN uniqueOf' \subseteq Uniques
    <3>1. CASE registered[i].unique = None
      BY <3>1, <2>1 DEF Tables, Owned
    <3>2. CASE registered[i].unique # None
      <4>1. PICK u : u = registered[i].unique
        OBVIOUS
      <4>2. DOMAIN uniqueOf' = DOMAIN uniqueOf \ {u}
        BY <2>1, <3>2, <4>1, WithoutFacts
      <4> QED BY <4>2 DEF Tables, Owned
    <3> QED BY <3>1, <3>2
  <2>4. registered[i].validator \in Validators /\ i \notin DOMAIN nodes /\ i \in Uids
    BY NodeFacts DEF Tables
  <2>5. /\ owned' \in [Validators -> SUBSET Uids]
        /\ \A v \in Validators :
             owned'[v] = IF v = registered[i].validator THEN owned[v] \ {i} ELSE owned[v]
    BY <2>1, <2>4 DEF Tables, Owned
  <2>6. ASSUME NEW v \in Validators, NEW j \in Uids
        PROVE  j \in owned'[v] <=> Listed(j, v)'
    <3>1. j \in owned[v] <=> Listed(j, v)
      BY DEF Tables, Owned
    <3>2. CASE j # i
      <4>1. j \in owned'[v] <=> j \in owned[v]
        BY <2>5, <3>2
      <4>2. Listed(j, v)' <=> Listed(j, v)
        BY <1>0, <1>1, <3>2 DEF Listed
      <4> QED BY <3>1, <4>1, <4>2
    <3>3. CASE j = i
      <4>1. ~Listed(j, v)'
        BY <1>0, <1>1, <2>4, <3>3 DEF Listed
      <4>2. j \in owned[v] => v = registered[i].validator
        BY <3>1, <3>3, <2>4 DEF Listed
      <4> QED BY <4>1, <4>2, <2>5, <3>3
    <3> QED BY <3>2, <3>3
  <2>7. DOMAIN reputation' = DOMAIN nodes' \cup DOMAIN registered'
    BY <2>2, <2>4, <1>0, <1>1 DEF Tables, Owned
  <2>8. DOMAIN reputation' \subseteq Uids
    BY <2>2 DEF Tables, Owned
  <2> QED BY <2>2, <2>3, <2>5, <2>6, <2>7, <2>8 DEF Owned
<1> QED BY <1>0, <1>2, <1>3, <1>4, <1>5, <1>6 DEF Tables

(* The subnet's epoch is a number.                                         *)
LEMMA EpochType == Timed => SubnetEpoch \in Nat
  BY DEF Timed, SubnetEpoch

(* Registration, of a node that is active at once or waits in the queue.   *)
LEMMA RegisterTables ==
  ASSUME Timed, Tables, NEW v \in Validators, NEW u \in Uniques \cup {None},
         register_subnet_node(v, u)
  PROVE  /\ Tables' /\ uids' = uids + 1 /\ UNCHANGED <<state, emergency>>
         /\ DOMAIN nodes' \subseteq DOMAIN nodes \cup {uids + 1}
         /\ \A j \in DOMAIN nodes : j \in DOMAIN nodes' /\ nodes'[j] = nodes[j]
         /\ DOMAIN registered' \subseteq DOMAIN registered \cup {uids + 1}
         /\ Range(slots) \subseteq Range(slots')
<1> DEFINE i == uids + 1
           n == NewNode(i, v, u)
           a == [n EXCEPT !.class = Validator, !.start = SubnetEpoch]
<1>0. /\ state # "Removed" /\ state' = state /\ emergency' = emergency
      /\ uids' = i /\ uids < MaxUid /\ Len(queue) <= MaxRegisteredNodes
      /\ uniqueOf' = IF u = None THEN uniqueOf ELSE Put(uniqueOf, u, i)
      /\ owned' = [owned EXCEPT ![v] = @ \cup {i}]
      /\ reputation' = Put(reputation, i, Full)
      /\ IF state = "Registered" THEN ActivateAtOnce(n) ELSE Enqueue(n)
  BY DEF register_subnet_node, Calls, subnetVars, NewNode
<1>1. /\ uids \in Nat /\ i \in Nat /\ i \in Uids
      /\ i \notin 1 .. uids /\ i \in 1 .. i /\ i <= MaxUid
      /\ \A j \in 1 .. uids : j \in 1 .. i
  <2>1. uids \in 0 .. MaxUid /\ MaxUid \in Nat /\ uids < MaxUid
    BY <1>0, SubnetNodesAssumption DEF Tables, Mapped
  <2> QED BY <2>1 DEF Uids
<1>2. /\ n \in Node /\ n.id = i /\ n.validator = v
      /\ a \in Node /\ a.id = i /\ a.validator = v /\ a.class = Validator
  <2>1. SubnetEpoch \in Nat
    BY EpochType
  <2>2. SubnetEpoch + 1 \in Nat
    BY <2>1
  <2>3. Registered \in Registered .. Validator /\ Validator \in Registered .. Validator
    BY DEF Registered, Validator
  <2>4. n = [id |-> i, validator |-> v, unique |-> u, class |-> Registered,
             start |-> SubnetEpoch + 1]
    BY DEF NewNode
  <2>5. n \in Node
    <3> HIDE DEF n, i
    <3> QED BY <2>2, <2>3, <2>4, <1>1 DEF Node
  <2>6. n.id = i /\ n.validator = v
    BY <2>4
  <2>7. a \in Node /\ a.id = n.id /\ a.validator = n.validator /\ a.class = Validator
    <3>1. PICK c, e : c = Validator /\ e = SubnetEpoch
      OBVIOUS
    <3>2. a = [n EXCEPT !.class = c, !.start = e]
      BY <3>1
    <3> HIDE DEF n, a
    <3>3. c \in Registered .. Validator /\ e \in Nat
      BY <3>1, <2>1, <2>3
    <3>4. a \in Node /\ a.id = n.id /\ a.validator = n.validator /\ a.class = c
      BY <3>2, <3>3, <2>5 DEF Node
    <3> QED BY <3>1, <3>4
  <2> QED BY <2>5, <2>6, <2>7
<1> HIDE DEF a, i
<1>3. i \notin DOMAIN nodes /\ i \notin DOMAIN registered /\ i \notin Range(slots)
  BY <1>1 DEF Tables, Mapped, Slotted
<1> DEFINE Done ==
             /\ Mapped' /\ Queued' /\ Slotted' /\ Counted'
             /\ DOMAIN nodes' \subseteq DOMAIN nodes \cup {i}
             /\ \A j \in DOMAIN nodes : j \in DOMAIN nodes' /\ nodes'[j] = nodes[j]
             /\ DOMAIN registered' \subseteq DOMAIN registered \cup {i}
             /\ DOMAIN nodes' \cup DOMAIN registered'
                  = DOMAIN nodes \cup DOMAIN registered \cup {i}
             /\ Range(slots) \subseteq Range(slots')
             /\ \A j, w : Listed(j, w)' <=> Listed(j, w) \/ (j = i /\ w = v)
<1>4. ASSUME state = "Registered" PROVE Done
  <2>0. /\ counts.active < MaxSubnetNodes
        /\ slots' = Append(slots, i) /\ slotIndex' = Put(slotIndex, i, Len(slots))
        /\ nodes' = Put(nodes, i, a) /\ Tally(<<1, 1, 1>>)
        /\ registered' = registered /\ queue' = queue
    BY <1>0, <1>4, <1>2 DEF ActivateAtOnce, PushSlot, queueVars, a
  <2> HIDE DEF n
  <2>1. /\ DOMAIN nodes' = DOMAIN nodes \cup {i} /\ nodes'[i] = a
        /\ \A j \in DOMAIN nodes : nodes'[j] = nodes[j]
    <3>1. nodes' = [x \in DOMAIN nodes \cup {i} |-> IF x = i THEN a ELSE nodes[x]]
      BY <2>0 DEF Put
    <3> QED BY <3>1, <1>3
  <2>2. Mapped'
    <3>1. NodeMap(nodes')
      BY <2>0, <1>2, NodeMapFacts DEF Tables, Mapped
    <3> QED BY <3>1, <2>0, <2>1, <1>0, <1>1, <1>3 DEF Tables, Mapped
  <2>3. Queued'
    BY <2>0 DEF Tables, Queued, Distinct
  <2>4. /\ Coherent(slots', slotIndex') /\ Range(slots') = Range(slots) \cup {i}
        /\ Len(slots') = Len(slots) + 1
    BY <2>0, <1>1, <1>3, PushCoherent DEF Tables, Slotted
  <2>5. Slotted'
    <3>1. Range(slots') = {j \in DOMAIN nodes' : nodes'[j].class = Validator}
      BY <2>1, <2>4, <1>2, <1>3 DEF Tables, Slotted
    <3> QED BY <3>1, <2>4, <1>0 DEF Tables, Slotted
  <2>6. Counted'
    <3>1. NumActive \in Nat /\ NumQueued \in Nat /\ Len(slots) \in Nat
      BY SizeFacts DEF Tables
    <3>2. NumActive' = NumActive + 1
      <4>1. IsFiniteSet(DOMAIN nodes)
        BY NodeFacts DEF Tables
      <4> QED BY <4>1, <2>1, <1>3, FS_AddElement DEF NumActive
    <3>3. NumQueued' = NumQueued
      BY <2>0 DEF NumQueued
    <3>4. NumActive < MaxSubnetNodes /\ MaxSubnetNodes \in Nat
      BY <2>0, SubnetNodesAssumption DEF Tables, Counted, CountersAgree, NumActive
    <3>5. PICK p \in Nat, r \in Nat, l \in Nat :
            p = NumActive' /\ r = NumQueued' /\ l = Len(slots')
      <4>1. NumActive' \in Nat /\ NumQueued' \in Nat /\ Len(slots') \in Nat
        BY <3>1, <3>2, <3>3, <2>4
      <4> QED BY <4>1
    <3>6. p = NumActive + 1 /\ p <= MaxSubnetNodes /\ p + r = NumActive + NumQueued + 1
      BY <3>1, <3>2, <3>3, <3>4, <3>5
    <3>7. l = Len(slots) + 1
      BY <3>5, <2>4
    <3>8. 1 \in Int
      OBVIOUS
    <3> QED BY <2>0, <1>0, <3>5, <3>6, <3>7, <3>8, TallyCounts
  <2>7. ASSUME NEW w, NEW j PROVE Listed(j, w)' <=> Listed(j, w) \/ (j = i /\ w = v)
    BY <2>0, <2>1, <1>2, <1>3 DEF Listed
  <2>8. Range(slots) \subseteq Range(slots')
    BY <2>4
  <2> QED BY <2>0, <2>1, <2>2, <2>3, <2>5, <2>6, <2>7, <2>8
<1>5. ASSUME state # "Registered" PROVE Done
  <2>0. /\ registered' = Put(registered, i, n) /\ queue' = Append(queue, n)
        /\ Tally(<<1, 0, 0>>)
        /\ nodes' = nodes /\ slots' = slots /\ slotIndex' = slotIndex
    BY <1>0, <1>5, <1>2 DEF Enqueue, slotVars
  <2> HIDE DEF n
  <2>1. /\ DOMAIN registered' = DOMAIN registered \cup {i} /\ registered'[i] = n
        /\ \A j \in DOMAIN registered : registered'[j] = registered[j]
    <3>1. registered' = [x \in DOMAIN registered \cup {i} |-> IF x = i THEN n ELSE registered[x]]
      BY <2>0 DEF Put
    <3> QED BY <3>1, <1>3
  <2>2. Mapped'
    <3>1. NodeMap(registered')
      BY <2>0, <1>2, NodeMapFacts DEF Tables, Mapped
    <3> QED BY <3>1, <2>0, <2>1, <1>0, <1>1, <1>3 DEF Tables, Mapped
  <2>3. Queued'
    <3>1. queue \in Seq(Node) /\ Len(queue) \in Nat /\ MaxRegisteredNodes \in Nat
      BY RangeFacts, SubnetNodesAssumption DEF Tables, Queued
    <3>2. /\ queue' \in Seq(Node) /\ Len(queue') = Len(queue) + 1
          /\ \A k \in 1 .. Len(queue) : queue'[k] = queue[k]
          /\ queue'[Len(queue) + 1] = n
      BY <2>0, <3>1, <1>2, AppendFacts
    <3>3. \A k \in 1 .. Len(queue') : k \in 1 .. Len(queue) \/ k = Len(queue) + 1
      BY <3>1, <3>2
    <3>4. \A k \in 1 .. Len(queue) : queue[k].id \in DOMAIN registered /\ queue[k].id # i
      BY <1>3 DEF Tables, Queued
    <3>5. Distinct(queue')
      <4> SUFFICES ASSUME NEW j \in 1 .. Len(queue'), NEW k \in 1 .. Len(queue'),
                          queue'[j].id = queue'[k].id
                   PROVE  j = k
        BY DEF Distinct
      <4>1. CASE j \in 1 .. Len(queue) /\ k \in 1 .. Len(queue)
        BY <4>1, <3>2 DEF Tables, Queued, Distinct
      <4>2. CASE j = Len(queue) + 1 /\ k \in 1 .. Len(queue)
        BY <4>2, <3>2, <3>4, <1>2
      <4>3. CASE j \in 1 .. Len(queue) /\ k = Len(queue) + 1
        BY <4>3, <3>2, <3>4, <1>2
      <4> QED BY <4>1, <4>2, <4>3, <3>3
    <3>6. ASSUME NEW k \in 1 .. Len(queue')
          PROVE  /\ queue'[k].id \in DOMAIN registered'
                 /\ queue'[k].validator = registered'[queue'[k].id].validator
      <4>1. CASE k \in 1 .. Len(queue)
        <5>1. queue'[k] = queue[k] /\ queue[k].id \in DOMAIN registered
          BY <4>1, <3>2, <3>4
        <5>2. queue[k].validator = registered[queue[k].id].validator
          BY <4>1 DEF Tables, Queued
        <5> QED BY <5>1, <5>2, <2>1
      <4>2. CASE k = Len(queue) + 1
        BY <4>2, <3>2, <2>1, <1>2
      <4> QED BY <4>1, <4>2, <3>3
    <3>7. ASSUME NEW j \in DOMAIN registered' PROVE \E k \in 1 .. Len(queue') : queue'[k].id = j
      <4>1. CASE j = i
        <5>1. Len(queue) + 1 \in 1 .. Len(queue')
          BY <3>1, <3>2
        <5> QED BY <5>1, <4>1, <3>2, <1>2
      <4>2. CASE j # i
        <5>1. PICK k \in 1 .. Len(queue) : queue[k].id = j
          BY <4>2, <2>1 DEF Tables, Queued
        <5>2. k \in 1 .. Len(queue') /\ queue'[k].id = j
          BY <5>1, <3>1, <3>2
        <5> QED BY <5>2
      <4> QED BY <4>1, <4>2
    <3>8. Len(queue') <= MaxRegisteredNodes + 1
      BY <3>1, <3>2, <1>0
    <3> QED BY <3>2, <3>5, <3>6, <3>7, <3>8 DEF Queued
  <2>4. Slotted'
    BY <2>0, <1>0 DEF Tables, Slotted
  <2>5. Counted'
    <3>1. NumActive \in Nat /\ NumQueued \in Nat /\ Len(slots) \in Nat
      BY SizeFacts DEF Tables
    <3>2. NumQueued' = NumQueued + 1
      <4>1. IsFiniteSet(DOMAIN registered)
        BY NodeFacts DEF Tables
      <4> QED BY <4>1, <2>1, <1>3, FS_AddElement DEF NumQueued
    <3>3. NumActive' = NumActive /\ Len(slots') = Len(slots)
      BY <2>0 DEF NumActive
    <3>4. NumActive <= MaxSubnetNodes
      BY DEF Tables, Counted, NumActive
    <3>5. PICK p \in Nat, r \in Nat, l \in Nat :
            p = NumActive' /\ r = NumQueued' /\ l = Len(slots')
      <4>1. NumActive' \in Nat /\ NumQueued' \in Nat /\ Len(slots') \in Nat
        BY <3>1, <3>2, <3>3
      <4> QED BY <4>1
    <3>6. p = NumActive + 0 /\ p <= MaxSubnetNodes /\ p + r = NumActive + NumQueued + 1
      BY <3>1, <3>2, <3>3, <3>4, <3>5
    <3>7. l = Len(slots) + 0
      BY <3>1, <3>3, <3>5
    <3>8. 1 \in Int /\ 0 \in Int
      OBVIOUS
    <3> QED BY <2>0, <1>0, <3>5, <3>6, <3>7, <3>8, TallyCounts
  <2>6. ASSUME NEW w, NEW j PROVE Listed(j, w)' <=> Listed(j, w) \/ (j = i /\ w = v)
    BY <2>0, <2>1, <1>2, <1>3 DEF Listed
  <2> QED BY <2>0, <2>1, <2>2, <2>3, <2>4, <2>5, <2>6
<1>6. Done
  BY <1>4, <1>5
<1>7. Owned'
  <2>1. reputation' \in [DOMAIN reputation' -> Low .. Full]
        /\ DOMAIN reputation' = DOMAIN reputation \cup {i}
    <3>1. reputation \in [DOMAIN reputation -> Low .. Full] /\ Full \in Low .. Full
      BY DEF Tables, Owned, Low, Full
    <3>2. reputation' = [x \in DOMAIN reputation \cup {i} |->
                           IF x = i THEN Full ELSE reputation[x]]
      BY <1>0 DEF Put
    <3> QED BY <3>1, <3>2
  <2>2. DOMAIN uniqueOf' \subseteq Uniques
    <3>1. CASE u = None
      BY <3>1, <1>0 DEF Tables, Owned
    <3>2. CASE u # None
      <4>1. DOMAIN uniqueOf' = DOMAIN uniqueOf \cup {u}
        BY <3>2, <1>0, PutFacts
      <4> QED BY <4>1, <3>2 DEF Tables, Owned
    <3> QED BY <3>1, <3>2
  <2>3. /\ owned' \in [Validators -> SUBSET Uids]
        /\ \A w \in Validators : owned'[w] = IF w = v THEN owned[w] \cup {i} ELSE owned[w]
    BY <1>0, <1>1 DEF Tables, Owned
  <2>4. ASSUME NEW w \in Validators, NEW j \in Uids
        PROVE  j \in owned'[w] <=> Listed(j, w)'
    <3>1. j \in owned[w] <=> Listed(j, w)
      BY <1>0 DEF Tables, Owned
    <3>2. Listed(j, w)' <=> Listed(j, w) \/ (j = i /\ w = v)
      BY <1>6
    <3> QED BY <3>1, <3>2, <2>3
  <2>5. DOMAIN reputation' = DOMAIN nodes' \cup DOMAIN registered'
    BY <2>1, <1>6, <1>0 DEF Tables, Owned
  <2>6. DOMAIN reputation' \subseteq Uids
    BY <2>1, <1>1 DEF Tables, Owned
  <2> QED BY <2>1, <2>2, <2>3, <2>4, <2>5, <2>6 DEF Owned
<1> QED BY <1>0, <1>6, <1>7 DEF Tables, i

(* The steps that leave the nodes alone: they may change reputations, the  *)
(* emergency set and the state of the subnet.                              *)
LEMMA FrameTables ==
  ASSUME Tables, UNCHANGED <<nodes, registered, queue, slots, slotIndex, uids, counts, all,
                             uniqueOf, owned>>,
         reputation' \in [DOMAIN reputation -> Low .. Full],
         emergency' # None => emergency' \in Emergency /\ emergency'.ids \subseteq Range(slots),
         state' = "Removed" <=> state = "Removed"
  PROVE  Tables'
<1>1. Mapped'
  BY DEF Tables, Mapped
<1>2. Queued'
  BY DEF Tables, Queued, Distinct
<1>3. Slotted'
  BY DEF Tables, Slotted
<1>4. Counted'
  BY DEF Tables, Counted, CountersAgree
<1>5. Owned'
  <2>1. /\ DOMAIN reputation' = DOMAIN reputation
        /\ reputation' \in [DOMAIN reputation' -> Low .. Full]
    OBVIOUS
  <2>2. \A j, v : Listed(j, v)' <=> Listed(j, v)
    BY DEF Listed
  <2> QED BY <2>1, <2>2 DEF Tables, Owned
<1> QED BY <1>1, <1>2, <1>3, <1>4, <1>5 DEF Tables

(* The emergency set when it stays.                                        *)
LEMMA EmergencyFacts ==
  ASSUME Tables
  PROVE  /\ emergency # None => emergency \in Emergency /\ emergency.ids \subseteq Range(slots)
         /\ reputation \in [DOMAIN reputation -> Low .. Full]
  BY DEF Tables, Slotted, Owned

(* The unique parameter of a node, in the maps only.                       *)
LEMMA UpdateTables ==
  ASSUME Timed, Tables, NEW i \in Uids, NEW u \in Uniques \cup {None},
         do_update_node_unique(i, u)
  PROVE  /\ Tables' /\ DOMAIN nodes' = DOMAIN nodes /\ DOMAIN registered' = DOMAIN registered
         /\ \A j \in DOMAIN nodes : /\ nodes'[j].class = nodes[j].class
                                    /\ nodes'[j].start = nodes[j].start
<1>0. /\ queue' = queue /\ slots' = slots /\ slotIndex' = slotIndex /\ uids' = uids
      /\ counts' = counts /\ all' = all /\ owned' = owned /\ reputation' = reputation
      /\ state' = state /\ emergency' = emergency
  BY DEF do_update_node_unique, subnetVars, slotVars, countVars, scoreVars
<1>1. PICK n \in Node : /\ Reindexed(n, u)
                       /\ \/ /\ i \in DOMAIN nodes /\ nodes' = [nodes EXCEPT ![i].unique = u]
                             /\ registered' = registered
                          \/ /\ i \in DOMAIN registered /\ nodes' = nodes
                             /\ registered' = [registered EXCEPT ![i].unique = u]
  BY NodeFacts DEF do_update_node_unique, Tables
<1> DEFINE Renamed(f, g) == g = [f EXCEPT ![i].unique = u]
<1>2. ASSUME NEW f, NodeMap(f), i \in DOMAIN f, NEW g, Renamed(f, g)
      PROVE  /\ NodeMap(g) /\ DOMAIN g = DOMAIN f
             /\ \A j \in DOMAIN f : /\ g[j].class = f[j].class /\ g[j].start = f[j].start
                                    /\ g[j].validator = f[j].validator
  <2>1. f[i] \in Node /\ f[i].id = i
    BY <1>2 DEF NodeMap
  <2>2. PICK m : m = [f[i] EXCEPT !.unique = u]
    OBVIOUS
  <2>3. /\ m \in Node /\ m.id = i /\ m.class = f[i].class /\ m.start = f[i].start
        /\ m.validator = f[i].validator
    BY <2>1, <2>2 DEF Node
  <2>4. g = [f EXCEPT ![i] = m]
    BY <1>2, <2>2
  <2>5. DOMAIN g = DOMAIN f /\ \A j \in DOMAIN f : g[j] = IF j = i THEN m ELSE f[j]
    BY <2>4
  <2>6. NodeMap(g)
    BY <2>3, <2>4, <1>2 DEF NodeMap
  <2> QED BY <2>3, <2>5, <2>6
<1>3. /\ NodeMap(nodes') /\ DOMAIN nodes' = DOMAIN nodes
      /\ NodeMap(registered') /\ DOMAIN registered' = DOMAIN registered
      /\ \A j \in DOMAIN nodes : /\ nodes'[j].class = nodes[j].class
                                 /\ nodes'[j].start = nodes[j].start
                                 /\ nodes'[j].validator = nodes[j].validator
      /\ \A j \in DOMAIN registered : registered'[j].validator = registered[j].validator
  <2>1. NodeMap(nodes) /\ NodeMap(registered)
    BY DEF Tables, Mapped
  <2>2. CASE /\ i \in DOMAIN nodes /\ nodes' = [nodes EXCEPT ![i].unique = u]
             /\ registered' = registered
    <3>1. /\ NodeMap(nodes') /\ DOMAIN nodes' = DOMAIN nodes
          /\ \A j \in DOMAIN nodes : /\ nodes'[j].class = nodes[j].class
                                     /\ nodes'[j].start = nodes[j].start
                                     /\ nodes'[j].validator = nodes[j].validator
      <4>1. PICK f, g : f = nodes /\ g = nodes'
        OBVIOUS
      <4>2. NodeMap(f) /\ i \in DOMAIN f /\ Renamed(f, g)
        BY <4>1, <2>1, <2>2
      <4>3. /\ NodeMap(g) /\ DOMAIN g = DOMAIN f
            /\ \A j \in DOMAIN f : /\ g[j].class = f[j].class /\ g[j].start = f[j].start
                                   /\ g[j].validator = f[j].validator
        <5> HIDE DEF Renamed
        <5> QED BY <4>2, <1>2
      <4> QED BY <4>1, <4>3
    <3> QED BY <3>1, <2>1, <2>2
  <2>3. CASE /\ i \in DOMAIN registered /\ nodes' = nodes
             /\ registered' = [registered EXCEPT ![i].unique = u]
    <3>1. /\ NodeMap(registered') /\ DOMAIN registered' = DOMAIN registered
          /\ \A j \in DOMAIN registered : registered'[j].validator = registered[j].validator
      <4>1. PICK f, g : f = registered /\ g = registered'
        OBVIOUS
      <4>2. NodeMap(f) /\ i \in DOMAIN f /\ Renamed(f, g)
        BY <4>1, <2>1, <2>3
      <4>3. /\ NodeMap(g) /\ DOMAIN g = DOMAIN f
            /\ \A j \in DOMAIN f : g[j].validator = f[j].validator
        <5> HIDE DEF Renamed
        <5> QED BY <4>2, <1>2
      <4> QED BY <4>1, <4>3
    <3> QED BY <3>1, <2>1, <2>3
  <2> QED BY <1>1, <2>2, <2>3
<1>4. Mapped'
  BY <1>0, <1>3 DEF Tables, Mapped
<1>5. Queued'
  <2>1. ASSUME NEW k \in 1 .. Len(queue)
        PROVE  /\ queue[k].id \in DOMAIN registered'
               /\ queue[k].validator = registered'[queue[k].id].validator
    BY <1>3 DEF Tables, Queued
  <2> QED BY <2>1, <1>0, <1>3 DEF Tables, Queued, Distinct
<1>6. Slotted'
  <2>1. Range(slots) = {j \in DOMAIN nodes' : nodes'[j].class = Validator}
    BY <1>3 DEF Tables, Slotted
  <2> QED BY <2>1, <1>0 DEF Tables, Slotted
<1>7. Counted'
  BY <1>0, <1>3 DEF Tables, Counted, CountersAgree
<1>8. Owned'
  <2>1. \A j, v : Listed(j, v)' <=> Listed(j, v)
    BY <1>3 DEF Listed
  <2>2. DOMAIN uniqueOf' \subseteq Uniques
    <3> DEFINE freed == IF n.unique = None THEN uniqueOf ELSE Without(uniqueOf, n.unique)
    <3>1. uniqueOf' = IF u = None THEN freed ELSE Put(freed, u, n.id)
      BY <1>1 DEF Reindexed
    <3>2. DOMAIN freed \subseteq Uniques
      <4>1. CASE n.unique = None
        BY <4>1 DEF Tables, Owned
      <4>2. CASE n.unique # None
        <5>1. PICK w : w = n.unique
          OBVIOUS
        <5>2. DOMAIN freed = DOMAIN uniqueOf \ {w}
          BY <4>2, <5>1, WithoutFacts
        <5> QED BY <5>2 DEF Tables, Owned
      <4> QED BY <4>1, <4>2
    <3> HIDE DEF freed
    <3>3. CASE u = None
      BY <3>1, <3>2, <3>3
    <3>4. CASE u # None
      <4>1. PICK w : w = n.id
        OBVIOUS
      <4>2. uniqueOf' = Put(freed, u, w)
        BY <3>1, <3>4, <4>1
      <4>3. DOMAIN uniqueOf' = DOMAIN freed \cup {u}
        BY <4>2 DEF Put
      <4> QED BY <4>3, <3>2, <3>4
    <3> QED BY <3>3, <3>4
  <2> QED BY <1>0, <1>3, <2>1, <2>2 DEF Tables, Owned
<1> QED BY <1>3, <1>4, <1>5, <1>6, <1>7, <1>8 DEF Tables

(* Unpausing moves the start of the registered nodes.                      *)
LEMMA UnpauseTables ==
  ASSUME Timed, Tables, do_owner_unpause_subnet
  PROVE  Tables' /\ DOMAIN registered' = DOMAIN registered
<1> DEFINE delta == epoch - startEpoch + 1
<1>0. /\ nodes' = nodes /\ queue' = queue /\ slots' = slots /\ slotIndex' = slotIndex
      /\ uids' = uids /\ counts' = counts /\ all' = all /\ owned' = owned
      /\ uniqueOf' = uniqueOf /\ reputation' = reputation
      /\ state = "Paused" /\ state' = "Active"
      /\ registered' = [i \in DOMAIN registered |-> [registered[i] EXCEPT !.start = @ + delta]]
      /\ emergency' = IF emergency = None THEN None
                      ELSE [emergency EXCEPT !.max = SubnetEpoch + MaxEmergencyEpochs]
  BY DEF do_owner_unpause_subnet, slotVars, countVars, scoreVars, indexVars
<1>1. delta \in Nat
  BY <1>0 DEF Timed
<1>2. /\ NodeMap(registered') /\ DOMAIN registered' = DOMAIN registered
      /\ \A j \in DOMAIN registered : registered'[j].validator = registered[j].validator
  <2> HIDE DEF delta
  <2>1. ASSUME NEW j \in DOMAIN registered
        PROVE  /\ registered'[j] \in Node /\ registered'[j].id = j
               /\ registered'[j].validator = registered[j].validator
    <3>1. registered[j] \in Node /\ registered[j].id = j
      BY NodeFacts DEF Tables
    <3>2. PICK s : s = registered[j].start + delta
      OBVIOUS
    <3>3. s \in Nat
      BY <3>1, <3>2, <1>1 DEF Node
    <3>4. registered'[j] = [registered[j] EXCEPT !.start = s]
      BY <1>0, <3>2
    <3> QED BY <3>1, <3>3, <3>4 DEF Node
  <2>2. /\ DOMAIN registered' = DOMAIN registered
        /\ registered' = [j \in DOMAIN registered |-> registered'[j]]
    BY <1>0
  <2> QED BY <2>1, <2>2 DEF NodeMap
<1>3. Mapped'
  BY <1>0, <1>2 DEF Tables, Mapped
<1>4. Queued'
  <2>1. ASSUME NEW k \in 1 .. Len(queue)
        PROVE  /\ queue[k].id \in DOMAIN registered'
               /\ queue[k].validator = registered'[queue[k].id].validator
    BY <1>2 DEF Tables, Queued
  <2> QED BY <2>1, <1>0, <1>2 DEF Tables, Queued, Distinct
<1>5. Slotted'
  <2>1. CASE emergency = None
    BY <2>1, <1>0 DEF Tables, Slotted
  <2>2. CASE emergency # None
    <3>1. emergency \in Emergency /\ emergency.ids \subseteq Range(slots)
      BY <2>2, EmergencyFacts
    <3>2. PICK m : m = SubnetEpoch + MaxEmergencyEpochs
      OBVIOUS
    <3>3. m \in Nat
      BY <3>2, EpochType, SubnetNodesAssumption
    <3>4. emergency' = [emergency EXCEPT !.max = m]
      BY <1>0, <2>2, <3>2
    <3>5. emergency' \in Emergency /\ emergency'.ids = emergency.ids
      BY <3>1, <3>3, <3>4 DEF Emergency
    <3> QED BY <3>1, <3>5, <1>0 DEF Tables, Slotted
  <2> QED BY <2>1, <2>2
<1>6. Counted'
  BY <1>0, <1>2 DEF Tables, Counted, CountersAgree
<1>7. Owned'
  <2>1. \A j, v : Listed(j, v)' <=> Listed(j, v)
    BY <1>0, <1>2 DEF Listed
  <2> QED BY <1>0, <1>2, <2>1 DEF Tables, Owned
<1> QED BY <1>2, <1>3, <1>4, <1>5, <1>6, <1>7 DEF Tables

(* The subnet leaves nothing but the network's counters of its nodes.      *)
LEMMA RemoveSubnetTables ==
  ASSUME Timed, Tables, do_remove_subnet
  PROVE  Tables'
<1>0. /\ nodes' = EmptyMap /\ registered' = EmptyMap /\ queue' = <<>>
      /\ slots' = <<>> /\ slotIndex' = EmptyMap /\ uids' = 0
      /\ counts' = NoNodes /\ all' = [all EXCEPT !.active = Plus(@, -counts.active)]
      /\ uniqueOf' = EmptyMap /\ reputation' = EmptyMap /\ owned' = owned
      /\ emergency' = None /\ state' = "Removed" /\ state # "Removed"
  BY DEF do_remove_subnet, clean_subnet_nodes, Calls
<1>1. /\ DOMAIN EmptyMap = {} /\ \A S : EmptyMap \in [{} -> S]
      /\ <<>> \in Seq(Uids) /\ <<>> \in Seq(Node) /\ Len(<<>>) = 0 /\ 1 .. 0 = {}
      /\ Range(<<>>) = {}
  BY DEF EmptyMap, Range
<1>2. Mapped'
  <2>1. 0 \in 0 .. MaxUid
    BY SubnetNodesAssumption
  <2> QED BY <1>0, <1>1, <2>1 DEF Mapped, NodeMap
<1>3. Queued'
  <2>1. 0 <= MaxRegisteredNodes + 1
    BY SubnetNodesAssumption
  <2> QED BY <1>0, <1>1, <2>1 DEF Queued, Distinct
<1>4. Slotted'
  BY <1>0, <1>1 DEF Slotted, Coherent
<1>5. Counted'
  <2>1. Cardinality({}) = 0 /\ MaxSubnetNodes \in Nat
    BY FS_EmptySet, SubnetNodesAssumption
  <2>2. all \in Counters /\ all.active = counts.active /\ all.active \in Nat
    BY <1>0 DEF Tables, Counted, CountersAgree, Counters
  <2>3. Plus(all.active, -counts.active) = 0
    BY <2>2 DEF Plus
  <2>4. all' = [all EXCEPT !.active = 0]
    BY <1>0, <2>3
  <2>5. all' \in Counters /\ all'.active = 0
    BY <2>2, <2>4 DEF Counters
  <2>6. counts' = [nodes |-> 0, active |-> 0, electable |-> 0]
    BY <1>0 DEF NoNodes
  <2>7. 0 + 0 = 0
    OBVIOUS
  <2> QED BY <1>0, <1>1, <2>1, <2>5, <2>6, <2>7 DEF Counted, CountersAgree
<1>6. Owned'
  BY <1>0, <1>1 DEF Tables, Owned
<1> QED BY <1>2, <1>3, <1>4, <1>5, <1>6 DEF Tables

--------------------------------------------------------------------------------
(***************************************************************************)
(* Graduation, the order of the queue, and activation from it.             *)
(***************************************************************************)

(* A node with another class and start, its owner and id the same.         *)
LEMMA GraduateMap ==
  ASSUME Timed, Tables, NEW i \in DOMAIN nodes, Graduate(i)
  PROVE  /\ NodeMap(nodes') /\ DOMAIN nodes' = DOMAIN nodes
         /\ \A j \in DOMAIN nodes : j # i => nodes'[j] = nodes[j]
         /\ nodes'[i].validator = nodes[i].validator /\ nodes'[i].unique = nodes[i].unique
         /\ nodes'[i].start = SubnetEpoch
         /\ nodes'[i].class = IF nodes[i].class = Validator THEN Validator ELSE nodes[i].class + 1
<1>1. PICK c, s : /\ c = IF nodes[i].class = Validator THEN nodes[i].class ELSE nodes[i].class + 1
                  /\ s = SubnetEpoch
  OBVIOUS
<1>2. nodes[i] \in Node /\ nodes[i].id = i /\ nodes[i].class \in Registered .. Validator
  BY NodeFacts DEF Tables
<1>3. c \in Registered .. Validator /\ s \in Nat
  BY <1>1, <1>2, EpochType DEF Registered, Validator
<1>4. NodeMap(nodes)
  BY DEF Tables, Mapped
<1>5. PICK m : m = [nodes[i] EXCEPT !.class = c, !.start = s]
  OBVIOUS
<1>6. /\ m \in Node /\ m.id = i /\ m.validator = nodes[i].validator
      /\ m.unique = nodes[i].unique /\ m.class = c /\ m.start = s
  BY <1>2, <1>3, <1>5 DEF Node
<1>7. nodes' = [nodes EXCEPT ![i] = m]
  <2>1. nodes' = [nodes EXCEPT ![i].class = c, ![i].start = s]
    BY <1>1 DEF Graduate
  <2> QED BY <2>1, <1>4, <1>5 DEF NodeMap
<1>8. /\ DOMAIN nodes' = DOMAIN nodes
      /\ \A j \in DOMAIN nodes : nodes'[j] = IF j = i THEN m ELSE nodes[j]
  BY <1>7
<1>9. NodeMap(nodes')
  BY <1>4, <1>6, <1>7 DEF NodeMap
<1> QED BY <1>1, <1>6, <1>8, <1>9

(* A graduation below Validator leaves the tables as they are.             *)
LEMMA IdleTables ==
  ASSUME Timed, Tables, state # "Removed", NEW i \in DOMAIN nodes, nodes[i].class = Idle,
         handle_idle_node(i), UNCHANGED <<uids, state>>
  PROVE  /\ Tables' /\ DOMAIN nodes' = DOMAIN nodes /\ UNCHANGED <<registered, slots>>
         /\ \A j \in DOMAIN nodes : j # i => nodes'[j] = nodes[j]
<1>0. /\ registered' = registered /\ queue' = queue /\ slots' = slots /\ slotIndex' = slotIndex
      /\ counts' = counts /\ all' = all /\ uniqueOf' = uniqueOf /\ owned' = owned
      /\ reputation' = reputation /\ emergency' = emergency
      /\ uids' = uids /\ state' = state /\ (nodes' = nodes \/ Graduate(i))
  BY DEF handle_idle_node, queueVars, slotVars, countVars, indexVars
<1>1. CASE nodes' = nodes
  BY <1>0, <1>1, FrameTables, EmergencyFacts
<1>2. CASE Graduate(i)
  <2>1. /\ NodeMap(nodes') /\ DOMAIN nodes' = DOMAIN nodes
        /\ \A j \in DOMAIN nodes : j # i => nodes'[j] = nodes[j]
        /\ nodes'[i].validator = nodes[i].validator
        /\ nodes'[i].class = nodes[i].class + 1
    BY <1>2, GraduateMap DEF Idle, Validator
  <2>2. Mapped'
    BY <2>1, <1>0 DEF Tables, Mapped
  <2>3. Queued'
    BY <1>0 DEF Tables, Queued, Distinct
  <2>4. Slotted'
    <3>1. nodes'[i].class # Validator /\ nodes[i].class # Validator
      BY <2>1 DEF Idle, Validator
    <3>2. Range(slots) = {j \in DOMAIN nodes' : nodes'[j].class = Validator}
      BY <3>1, <2>1 DEF Tables, Slotted
    <3> QED BY <3>2, <1>0 DEF Tables, Slotted
  <2>5. Counted'
    BY <1>0, <2>1 DEF Tables, Counted, CountersAgree
  <2>6. Owned'
    <3>1. \A j, v : Listed(j, v)' <=> Listed(j, v)
      BY <1>0, <2>1 DEF Listed
    <3> QED BY <1>0, <2>1, <3>1 DEF Tables, Owned
  <2> QED BY <1>0, <2>1, <2>2, <2>3, <2>4, <2>5, <2>6 DEF Tables
<1> QED BY <1>0, <1>1, <1>2

(* A new Validator is in the slots and counted there.                      *)
LEMMA IncludedTables ==
  ASSUME Timed, Tables, state # "Removed", NEW i \in DOMAIN nodes, nodes[i].class = Included,
         NEW r \in Low .. Full, handle_included_node(i, r), UNCHANGED <<uids, state>>
  PROVE  /\ Tables' /\ DOMAIN nodes' = DOMAIN nodes /\ UNCHANGED registered
         /\ \A j \in DOMAIN nodes : j # i => nodes'[j] = nodes[j]
         /\ Range(slots) \subseteq Range(slots')
<1>0. /\ registered' = registered /\ queue' = queue /\ uniqueOf' = uniqueOf /\ owned' = owned
      /\ emergency' = emergency /\ uids' = uids /\ state' = state
      /\ reputation' = [reputation EXCEPT ![i] = r]
      /\ \/ Graduate(i) /\ PushSlot(i) /\ Tally(<<0, 0, 1>>)
         \/ nodes' = nodes /\ UNCHANGED <<slots, slotIndex, counts, all>>
  BY DEF handle_included_node, queueVars, slotVars, countVars, indexVars
<1>1. reputation' \in [DOMAIN reputation -> Low .. Full]
  BY <1>0, EmergencyFacts
<1>2. CASE nodes' = nodes /\ UNCHANGED <<slots, slotIndex, counts, all>>
  BY <1>0, <1>1, <1>2, FrameTables, EmergencyFacts
<1>3. CASE Graduate(i) /\ PushSlot(i) /\ Tally(<<0, 0, 1>>)
  <2>1. /\ NodeMap(nodes') /\ DOMAIN nodes' = DOMAIN nodes
        /\ \A j \in DOMAIN nodes : j # i => nodes'[j] = nodes[j]
        /\ nodes'[i].validator = nodes[i].validator
        /\ nodes'[i].class = Validator
    BY <1>3, GraduateMap DEF Included, Validator
  <2>2. i \in Uids /\ i \notin Range(slots)
    <3>1. i \in Uids
      BY NodeFacts DEF Tables
    <3>2. nodes[i].class # Validator
      BY DEF Included, Validator
    <3> QED BY <3>1, <3>2 DEF Tables, Slotted
  <2>3. /\ Coherent(slots', slotIndex') /\ Range(slots') = Range(slots) \cup {i}
        /\ Len(slots') = Len(slots) + 1
    BY <1>3, <2>2, PushCoherent DEF Tables, Slotted, PushSlot
  <2>4. Mapped'
    BY <2>1, <1>0 DEF Tables, Mapped
  <2>5. Queued'
    BY <1>0 DEF Tables, Queued, Distinct
  <2>6. Slotted'
    <3>1. Range(slots') = {j \in DOMAIN nodes' : nodes'[j].class = Validator}
      BY <2>1, <2>3 DEF Tables, Slotted
    <3> QED BY <3>1, <2>3, <1>0 DEF Tables, Slotted
  <2>7. Counted'
    <3>1. NumActive \in Nat /\ NumQueued \in Nat /\ Len(slots) \in Nat
      BY SizeFacts DEF Tables
    <3>2. NumActive' = NumActive /\ NumQueued' = NumQueued
      BY <1>0, <2>1 DEF NumActive, NumQueued
    <3>3. NumActive <= MaxSubnetNodes
      BY DEF Tables, Counted, NumActive
    <3>4. PICK p \in Nat, q \in Nat, l \in Nat :
            p = NumActive' /\ q = NumQueued' /\ l = Len(slots')
      <4>1. NumActive' \in Nat /\ NumQueued' \in Nat /\ Len(slots') \in Nat
        BY <3>1, <3>2, <2>3
      <4> QED BY <4>1
    <3>5. p = NumActive + 0 /\ p <= MaxSubnetNodes /\ p + q = NumActive + NumQueued + 0
      BY <3>1, <3>2, <3>3, <3>4
    <3>6. l = Len(slots) + 1
      BY <3>4, <2>3
    <3>7. 1 \in Int /\ 0 \in Int
      OBVIOUS
    <3> QED BY <1>3, <3>4, <3>5, <3>6, <3>7, TallyCounts
  <2>8. Owned'
    <3>1. \A j, v : Listed(j, v)' <=> Listed(j, v)
      BY <1>0, <2>1 DEF Listed
    <3>2. /\ DOMAIN reputation' = DOMAIN reputation
          /\ reputation' \in [DOMAIN reputation' -> Low .. Full]
      BY <1>1
    <3> QED BY <1>0, <2>1, <3>1, <3>2 DEF Tables, Owned
  <2> QED BY <1>0, <2>1, <2>3, <2>4, <2>5, <2>6, <2>7, <2>8 DEF Tables
<1> QED BY <1>0, <1>2, <1>3

(* The nodes of q in another order.                                        *)
Rearranged(q, t) ==
  /\ t \in Seq(Node) /\ Len(t) = Len(q) /\ Distinct(t)
  /\ \A k \in 1 .. Len(q) : \E j \in 1 .. Len(q) : t[k] = q[j]
  /\ \A j \in 1 .. Len(q) : \E k \in 1 .. Len(q) : t[k] = q[j]

(* The queue with one of its nodes in front has the same nodes.            *)
LEMMA ToFrontFacts ==
  ASSUME NEW q \in Seq(Node), Distinct(q), NEW i, NEW m \in 1 .. Len(q), q[m].id = i
  PROVE  Rearranged(q, ToFront(q, i))
<1> DEFINE S == {k \in 1 .. Len(q) : q[k].id = i}
           pos == First(S)
           at(k) == IF k = 1 THEN pos ELSE IF k <= pos THEN k - 1 ELSE k
           t == ToFront(q, i)
<1>0. Len(q) \in Nat /\ \A k \in 1 .. Len(q) : q[k] \in Node
  BY RangeFacts
<1>1. pos \in 1 .. Len(q)
  <2>1. m \in S /\ S \subseteq Nat
    OBVIOUS
  <2>2. S \subseteq 1 .. Len(q)
    OBVIOUS
  <2> HIDE DEF S
  <2> QED BY <2>1, <2>2, FirstFacts
<1>2. t = [k \in 1 .. Len(q) |-> q[at(k)]]
  BY DEF ToFront
<1> HIDE DEF pos, t
<1>3. ASSUME NEW k \in 1 .. Len(q) PROVE at(k) \in 1 .. Len(q)
  BY <1>0, <1>1
<1>4. ASSUME NEW j \in 1 .. Len(q), NEW k \in 1 .. Len(q), at(j) = at(k) PROVE j = k
  BY <1>0, <1>1, <1>4
<1>5. ASSUME NEW j \in 1 .. Len(q) PROVE \E k \in 1 .. Len(q) : at(k) = j
  <2>1. PICK k : k = IF j = pos THEN 1 ELSE IF j < pos THEN j + 1 ELSE j
    OBVIOUS
  <2>2. k \in 1 .. Len(q) /\ at(k) = j
    BY <2>1, <1>0, <1>1
  <2> QED BY <2>2
<1> HIDE DEF at
<1>6. t \in [1 .. Len(q) -> Node] /\ \A k \in 1 .. Len(q) : t[k] = q[at(k)]
  BY <1>0, <1>2, <1>3
<1>7. t \in Seq(Node) /\ Len(t) = Len(q)
  BY <1>0, <1>6, FunctionIsSeq
<1>8. Distinct(t)
  <2> SUFFICES ASSUME NEW j \in 1 .. Len(q), NEW k \in 1 .. Len(q), t[j].id = t[k].id
               PROVE  j = k
    BY <1>7 DEF Distinct
  <2>1. q[at(j)].id = q[at(k)].id
    BY <1>6
  <2>2. at(j) = at(k)
    BY <2>1, <1>3 DEF Distinct
  <2> QED BY <2>2, <1>4
<1>9. \A k \in 1 .. Len(q) : \E j \in 1 .. Len(q) : t[k] = q[j]
  BY <1>3, <1>6
<1>10. ASSUME NEW j \in 1 .. Len(q) PROVE \E k \in 1 .. Len(q) : t[k] = q[j]
  <2>1. PICK k \in 1 .. Len(q) : at(k) = j
    BY <1>5
  <2> QED BY <2>1, <1>6
<1>11. Rearranged(q, t)
  BY <1>7, <1>8, <1>9, <1>10 DEF Rearranged
<1> QED BY <1>11 DEF t

(* Moving a queued node to the front.                                      *)
LEMMA PrioritizeTables ==
  ASSUME Tables, PrioritizeQueued
  PROVE  Tables' /\ \A k \in 1 .. Len(queue') : \E j \in 1 .. Len(queue) : queue'[k] = queue[j]
<1>0. /\ nodes' = nodes /\ registered' = registered /\ slots' = slots /\ slotIndex' = slotIndex
      /\ counts' = counts /\ all' = all /\ uniqueOf' = uniqueOf /\ owned' = owned
      /\ reputation' = reputation /\ emergency' = emergency /\ uids' = uids /\ state' = state
      /\ \/ queue' = queue
         \/ submission.prioritize \in QueuedIds /\ queue' = ToFront(queue, submission.prioritize)
  BY DEF PrioritizeQueued, slotVars, countVars, indexVars, scoreVars, HookFrame, subnetVars
<1>1. CASE queue' = queue
  BY <1>0, <1>1, FrameTables, EmergencyFacts
<1>2. CASE submission.prioritize \in QueuedIds /\ queue' = ToFront(queue, submission.prioritize)
  <2>1. PICK i : i = submission.prioritize
    OBVIOUS
  <2>2. PICK m \in 1 .. Len(queue) : queue[m].id = i
    BY <1>2, <2>1 DEF QueuedIds
  <2>3. /\ queue' \in Seq(Node) /\ Len(queue') = Len(queue) /\ Distinct(queue')
        /\ \A k \in 1 .. Len(queue) : \E j \in 1 .. Len(queue) : queue'[k] = queue[j]
        /\ \A j \in 1 .. Len(queue) : \E k \in 1 .. Len(queue) : queue'[k] = queue[j]
    <3>1. queue \in Seq(Node) /\ Distinct(queue) /\ queue' = ToFront(queue, i)
      BY <1>2, <2>1 DEF Tables, Queued
    <3>2. PICK q \in Seq(Node) : q = queue
      BY <3>1
    <3>3. Distinct(q) /\ m \in 1 .. Len(q) /\ q[m].id = i
      BY <3>1, <3>2, <2>2
    <3>4. Rearranged(q, ToFront(q, i))
      BY <3>3, ToFrontFacts
    <3>5. Rearranged(queue, queue')
      BY <3>1, <3>2, <3>4
    <3> QED BY <3>5 DEF Rearranged
  <2>4. ASSUME NEW k \in 1 .. Len(queue')
        PROVE  /\ queue'[k].id \in DOMAIN registered
               /\ queue'[k].validator = registered[queue'[k].id].validator
    <3>1. PICK j \in 1 .. Len(queue) : queue'[k] = queue[j]
      BY <2>3
    <3>2. /\ queue[j].id \in DOMAIN registered
          /\ queue[j].validator = registered[queue[j].id].validator
      BY DEF Tables, Queued
    <3> QED BY <3>1, <3>2
  <2>5. ASSUME NEW j \in DOMAIN registered PROVE \E k \in 1 .. Len(queue') : queue'[k].id = j
    <3>1. PICK n \in 1 .. Len(queue) : queue[n].id = j
      BY DEF Tables, Queued
    <3>2. PICK k \in 1 .. Len(queue) : queue'[k] = queue[n]
      BY <2>3
    <3> QED BY <3>1, <3>2, <2>3
  <2>6. Queued'
    BY <1>0, <2>3, <2>4, <2>5 DEF Tables, Queued
  <2>7. Mapped' /\ Slotted'
    BY <1>0 DEF Tables, Mapped, Slotted
  <2>8. Counted'
    BY <1>0 DEF Tables, Counted, CountersAgree
  <2>9. Owned'
    <3>1. \A j, v : Listed(j, v)' <=> Listed(j, v)
      BY <1>0 DEF Listed
    <3> QED BY <1>0, <3>1 DEF Tables, Owned
  <2> QED BY <2>3, <2>6, <2>7, <2>8, <2>9 DEF Tables
<1> QED BY <1>0, <1>1, <1>2

(* The ids of the first k nodes of a queue are k ids.                      *)
LEMMA PrefixSize ==
  ASSUME NEW T, NEW q \in Seq(T), Distinct(q), NEW k \in 0 .. Len(q)
  PROVE  /\ IsFiniteSet({q[j].id : j \in 1 .. k})
         /\ Cardinality({q[j].id : j \in 1 .. k}) = k
<1> DEFINE D == 1 .. k
           S == {q[j].id : j \in 1 .. k}
           f == [j \in 1 .. k |-> q[j].id]
<1>0. Len(q) \in Nat /\ k \in Nat /\ D \subseteq 1 .. Len(q)
  BY RangeFacts
<1>1. IsFiniteSet(D) /\ Cardinality(D) = k
  BY <1>0, FS_Interval
<1>2. f \in [D -> S] /\ \A t \in S : \E s \in D : f[s] = t
  OBVIOUS
<1>3. \A a, b \in D : f[a] = f[b] => a = b
  BY <1>0 DEF Distinct
<1> HIDE DEF f, D, S
<1>4. f \in Bijection(D, S)
  BY <1>2, <1>3 DEF Bijection, Injection, IsInjective, Surjection
<1>5. ExistsBijection(D, S)
  BY <1>4 DEF ExistsBijection
<1>6. IsFiniteSet(S) /\ Cardinality(S) = k
  BY <1>1, <1>5, FS_Bijection
<1> QED BY <1>6 DEF S

(* Activation from the queue: the first nodes of it move over.             *)
LEMMA ActivateTables ==
  ASSUME Timed, Tables, state # "Removed", handle_registration_queue,
         UNCHANGED <<slots, slotIndex, uids, uniqueOf, owned, reputation, state>>,
         emergency' # None => emergency' \in Emergency /\ emergency'.ids \subseteq Range(slots)
  PROVE  /\ Tables' /\ DOMAIN registered' \subseteq DOMAIN registered
         /\ \A j \in DOMAIN nodes : j \in DOMAIN nodes' /\ nodes'[j] = nodes[j]
<1>1. PICK k \in 0 .. Len(queue) :
        LET ids == {queue[j].id : j \in 1 .. k}
            copy(i) == queue[CHOOSE j \in 1 .. k : queue[j].id = i]
        IN  /\ k <= Room
            /\ nodes' = [i \in DOMAIN nodes \cup ids |->
                           IF i \in ids THEN Activated(copy(i)) ELSE nodes[i]]
            /\ registered' = Restrict(registered, DOMAIN registered \ ids)
            /\ queue' = SubSeq(queue, k + 1, Len(queue))
            /\ Tally(<<0, k, 0>>)
  BY DEF handle_registration_queue
<1> DEFINE ids == {queue[j].id : j \in 1 .. k}
           copy(i) == queue[CHOOSE j \in 1 .. k : queue[j].id = i]
<1>2. /\ queue \in Seq(Node) /\ Len(queue) \in Nat /\ Distinct(queue)
      /\ \A j \in 1 .. Len(queue) : /\ queue[j] \in Node /\ queue[j].id \in DOMAIN registered
                                    /\ queue[j].validator = registered[queue[j].id].validator
  <2>1. queue \in Seq(Node) /\ Distinct(queue)
    BY DEF Tables, Queued
  <2> QED BY <2>1, RangeFacts DEF Tables, Queued
<1>3. k \in Nat /\ \A j \in 1 .. k : j \in 1 .. Len(queue)
  BY <1>2
<1>4. ids \subseteq DOMAIN registered
  BY <1>2, <1>3
<1>5. ASSUME NEW i \in ids
      PROVE  /\ copy(i) \in Node /\ copy(i).id = i
             /\ copy(i).validator = registered[i].validator
  <2>1. \E j \in 1 .. k : queue[j].id = i
    OBVIOUS
  <2>2. PICK j \in 1 .. k : queue[j].id = i /\ copy(i) = queue[j]
    BY <2>1
  <2> QED BY <2>2, <1>2, <1>3
<1>6. /\ nodes' = [i \in DOMAIN nodes \cup ids |->
                    IF i \in ids THEN Activated(copy(i)) ELSE nodes[i]]
      /\ registered' = [i \in DOMAIN registered \ ids |-> registered[i]]
      /\ queue' = SubSeq(queue, k + 1, Len(queue))
      /\ Tally(<<0, k, 0>>) /\ k <= Room
  BY <1>1 DEF Restrict
<1>7. IsFiniteSet(ids) /\ Cardinality(ids) = k
  BY <1>2, PrefixSize
<1>8. \A j \in 1 .. Len(queue) : queue[j].id \in ids <=> j <= k
  <2>1. ASSUME NEW j \in 1 .. Len(queue), queue[j].id \in ids PROVE j <= k
    <3>1. PICK m \in 1 .. k : queue[m].id = queue[j].id
      BY <2>1
    <3>2. m = j
      BY <3>1, <1>2, <1>3 DEF Distinct
    <3> QED BY <3>2, <1>3
  <2>2. ASSUME NEW j \in 1 .. Len(queue), j <= k PROVE queue[j].id \in ids
    BY <2>2, <1>3
  <2> QED BY <2>1, <2>2
<1> HIDE DEF ids, copy
<1>9. ASSUME NEW i \in ids
      PROVE  /\ nodes'[i] \in Node /\ nodes'[i].id = i /\ nodes'[i].class = Idle
             /\ nodes'[i].validator = registered[i].validator
  <2>1. nodes'[i] = Activated(copy(i))
    BY <1>6
  <2>2. PICK n, s : n = copy(i) /\ s = SubnetEpoch
    OBVIOUS
  <2>3. n \in Node /\ n.id = i /\ n.validator = registered[i].validator /\ s \in Nat
    BY <2>2, <1>5, EpochType
  <2>4. nodes'[i] = [n EXCEPT !.class = Idle, !.start = s]
    BY <2>1, <2>2 DEF Activated
  <2>5. Idle \in Registered .. Validator
    BY DEF Idle, Registered, Validator
  <2>6. PICK a : a = nodes'[i]
    OBVIOUS
  <2>7. a \in Node /\ a.id = n.id /\ a.class = Idle /\ a.validator = n.validator
    BY <2>3, <2>4, <2>5, <2>6 DEF Node
  <2> QED BY <2>3, <2>6, <2>7
<1>10. /\ DOMAIN nodes' = DOMAIN nodes \cup ids /\ DOMAIN registered' = DOMAIN registered \ ids
       /\ \A j \in DOMAIN nodes : j \notin ids /\ nodes'[j] = nodes[j]
       /\ \A j \in DOMAIN registered' : registered'[j] = registered[j]
  <2>1. DOMAIN nodes' = DOMAIN nodes \cup ids /\ DOMAIN registered' = DOMAIN registered \ ids
    BY <1>6
  <2>2. ASSUME NEW j \in DOMAIN nodes PROVE j \notin ids
    BY <1>4, NodeFacts DEF Tables
  <2>3. \A j \in DOMAIN nodes : nodes'[j] = nodes[j]
    BY <1>6, <2>2
  <2>4. \A j \in DOMAIN registered' : registered'[j] = registered[j]
    BY <1>6
  <2> QED BY <2>1, <2>2, <2>3, <2>4
<1>11. Mapped'
  <2>1. NodeMap(nodes')
    <3>1. \A j \in DOMAIN nodes' : nodes'[j] \in Node /\ nodes'[j].id = j
      BY <1>9, <1>10, NodeFacts DEF Tables
    <3>2. nodes' = [j \in DOMAIN nodes' |-> nodes'[j]]
      BY <1>6
    <3> QED BY <3>1, <3>2 DEF NodeMap
  <2>2. NodeMap(registered')
    <3>1. \A j \in DOMAIN registered' : registered'[j] \in Node /\ registered'[j].id = j
      BY <1>10, NodeFacts DEF Tables
    <3>2. registered' = [j \in DOMAIN registered' |-> registered'[j]]
      BY <1>6
    <3> QED BY <3>1, <3>2 DEF NodeMap
  <2>3. DOMAIN nodes' \cap DOMAIN registered' = {}
    BY <1>10 DEF Tables, Mapped
  <2>4. DOMAIN nodes' \subseteq 1 .. uids /\ DOMAIN registered' \subseteq 1 .. uids
    BY <1>4, <1>10 DEF Tables, Mapped
  <2> QED BY <2>1, <2>2, <2>3, <2>4 DEF Tables, Mapped
<1>12. /\ queue' \in Seq(Node) /\ Len(queue') = Len(queue) - k
       /\ \A j \in 1 .. Len(queue) - k : queue'[j] = queue[k + j]
  <2>1. /\ k + 1 \in Int /\ Len(queue) \in Int
        /\ \A i \in k + 1 .. Len(queue) : queue[i] \in Node
    BY <1>2, <1>3
  <2> DEFINE q == SubSeq(queue, k + 1, Len(queue))
  <2>2. /\ q \in Seq(Node) /\ Len(q) = IF k + 1 <= Len(queue) THEN Len(queue) - (k + 1) + 1 ELSE 0
        /\ \A i \in 1 .. Len(queue) - (k + 1) + 1 : q[i] = queue[(k + 1) + i - 1]
    BY <2>1, SubSeqProperties
  <2> HIDE DEF q
  <2>3. Len(q) = Len(queue) - k
    BY <2>2, <1>2, <1>3
  <2>4. ASSUME NEW j \in 1 .. Len(queue) - k PROVE q[j] = queue[k + j]
    <3>1. j \in 1 .. Len(queue) - (k + 1) + 1 /\ (k + 1) + j - 1 = k + j
      BY <1>2, <1>3
    <3>2. q[j] = queue[(k + 1) + j - 1]
      BY <3>1, <2>2
    <3> QED BY <3>1, <3>2
  <2>5. queue' = q
    BY <1>6 DEF q
  <2> QED BY <2>2, <2>3, <2>4, <2>5
<1>13. Queued'
  <2>1. \A j \in 1 .. Len(queue') :
          j \in 1 .. Len(queue) - k /\ k + j \in 1 .. Len(queue) /\ ~(k + j <= k)
    BY <1>2, <1>3, <1>12
  <2>2. Distinct(queue')
    <3> SUFFICES ASSUME NEW i \in 1 .. Len(queue'), NEW j \in 1 .. Len(queue'),
                        queue'[i].id = queue'[j].id
                 PROVE  i = j
      BY DEF Distinct
    <3>1. queue[k + i].id = queue[k + j].id
      BY <2>1, <1>12
    <3>2. k + i = k + j
      BY <3>1, <2>1, <1>2 DEF Distinct
    <3> QED BY <3>2, <1>3
  <2>3. ASSUME NEW j \in 1 .. Len(queue')
        PROVE  /\ queue'[j].id \in DOMAIN registered'
               /\ queue'[j].validator = registered'[queue'[j].id].validator
    <3>1. queue'[j] = queue[k + j] /\ k + j \in 1 .. Len(queue) /\ queue[k + j].id \notin ids
      BY <2>1, <1>8, <1>12
    <3> QED BY <3>1, <1>2, <1>10
  <2>4. ASSUME NEW i \in DOMAIN registered' PROVE \E j \in 1 .. Len(queue') : queue'[j].id = i
    <3>1. PICK m \in 1 .. Len(queue) : queue[m].id = i
      BY <1>10 DEF Tables, Queued
    <3>2. ~(m <= k)
      BY <3>1, <1>8, <1>10
    <3>3. m - k \in 1 .. Len(queue') /\ m - k \in 1 .. Len(queue) - k /\ k + (m - k) = m
      BY <3>2, <1>2, <1>3, <1>12
    <3>4. queue'[m - k] = queue[m]
      BY <3>3, <1>12
    <3> QED BY <3>1, <3>3, <3>4
  <2>5. Len(queue') <= MaxRegisteredNodes + 1
    <3>1. Len(queue) <= MaxRegisteredNodes + 1 /\ MaxRegisteredNodes \in Nat
      BY SubnetNodesAssumption DEF Tables, Queued
    <3> QED BY <3>1, <1>2, <1>3, <1>12
  <2> QED BY <1>12, <2>2, <2>3, <2>4, <2>5 DEF Queued
<1>14. Slotted'
  <2>1. ASSUME NEW i \in ids PROVE nodes'[i].class # Validator
    BY <1>9 DEF Idle, Validator
  <2>2. Range(slots) = {j \in DOMAIN nodes' : nodes'[j].class = Validator}
    BY <2>1, <1>10 DEF Tables, Slotted
  <2> QED BY <2>2 DEF Tables, Slotted
<1>15. Counted'
  <2>1. NumActive \in Nat /\ NumQueued \in Nat /\ Len(slots) \in Nat
    BY SizeFacts DEF Tables
  <2>2. NumActive' = NumActive + k
    <3>1. IsFiniteSet(DOMAIN nodes) /\ DOMAIN nodes \cap ids = {}
      BY NodeFacts, <1>10 DEF Tables
    <3>2. Cardinality(DOMAIN nodes \cup ids) = Cardinality(DOMAIN nodes) + k - Cardinality({})
      BY <3>1, <1>7, FS_Union
    <3> QED BY <3>2, <2>1, <1>3, <1>10, FS_EmptySet DEF NumActive
  <2>3. NumQueued' = NumQueued - k
    <3>1. IsFiniteSet(DOMAIN registered) /\ DOMAIN registered \cap ids = ids
      BY NodeFacts, <1>4 DEF Tables
    <3>2. PICK S : S = DOMAIN registered
      OBVIOUS
    <3>3. Cardinality(S \ ids) = Cardinality(S) - Cardinality(S \cap ids)
      BY <3>1, <3>2, FS_Difference
    <3>4. Cardinality(S \cap ids) = k
      BY <3>1, <3>2, <1>7
    <3> QED BY <3>2, <3>3, <3>4, <1>10 DEF NumQueued
  <2>4. NumActive + k <= MaxSubnetNodes
    <3>1. counts.active = NumActive /\ NumActive <= MaxSubnetNodes
      BY DEF Tables, Counted, CountersAgree, NumActive
    <3>2. MaxSubnetNodes \in Nat /\ ChurnLimit \in Nat
      BY SubnetNodesAssumption
    <3>3. Plus(MaxSubnetNodes, -counts.active) = MaxSubnetNodes - NumActive
      BY <3>1, <3>2, <2>1 DEF Plus
    <3>4. Room <= MaxSubnetNodes - NumActive
      <4>1. Room \in {0, MaxSubnetNodes - NumActive, ChurnLimit}
        BY <3>3 DEF Room
      <4>2. Room = ChurnLimit => Room <= MaxSubnetNodes - NumActive
        BY <3>1, <3>2, <3>3, <2>1 DEF Room
      <4> QED BY <4>1, <4>2, <3>1, <3>2, <2>1
    <3>5. Room \in Int
      BY <3>1, <3>2, <3>3, <2>1 DEF Room
    <3>6. k <= Room
      BY <1>6
    <3> QED BY <3>2, <3>4, <3>5, <3>6, <2>1, <1>3
  <2>5. PICK p \in Nat, r \in Nat, l \in Nat : p = NumActive' /\ r = NumQueued' /\ l = Len(slots')
    <3>0. slots' = slots
      OBVIOUS
    <3>1. Len(slots') \in Nat
      BY <2>1, <3>0
    <3>2. \A a, b \in Nat : a + b \in Nat
      OBVIOUS
    <3>3. NumActive' \in Nat
      BY <2>1, <2>2, <3>2, <1>3
    <3>4. NumQueued' \in Nat
      <4>1. IsFiniteSet(DOMAIN registered)
        BY NodeFacts DEF Tables
      <4>2. PICK S : S = DOMAIN registered'
        OBVIOUS
      <4>3. S = DOMAIN registered \ ids
        BY <4>2, <1>10
      <4>4. IsFiniteSet(S)
        BY <4>1, <4>3, FS_Difference
      <4>5. Cardinality(S) \in Nat
        BY <4>4, FS_CardinalityType
      <4> QED BY <4>2, <4>5 DEF NumQueued
    <3> QED BY <3>1, <3>3, <3>4
  <2>6. p = NumActive + k /\ p <= MaxSubnetNodes /\ p + r = NumActive + NumQueued + 0
    BY <2>1, <2>2, <2>3, <2>4, <2>5, <1>3
  <2>7. l = Len(slots) + 0
    BY <2>1, <2>5
  <2>8. k \in Int /\ 0 \in Int
    BY <1>3
  <2> QED BY <1>6, <2>5, <2>6, <2>7, <2>8, TallyCounts
<1>16. Owned'
  <2>1. \A j, v : Listed(j, v)' <=> Listed(j, v)
    BY <1>4, <1>9, <1>10 DEF Listed
  <2>2. DOMAIN nodes' \cup DOMAIN registered' = DOMAIN nodes \cup DOMAIN registered
    BY <1>4, <1>10
  <2> QED BY <2>1, <2>2 DEF Tables, Owned
<1> QED BY <1>10, <1>11, <1>13, <1>14, <1>15, <1>16 DEF Tables
--------------------------------------------------------------------------------
(***************************************************************************)
(* The hook and the proposal.                                              *)
(***************************************************************************)

(* Ids that were handed out do not come back, and but for the nodes X the  *)
(* active nodes that remain keep their class and start.                    *)
Kept(j) == j \in DOMAIN nodes' => /\ j \in DOMAIN nodes
                                  /\ nodes'[j].class = nodes[j].class
                                  /\ nodes'[j].start = nodes[j].start
Steady(X) ==
  /\ uids \in Nat /\ uids' \in Nat /\ uids <= uids'
  /\ \A j \in 1 .. uids : /\ j \in DOMAIN registered' => j \in DOMAIN registered
                          /\ j \notin X => Kept(j)

(* What is known of a node stays true in a steady step.                    *)
LEMMA SteadyFacts ==
  ASSUME NEW X, Steady(X), submission' = submission, NEW i, Known(i)
  PROVE  Known(i)' /\ (i \notin X /\ Fresh(i) => Fresh(i)')
<1>1. i \in 1 .. uids /\ i \notin DOMAIN registered
  BY DEF Known
<1>2. i \in 1 .. uids'
  BY <1>1 DEF Steady
<1>3. i \notin DOMAIN registered'
  BY <1>1 DEF Steady
<1>4. i \notin X => Kept(i)
  BY <1>1 DEF Steady
<1>5. ASSUME i \notin X, Fresh(i) PROVE Fresh(i)'
  BY <1>4, <1>5 DEF Kept, Fresh
<1> QED BY <1>2, <1>3, <1>5 DEF Known

(* Nothing happens to the nodes.                                           *)
LEMMA SteadyFrame ==
  ASSUME Mapped, UNCHANGED <<nodes, uids>>, DOMAIN registered' = DOMAIN registered
  PROVE  Steady({})
<1>1. uids \in Nat
  BY SubnetNodesAssumption DEF Mapped
<1>2. nodes' = nodes /\ uids' = uids
  OBVIOUS
<1> QED BY <1>1, <1>2 DEF Steady, Kept

(* A call that leaves proposal and election alone.                         *)
LEMMA CallHooked ==
  ASSUME Hooked, step = "calls", state # "Removed", Steady({}),
         UNCHANGED <<step, todo, elected, submission>>, ElectedStays'
  PROVE  Hooked'
<1>0. step' = step /\ todo' = todo /\ elected' = elected /\ submission' = submission
  OBVIOUS
<1>1. todo' \subseteq Uids /\ elected' \in Uids \cup {None}
  BY <1>0 DEF Hooked
<1>2. elected' # None => Known(elected)'
  BY <1>0, SteadyFacts DEF Hooked
<1>3. ASSUME submission # None PROVE Proposed'
  <2>1. Proposed
    BY <1>3 DEF Hooked
  <2>2. \A i \in DOMAIN submission.nodes : Known(i)'
    BY <1>0, <2>1, SteadyFacts DEF Proposed
  <2>3. \A i \in submission.attests : Known(i)'
    BY <1>0, <2>1, SteadyFacts DEF Proposed
  <2>4. ASSUME NEW i \in DOMAIN submission.nodes PROVE Fresh(i)'
    <3>1. Known(i) /\ Fresh(i)
      BY <2>1 DEF Proposed
    <3> QED BY <1>0, <3>1, SteadyFacts
  <2> QED BY <1>0, <2>1, <2>2, <2>3, <2>4 DEF Proposed
<1> QED BY <1>0, <1>1, <1>2, <1>3 DEF Hooked

(* A step of the hook that has looked at the nodes X.                      *)
LEMMA StepHooked ==
  ASSUME Timed, Hooked, submission # None, step # "calls", NEW X, Steady(X),
         UNCHANGED <<elected, submission, state>>, step' \in Steps,
         todo' \subseteq Uids,
         step' \in {"slash", "penalize"} => todo' \subseteq submission.attests,
         step' = "reward" => /\ todo' \subseteq DOMAIN submission.nodes
                             /\ \A i \in todo' : i \notin X /\ Fresh(i),
         step' \notin {"reward", "elect"} => X = {} /\ step \notin {"reward", "elect"}
  PROVE  Hooked'
<1>0. elected' = None /\ submission' = submission /\ state' = state /\ state # "Removed"
  BY DEF Timed
<1>1. Proposed
  BY DEF Hooked
<1>2. \A i \in DOMAIN submission.nodes : Known(i) /\ Known(i)'
  BY <1>0, <1>1, SteadyFacts DEF Proposed
<1>3. \A i \in submission.attests : Known(i)'
  BY <1>0, <1>1, SteadyFacts DEF Proposed
<1>4. ASSUME step' = "reward", NEW i \in todo' PROVE Fresh(i)'
  <2>1. Known(i) /\ i \notin X /\ Fresh(i)
    BY <1>2, <1>4
  <2> QED BY <1>0, <2>1, SteadyFacts
<1>5. ASSUME step' \notin {"reward", "elect"}, NEW i \in DOMAIN submission.nodes
      PROVE  Fresh(i)'
  <2>1. Known(i) /\ i \notin X /\ Fresh(i)
    BY <1>0, <1>1, <1>2, <1>5 DEF Proposed
  <2> QED BY <1>0, <2>1, SteadyFacts
<1>6. Proposed'
  BY <1>0, <1>1, <1>2, <1>3, <1>4, <1>5 DEF Proposed
<1> QED BY <1>0, <1>6 DEF Hooked, ElectedStays

(* Registration.                                                           *)
LEMMA RegisterInv ==
  ASSUME Inv, NEW v \in Validators, NEW u \in Uniques \cup {None}, register_subnet_node(v, u)
  PROVE  Inv'
<1>0. Timed /\ Tables /\ Hooked
  BY DEF Inv
<1>1. /\ Tables' /\ uids' = uids + 1
      /\ DOMAIN nodes' \subseteq DOMAIN nodes \cup {uids + 1}
      /\ \A j \in DOMAIN nodes : j \in DOMAIN nodes' /\ nodes'[j] = nodes[j]
      /\ DOMAIN registered' \subseteq DOMAIN registered \cup {uids + 1}
      /\ Range(slots) \subseteq Range(slots')
  BY <1>0, RegisterTables
<1>2. /\ UNCHANGED <<epoch, tick, step, todo, state, startEpoch, prevPause, weighted,
                     elected, submission, expelled>>
      /\ step = "calls" /\ state # "Removed"
  BY DEF register_subnet_node, Calls, timeVars, hookVars, subnetVars, epochVars, histVars
<1>3. Timed'
  BY <1>0, <1>2 DEF Timed
<1>4. Steady({})
  <2>1. uids \in Nat
    BY <1>0, SubnetNodesAssumption DEF Tables, Mapped
  <2> QED BY <1>1, <2>1 DEF Steady, Kept
<1>5. ElectedStays'
  BY <1>0, <1>1, <1>2 DEF Hooked, ElectedStays
<1>6. Hooked'
  BY <1>0, <1>2, <1>4, <1>5, CallHooked
<1> QED BY <1>1, <1>3, <1>6 DEF Inv

(* Update of a node's unique parameter.                                    *)
LEMMA UpdateInv ==
  ASSUME Inv, NEW i \in Uids, NEW u \in Uniques \cup {None}, do_update_node_unique(i, u)
  PROVE  Inv'
<1>0. Timed /\ Tables /\ Hooked
  BY DEF Inv
<1>1. /\ Tables' /\ DOMAIN nodes' = DOMAIN nodes /\ DOMAIN registered' = DOMAIN registered
      /\ \A j \in DOMAIN nodes : /\ nodes'[j].class = nodes[j].class
                                 /\ nodes'[j].start = nodes[j].start
  BY <1>0, UpdateTables
<1>2. /\ UNCHANGED <<epoch, tick, step, todo, state, startEpoch, prevPause, weighted,
                     elected, submission, expelled, slots, uids>>
      /\ step = "calls" /\ state # "Removed"
  BY DEF do_update_node_unique, Calls, timeVars, hookVars, subnetVars, epochVars, slotVars
<1>3. Timed'
  BY <1>0, <1>2 DEF Timed
<1>4. Steady({})
  <2>1. uids \in Nat /\ uids' = uids
    BY <1>0, <1>2, SubnetNodesAssumption DEF Tables, Mapped
  <2> QED BY <1>1, <2>1 DEF Steady, Kept
<1>5. ElectedStays'
  BY <1>0, <1>2 DEF Hooked, ElectedStays
<1>6. Hooked'
  BY <1>0, <1>2, <1>4, <1>5, CallHooked
<1> QED BY <1>1, <1>3, <1>6 DEF Inv

(* A node leaves: what the tables and the proposal see of it.              *)
LEMMA LeaveTables ==
  ASSUME Tables, state # "Removed", NEW i, perform_remove_subnet_node(i),
         UNCHANGED <<uids, state>>
  PROVE  Tables' /\ Steady({}) /\ Range(slots) \subseteq Range(slots') \cup {i}
<1>1. uids \in Nat /\ uids' = uids
  BY SubnetNodesAssumption DEF Tables, Mapped
<1>2. CASE i \in DOMAIN nodes /\ remove_active_subnet_node(i)
  <2>1. /\ Tables' /\ nodes' = Without(nodes, i) /\ registered' = registered
        /\ Range(slots') = Range(slots) \ {i}
    BY <1>2, RemoveActiveTables
  <2>2. DOMAIN nodes' = DOMAIN nodes \ {i} /\ \A j \in DOMAIN nodes' : nodes'[j] = nodes[j]
    BY <2>1, WithoutFacts
  <2> QED BY <1>1, <2>1, <2>2 DEF Steady, Kept
<1>3. CASE i \in DOMAIN registered /\ remove_registered_subnet_node(i)
  <2>1. /\ Tables' /\ nodes' = nodes /\ slots' = slots
        /\ registered' = Without(registered, i)
    BY <1>3, RemoveQueuedTables
  <2>2. DOMAIN registered' = DOMAIN registered \ {i}
    BY <2>1, WithoutFacts
  <2> QED BY <1>1, <2>1, <2>2 DEF Steady, Kept
<1> QED BY <1>2, <1>3 DEF perform_remove_subnet_node

(* A node leaves, by its owner or by the collective.                       *)
LEMMA LeaveInv ==
  ASSUME Inv, NEW i \in Uids, remove_subnet_node(i) \/ do_collective_remove_subnet_node(i)
  PROVE  Inv'
<1>0. Timed /\ Tables /\ Hooked
  BY DEF Inv
<1>1. /\ UNCHANGED <<epoch, tick, step, todo, state, startEpoch, prevPause, weighted,
                     elected, submission, uids>>
      /\ step = "calls" /\ state # "Removed" /\ perform_remove_subnet_node(i)
      /\ \/ elected # i /\ expelled' = expelled
         \/ expelled' = expelled \cup {i}
  BY DEF remove_subnet_node, do_collective_remove_subnet_node, Calls, timeVars, hookVars,
         subnetVars, epochVars, histVars
<1>2. Tables' /\ Steady({}) /\ Range(slots) \subseteq Range(slots') \cup {i}
  BY <1>0, <1>1, LeaveTables
<1>3. Timed'
  BY <1>0, <1>1 DEF Timed
<1>4. ElectedStays'
  BY <1>0, <1>1, <1>2 DEF Hooked, ElectedStays
<1>5. Hooked'
  BY <1>0, <1>1, <1>2, <1>4, CallHooked
<1> QED BY <1>2, <1>3, <1>5 DEF Inv

(* Activation and pause of the subnet, and its emergency validators.       *)
LEMMA OwnerInv ==
  ASSUME Inv, \/ do_activate_subnet \/ do_owner_pause_subnet
              \/ \E ids \in SUBSET DOMAIN nodes : do_owner_set_emergency_validator_set(ids)
              \/ do_owner_revert_emergency_validator_set
  PROVE  Inv'
<1>0. Timed /\ Tables /\ Hooked
  BY DEF Inv
<1>1. /\ UNCHANGED <<nodes, registered, queue, slots, slotIndex, uids, counts, all, uniqueOf,
                     owned, reputation, epoch, tick, step, todo, weighted, elected,
                     submission, expelled>>
      /\ step = "calls" /\ state # "Removed" /\ state' # "Removed"
      /\ \/ state' = "Active" /\ startEpoch' = epoch + 1 /\ prevPause' = epoch
         \/ state' = "Paused" /\ startEpoch' = epoch /\ prevPause' = prevPause
         \/ UNCHANGED <<state, startEpoch, prevPause>>
      /\ \/ emergency' = emergency
         \/ emergency' = None
         \/ \E ids \in SUBSET DOMAIN nodes : /\ ids \subseteq Classified(Validator)
                                             /\ emergency' = [ids |-> ids, total |-> 0, max |-> 0]
  BY DEF do_activate_subnet, do_owner_pause_subnet, do_owner_set_emergency_validator_set,
         do_owner_revert_emergency_validator_set, Calls, timeVars, hookVars, subnetVars,
         queueVars, slotVars, countVars, indexVars, scoreVars, epochVars, histVars
<1>2. emergency' # None => emergency' \in Emergency /\ emergency'.ids \subseteq Range(slots)
  <2>1. CASE emergency' = emergency \/ emergency' = None
    BY <1>0, <2>1, EmergencyFacts
  <2>2. ASSUME NEW ids \in SUBSET DOMAIN nodes, ids \subseteq Classified(Validator),
               emergency' = [ids |-> ids, total |-> 0, max |-> 0]
        PROVE  emergency' \in Emergency /\ emergency'.ids \subseteq Range(slots)
    <3>1. ASSUME NEW i \in ids PROVE i \in Uids /\ i \in Range(slots)
      <4>1. i \in DOMAIN nodes /\ nodes[i].class >= Validator
        BY <2>2 DEF Classified, has_classification
      <4>2. nodes[i].class \in Registered .. Validator /\ i \in Uids
        BY <1>0, <4>1, NodeFacts DEF Tables
      <4>3. nodes[i].class = Validator
        BY <4>1, <4>2 DEF Validator, Registered
      <4> QED BY <1>0, <4>1, <4>2, <4>3 DEF Tables, Slotted
    <3>2. ids \subseteq Uids /\ ids \subseteq Range(slots)
      BY <3>1
    <3> QED BY <2>2, <3>2 DEF Emergency
  <2> QED BY <1>1, <2>1, <2>2
<1>3. Tables'
  BY <1>0, <1>1, <1>2, EmergencyFacts, FrameTables
<1>4. Timed'
  <2>1. epoch \in Nat /\ epoch + 1 \in Nat /\ epoch <= epoch
    BY <1>0 DEF Timed
  <2> QED BY <1>0, <1>1, <2>1 DEF Timed, States
<1>5. Steady({})
  BY <1>0, <1>1, SteadyFrame DEF Tables
<1>6. ElectedStays'
  BY <1>0, <1>1 DEF Hooked, ElectedStays
<1>7. Hooked'
  BY <1>0, <1>1, <1>5, <1>6, CallHooked
<1> QED BY <1>3, <1>4, <1>7 DEF Inv

(* The end of a pause.                                                     *)
LEMMA UnpauseInv ==
  ASSUME Inv, do_owner_unpause_subnet
  PROVE  Inv'
<1>0. Timed /\ Tables /\ Hooked
  BY DEF Inv
<1>1. /\ UNCHANGED <<nodes, slots, uids, epoch, tick, step, todo, weighted, elected,
                     submission, expelled>>
      /\ step = "calls" /\ state # "Removed" /\ state' = "Active"
      /\ startEpoch' = epoch + 1 /\ prevPause' = epoch
  BY DEF do_owner_unpause_subnet, Calls, timeVars, hookVars, slotVars, epochVars, histVars
<1>2. Tables' /\ DOMAIN registered' = DOMAIN registered
  BY <1>0, UnpauseTables
<1>3. Timed'
  <2>1. epoch \in Nat /\ epoch + 1 \in Nat
    BY <1>0 DEF Timed
  <2> QED BY <1>0, <1>1, <2>1 DEF Timed, States
<1>4. Steady({})
  BY <1>0, <1>1, <1>2, SteadyFrame DEF Tables
<1>5. ElectedStays'
  BY <1>0, <1>1 DEF Hooked, ElectedStays
<1>6. Hooked'
  BY <1>0, <1>1, <1>4, <1>5, CallHooked
<1> QED BY <1>2, <1>3, <1>6 DEF Inv

(* The removal of the subnet.                                              *)
LEMMA RemoveSubnetInv ==
  ASSUME Inv, do_remove_subnet
  PROVE  Inv'
<1>0. Timed /\ Tables /\ Hooked
  BY DEF Inv
<1>1. /\ UNCHANGED <<epoch, tick, step, todo, weighted, submission>>
      /\ step = "calls" /\ state' = "Removed" /\ elected' = None
      /\ startEpoch' = 0 /\ prevPause' = 0
  BY DEF do_remove_subnet, clean_subnet_nodes, Calls, timeVars, hookVars
<1>2. Tables'
  BY <1>0, RemoveSubnetTables
<1>3. Timed'
  BY <1>0, <1>1 DEF Timed, States
<1>4. Hooked'
  <2>1. submission' # None => Proposed'
    BY <1>0, <1>1 DEF Hooked, Proposed
  <2> QED BY <1>0, <1>1, <2>1 DEF Hooked, ElectedStays
<1> QED BY <1>2, <1>3, <1>4 DEF Inv

(* A proposal.                                                             *)
LEMMA ProposeInv ==
  ASSUME Inv, NEW data \in SUBSET DOMAIN nodes, NEW p \in QueuedIds \cup {None},
         NEW r \in QueuedIds \cup {None}, do_propose_attestation(data, p, r)
  PROVE  Inv'
<1>0. Timed /\ Tables /\ Hooked
  BY DEF Inv
<1>1. /\ UNCHANGED <<nodes, registered, queue, slots, slotIndex, uids, counts, all, uniqueOf,
                     owned, reputation, epoch, tick, step, todo, state, startEpoch,
                     prevPause, weighted, elected, emergency, expelled>>
      /\ step = "calls" /\ state # "Removed" /\ elected # None
      /\ submission' = [validator  |-> elected,
                        nodes      |-> Restrict(nodes, Classified(Idle)),
                        validators |-> ValidatorIds,
                        data       |-> canonicalize_consensus_data(data),
                        attests    |-> {elected},
                        prioritize |-> p,
                        remove     |-> r]
  BY DEF do_propose_attestation, Calls, timeVars, hookVars, subnetVars, queueVars, slotVars,
         countVars, indexVars, scoreVars, histVars
<1>2. Tables'
  BY <1>0, <1>1, EmergencyFacts, FrameTables
<1>3. Timed'
  BY <1>0, <1>1 DEF Timed
<1>4. PICK m, vs, d : /\ m = Restrict(nodes, Classified(Idle)) /\ vs = ValidatorIds
                      /\ d = canonicalize_consensus_data(data)
  OBVIOUS
<1>5. /\ m = [j \in Classified(Idle) |-> nodes[j]] /\ Classified(Idle) \subseteq DOMAIN nodes
      /\ DOMAIN m = Classified(Idle)
  BY <1>4 DEF Restrict, Classified
<1>6. /\ m \in {f \in UNION {[D -> Node] : D \in SUBSET Uids} : NodeMap(f)}
      /\ \A j \in DOMAIN m : j \in DOMAIN nodes /\ m[j] = nodes[j]
  <2>1. \A j \in DOMAIN m : j \in DOMAIN nodes /\ m[j] = nodes[j]
    BY <1>5
  <2>2. \A j \in DOMAIN m : m[j] \in Node /\ m[j].id = j /\ j \in Uids
    BY <1>0, <2>1, NodeFacts DEF Tables
  <2>3. m \in [DOMAIN m -> Node]
    BY <1>5, <2>2
  <2>4. DOMAIN m \in SUBSET Uids
    BY <2>2
  <2> QED BY <2>1, <2>2, <2>3, <2>4 DEF NodeMap
<1>7. vs \in SUBSET Uids
  <2>1. Range(slots) \subseteq Uids
    BY <1>0, NodeFacts DEF Tables, Slotted
  <2>2. emergency # None => emergency.ids \subseteq Uids
    BY <1>0, <2>1, EmergencyFacts
  <2> QED BY <1>4, <2>1, <2>2 DEF ValidatorIds
<1>8. d \in SUBSET Uids
  <2>1. d \subseteq DOMAIN nodes
    BY <1>4, <1>5 DEF canonicalize_consensus_data
  <2> QED BY <1>0, <2>1, NodeFacts DEF Tables
<1>9. QueuedIds \subseteq Uids
  <2>1. \A k \in 1 .. Len(queue) : queue[k].id \in DOMAIN registered
    BY <1>0 DEF Tables, Queued
  <2> QED BY <1>0, <2>1, NodeFacts DEF Tables, QueuedIds
<1>10. elected \in Uids /\ Known(elected)
  BY <1>0, <1>1 DEF Hooked
<1>11. PICK s : s = submission'
  OBVIOUS
<1>12. s = [validator |-> elected, nodes |-> m, validators |-> vs, data |-> d,
            attests |-> {elected}, prioritize |-> p, remove |-> r]
  BY <1>1, <1>4, <1>11
<1>13. s \in Submission /\ s.attests = {elected} /\ s.validator = elected /\ s.nodes = m
  <2>1. p \in Uids \cup {None} /\ r \in Uids \cup {None} /\ {elected} \in SUBSET Uids
    BY <1>9, <1>10
  <2> QED BY <1>12, <1>6, <1>7, <1>8, <1>10, <2>1 DEF Submission
<1>14. Proposed'
  <2>1. ASSUME NEW i \in DOMAIN m PROVE Known(i)'
    BY <1>0, <1>1, <1>6, NodeFacts DEF Tables, Known
  <2>2. ASSUME NEW i, i = elected PROVE Known(i)'
    BY <1>1, <1>10, <2>2 DEF Known
  <2>3. ASSUME NEW i \in DOMAIN m PROVE Fresh(i)'
    BY <1>1, <1>6, <1>11, <1>13 DEF Fresh
  <2>4. /\ submission' \in Submission /\ submission'.attests = {elected}
        /\ submission'.validator = elected /\ submission'.nodes = m
        /\ step' = "calls"
    BY <1>1, <1>11, <1>13
  <2>5. \A i \in DOMAIN submission'.nodes : Known(i)' /\ Fresh(i)'
    BY <2>1, <2>3, <2>4
  <2>6. \A i \in submission'.attests : Known(i)'
    BY <2>2, <2>4
  <2>7. submission'.validator \in submission'.attests
    BY <2>4
  <2> QED BY <2>4, <2>5, <2>6, <2>7 DEF Proposed
<1>15. Hooked'
  <2>1. Known(elected)'
    BY <1>1, <1>10 DEF Known
  <2> QED BY <1>0, <1>1, <1>14, <2>1 DEF Hooked, ElectedStays
<1> QED BY <1>2, <1>3, <1>15 DEF Inv

(* An attestation.                                                         *)
LEMMA AttestInv ==
  ASSUME Inv, NEW i \in DOMAIN nodes, do_attest(i)
  PROVE  Inv'
<1>0. Timed /\ Tables /\ Hooked
  BY DEF Inv
<1>1. /\ UNCHANGED <<nodes, registered, queue, slots, slotIndex, uids, counts, all, uniqueOf,
                     owned, reputation, epoch, tick, step, todo, state, startEpoch,
                     prevPause, weighted, elected, emergency, expelled>>
      /\ step = "calls" /\ state # "Removed" /\ submission # None
      /\ submission' = [submission EXCEPT !.attests = @ \cup {i}]
  BY DEF do_attest, Calls, timeVars, hookVars, subnetVars, queueVars, slotVars, countVars,
         indexVars, scoreVars, histVars
<1>2. Tables'
  BY <1>0, <1>1, EmergencyFacts, FrameTables
<1>3. Proposed
  BY <1>0, <1>1 DEF Hooked
<1>4. i \in Uids /\ Known(i)
  BY <1>0, NodeFacts DEF Tables, Known
<1>5. PICK s, a : s = submission' /\ a = submission.attests \cup {i}
  OBVIOUS
<1>6. PICK o : o = submission
  OBVIOUS
<1>7. s = [o EXCEPT !.attests = a] /\ o \in Submission /\ a \in SUBSET Uids
  BY <1>1, <1>3, <1>4, <1>5, <1>6 DEF Proposed, Submission
<1>8. s \in Submission /\ s.attests = a /\ s.validator = o.validator /\ s.nodes = o.nodes
  BY <1>7 DEF Submission
<1>9. Proposed'
  <2>1. /\ submission' \in Submission /\ submission'.validator = submission.validator
        /\ submission'.nodes = submission.nodes
        /\ submission'.attests = submission.attests \cup {i}
    BY <1>5, <1>6, <1>8
  <2>2. /\ \A j \in DOMAIN submission.nodes : Known(j) /\ Fresh(j)
        /\ \A j \in submission.attests : Known(j)
    BY <1>1, <1>3 DEF Proposed
  <2>3. ASSUME NEW j, Known(j) PROVE Known(j)'
    BY <1>1, <2>3 DEF Known
  <2>4. ASSUME NEW j, Fresh(j) PROVE Fresh(j)'
    BY <1>1, <2>1, <2>4 DEF Fresh
  <2>5. submission'.validator \in submission'.attests /\ step' = "calls"
    BY <1>1, <1>3, <2>1 DEF Proposed
  <2>6. \A j \in DOMAIN submission'.nodes : Known(j)' /\ Fresh(j)'
    BY <2>1, <2>2, <2>3, <2>4
  <2>7. \A j \in submission'.attests : Known(j)'
    BY <1>4, <2>1, <2>2, <2>3
  <2> QED BY <2>1, <2>5, <2>6, <2>7 DEF Proposed
<1>10. Timed'
  BY <1>0, <1>1 DEF Timed
<1>11. elected' # None => Known(elected)'
  BY <1>0, <1>1 DEF Hooked, Known
<1>12. Hooked'
  BY <1>0, <1>1, <1>9, <1>11 DEF Hooked, ElectedStays
<1> QED BY <1>2, <1>10, <1>12 DEF Inv

(* The general epoch advances, or the subnet's slot passes unused.         *)
LEMMA TimeInv ==
  ASSUME Inv, NextEpoch \/ SlotPasses
  PROVE  Inv'
<1>0. Timed /\ Tables /\ Hooked
  BY DEF Inv
<1>1. /\ UNCHANGED <<nodes, registered, queue, slots, slotIndex, uids, counts, all, uniqueOf,
                     owned, reputation, step, todo, state, startEpoch, prevPause,
                     emergency, expelled>>
      /\ step = "calls" /\ state # "Removed"
  BY DEF NextEpoch, SlotPasses, Calls, hookVars, queueVars, slotVars, countVars, indexVars,
         scoreVars, histVars
<1>2. Tables'
  BY <1>0, <1>1, EmergencyFacts, FrameTables
<1>3. CASE NextEpoch
  <2>1. /\ epoch' = epoch + 1 /\ tick' = "early" /\ UNCHANGED <<elected, submission>>
        /\ weighted' \in {FALSE, state = "Active" /\ startEpoch <= epoch'}
    BY <1>3 DEF NextEpoch, epochVars
  <2>2. weighted' \in BOOLEAN
    BY <2>1
  <2>3. /\ epoch' \in Nat \ {0} /\ (startEpoch <= epoch => startEpoch <= epoch')
    BY <1>0, <2>1 DEF Timed
  <2>4. Timed'
    BY <1>0, <1>1, <2>1, <2>2, <2>3 DEF Timed
  <2>5. Steady({})
    BY <1>0, <1>1, SteadyFrame DEF Tables
  <2>6. ElectedStays'
    BY <1>0, <1>1, <2>1 DEF Hooked, ElectedStays
  <2>7. Hooked'
    BY <1>0, <1>1, <2>1, <2>5, <2>6, CallHooked
  <2> QED BY <1>2, <2>4, <2>7 DEF Inv
<1>4. CASE SlotPasses
  <2>1. /\ tick' = "slot" /\ weighted' = FALSE /\ elected' = None /\ submission' = None
        /\ epoch' = epoch
    BY <1>4 DEF SlotPasses
  <2>2. Timed'
    BY <1>0, <1>1, <2>1 DEF Timed
  <2>3. Hooked'
    BY <1>0, <1>1, <2>1 DEF Hooked, ElectedStays
  <2> QED BY <1>2, <2>2, <2>3 DEF Inv
<1> QED BY <1>3, <1>4

(* A new reputation.                                                       *)
LEMMA Rescored ==
  ASSUME Tables, NEW i \in DOMAIN reputation, NEW r \in Low .. Full,
         reputation' = [reputation EXCEPT ![i] = r]
  PROVE  reputation' \in [DOMAIN reputation -> Low .. Full]
BY DEF Tables, Owned

(* Reputations are numbers below Full.                                     *)
LEMMA Scores ==
  ASSUME Tables, NEW i \in DOMAIN reputation
  PROVE  /\ reputation[i] \in Low .. Full
         /\ \A r \in Low .. reputation[i] : r \in Low .. Full
         /\ \A r \in reputation[i] .. Full : r \in Low .. Full
<1>1. reputation[i] \in Low .. Full
  BY DEF Tables, Owned
<1> QED BY <1>1 DEF Low, Full

(* The elected validator did not propose.                                  *)
LEMMA AbsentInv ==
  ASSUME Inv, ValidatorAbsent
  PROVE  Inv'
<1>0. Timed /\ Tables /\ Hooked
  BY DEF Inv
<1>1. /\ UNCHANGED <<nodes, registered, queue, slots, slotIndex, uids, counts, all, uniqueOf,
                     owned, epoch, todo, state, startEpoch, prevPause, emergency, submission,
                     expelled>>
      /\ state # "Removed" /\ step' = "elect" /\ tick' = "slot" /\ weighted' = FALSE
      /\ elected' = None /\ submission = None
      /\ \/ /\ elected \in DOMAIN reputation
            /\ \E r \in Low .. reputation[elected] :
                 reputation' = [reputation EXCEPT ![elected] = r]
         \/ reputation' = reputation
  BY DEF ValidatorAbsent, EmissionStep, Calls, queueVars, slotVars, countVars, indexVars, histVars
<1>2. reputation' \in [DOMAIN reputation -> Low .. Full]
  BY <1>0, <1>1, Scores, Rescored, EmergencyFacts
<1>3. Tables'
  BY <1>0, <1>1, <1>2, EmergencyFacts, FrameTables
<1>4. Timed'
  BY <1>0, <1>1 DEF Timed, Steps
<1>5. Hooked'
  BY <1>0, <1>1 DEF Hooked, ElectedStays
<1> QED BY <1>3, <1>4, <1>5 DEF Inv

(* The emission step takes up the proposal.                                *)
LEMMA DistributeInv ==
  ASSUME Inv, distribute_rewards
  PROVE  Inv'
<1>0. Timed /\ Tables /\ Hooked
  BY DEF Inv
<1>1. /\ UNCHANGED <<nodes, registered, queue, slots, slotIndex, uids, counts, all, uniqueOf,
                     owned, reputation, epoch, state, startEpoch, prevPause, submission,
                     expelled>>
      /\ step = "calls" /\ state # "Removed" /\ tick' = "slot" /\ weighted' = FALSE
      /\ elected' = None /\ submission # None
      /\ emergency' = IF emergency = None THEN None ELSE [emergency EXCEPT !.total = @ + 1]
      /\ \/ step' = "queue" /\ todo' = {}
         \/ step' = "slash" /\ todo' = submission.attests
  BY DEF distribute_rewards, EmissionStep, Calls, queueVars, slotVars, countVars, indexVars,
         scoreVars, histVars
<1>2. emergency' # None => emergency' \in Emergency /\ emergency'.ids \subseteq Range(slots)
  <2>1. CASE emergency = None
    BY <1>1, <2>1
  <2>2. CASE emergency # None
    <3>1. PICK o, n : o = emergency /\ n = emergency'
      OBVIOUS
    <3>2. o \in Emergency /\ o.ids \subseteq Range(slots)
      BY <1>0, <2>2, <3>1, EmergencyFacts
    <3>3. n = [o EXCEPT !.total = o.total + 1]
      BY <1>1, <2>2, <3>1
    <3>4. n \in Emergency /\ n.ids = o.ids
      BY <3>2, <3>3 DEF Emergency
    <3> QED BY <3>1, <3>2, <3>4
  <2> QED BY <2>1, <2>2
<1>3. Tables'
  BY <1>0, <1>1, <1>2, EmergencyFacts, FrameTables
<1>4. Timed'
  BY <1>0, <1>1 DEF Timed, Steps
<1>5. Proposed'
  <2>1. Proposed
    BY <1>0, <1>1 DEF Hooked
  <2>2. Steady({})
    BY <1>0, <1>1, SteadyFrame DEF Tables
  <2>3. \A i \in DOMAIN submission.nodes : Known(i)' /\ Fresh(i)'
    BY <1>1, <2>1, <2>2, SteadyFacts DEF Proposed
  <2>4. \A i \in submission.attests : Known(i)'
    BY <1>1, <2>1, <2>2, SteadyFacts DEF Proposed
  <2> QED BY <1>1, <2>1, <2>3, <2>4 DEF Proposed
<1>6. Hooked'
  <2>1. todo' \subseteq Uids
    BY <1>0, <1>1 DEF Hooked, Proposed, Submission
  <2> QED BY <1>1, <1>5, <2>1 DEF Hooked, ElectedStays
<1> QED BY <1>3, <1>4, <1>6 DEF Inv

(* What no iteration of the hook touches.                                  *)
LEMMA FrameFacts ==
  ASSUME HookFrame
  PROVE  UNCHANGED <<epoch, tick, state, startEpoch, prevPause, weighted, uids, elected,
                     submission, expelled>>
BY DEF HookFrame, timeVars, subnetVars, epochVars, histVars

(* A node of the proposal that still has a reputation is active.           *)
LEMMA StillActive ==
  ASSUME Tables, state # "Removed", NEW i \in DOMAIN reputation, Known(i)
  PROVE  i \in DOMAIN nodes
BY DEF Tables, Owned, Known

(* Leaving the nodes alone but for a reputation.                           *)
LEMMA StayTables ==
  ASSUME Tables, NodesStay, reputation' \in [DOMAIN reputation -> Low .. Full],
         UNCHANGED <<uids, state>>
  PROVE  Tables' /\ Steady({})
<1>1. UNCHANGED <<nodes, registered, queue, slots, slotIndex, counts, all, uniqueOf, owned,
                  emergency>>
  BY DEF NodesStay, queueVars, slotVars, countVars, indexVars
<1>2. Tables'
  BY <1>1, EmergencyFacts, FrameTables
<1> QED BY <1>1, <1>2, SteadyFrame DEF Tables

(* The removal of an active node.                                          *)
LEMMA RemoveSteady ==
  ASSUME Tables, state # "Removed", NEW i \in DOMAIN nodes, remove_active_subnet_node(i),
         UNCHANGED <<uids, state>>
  PROVE  Tables' /\ Steady({})
BY LeaveTables DEF perform_remove_subnet_node

(* A penalty for an active node.                                           *)
LEMMA PenalizeTables ==
  ASSUME Tables, state # "Removed", NEW i \in DOMAIN reputation, i \in DOMAIN nodes,
         NEW w \in BOOLEAN, Penalize(i, w), UNCHANGED <<uids, state>>
  PROVE  Tables' /\ Steady({})
<1>1. PICK r \in Low .. reputation[i] :
        \/ remove_active_subnet_node(i)
        \/ reputation' = [reputation EXCEPT ![i] = r] /\ NodesStay
  BY DEF Penalize
<1>2. r \in Low .. Full
  BY Scores
<1>3. CASE remove_active_subnet_node(i)
  BY <1>3, RemoveSteady
<1>4. CASE reputation' = [reputation EXCEPT ![i] = r] /\ NodesStay
  BY <1>2, <1>4, Rescored, StayTables
<1> QED BY <1>1, <1>3, <1>4

(* The elected validator's proposal did not reach consensus.               *)
LEMMA SlashInv ==
  ASSUME Inv, slash_validator
  PROVE  Inv'
<1>0. Timed /\ Tables /\ Hooked
  BY DEF Inv
<1>1. /\ step = "slash" /\ step' = "penalize" /\ todo' = todo
      /\ UNCHANGED <<epoch, tick, state, startEpoch, prevPause, weighted, uids, elected,
                     submission, expelled>>
  BY FrameFacts DEF slash_validator
<1>2. state # "Removed" /\ submission # None
  BY <1>0, <1>1 DEF Timed
<1>3. Proposed /\ submission.validator \in submission.attests /\ todo \subseteq submission.attests
  BY <1>0, <1>1, <1>2 DEF Hooked, Proposed
<1>4. PICK i : i = submission.validator
  OBVIOUS
<1>5. Known(i)
  BY <1>2, <1>3, <1>4 DEF Proposed
<1>6. Tables' /\ Steady({})
  <2>1. CASE i \in DOMAIN reputation
    <3>1. i \in DOMAIN nodes
      BY <1>0, <1>2, <1>5, <2>1, StillActive
    <3>2. Penalize(i, FALSE)
      BY <1>4, <2>1 DEF slash_validator
    <3> QED BY <1>0, <1>1, <1>2, <2>1, <3>1, <3>2, PenalizeTables
  <2>2. CASE i \notin DOMAIN reputation
    <3>1. NodesStay /\ reputation' = reputation
      BY <1>4, <2>2 DEF slash_validator, scoreVars
    <3> QED BY <1>0, <1>1, <3>1, StayTables, EmergencyFacts
  <2> QED BY <2>1, <2>2
<1>7. Timed'
  BY <1>0, <1>1, <1>2 DEF Timed, Steps
<1>8. todo' \subseteq Uids /\ step' \in Steps
  BY <1>0, <1>1 DEF Hooked, Steps
<1>9. Hooked'
  BY <1>0, <1>1, <1>2, <1>3, <1>6, <1>8, StepHooked
<1> QED BY <1>6, <1>7, <1>9 DEF Inv

(* One of its attestors.                                                   *)
LEMMA NonConsensusInv ==
  ASSUME Inv, handle_non_consensus
  PROVE  Inv'
<1>0. Timed /\ Tables /\ Hooked
  BY DEF Inv
<1>1. PICK i : i = First(todo)
  OBVIOUS
<1>2. /\ step = "penalize" /\ step' = step /\ todo # {} /\ todo' = todo \ {i}
      /\ UNCHANGED <<epoch, tick, state, startEpoch, prevPause, weighted, uids, elected,
                     submission, expelled>>
      /\ IF i \in DOMAIN reputation THEN Penalize(i, TRUE)
                                    ELSE NodesStay /\ UNCHANGED scoreVars
  BY <1>1, FrameFacts DEF handle_non_consensus
<1>3. state # "Removed" /\ submission # None
  BY <1>0, <1>2 DEF Timed
<1>4. Proposed /\ todo \subseteq submission.attests /\ todo \subseteq Uids
  BY <1>0, <1>2, <1>3 DEF Hooked, Proposed
<1>5. i \in todo
  <2>1. todo \subseteq Nat
    BY <1>4 DEF Uids
  <2> QED BY <1>1, <1>2, <2>1, FirstFacts
<1>6. Known(i)
  BY <1>3, <1>4, <1>5 DEF Proposed
<1>7. Tables' /\ Steady({})
  <2>1. CASE i \in DOMAIN reputation
    <3>1. i \in DOMAIN nodes
      BY <1>0, <1>3, <1>6, <2>1, StillActive
    <3>2. Penalize(i, TRUE)
      BY <1>2, <2>1
    <3> QED BY <1>0, <1>2, <1>3, <2>1, <3>1, <3>2, PenalizeTables
  <2>2. CASE i \notin DOMAIN reputation
    <3>1. NodesStay /\ reputation' = reputation
      BY <1>2, <2>2 DEF scoreVars
    <3> QED BY <1>0, <1>2, <3>1, StayTables, EmergencyFacts
  <2> QED BY <2>1, <2>2
<1>8. Timed'
  BY <1>0, <1>2, <1>3 DEF Timed, Steps
<1>9. todo' \subseteq Uids /\ todo' \subseteq submission.attests /\ step' \in Steps
  BY <1>2, <1>4 DEF Steps
<1>10. Hooked'
  BY <1>0, <1>2, <1>3, <1>7, <1>9, StepHooked
<1> QED BY <1>7, <1>8, <1>10 DEF Inv

(* A queued node moves to the front.                                       *)
LEMMA PrioritizeInv ==
  ASSUME Inv, PrioritizeQueued
  PROVE  Inv'
<1>0. Timed /\ Tables /\ Hooked
  BY DEF Inv
<1>1. /\ step = "queue" /\ step' = "unqueue" /\ todo' = todo
      /\ UNCHANGED <<epoch, tick, state, startEpoch, prevPause, weighted, uids, elected,
                     submission, expelled, nodes, registered>>
  BY FrameFacts DEF PrioritizeQueued
<1>2. state # "Removed" /\ submission # None
  BY <1>0, <1>1 DEF Timed
<1>3. Tables'
  BY <1>0, PrioritizeTables
<1>4. Timed'
  BY <1>0, <1>1, <1>2 DEF Timed, Steps
<1>5. Steady({})
  BY <1>0, <1>1, SteadyFrame DEF Tables
<1>6. todo' \subseteq Uids /\ step' \in Steps
  BY <1>0, <1>1 DEF Hooked, Steps
<1>7. Hooked'
  BY <1>0, <1>1, <1>2, <1>5, <1>6, StepHooked
<1> QED BY <1>3, <1>4, <1>7 DEF Inv

(* A queued node is removed, and the loop over the nodes begins.           *)
LEMMA RemoveQueuedInv ==
  ASSUME Inv, RemoveQueued
  PROVE  Inv'
<1>0. Timed /\ Tables /\ Hooked
  BY DEF Inv
<1>1. /\ step = "unqueue"
      /\ UNCHANGED <<epoch, tick, state, startEpoch, prevPause, weighted, uids, elected,
                     submission, expelled>>
      /\ \/ submission.remove \in QueuedIds /\ remove_registered_subnet_node(submission.remove)
         \/ NodesStay /\ reputation' = reputation
      /\ \/ step' = "elect" /\ todo' = todo
         \/ step' = "reward" /\ todo' = DOMAIN submission.nodes
  BY FrameFacts DEF RemoveQueued, scoreVars
<1>2. state # "Removed" /\ submission # None
  BY <1>0, <1>1 DEF Timed
<1>3. Proposed
  BY <1>0, <1>2 DEF Hooked
<1>4. Tables' /\ Steady({})
  <2>1. CASE submission.remove \in QueuedIds /\ remove_registered_subnet_node(submission.remove)
    <3>1. PICK i : i = submission.remove
      OBVIOUS
    <3>2. i \in QueuedIds /\ remove_registered_subnet_node(i)
      BY <2>1, <3>1
    <3>3. i \in DOMAIN registered
      BY <1>0, <3>2 DEF Tables, Queued, QueuedIds
    <3>4. perform_remove_subnet_node(i)
      BY <3>2, <3>3 DEF perform_remove_subnet_node
    <3> QED BY <1>0, <1>1, <1>2, <3>4, LeaveTables
  <2>2. CASE NodesStay /\ reputation' = reputation
    BY <1>0, <1>1, <2>2, StayTables, EmergencyFacts
  <2> QED BY <1>1, <2>1, <2>2
<1>5. Timed'
  BY <1>0, <1>1, <1>2 DEF Timed, Steps
<1>6. /\ \A i \in DOMAIN submission.nodes : Fresh(i)
      /\ DOMAIN submission.nodes \subseteq Uids
  <2>1. \A i \in DOMAIN submission.nodes : Known(i) /\ Fresh(i)
    BY <1>1, <1>2, <1>3 DEF Proposed
  <2>2. PICK s : s = submission
    OBVIOUS
  <2>3. s \in Submission
    BY <1>3, <2>2 DEF Proposed
  <2>4. s.nodes \in UNION {[D -> Node] : D \in SUBSET Uids}
    BY <2>3 DEF Submission
  <2>5. DOMAIN s.nodes \subseteq Uids
    BY <2>4
  <2> QED BY <2>1, <2>2, <2>5
<1>7. todo' \subseteq Uids /\ step' \in Steps
  BY <1>0, <1>1, <1>6 DEF Hooked, Steps
<1>8. Hooked'
  BY <1>0, <1>1, <1>2, <1>4, <1>6, <1>7, StepHooked
<1> QED BY <1>4, <1>5, <1>8 DEF Inv

(* One iteration of the loop over the nodes of the proposal: whatever      *)
(* becomes of node i, the others stay as they are.                         *)
LEMMA RewardTables ==
  ASSUME Timed, Tables, state # "Removed", NEW i, Known(i), NEW n \in Node, n.id = i,
         i \in DOMAIN nodes => n.class = nodes[i].class,
         RewardNode(n), UNCHANGED <<uids, state>>
  PROVE  Tables' /\ Steady({i})
<1>0. Steady({}) => Steady({i})
  BY DEF Steady
<1>1. uids \in Nat /\ uids' = uids
  BY SubnetNodesAssumption DEF Tables, Mapped
<1>2. CASE i \notin DOMAIN reputation
  <2>1. NodesStay /\ reputation' = reputation
    BY <1>2 DEF RewardNode, scoreVars
  <2> QED BY <1>0, <2>1, StayTables, EmergencyFacts
<1>3. CASE i \in DOMAIN reputation
  <2>0. i \in DOMAIN nodes /\ n.class = nodes[i].class
    BY <1>3, StillActive
  <2>1. CASE reputation[i] = Low
    <3>1. remove_active_subnet_node(i) \/ (NodesStay /\ reputation' = reputation)
      BY <1>3, <2>1 DEF RewardNode, scoreVars
    <3>2. CASE remove_active_subnet_node(i)
      BY <1>0, <2>0, <3>2, RemoveSteady
    <3>3. CASE NodesStay /\ reputation' = reputation
      BY <1>0, <3>3, StayTables, EmergencyFacts
    <3> QED BY <3>1, <3>2, <3>3
  <2>2. CASE reputation[i] # Low
    <3>1. \/ n.class = Idle /\ handle_idle_node(i)
          \/ AbsentFromData(n)
          \/ n.class = Included /\ \E r \in reputation[i] .. Full : handle_included_node(i, r)
          \/ Scored(i)
      BY <1>3, <2>2 DEF RewardNode
    <3>2. CASE n.class = Idle /\ handle_idle_node(i)
      <4>1. /\ Tables' /\ DOMAIN nodes' = DOMAIN nodes /\ registered' = registered
            /\ \A j \in DOMAIN nodes : j # i => nodes'[j] = nodes[j]
        BY <2>0, <3>2, IdleTables
      <4> QED BY <1>1, <4>1 DEF Steady, Kept
    <3>3. CASE AbsentFromData(n)
      <4>1. PICK r \in Low .. reputation[i] : reputation' = [reputation EXCEPT ![i] = r]
        BY <3>3 DEF AbsentFromData
      <4>2. NodesStay
        BY <3>3 DEF AbsentFromData
      <4>3. reputation' \in [DOMAIN reputation -> Low .. Full]
        BY <1>3, <4>1, Scores, Rescored
      <4> QED BY <1>0, <4>2, <4>3, StayTables
    <3>4. CASE n.class = Included /\ \E r \in reputation[i] .. Full : handle_included_node(i, r)
      <4>1. PICK r \in reputation[i] .. Full : handle_included_node(i, r)
        BY <3>4
      <4>2. r \in Low .. Full
        BY <1>3, Scores
      <4>3. /\ Tables' /\ DOMAIN nodes' = DOMAIN nodes /\ registered' = registered
            /\ \A j \in DOMAIN nodes : j # i => nodes'[j] = nodes[j]
        BY <2>0, <3>4, <4>1, <4>2, IncludedTables
      <4> QED BY <1>1, <4>3 DEF Steady, Kept
    <3>5. CASE Scored(i)
      <4>1. PICK r \in Low .. Full :
              \/ remove_active_subnet_node(i)
              \/ reputation' = [reputation EXCEPT ![i] = r] /\ NodesStay
        BY <3>5 DEF Scored
      <4>2. CASE remove_active_subnet_node(i)
        BY <1>0, <2>0, <4>2, RemoveSteady
      <4>3. CASE reputation' = [reputation EXCEPT ![i] = r] /\ NodesStay
        BY <1>0, <1>3, <4>3, Rescored, StayTables
      <4> QED BY <4>1, <4>2, <4>3
    <3> QED BY <3>1, <3>2, <3>3, <3>4, <3>5
  <2> QED BY <2>1, <2>2
<1> QED BY <1>2, <1>3

(* What a proposal says of one of its nodes.                               *)
LEMMA ProposedNode ==
  ASSUME submission \in Submission, NEW i \in DOMAIN submission.nodes
  PROVE  submission.nodes[i] \in Node /\ submission.nodes[i].id = i
<1>1. PICK m : m = submission.nodes
  OBVIOUS
<1>2. m \in {f \in UNION {[D -> Node] : D \in SUBSET Uids} : NodeMap(f)}
  BY <1>1 DEF Submission
<1>3. NodeMap(m)
  BY <1>2
<1>4. m[i] \in Node /\ m[i].id = i
  BY <1>1, <1>3 DEF NodeMap
<1> QED BY <1>1, <1>4

(* The loop over the nodes of the proposal.                                *)
LEMMA RewardInv ==
  ASSUME Inv, RewardNodes
  PROVE  Inv'
<1>0. Timed /\ Tables /\ Hooked
  BY DEF Inv
<1>1. PICK i \in todo : todo' = todo \ {i} /\ RewardNode(submission.nodes[i])
  BY DEF RewardNodes
<1>2. PICK n : n = submission.nodes[i]
  OBVIOUS
<1>3. /\ step = "reward" /\ step' = step /\ todo # {} /\ todo' = todo \ {i}
      /\ UNCHANGED <<epoch, tick, state, startEpoch, prevPause, weighted, uids, elected,
                     submission, expelled>>
      /\ RewardNode(n)
  BY <1>1, <1>2, FrameFacts DEF RewardNodes
<1>4. state # "Removed" /\ submission # None
  BY <1>0, <1>3 DEF Timed
<1>5. /\ Proposed /\ todo \subseteq DOMAIN submission.nodes /\ todo \subseteq Uids
      /\ \A j \in todo : Fresh(j)
  BY <1>0, <1>3, <1>4 DEF Hooked, Proposed
<1>6. i \in todo
  BY <1>1
<1>7. n \in Node /\ n.id = i /\ Known(i) /\ (i \in DOMAIN nodes => n.class = nodes[i].class)
  <2>1. n \in Node /\ n.id = i
    BY <1>2, <1>5, <1>6, ProposedNode DEF Proposed
  <2>2. Known(i) /\ Fresh(i)
    BY <1>4, <1>5, <1>6 DEF Proposed
  <2> QED BY <1>2, <2>1, <2>2 DEF Fresh
<1>8. Tables' /\ Steady({i})
  BY <1>0, <1>3, <1>4, <1>7, RewardTables
<1>9. Timed'
  BY <1>0, <1>3, <1>4 DEF Timed, Steps
<1>10. /\ todo' \subseteq Uids /\ todo' \subseteq DOMAIN submission.nodes /\ step' \in Steps
       /\ \A j \in todo' : j \notin {i} /\ Fresh(j)
  BY <1>3, <1>5 DEF Steps
<1>11. Hooked'
  BY <1>0, <1>3, <1>4, <1>8, <1>10, StepHooked
<1> QED BY <1>8, <1>9, <1>11 DEF Inv

(* The end of a loop.                                                      *)
LEMMA LoopDoneInv ==
  ASSUME Inv, LoopDone
  PROVE  Inv'
<1>0. Timed /\ Tables /\ Hooked
  BY DEF Inv
<1>1. /\ step \in {"penalize", "reward"} /\ step' = "elect" /\ todo' = todo
      /\ UNCHANGED <<epoch, tick, state, startEpoch, prevPause, weighted, uids, elected,
                     submission, expelled>>
      /\ NodesStay /\ reputation' = reputation
  BY FrameFacts DEF LoopDone, NodesStay, scoreVars
<1>2. state # "Removed" /\ submission # None
  BY <1>0, <1>1 DEF Timed
<1>3. Tables' /\ Steady({})
  BY <1>0, <1>1, StayTables, EmergencyFacts
<1>4. Timed'
  BY <1>0, <1>1, <1>2 DEF Timed, Steps
<1>5. todo' \subseteq Uids /\ step' \in Steps
  BY <1>0, <1>1 DEF Hooked, Steps
<1>6. Hooked'
  BY <1>0, <1>1, <1>2, <1>3, <1>5, StepHooked
<1> QED BY <1>3, <1>4, <1>6 DEF Inv

(* Election and activation of queued nodes, at the end of the hook.        *)
LEMMA FinishInv ==
  ASSUME Inv, FinishEmission
  PROVE  Inv'
<1>0. Timed /\ Tables /\ Hooked
  BY DEF Inv
<1>1. /\ step = "elect" /\ step' = "calls" /\ submission' = None
      /\ UNCHANGED <<epoch, tick, todo, state, startEpoch, prevPause, weighted, slots,
                     slotIndex, uids, uniqueOf, owned, reputation, expelled>>
  BY DEF FinishEmission, timeVars, subnetVars, slotVars, indexVars, scoreVars, histVars
<1>2. state # "Removed" /\ elected = None
  BY <1>0, <1>1 DEF Timed
<1>3. Timed'
  BY <1>0, <1>1 DEF Timed, Steps
<1>4. CASE ActiveAndLive
  <2>1. elect_validator /\ handle_registration_queue
    BY <1>4 DEF FinishEmission
  <2>2. /\ emergency' = None \/ emergency' = emergency
        /\ elected' = None \/ elected' \in Range(slots)
    BY <1>0, <2>1, EmergencyFacts DEF elect_validator
  <2>3. emergency' # None => emergency' \in Emergency /\ emergency'.ids \subseteq Range(slots)
    BY <1>0, <2>2, EmergencyFacts
  <2>4. Tables' /\ DOMAIN registered' \subseteq DOMAIN registered
    BY <1>0, <1>1, <1>2, <2>1, <2>3, ActivateTables
  <2>5. elected' # None => elected' \in Uids /\ Known(elected)'
    <3>1. PICK e : e = elected'
      OBVIOUS
    <3>2. ASSUME e # None PROVE e \in Uids /\ e \in 1 .. uids /\ e \notin DOMAIN registered
      <4>1. e \in DOMAIN nodes
        BY <1>0, <2>2, <3>1, <3>2 DEF Tables, Slotted
      <4> QED BY <1>0, <4>1, NodeFacts DEF Tables
    <3> QED BY <1>1, <2>4, <3>1, <3>2 DEF Known
  <2>6. Hooked'
    BY <1>0, <1>1, <2>2, <2>5 DEF Hooked, ElectedStays
  <2> QED BY <1>3, <2>4, <2>6 DEF Inv
<1>5. CASE ~ActiveAndLive
  <2>1. UNCHANGED <<elected, emergency, nodes, registered, queue, counts, all>>
    BY <1>5 DEF FinishEmission, queueVars, countVars
  <2>2. Tables'
    BY <1>0, <1>1, <2>1, EmergencyFacts, FrameTables
  <2>3. Hooked'
    BY <1>0, <1>1, <1>2, <2>1 DEF Hooked, ElectedStays
  <2> QED BY <1>3, <2>2, <2>3 DEF Inv
<1> QED BY <1>4, <1>5
--------------------------------------------------------------------------------
(***************************************************************************)
(* The theorems.                                                           *)
(***************************************************************************)

(* The subnet starts without nodes.                                        *)
LEMMA InitInv == Init => Inv
<1> SUFFICES ASSUME Init PROVE Inv
  OBVIOUS
<1>1. /\ DOMAIN EmptyMap = {} /\ \A S : EmptyMap \in [{} -> S]
      /\ <<>> \in Seq(Uids) /\ <<>> \in Seq(Node) /\ Len(<<>>) = 0 /\ 1 .. 0 = {}
      /\ Range(<<>>) = {}
  BY DEF EmptyMap, Range
<1>2. Mapped
  <2>1. 0 \in 0 .. MaxUid
    BY SubnetNodesAssumption
  <2> QED BY <1>1, <2>1 DEF Init, Mapped, NodeMap
<1>3. Queued
  <2>1. 0 <= MaxRegisteredNodes + 1
    BY SubnetNodesAssumption
  <2> QED BY <1>1, <2>1 DEF Init, Queued, Distinct
<1>4. Slotted
  BY <1>1 DEF Init, Slotted, Coherent
<1>5. Counted
  <2>1. Cardinality({}) = 0 /\ MaxSubnetNodes \in Nat
    BY FS_EmptySet, SubnetNodesAssumption
  <2>2. counts = [nodes |-> 0, active |-> 0, electable |-> 0] /\ all = counts
    BY DEF Init, NoNodes
  <2>3. all \in Counters
    BY <2>2 DEF Counters
  <2>4. 0 + 0 = 0
    OBVIOUS
  <2> QED BY <1>1, <2>1, <2>2, <2>3, <2>4 DEF Init, Counted, CountersAgree
<1>6. Owned
  BY <1>1 DEF Init, Owned, Listed
<1>7. Timed
  <2>1. weighted \in BOOLEAN
    BY DEF Init
  <2>2. epoch \in Nat \ {0} /\ startEpoch \in Nat /\ prevPause \in Nat
    BY DEF Init, FirstEpoch
  <2>3. tick = "slot" /\ step = "calls" /\ state = "Registered"
    BY DEF Init
  <2> QED BY <2>1, <2>2, <2>3 DEF Timed, States, Steps
<1>8. Hooked
  BY DEF Init, Hooked, ElectedStays
<1> QED BY <1>2, <1>3, <1>4, <1>5, <1>6, <1>7, <1>8 DEF Inv, Tables

(* Every call and every step of the hook keeps the invariant.              *)
LEMMA NextInv == Inv /\ [Next]_vars => Inv'
<1> SUFFICES ASSUME Inv, [Next]_vars PROVE Inv'
  OBVIOUS
<1>1. ASSUME NodeCalls PROVE Inv'
  BY <1>1, RegisterInv, UpdateInv, LeaveInv DEF NodeCalls
<1>2. ASSUME SubnetCalls PROVE Inv'
  BY <1>2, OwnerInv, UnpauseInv, RemoveSubnetInv DEF SubnetCalls
<1>3. ASSUME Consensus PROVE Inv'
  BY <1>3, ProposeInv, AttestInv DEF Consensus
<1>4. ASSUME EvmCalls PROVE Inv'
  BY <1>3, <1>4, UpdateInv, OwnerInv, UnpauseInv
     DEF EvmCalls, EvmNodeCalls, EvmConsensus, EvmOwnerCalls
<1>5. ASSUME Hook PROVE Inv'
  BY <1>5, TimeInv, AbsentInv, DistributeInv, SlashInv, NonConsensusInv, PrioritizeInv,
     RemoveQueuedInv, RewardInv, LoopDoneInv, FinishInv DEF Hook
<1>6. ASSUME UNCHANGED vars PROVE Inv'
  <2>1. UNCHANGED <<epoch, tick, step, todo, state, startEpoch, prevPause, weighted, nodes,
                    registered, queue, slots, slotIndex, uids, counts, all, uniqueOf, owned,
                    reputation, elected, submission, emergency, expelled>>
    BY <1>6 DEF vars, timeVars, hookVars, subnetVars, queueVars, slotVars, countVars,
                indexVars, scoreVars, epochVars, histVars
  <2>2. Timed'
    BY <2>1 DEF Inv, Timed
  <2>3. Tables'
    BY <2>1, EmergencyFacts, FrameTables DEF Inv
  <2>4. submission' # None => Proposed'
    <3>1. \A i : (Known(i)' <=> Known(i)) /\ (Fresh(i)' <=> Fresh(i))
      BY <2>1 DEF Known, Fresh
    <3>2. submission # None => Proposed
      BY DEF Inv, Hooked
    <3> QED BY <2>1, <3>1, <3>2 DEF Proposed
  <2>5. elected' # None => Known(elected)'
    BY <2>1 DEF Inv, Hooked, Known
  <2>6. Hooked'
    BY <2>1, <2>4, <2>5 DEF Inv, Hooked, ElectedStays
  <2> QED BY <2>2, <2>3, <2>6 DEF Inv
<1> QED BY <1>1, <1>2, <1>3, <1>4, <1>5, <1>6 DEF Next

(* The invariant holds in every reachable state.                           *)
LEMMA AlwaysInv == Spec => []Inv
BY InitInv, NextInv, PTL DEF Spec

(* The election slots are the active Validators, each found in its place.  *)
THEOREM SlotsStayCoherent == Spec => []SlotsCoherent
<1>1. Inv => SlotsCoherent
  BY SlottedCoherent DEF Inv, Tables
<1> QED BY <1>1, AlwaysInv, PTL

(* Whoever is elected stays a Validator, unless the collective removes it. *)
THEOREM ElectedAlwaysStays == Spec => []ElectedStays
<1>1. Inv => ElectedStays
  BY DEF Inv, Hooked
<1> QED BY <1>1, AlwaysInv, PTL

(* The classes in the proposal are those of the nodes still to be seen.    *)
THEOREM SnapshotStaysFresh == Spec => []SnapshotFresh
<1>1. ASSUME Inv PROVE SnapshotFresh
  <2> SUFFICES ASSUME step = "reward", NEW i \in todo \cap DOMAIN nodes PROVE Fresh(i)
    BY DEF SnapshotFresh, Fresh
  <2>1. submission # None /\ state # "Removed"
    BY <1>1 DEF Inv, Timed
  <2> QED BY <1>1, <2>1 DEF Inv, Hooked, Proposed
<1> QED BY <1>1, AlwaysInv, PTL

(* The types follow from the invariant.                                    *)
LEMMA InvType == Inv => TypeOK
<1> SUFFICES ASSUME Inv PROVE TypeOK
  OBVIOUS
<1>0. Timed /\ Tables /\ Hooked
  BY DEF Inv
<1>1. /\ epoch \in Nat /\ tick \in {"early", "slot"}
      /\ step \in {"calls", "slash", "penalize", "queue", "unqueue", "reward", "elect"}
      /\ todo \subseteq Uids
      /\ state \in {"Registered", "Active", "Paused", "Removed"}
      /\ startEpoch \in Nat /\ prevPause \in Nat /\ weighted \in BOOLEAN
      /\ elected \in Uids \cup {None}
  BY <1>0 DEF Timed, Steps, States, Hooked
<1>2. IsNodeMap(nodes) /\ IsNodeMap(registered) /\ uids \in 0 .. MaxUid
  BY <1>0, NodeFacts DEF Tables, IsNodeMap, Mapped
<1>3. \A k \in 1 .. Len(queue) : queue[k] \in Node
  <2>1. queue \in Seq(Node)
    BY <1>0 DEF Tables, Queued
  <2> QED BY <2>1, RangeFacts
<1>4. Range(slots) \subseteq Uids /\ DOMAIN slotIndex \subseteq Uids
  BY <1>0, NodeFacts DEF Tables, Slotted, Coherent
<1>5. counts \in Counters /\ all \in Counters
  <2>1. /\ counts = [nodes |-> NumActive + NumQueued, active |-> NumActive,
                     electable |-> Len(slots)]
        /\ all \in Counters
    BY <1>0 DEF Tables, Counted, CountersAgree, NumActive, NumQueued
  <2>2. NumActive \in Nat /\ NumQueued \in Nat /\ Len(slots) \in Nat
    BY <1>0, SizeFacts DEF Tables
  <2>3. NumActive + NumQueued \in Nat
    BY <2>2
  <2> QED BY <2>1, <2>2, <2>3 DEF Counters
<1>6. DOMAIN uniqueOf \subseteq Uniques /\ owned \in [Validators -> SUBSET Uids]
  BY <1>0 DEF Tables, Owned
<1>7. DOMAIN reputation \subseteq Uids /\ Range(reputation) \subseteq Low .. Full
  BY <1>0 DEF Tables, Owned, Range
<1>8. ASSUME submission # None PROVE IsNodeMap(submission.nodes)
  <2>1. submission \in Submission
    BY <1>0, <1>8 DEF Hooked, Proposed
  <2>2. PICK m : m = submission.nodes
    OBVIOUS
  <2>3. m \in {f \in UNION {[D -> Node] : D \in SUBSET Uids} : NodeMap(f)}
    BY <2>1, <2>2 DEF Submission
  <2>4. DOMAIN m \subseteq Uids /\ NodeMap(m)
    BY <2>3
  <2>5. IsNodeMap(m)
    BY <2>4 DEF NodeMap, IsNodeMap
  <2> QED BY <2>2, <2>5
<1>9. emergency # None => emergency.ids \subseteq Uids
  BY <1>0, <1>4, EmergencyFacts
<1> QED BY <1>1, <1>2, <1>3, <1>4, <1>5, <1>6, <1>7, <1>8, <1>9 DEF TypeOK

(* The maps, the queue, the counters and the reputations agree.            *)
THEOREM MapsAlwaysAgree == Spec => []MapsAgree
<1>1. ASSUME Inv PROVE MapsAgree
  <2>0. Timed /\ Tables /\ Hooked
    BY <1>1 DEF Inv
  <2>1. TypeOK
    BY <1>1, InvType
  <2>2. CountersAgree
    BY <2>0 DEF Tables, Counted
  <2>3. QueueMatches
    <3>1. QueuedIds = DOMAIN registered
      BY <2>0 DEF Tables, Queued, QueuedIds
    <3>2. \A j, k \in 1 .. Len(queue) : queue[j].id = queue[k].id => j = k
      BY <2>0 DEF Tables, Queued, Distinct
    <3>3. /\ DOMAIN nodes \cap DOMAIN registered = {}
          /\ Cardinality(DOMAIN nodes) <= MaxSubnetNodes
          /\ Len(queue) <= MaxRegisteredNodes + 1
      BY <2>0 DEF Tables, Mapped, Counted, Queued
    <3> QED BY <3>1, <3>2, <3>3 DEF QueueMatches
  <2>4. ASSUME state # "Removed"
        PROVE  /\ DOMAIN reputation = DOMAIN nodes \cup DOMAIN registered
               /\ UNION Range(owned) = DOMAIN reputation
    <3>1. /\ DOMAIN reputation = DOMAIN nodes \cup DOMAIN registered
          /\ \A v \in Validators, i \in Uids : i \in owned[v] <=> Listed(i, v)
          /\ owned \in [Validators -> SUBSET Uids]
      BY <2>0, <2>4 DEF Tables, Owned
    <3>2. ASSUME NEW i \in UNION Range(owned) PROVE i \in DOMAIN reputation
      <4>1. PICK v \in Validators : i \in owned[v]
        BY <3>1, <3>2 DEF Range
      <4>2. i \in Uids
        BY <3>1, <4>1
      <4> QED BY <3>1, <4>1, <4>2 DEF Listed
    <3>3. ASSUME NEW i \in DOMAIN reputation PROVE i \in UNION Range(owned)
      <4>1. \E v \in Validators : i \in Uids /\ Listed(i, v)
        BY <2>0, <3>1, NodeFacts DEF Tables, Listed
      <4>2. PICK v \in Validators : i \in owned[v]
        BY <3>1, <4>1
      <4> QED BY <3>1, <4>2 DEF Range
    <3> QED BY <3>1, <3>2, <3>3
  <2>5. ASSUME state # "Removed", submission # None
        PROVE  (DOMAIN submission.nodes \cup submission.attests) \cap DOMAIN registered = {}
    BY <2>0, <2>5 DEF Hooked, Proposed, Known
  <2> QED BY <2>1, <2>2, <2>3, <2>4, <2>5 DEF MapsAgree, ReputationMeansPresence
<1> QED BY <1>1, AlwaysInv, PTL
--------------------------------------------------------------------------------
(***************************************************************************)
(* The kinds of step: what the calls and the iterations of the hook do to  *)
(* the nodes, the queue, the index and the epochs spent in a class.        *)
(***************************************************************************)

(* Nothing.                                                                *)
Quiet == UNCHANGED <<nodes, registered, queue, uniqueOf, idle, included>>

(* A node leaves.                                                          *)
Leaves == /\ state # "Removed" /\ UNCHANGED <<uids, state>>
          /\ \E i : perform_remove_subnet_node(i)

(* A node of the proposal is not in its data: an Included one starts over. *)
Restarts == \E i \in DOMAIN nodes :
  /\ UNCHANGED <<nodes, registered, queue, uniqueOf, idle>>
  /\ included' = IF nodes[i].class = Included THEN Put(included, i, 0) ELSE included

(* A node has spent one more epoch in its class, and may climb.            *)
Climbs == \E i \in DOMAIN nodes :
  /\ step = "reward" /\ i \in todo /\ i \notin todo' /\ emergency = None
  /\ UNCHANGED <<epoch, tick, step>>
  /\ \/ nodes[i].class = Idle /\ handle_idle_node(i)
     \/ /\ nodes[i].class = Included /\ i \in submission.data /\ i \in DOMAIN reputation
        /\ \E r \in Low .. Full : handle_included_node(i, r)

(* Nodes are activated from the queue.                                     *)
Activates == /\ step = "elect" /\ step' = "calls" /\ handle_registration_queue
             /\ UNCHANGED <<epoch, tick, uids, uniqueOf, idle, included>>

(* The slot passes, or the hook moves on: it has seen what it had seen.    *)
Unseen(i) == \/ step \in {"slash", "penalize", "queue", "unqueue"}
             \/ step = "reward" /\ i \in todo
Onward == \/ SubnetEpoch' = SubnetEpoch /\ \A i : Unseen(i)' => Unseen(i)
          \/ SubnetEpoch' = SubnetEpoch + 1

(* A call is onward.                                                       *)
LEMMA CallOnward ==
  ASSUME UNCHANGED <<timeVars, hookVars>>
  PROVE  Onward
BY DEF Onward, SubnetEpoch, Unseen, timeVars, hookVars

(* A penalty removes the node or leaves the nodes alone.                   *)
LEMMA PenalizeKinds ==
  ASSUME state # "Removed", NEW i \in DOMAIN nodes, NEW w \in BOOLEAN, Penalize(i, w),
         UNCHANGED <<uids, state>>
  PROVE  Quiet \/ Leaves
<1>1. CASE remove_active_subnet_node(i)
  BY <1>1 DEF Leaves, perform_remove_subnet_node
<1>2. CASE NodesStay /\ UNCHANGED <<idle, included>>
  BY <1>2 DEF Quiet, NodesStay, queueVars, indexVars
<1> QED BY <1>1, <1>2 DEF Penalize

(* One iteration over the nodes of the proposal.                           *)
LEMMA RewardKinds ==
  ASSUME Inv, RewardNodes
  PROVE  Onward /\ (Quiet \/ Leaves \/ Restarts \/ Climbs)
<1>0. Timed /\ Tables /\ Hooked
  BY DEF Inv
<1>1. PICK i \in todo : todo' = todo \ {i} /\ RewardNode(submission.nodes[i])
  BY DEF RewardNodes
<1>2. PICK n : n = submission.nodes[i]
  OBVIOUS
<1>3. /\ step = "reward" /\ step' = step /\ todo # {} /\ todo' = todo \ {i}
      /\ UNCHANGED <<epoch, tick, state, uids, submission>> /\ RewardNode(n)
  BY <1>1, <1>2, FrameFacts DEF RewardNodes
<1>4. state # "Removed" /\ submission # None
  BY <1>0, <1>3 DEF Timed
<1>5. /\ Proposed /\ todo \subseteq DOMAIN submission.nodes /\ todo \subseteq Uids
      /\ \A j \in todo : Fresh(j)
  BY <1>0, <1>3, <1>4 DEF Hooked, Proposed
<1>6. i \in todo
  BY <1>1
<1>7. n \in Node /\ n.id = i /\ Known(i) /\ (i \in DOMAIN nodes => n.class = nodes[i].class)
  <2>1. n \in Node /\ n.id = i
    BY <1>2, <1>5, <1>6, ProposedNode DEF Proposed
  <2>2. Known(i) /\ Fresh(i)
    BY <1>4, <1>5, <1>6 DEF Proposed
  <2> QED BY <1>2, <2>1, <2>2 DEF Fresh
<1>8. Onward
  BY <1>3 DEF Onward, SubnetEpoch, Unseen
<1>9. NodesStay /\ UNCHANGED <<idle, included>> => Quiet
  BY DEF NodesStay, Quiet, queueVars, indexVars
<1>10. CASE i \notin DOMAIN reputation
  <2>1. NodesStay /\ UNCHANGED scoreVars
    BY <1>3, <1>7, <1>10 DEF RewardNode
  <2> QED BY <1>8, <1>9, <2>1 DEF scoreVars
<1>11. CASE i \in DOMAIN reputation
  <2>0. i \in DOMAIN nodes /\ n.class = nodes[i].class
    BY <1>0, <1>4, <1>7, <1>11, StillActive
  <2>1. remove_active_subnet_node(i) => Leaves
    BY <1>3, <1>4, <2>0 DEF Leaves, perform_remove_subnet_node
  <2>2. CASE reputation[i] = Low
    <3>1. remove_active_subnet_node(i) \/ (NodesStay /\ UNCHANGED scoreVars)
      BY <1>3, <1>7, <1>11, <2>2 DEF RewardNode
    <3> QED BY <1>8, <1>9, <2>1, <3>1 DEF scoreVars
  <2>3. CASE reputation[i] # Low
    <3>1. \/ n.class = Idle /\ ~Forked /\ handle_idle_node(i)
          \/ AbsentFromData(n)
          \/ /\ n.class = Included /\ ~Forked /\ i \in submission.data
             /\ \E r \in reputation[i] .. Full : handle_included_node(i, r)
          \/ Scored(i)
      BY <1>3, <1>7, <1>11, <2>3 DEF RewardNode
    <3>2. CASE n.class = Idle /\ ~Forked /\ handle_idle_node(i)
      BY <1>3, <1>6, <1>8, <2>0, <3>2 DEF Climbs, Forked
    <3>3. CASE AbsentFromData(n)
      <4>1. NodesStay /\ idle' = idle
            /\ included' = IF n.class = Included THEN Put(included, n.id, 0) ELSE included
        BY <3>3 DEF AbsentFromData
      <4> QED BY <1>7, <1>8, <2>0, <4>1 DEF Restarts, NodesStay, queueVars, indexVars
    <3>4. CASE /\ n.class = Included /\ ~Forked /\ i \in submission.data
               /\ \E r \in reputation[i] .. Full : handle_included_node(i, r)
      <4>1. PICK r \in reputation[i] .. Full : handle_included_node(i, r)
        BY <3>4
      <4>2. r \in Low .. Full
        BY <1>0, <1>11, Scores
      <4> QED BY <1>3, <1>6, <1>8, <1>11, <2>0, <3>4, <4>1, <4>2 DEF Climbs, Forked
    <3>5. CASE Scored(i)
      <4>1. remove_active_subnet_node(i) \/ (NodesStay /\ UNCHANGED <<idle, included>>)
        BY <3>5 DEF Scored
      <4> QED BY <1>8, <1>9, <2>1, <4>1
    <3> QED BY <3>1, <3>2, <3>3, <3>4, <3>5
  <2> QED BY <2>2, <2>3
<1> QED BY <1>10, <1>11

(* The steps of the hook before its loop over the nodes.                   *)
LEMMA SlashKinds ==
  ASSUME Inv, slash_validator
  PROVE  Onward /\ (Quiet \/ Leaves)
<1>0. Timed /\ Tables /\ Hooked
  BY DEF Inv
<1>1. /\ step = "slash" /\ UNCHANGED <<epoch, tick, state, uids>>
  BY FrameFacts DEF slash_validator
<1>2. state # "Removed" /\ submission # None
  BY <1>0, <1>1 DEF Timed
<1>3. PICK i : i = submission.validator
  OBVIOUS
<1>4. Known(i)
  BY <1>0, <1>2, <1>3 DEF Hooked, Proposed
<1>5. Onward
  BY <1>1 DEF Onward, SubnetEpoch, Unseen
<1>6. CASE i \in DOMAIN reputation
  <2>1. i \in DOMAIN nodes
    BY <1>0, <1>2, <1>4, <1>6, StillActive
  <2>2. Penalize(i, FALSE)
    BY <1>3, <1>6 DEF slash_validator
  <2> QED BY <1>1, <1>2, <1>5, <2>1, <2>2, PenalizeKinds
<1>7. CASE i \notin DOMAIN reputation
  <2>1. NodesStay /\ UNCHANGED scoreVars
    BY <1>3, <1>7 DEF slash_validator
  <2> QED BY <1>5, <2>1 DEF Quiet, NodesStay, queueVars, indexVars, scoreVars
<1> QED BY <1>6, <1>7

(* An attestor of a failed proposal.                                       *)
LEMMA NonConsensusKinds ==
  ASSUME Inv, handle_non_consensus
  PROVE  Onward /\ (Quiet \/ Leaves)
<1>0. Timed /\ Tables /\ Hooked
  BY DEF Inv
<1>1. PICK i : i = First(todo)
  OBVIOUS
<1>2. /\ step = "penalize" /\ todo # {} /\ UNCHANGED <<epoch, tick, state, uids>>
      /\ IF i \in DOMAIN reputation THEN Penalize(i, TRUE)
                                    ELSE NodesStay /\ UNCHANGED scoreVars
  BY <1>1, FrameFacts DEF handle_non_consensus
<1>3. state # "Removed" /\ submission # None
  BY <1>0, <1>2 DEF Timed
<1>4. Proposed /\ todo \subseteq submission.attests /\ todo \subseteq Uids
  BY <1>0, <1>2, <1>3 DEF Hooked, Proposed
<1>5. Known(i)
  <2>1. todo \subseteq Nat
    BY <1>4 DEF Uids
  <2>2. i \in todo
    BY <1>1, <1>2, <2>1, FirstFacts
  <2> QED BY <1>3, <1>4, <2>2 DEF Proposed
<1>6. Onward
  BY <1>2 DEF Onward, SubnetEpoch, Unseen
<1>7. CASE i \in DOMAIN reputation
  <2>1. i \in DOMAIN nodes
    BY <1>0, <1>3, <1>5, <1>7, StillActive
  <2>2. Penalize(i, TRUE)
    BY <1>2, <1>7
  <2> QED BY <1>2, <1>3, <1>6, <2>1, <2>2, PenalizeKinds
<1>8. CASE i \notin DOMAIN reputation
  <2>1. NodesStay /\ UNCHANGED scoreVars
    BY <1>2, <1>8
  <2> QED BY <1>6, <2>1 DEF Quiet, NodesStay, queueVars, indexVars, scoreVars
<1> QED BY <1>7, <1>8

(* A queued node moves or leaves.                                          *)
LEMMA QueueKinds ==
  ASSUME Inv, PrioritizeQueued \/ RemoveQueued
  PROVE  Onward /\ (PrioritizeQueued \/ Quiet \/ Leaves)
<1>0. Timed /\ Tables /\ Hooked
  BY DEF Inv
<1>1. step \in {"queue", "unqueue"} /\ UNCHANGED <<epoch, tick, state, uids>>
  <2>1. HookFrame /\ step \in {"queue", "unqueue"}
    BY DEF PrioritizeQueued, RemoveQueued
  <2> QED BY <2>1, FrameFacts
<1>2. state # "Removed"
  BY <1>0, <1>1 DEF Timed
<1>3. Onward
  BY <1>1 DEF Onward, SubnetEpoch, Unseen
<1>4. CASE RemoveQueued
  <2>1. CASE /\ submission.remove \in QueuedIds
             /\ remove_registered_subnet_node(submission.remove)
    <3>1. PICK i : i = submission.remove
      OBVIOUS
    <3>2. i \in DOMAIN registered
      BY <1>0, <2>1, <3>1 DEF Tables, Queued, QueuedIds
    <3>3. remove_registered_subnet_node(i)
      BY <2>1, <3>1
    <3> QED BY <1>1, <1>2, <1>3, <3>2, <3>3 DEF Leaves, perform_remove_subnet_node
  <2>2. CASE NodesStay /\ UNCHANGED scoreVars
    BY <1>3, <2>2 DEF Quiet, NodesStay, queueVars, indexVars, scoreVars
  <2> QED BY <1>4, <2>1, <2>2 DEF RemoveQueued
<1> QED BY <1>3, <1>4

(* The general epoch and the slot.                                         *)
LEMMA TimeKinds ==
  ASSUME Inv, NextEpoch \/ SlotPasses \/ ValidatorAbsent \/ distribute_rewards
  PROVE  Onward /\ Quiet
<1>1. epoch \in Nat
  BY DEF Inv, Timed
<1>2. Quiet
  BY DEF NextEpoch, SlotPasses, ValidatorAbsent, distribute_rewards, Quiet, queueVars,
         indexVars, scoreVars
<1>3. CASE NextEpoch
  <2>1. /\ epoch' = epoch + 1 /\ tick = "slot" /\ tick' = "early" /\ UNCHANGED <<step, todo>>
    BY <1>3 DEF NextEpoch, hookVars
  <2>2. SubnetEpoch' = SubnetEpoch
    BY <1>1, <2>1 DEF SubnetEpoch
  <2>3. \A i : Unseen(i)' => Unseen(i)
    BY <2>1 DEF Unseen
  <2> QED BY <1>2, <2>2, <2>3 DEF Onward
<1>4. CASE SlotPasses \/ ValidatorAbsent \/ distribute_rewards
  <2>1. epoch' = epoch /\ tick = "early" /\ tick' = "slot"
    BY <1>4 DEF SlotPasses, ValidatorAbsent, distribute_rewards, EmissionStep
  <2>2. epoch = epoch - 1 + 1
    BY <1>1
  <2> QED BY <1>2, <2>1, <2>2 DEF Onward, SubnetEpoch
<1> QED BY <1>3, <1>4

(* The end of the hook.                                                    *)
LEMMA FinishKinds ==
  ASSUME Inv, LoopDone \/ FinishEmission
  PROVE  Onward /\ (Quiet \/ Activates)
<1>1. CASE LoopDone
  <2>1. /\ step' = "elect" /\ UNCHANGED <<epoch, tick>>
    BY <1>1, FrameFacts DEF LoopDone
  <2>2. Quiet
    BY <1>1 DEF LoopDone, Quiet, queueVars, indexVars, scoreVars
  <2> QED BY <2>1, <2>2 DEF Onward, SubnetEpoch, Unseen
<1>2. CASE FinishEmission
  <2>1. /\ step = "elect" /\ step' = "calls" /\ UNCHANGED <<epoch, tick>>
        /\ UNCHANGED <<uids, uniqueOf, idle, included>>
    BY <1>2 DEF FinishEmission, timeVars, indexVars, scoreVars
  <2>2. Onward
    BY <2>1 DEF Onward, SubnetEpoch, Unseen
  <2>3. CASE ActiveAndLive
    <3>1. handle_registration_queue
      BY <1>2, <2>3 DEF FinishEmission
    <3> QED BY <2>1, <2>2, <3>1 DEF Activates
  <2>4. CASE ~ActiveAndLive
    <3>1. UNCHANGED <<nodes, queueVars>>
      BY <1>2, <2>4 DEF FinishEmission
    <3> QED BY <2>1, <2>2, <3>1 DEF Quiet, queueVars
  <2> QED BY <2>3, <2>4
<1> QED BY <1>1, <1>2

(* The owner and consensus calls that leave the nodes alone.               *)
LEMMA QuietCalls ==
  ASSUME \/ do_activate_subnet \/ do_owner_pause_subnet
         \/ \E ids \in SUBSET DOMAIN nodes : do_owner_set_emergency_validator_set(ids)
         \/ do_owner_revert_emergency_validator_set \/ Consensus
  PROVE  Quiet /\ UNCHANGED <<timeVars, hookVars>>
BY DEF do_activate_subnet, do_owner_pause_subnet, do_owner_set_emergency_validator_set,
       do_owner_revert_emergency_validator_set, Consensus, do_propose_attestation, do_attest,
       Quiet, queueVars, indexVars, scoreVars

(* The two kinds of steps that add a node or change its parameter.         *)
Registers == \E v \in Validators, u \in Uniques \cup {None} : register_subnet_node(v, u)
Updates == \E i \in Uids, u \in Uniques \cup {None} : do_update_node_unique(i, u)

(* Every step of the specification is of one of the kinds, and time and    *)
(* the hook only move onward.                                              *)
LEMMA NextKinds ==
  ASSUME Inv, [Next]_vars
  PROVE  /\ Onward
         /\ \/ Quiet \/ Registers \/ Updates \/ Leaves \/ do_owner_unpause_subnet
            \/ do_remove_subnet \/ PrioritizeQueued \/ Restarts \/ Climbs \/ Activates
<1>1. CASE NodeCalls
  <2>1. UNCHANGED <<timeVars, hookVars>>
    BY <1>1 DEF NodeCalls, register_subnet_node, do_update_node_unique, remove_subnet_node,
                do_collective_remove_subnet_node
  <2>2. CASE \E i \in Uids : remove_subnet_node(i) \/ do_collective_remove_subnet_node(i)
    BY <2>1, <2>2, CallOnward DEF remove_subnet_node, do_collective_remove_subnet_node, Calls,
       Leaves, subnetVars
  <2> QED BY <1>1, <2>1, <2>2, CallOnward DEF NodeCalls, Registers, Updates
<1>2. CASE do_owner_unpause_subnet \/ do_remove_subnet
  BY <1>2, CallOnward DEF do_owner_unpause_subnet, do_remove_subnet
<1>3. CASE SubnetCalls \/ Consensus \/ EvmConsensus \/ EvmOwnerCalls
  BY <1>2, <1>3, QuietCalls, CallOnward DEF SubnetCalls, EvmConsensus, EvmOwnerCalls
<1>4. CASE EvmNodeCalls
  <2>1. UNCHANGED <<timeVars, hookVars>>
    BY <1>4 DEF EvmNodeCalls, do_update_node_unique
  <2> QED BY <1>4, <2>1, CallOnward DEF EvmNodeCalls, Updates
<1>5. CASE Hook
  BY <1>5, TimeKinds, SlashKinds, NonConsensusKinds, QueueKinds, RewardKinds, FinishKinds
     DEF Hook
<1>6. CASE UNCHANGED vars
  BY <1>6, CallOnward DEF vars, Quiet, queueVars, indexVars, scoreVars
<1> QED BY <1>1, <1>3, <1>4, <1>5, <1>6 DEF Next, EvmCalls

(* The nodes that are activated, and the queue they leave.                 *)
LEMMA ActivationFacts ==
  ASSUME Timed, Tables, handle_registration_queue
  PROVE  /\ \A j \in DOMAIN nodes : j \in DOMAIN nodes' /\ nodes'[j] = nodes[j]
         /\ \A i \in DOMAIN nodes' \ DOMAIN nodes :
              /\ nodes'[i].class = Idle /\ nodes'[i].start = SubnetEpoch
              /\ \E j \in 1 .. Len(queue) : /\ queue[j].id = i /\ Ready(queue[j])
                                            /\ nodes'[i].unique = queue[j].unique
         /\ Cardinality(DOMAIN nodes' \ DOMAIN nodes) <= ChurnLimit
         /\ \A i \in DOMAIN registered : i \in DOMAIN registered' \/ i \in DOMAIN nodes'
         /\ \A i \in DOMAIN registered' : i \in DOMAIN registered /\ registered'[i] = registered[i]
         /\ \A k \in 1 .. Len(queue') : \E j \in 1 .. Len(queue) : queue'[k] = queue[j]
<1>1. PICK k \in 0 .. Len(queue) :
        LET ids == {queue[j].id : j \in 1 .. k}
            copy(i) == queue[CHOOSE j \in 1 .. k : queue[j].id = i]
        IN  /\ k <= Room /\ \A j \in 1 .. k : Ready(queue[j])
            /\ nodes' = [i \in DOMAIN nodes \cup ids |->
                           IF i \in ids THEN Activated(copy(i)) ELSE nodes[i]]
            /\ registered' = Restrict(registered, DOMAIN registered \ ids)
            /\ queue' = SubSeq(queue, k + 1, Len(queue))
  BY DEF handle_registration_queue
<1> DEFINE ids == {queue[j].id : j \in 1 .. k}
           copy(i) == queue[CHOOSE j \in 1 .. k : queue[j].id = i]
<1>2. /\ queue \in Seq(Node) /\ Len(queue) \in Nat /\ Distinct(queue)
      /\ \A j \in 1 .. Len(queue) : queue[j] \in Node /\ queue[j].id \in DOMAIN registered
  <2>1. queue \in Seq(Node) /\ Distinct(queue)
    BY DEF Tables, Queued
  <2> QED BY <2>1, RangeFacts DEF Tables, Queued
<1>3. k \in Nat /\ \A j \in 1 .. k : j \in 1 .. Len(queue)
  BY <1>2
<1>4. ids \subseteq DOMAIN registered
  BY <1>2, <1>3
<1>5. ASSUME NEW i \in ids
      PROVE  \E j \in 1 .. k : queue[j].id = i /\ copy(i) = queue[j]
  <2>1. \E j \in 1 .. k : queue[j].id = i
    OBVIOUS
  <2> QED BY <2>1
<1>6. /\ nodes' = [i \in DOMAIN nodes \cup ids |->
                    IF i \in ids THEN Activated(copy(i)) ELSE nodes[i]]
      /\ registered' = [i \in DOMAIN registered \ ids |-> registered[i]]
      /\ queue' = SubSeq(queue, k + 1, Len(queue))
      /\ k <= Room /\ \A j \in 1 .. k : Ready(queue[j])
  BY <1>1 DEF Restrict
<1>7. IsFiniteSet(ids) /\ Cardinality(ids) = k
  BY <1>2, PrefixSize
<1> HIDE DEF ids, copy
<1>8. /\ DOMAIN nodes' = DOMAIN nodes \cup ids /\ DOMAIN registered' = DOMAIN registered \ ids
      /\ \A j \in DOMAIN nodes : j \notin ids
  <2>1. ASSUME NEW j \in DOMAIN nodes PROVE j \notin ids
    BY <1>4, NodeFacts DEF Tables
  <2> QED BY <1>6, <2>1
<1>9. \A j \in DOMAIN nodes : j \in DOMAIN nodes' /\ nodes'[j] = nodes[j]
  BY <1>6, <1>8
<1>10. DOMAIN nodes' \ DOMAIN nodes = ids
  BY <1>8
<1>11. ASSUME NEW i \in ids
       PROVE  /\ nodes'[i].class = Idle /\ nodes'[i].start = SubnetEpoch
              /\ \E j \in 1 .. Len(queue) : /\ queue[j].id = i /\ Ready(queue[j])
                                            /\ nodes'[i].unique = queue[j].unique
  <2>1. PICK j \in 1 .. k : queue[j].id = i /\ copy(i) = queue[j]
    BY <1>5
  <2>2. PICK n, s, a : n = queue[j] /\ s = SubnetEpoch /\ a = nodes'[i]
    OBVIOUS
  <2>3. n \in Node /\ j \in 1 .. Len(queue) /\ Ready(queue[j])
    BY <1>2, <1>3, <1>6, <2>2
  <2>4. a = [n EXCEPT !.class = Idle, !.start = s]
    BY <1>6, <2>1, <2>2 DEF Activated
  <2>5. a.class = Idle /\ a.start = s /\ a.unique = n.unique
    BY <2>3, <2>4 DEF Node
  <2> QED BY <2>1, <2>2, <2>3, <2>5
<1>12. k <= ChurnLimit
  <2>1. counts.active = NumActive /\ NumActive \in Nat
    BY SizeFacts DEF Tables, Counted, CountersAgree, NumActive
  <2>2. MaxSubnetNodes \in Nat /\ ChurnLimit \in Nat
    BY SubnetNodesAssumption
  <2>3. Plus(MaxSubnetNodes, -counts.active) \in Int
    BY <2>1, <2>2 DEF Plus
  <2>4. Room \in Int /\ Room <= ChurnLimit
    <3>1. PICK r \in Int : r = Plus(MaxSubnetNodes, -counts.active)
      BY <2>3
    <3>2. /\ Room = 0 \/ Room = r \/ Room = ChurnLimit
          /\ Room = r => Room = ChurnLimit \/ Room = 0 \/ r < ChurnLimit
      BY <3>1 DEF Room
    <3> QED BY <2>2, <3>1, <3>2
  <2>5. k <= Room
    BY <1>6
  <2> QED BY <1>3, <2>2, <2>4, <2>5
<1>13. ASSUME NEW n \in 1 .. Len(queue') PROVE \E j \in 1 .. Len(queue) : queue'[n] = queue[j]
  <2> DEFINE q == SubSeq(queue, k + 1, Len(queue))
  <2>1. /\ k + 1 \in Int /\ Len(queue) \in Int
        /\ \A i \in k + 1 .. Len(queue) : queue[i] \in Node
    BY <1>2, <1>3
  <2>2. /\ q \in Seq(Node) /\ Len(q) = IF k + 1 <= Len(queue) THEN Len(queue) - (k + 1) + 1 ELSE 0
        /\ \A i \in 1 .. Len(queue) - (k + 1) + 1 : q[i] = queue[(k + 1) + i - 1]
    BY <2>1, SubSeqProperties
  <2> HIDE DEF q
  <2>3. queue' = q
    BY <1>6 DEF q
  <2>4. n \in 1 .. Len(queue) - (k + 1) + 1 /\ (k + 1) + n - 1 \in 1 .. Len(queue)
    BY <1>2, <1>3, <2>2, <2>3
  <2>5. queue'[n] = queue[(k + 1) + n - 1]
    BY <2>2, <2>3, <2>4
  <2> QED BY <2>4, <2>5
<1>14. \A i \in DOMAIN registered : i \in DOMAIN registered' \/ i \in DOMAIN nodes'
  BY <1>8
<1>15. \A i \in DOMAIN registered' : i \in DOMAIN registered /\ registered'[i] = registered[i]
  BY <1>6, <1>8
<1> QED BY <1>7, <1>9, <1>10, <1>11, <1>12, <1>13, <1>14, <1>15

(* No node comes, and those that stay keep class and epoch.                *)
Settled == /\ DOMAIN nodes' \subseteq DOMAIN nodes
           /\ \A j \in DOMAIN nodes' : /\ nodes'[j].class = nodes[j].class
                                       /\ nodes'[j].start = nodes[j].start

(* A departure leaves the others settled.                                  *)
LEMMA LeavesSettled ==
  ASSUME Tables, Leaves
  PROVE  Settled
<1>1. PICK i : perform_remove_subnet_node(i)
  BY DEF Leaves
<1>2. Tables' /\ Steady({}) /\ uids' = uids
  BY <1>1, LeaveTables DEF Leaves
<1>3. DOMAIN nodes' \subseteq 1 .. uids
  BY <1>2 DEF Tables, Mapped
<1> QED BY <1>2, <1>3 DEF Settled, Steady, Kept

(* Climbing changes one node, by one class.                                *)
LEMMA ClimbFacts ==
  ASSUME Inv, Climbs
  PROVE  /\ DOMAIN nodes' = DOMAIN nodes
         /\ \A j \in DOMAIN nodes : nodes'[j].unique = nodes[j].unique
         /\ \E i \in DOMAIN nodes :
              /\ step = "reward" /\ i \in todo /\ i \notin todo' /\ emergency = None
              /\ \A j \in DOMAIN nodes : j # i => nodes'[j] = nodes[j]
              /\ \/ nodes'[i] = nodes[i]
                 \/ /\ nodes[i].class = Idle /\ nodes'[i].class = Included
                    /\ Get(idle, i) + 1 >= IdleClassificationEpochs
                    /\ nodes'[i].start = SubnetEpoch
                 \/ /\ nodes[i].class = Included /\ nodes'[i].class = Validator
                    /\ Get(included, i) + 1 >= IncludedClassificationEpochs
                    /\ nodes'[i].start = SubnetEpoch
                    /\ i \in submission.data /\ reputation'[i] = Full
<1>0. Timed /\ Tables
  BY DEF Inv
<1>1. PICK i \in DOMAIN nodes :
        /\ step = "reward" /\ i \in todo /\ i \notin todo' /\ emergency = None
        /\ \/ nodes[i].class = Idle /\ handle_idle_node(i)
           \/ /\ nodes[i].class = Included /\ i \in submission.data /\ i \in DOMAIN reputation
              /\ \E r \in Low .. Full : handle_included_node(i, r)
  BY DEF Climbs
<1>2. CASE nodes' = nodes
  BY <1>1, <1>2
<1>3. CASE nodes' # nodes
  <2>1. Graduate(i)
    BY <1>1, <1>3 DEF handle_idle_node, handle_included_node
  <2>2. /\ DOMAIN nodes' = DOMAIN nodes /\ nodes'[i].unique = nodes[i].unique
        /\ \A j \in DOMAIN nodes : j # i => nodes'[j] = nodes[j]
        /\ nodes'[i].start = SubnetEpoch
        /\ nodes'[i].class = IF nodes[i].class = Validator THEN Validator
                             ELSE nodes[i].class + 1
    BY <1>0, <2>1, GraduateMap
  <2>3. CASE nodes[i].class = Idle /\ handle_idle_node(i)
    <3>1. Get(idle, i) + 1 >= IdleClassificationEpochs
      BY <1>3, <2>3 DEF handle_idle_node
    <3>2. nodes'[i].class = Included
      BY <2>2, <2>3 DEF Idle, Included, Validator
    <3> QED BY <1>1, <2>2, <2>3, <3>1, <3>2
  <2>4. CASE /\ nodes[i].class = Included /\ i \in submission.data /\ i \in DOMAIN reputation
             /\ \E r \in Low .. Full : handle_included_node(i, r)
    <3>1. PICK r \in Low .. Full : handle_included_node(i, r)
      BY <2>4
    <3>2. r = Full /\ Get(included, i) + 1 >= IncludedClassificationEpochs
      BY <1>3, <3>1 DEF handle_included_node
    <3>3. reputation' = [reputation EXCEPT ![i] = r]
      BY <3>1 DEF handle_included_node
    <3>4. reputation'[i] = Full
      BY <2>4, <3>2, <3>3
    <3>5. nodes'[i].class = Validator
      BY <2>2, <2>4 DEF Included, Validator
    <3> QED BY <1>1, <2>2, <2>4, <3>2, <3>4, <3>5
  <2> QED BY <1>1, <2>3, <2>4
<1> QED BY <1>2, <1>3

(* The other kinds of step let nobody in but by registration.              *)
LEMMA OthersSettled ==
  ASSUME Inv, \/ Quiet \/ Updates \/ Leaves \/ do_owner_unpause_subnet \/ do_remove_subnet
              \/ PrioritizeQueued \/ Restarts
  PROVE  Settled
<1>0. Timed /\ Tables
  BY DEF Inv
<1>1. CASE nodes' = nodes
  BY <1>1 DEF Settled
<1>2. CASE Updates
  BY <1>0, <1>2, UpdateTables DEF Updates, Settled
<1>3. CASE Leaves
  BY <1>0, <1>3, LeavesSettled
<1>4. CASE do_remove_subnet
  BY <1>4 DEF do_remove_subnet, clean_subnet_nodes, EmptyMap, Settled
<1> QED BY <1>1, <1>2, <1>3, <1>4 DEF Quiet, do_owner_unpause_subnet, PrioritizeQueued, Restarts

(* A node that is active at once is a Validator of a registering subnet.   *)
LEMMA NewcomerFacts ==
  ASSUME NEW v, NEW u, register_subnet_node(v, u)
  PROVE  \A i \in DOMAIN nodes' \ DOMAIN nodes :
           /\ state = "Registered"
           /\ nodes'[i].class = Validator /\ nodes'[i].start = SubnetEpoch
           /\ i = uids + 1 /\ nodes'[i].unique = u
<1>1. CASE state # "Registered"
  BY <1>1 DEF register_subnet_node, Enqueue
<1>2. CASE state = "Registered"
  <2>1. PICK n, s : n = NewNode(uids + 1, v, u) /\ s = SubnetEpoch
    OBVIOUS
  <2>2. PICK a : a = [n EXCEPT !.class = Validator, !.start = s]
    OBVIOUS
  <2>3. a.class = Validator /\ a.start = s /\ n.id = uids + 1 /\ a.unique = u
    BY <2>1, <2>2 DEF NewNode
  <2>4. nodes' = Put(nodes, n.id, a)
    BY <1>2, <2>1, <2>2 DEF register_subnet_node, ActivateAtOnce
  <2>5. DOMAIN nodes' = DOMAIN nodes \cup {n.id} /\ nodes'[n.id] = a
    BY <2>4 DEF Put
  <2> QED BY <1>2, <2>1, <2>3, <2>5
<1> QED BY <1>1, <1>2

(* Nodes become active by the rules, from the queue after their wait.      *)
THEOREM QueueAlwaysWaits == Spec => QueueWait
<1> DEFINE new == DOMAIN nodes' \ DOMAIN nodes
           Waits == /\ \A i \in new : EntersByTheRules(i)
                    /\ step = "elect" => Cardinality(new) <= ChurnLimit
<1>1. ASSUME Inv, [Next]_vars PROVE Waits
  <2>0. Timed /\ Tables
    BY <1>1 DEF Inv
  <2>1. CASE Registers
    <3>1. PICK v \in Validators, u \in Uniques \cup {None} : register_subnet_node(v, u)
      BY <2>1 DEF Registers
    <3>2. step = "calls"
      BY <3>1 DEF register_subnet_node, Calls
    <3>3. \A i \in new : state = "Registered" /\ nodes'[i].class = Validator
      BY <3>1, NewcomerFacts
    <3> QED BY <3>2, <3>3 DEF EntersByTheRules
  <2>2. CASE Activates
    <3>1. /\ \A i \in new : /\ nodes'[i].class = Idle
                            /\ \E j \in 1 .. Len(queue) : queue[j].id = i /\ Ready(queue[j])
          /\ Cardinality(new) <= ChurnLimit /\ step = "elect"
      BY <2>0, <2>2, ActivationFacts DEF Activates
    <3>2. ASSUME NEW j \in 1 .. Len(queue), Ready(queue[j])
          PROVE  SubnetEpoch - queue[j].start > SubnetNodeQueueEpochs
      <4>1. PICK s, e, w : s = queue[j].start /\ e = SubnetEpoch /\ w = SubnetNodeQueueEpochs
        OBVIOUS
      <4>2. queue[j] \in Node
        <5>1. queue \in Seq(Node)
          BY <2>0 DEF Tables, Queued
        <5> QED BY <5>1, RangeFacts
      <4>3. s \in Nat /\ e \in Nat /\ w \in Nat
        BY <2>0, <4>1, <4>2, EpochType, SubnetNodesAssumption DEF Node
      <4>4. s + w < e
        BY <3>2, <4>1 DEF Ready
      <4>5. e - s > w
        BY <4>3, <4>4
      <4> QED BY <4>1, <4>5
    <3>3. \A i \in new : EntersByTheRules(i)
      BY <3>1, <3>2 DEF EntersByTheRules
    <3> QED BY <3>1, <3>3
  <2>3. CASE DOMAIN nodes' \subseteq DOMAIN nodes
    <3>1. new = {} /\ ChurnLimit \in Nat /\ Cardinality({}) = 0
      BY <2>3, SubnetNodesAssumption, FS_EmptySet
    <3>2. Cardinality(new) <= ChurnLimit
      BY <3>1
    <3> QED BY <3>1, <3>2
  <2> QED BY <1>1, <2>1, <2>2, <2>3, NextKinds, OthersSettled, ClimbFacts DEF Settled
<1>2. Inv /\ [Next]_vars => [Waits]_vars
  BY <1>1
<1> QED BY <1>2, AlwaysInv, PTL DEF Spec, QueueWait
--------------------------------------------------------------------------------
(***************************************************************************)
(* The time spent in a class: the counters of consecutive epochs never     *)
(* count more epochs than have passed since the node entered its class.    *)
(***************************************************************************)
Bound(i) == IF Unseen(i) THEN SubnetEpoch - 1 ELSE SubnetEpoch
Waited(i) ==
  /\ nodes[i].start <= Bound(i)
  /\ nodes[i].class = Idle => /\ nodes[i].start + Get(idle, i) <= Bound(i)
                              /\ i \notin DOMAIN included
  /\ nodes[i].class = Included => nodes[i].start + Get(included, i) <= Bound(i)
Clocks(f) == f \in [DOMAIN f -> Nat] /\ DOMAIN f \subseteq DOMAIN nodes
Aged == state # "Removed" =>
  Clocks(idle) /\ Clocks(included) /\ \A i \in DOMAIN nodes : Waited(i)

(* What a counter says.                                                    *)
LEMMA ClockFacts ==
  ASSUME NEW f, f \in [DOMAIN f -> Nat], NEW i
  PROVE  /\ Get(f, i) \in Nat
         /\ Without(f, i) \in [DOMAIN Without(f, i) -> Nat]
         /\ \A n \in Nat : Put(f, i, n) \in [DOMAIN Put(f, i, n) -> Nat] /\ Get(Put(f, i, n), i) = n
         /\ Get(Without(f, i), i) = 0
         /\ \A j : j # i => Get(Without(f, i), j) = Get(f, j)
         /\ \A n, j : j # i => Get(Put(f, i, n), j) = Get(f, j)
BY DEF Get, Put, Without, Restrict

(* The bound never falls.                                                  *)
LEMMA BoundGrows ==
  ASSUME Inv, Inv', Onward, NEW i
  PROVE  Bound(i) \in Int /\ Bound(i)' \in Int /\ Bound(i) <= Bound(i)'
<1>1. SubnetEpoch \in Nat /\ SubnetEpoch' \in Int
  <2>1. epoch' \in Nat
    BY DEF Inv, Timed
  <2> QED BY <2>1, EpochType DEF Inv, SubnetEpoch
<1>2. CASE SubnetEpoch' = SubnetEpoch /\ (Unseen(i)' => Unseen(i))
  BY <1>1, <1>2 DEF Bound
<1>3. CASE SubnetEpoch' = SubnetEpoch + 1
  BY <1>1, <1>3 DEF Bound
<1> QED BY <1>2, <1>3 DEF Onward

(* A node to which nothing happened.                                       *)
Spared(j) ==
  /\ j \in DOMAIN nodes
  /\ nodes'[j].class = nodes[j].class /\ nodes'[j].start = nodes[j].start
  /\ Get(idle', j) <= Get(idle, j) /\ Get(included', j) <= Get(included, j)
  /\ j \in DOMAIN included' => j \in DOMAIN included \/ nodes[j].class # Idle

(* A spared node has still waited as long as its class asks.               *)
LEMMA SparedWaited ==
  ASSUME Inv, Inv', Onward, Aged, state # "Removed",
         idle' \in [DOMAIN idle' -> Nat], included' \in [DOMAIN included' -> Nat],
         NEW j, Spared(j)
  PROVE  Waited(j)'
<1>1. j \in DOMAIN nodes /\ Waited(j)
  BY DEF Spared, Aged
<1>2. PICK b, c : b = Bound(j) /\ c = Bound(j)'
  OBVIOUS
<1>3. b \in Int /\ c \in Int /\ b <= c
  BY <1>2, BoundGrows
<1>4. PICK s, x, y, p, q : /\ s = nodes[j].start /\ x = Get(idle, j) /\ y = Get(idle', j)
                           /\ p = Get(included, j) /\ q = Get(included', j)
  OBVIOUS
<1>5. s \in Nat /\ x \in Nat /\ y \in Nat /\ p \in Nat /\ q \in Nat
  <2>1. nodes[j].start \in Nat
    BY <1>1, NodeFacts DEF Inv, Tables
  <2>2. idle \in [DOMAIN idle -> Nat] /\ included \in [DOMAIN included -> Nat]
    BY DEF Aged, Clocks
  <2> QED BY <1>4, <2>1, <2>2, ClockFacts
<1>6. y <= x /\ q <= p
  BY <1>4 DEF Spared
<1>7. s <= b => s <= c
  BY <1>3, <1>5
<1>8. s + x <= b => s + y <= c
  BY <1>3, <1>5, <1>6
<1>9. s + p <= b => s + q <= c
  BY <1>3, <1>5, <1>6
<1>10. nodes'[j].start = s /\ nodes'[j].class = nodes[j].class
  BY <1>4 DEF Spared
<1>11. nodes[j].class = Idle /\ j \notin DOMAIN included => j \notin DOMAIN included'
  BY DEF Spared
<1>12. /\ s <= b
       /\ nodes[j].class = Idle => s + x <= b /\ j \notin DOMAIN included
       /\ nodes[j].class = Included => s + p <= b
  BY <1>1, <1>2, <1>4 DEF Waited
<1>13. /\ s <= c
       /\ nodes'[j].class = Idle => s + y <= c /\ j \notin DOMAIN included'
       /\ nodes'[j].class = Included => s + q <= c
  BY <1>7, <1>8, <1>9, <1>10, <1>11, <1>12
<1> QED BY <1>2, <1>4, <1>10, <1>13 DEF Waited

(* A node to which something happened, in its new class.                   *)
LEMMA NewlyWaited ==
  ASSUME NEW j, nodes'[j].start = SubnetEpoch, SubnetEpoch' = SubnetEpoch, ~Unseen(j)',
         SubnetEpoch \in Nat,
         nodes'[j].class = Idle => j \notin DOMAIN idle' /\ j \notin DOMAIN included',
         nodes'[j].class = Included => j \notin DOMAIN included'
  PROVE  Waited(j)'
<1>1. PICK e : e = SubnetEpoch
  OBVIOUS
<1>2. Bound(j)' = e /\ nodes'[j].start = e /\ e \in Nat
  BY <1>1 DEF Bound
<1>3. e <= e /\ e + 0 = e
  BY <1>2
<1>4. nodes'[j].class = Idle => Get(idle', j) = 0 /\ j \notin DOMAIN included'
  BY DEF Get
<1>5. nodes'[j].class = Included => Get(included', j) = 0
  BY DEF Get
<1> QED BY <1>2, <1>3, <1>4, <1>5 DEF Waited

(* A removed subnet stays removed.                                         *)
LEMMA RemovedStays ==
  ASSUME Inv, [Next]_vars, state = "Removed"
  PROVE  state' = "Removed"
<1>1. step = "calls" /\ ~Calls
  BY DEF Inv, Timed, Calls
<1>2. ~NodeCalls
  BY <1>1 DEF NodeCalls, register_subnet_node, do_update_node_unique, remove_subnet_node,
              do_collective_remove_subnet_node
<1>3. ~SubnetCalls /\ ~EvmOwnerCalls
  BY <1>1 DEF SubnetCalls, EvmOwnerCalls, do_activate_subnet, do_remove_subnet,
              do_owner_pause_subnet, do_owner_unpause_subnet,
              do_owner_set_emergency_validator_set, do_owner_revert_emergency_validator_set
<1>4. ~Consensus
  BY <1>1 DEF Consensus, do_propose_attestation, do_attest
<1>5. ~EvmNodeCalls
  BY <1>1 DEF EvmNodeCalls, do_update_node_unique
<1>6. ~Hook
  BY <1>1 DEF Hook, NextEpoch, SlotPasses, ValidatorAbsent, distribute_rewards, EmissionStep,
              slash_validator, handle_non_consensus, PrioritizeQueued, RemoveQueued,
              RewardNodes, LoopDone, FinishEmission
<1>7. UNCHANGED vars
  BY <1>2, <1>3, <1>4, <1>5, <1>6 DEF Next, EvmCalls, EvmConsensus
<1> QED BY <1>7 DEF vars, subnetVars

(* Steps that leave the counters alone.                                    *)
LEMMA AgedFrame ==
  ASSUME Inv, Inv', Onward, Aged, state # "Removed", UNCHANGED <<idle, included>>,
         DOMAIN nodes \subseteq DOMAIN nodes',
         \A j \in DOMAIN nodes' : \/ /\ j \in DOMAIN nodes
                                     /\ nodes'[j].class = nodes[j].class
                                     /\ nodes'[j].start = nodes[j].start
                                  \/ Waited(j)'
  PROVE  Aged'
<1>1. Clocks(idle) /\ Clocks(included)
  BY DEF Aged
<1>2. Clocks(idle)' /\ Clocks(included)'
  BY <1>1 DEF Clocks
<1>3. ASSUME NEW j \in DOMAIN nodes' PROVE Waited(j)'
  <2>1. CASE /\ j \in DOMAIN nodes
             /\ nodes'[j].class = nodes[j].class /\ nodes'[j].start = nodes[j].start
    <3>1. Get(idle, j) \in Nat /\ Get(included, j) \in Nat
      BY <1>1, ClockFacts DEF Clocks
    <3>2. Get(idle, j) <= Get(idle, j) /\ Get(included, j) <= Get(included, j)
      BY <3>1
    <3>3. idle' = idle /\ included' = included
      OBVIOUS
    <3>4. Spared(j)
      BY <2>1, <3>2, <3>3 DEF Spared
    <3> QED BY <1>2, <3>4, SparedWaited DEF Clocks
  <2> QED BY <1>3, <2>1
<1> QED BY <1>2, <1>3 DEF Aged

(* A node leaves, and its counters with it.                                *)
LEMMA AgedLeaves ==
  ASSUME Inv, Inv', Onward, Aged, Leaves
  PROVE  Aged'
<1>0. Tables /\ state # "Removed" /\ Clocks(idle) /\ Clocks(included)
  BY DEF Inv, Leaves, Aged
<1>1. PICK i : perform_remove_subnet_node(i)
  BY DEF Leaves
<1>2. /\ idle' = Without(idle, i) /\ included' = Without(included, i)
      /\ DOMAIN nodes \ {i} \subseteq DOMAIN nodes'
  <2>1. CASE i \in DOMAIN nodes /\ remove_active_subnet_node(i)
    <3>1. nodes[i].id = i
      BY <1>0, <2>1, NodeFacts DEF Tables
    <3>2. common_remove_subnet_node(nodes[i]) /\ nodes' = Without(nodes, i)
      BY <2>1 DEF remove_active_subnet_node
    <3> QED BY <3>1, <3>2, WithoutFacts DEF common_remove_subnet_node
  <2>2. CASE i \in DOMAIN registered /\ remove_registered_subnet_node(i)
    <3>1. registered[i].id = i
      BY <1>0, <2>2, NodeFacts DEF Tables
    <3>2. common_remove_subnet_node(registered[i]) /\ nodes' = nodes
      BY <2>2 DEF remove_registered_subnet_node
    <3> QED BY <3>1, <3>2 DEF common_remove_subnet_node
  <2> QED BY <1>1, <2>1, <2>2 DEF perform_remove_subnet_node
<1>3. idle' \in [DOMAIN idle' -> Nat] /\ included' \in [DOMAIN included' -> Nat]
  BY <1>0, <1>2, ClockFacts DEF Clocks
<1>4. DOMAIN idle' = DOMAIN idle \ {i} /\ DOMAIN included' = DOMAIN included \ {i}
  BY <1>2, WithoutFacts
<1>5. Clocks(idle)' /\ Clocks(included)'
  BY <1>0, <1>2, <1>3, <1>4 DEF Clocks
<1>6. Settled
  BY <1>0, LeavesSettled
<1>7. ASSUME NEW j \in DOMAIN nodes' PROVE Waited(j)'
  <2>1. PICK x \in Nat, p \in Nat : x = Get(idle, j) /\ p = Get(included, j)
    BY <1>0, ClockFacts DEF Clocks
  <2>2. Get(idle', j) \in {0, x} /\ Get(included', j) \in {0, p}
    BY <1>0, <1>2, <2>1, ClockFacts DEF Clocks
  <2>3. Get(idle', j) <= x /\ Get(included', j) <= p
    BY <2>1, <2>2
  <2>4. Spared(j)
    BY <1>4, <1>6, <1>7, <2>1, <2>3 DEF Spared, Settled
  <2> QED BY <1>0, <1>3, <2>4, SparedWaited
<1> QED BY <1>5, <1>7 DEF Aged

(* An Included node starts over.                                           *)
LEMMA AgedRestarts ==
  ASSUME Inv, Inv', Onward, Aged, state # "Removed", Restarts
  PROVE  Aged'
<1>0. Clocks(idle) /\ Clocks(included)
  BY DEF Aged
<1>1. PICK i \in DOMAIN nodes :
        /\ nodes' = nodes /\ idle' = idle
        /\ included' = IF nodes[i].class = Included THEN Put(included, i, 0) ELSE included
  BY DEF Restarts
<1>2. CASE included' = included
  BY <1>1, <1>2, AgedFrame
<1>3. CASE nodes[i].class = Included /\ included' = Put(included, i, 0)
  <2>1. included' \in [DOMAIN included' -> Nat] /\ DOMAIN included' = DOMAIN included \cup {i}
    BY <1>0, <1>3, ClockFacts, PutFacts DEF Clocks
  <2>2. Clocks(idle)' /\ Clocks(included)'
    BY <1>0, <1>1, <2>1 DEF Clocks
  <2>3. ASSUME NEW j \in DOMAIN nodes' PROVE Waited(j)'
    <3>1. PICK x \in Nat, p \in Nat : x = Get(idle, j) /\ p = Get(included, j)
      BY <1>0, ClockFacts DEF Clocks
    <3>2. Get(idle', j) = x /\ Get(included', j) \in {0, p}
      BY <1>1, <1>3, <3>1 DEF Get, Put
    <3>3. Get(idle', j) <= x /\ Get(included', j) <= p
      BY <3>1, <3>2
    <3>4. j = i => nodes[j].class # Idle
      BY <1>3 DEF Idle, Included
    <3>5. Spared(j)
      BY <1>1, <2>1, <2>3, <3>1, <3>3, <3>4 DEF Spared
    <3> QED BY <2>1, <2>2, <3>5, SparedWaited DEF Clocks
  <2> QED BY <2>2, <2>3 DEF Aged
<1> QED BY <1>1, <1>2, <1>3

(* A node spends an epoch in its class, and may leave it.                  *)
LEMMA AgedClimbs ==
  ASSUME Inv, Inv', Onward, Aged, state # "Removed", Climbs
  PROVE  Aged'
<1>0. Timed /\ Tables /\ Clocks(idle) /\ Clocks(included) /\ SubnetEpoch \in Nat
  BY EpochType DEF Inv, Aged
<1>1. PICK i \in DOMAIN nodes :
        /\ step = "reward" /\ i \in todo /\ i \notin todo'
        /\ UNCHANGED <<epoch, tick, step>>
        /\ \/ nodes[i].class = Idle /\ handle_idle_node(i)
           \/ nodes[i].class = Included /\ \E r \in Low .. Full : handle_included_node(i, r)
  BY DEF Climbs
<1>2. SubnetEpoch' = SubnetEpoch /\ ~Unseen(i)' /\ Unseen(i)
  BY <1>1 DEF SubnetEpoch, Unseen
<1>3. Bound(i)' = SubnetEpoch /\ Bound(i) = SubnetEpoch - 1
  BY <1>2 DEF Bound
<1>4. Waited(i) /\ nodes[i].start \in Nat
  BY <1>0, <1>1, NodeFacts DEF Aged, Tables
<1>5. PICK x \in Nat, p \in Nat : x = Get(idle, i) /\ p = Get(included, i)
  BY <1>0, ClockFacts DEF Clocks
<1>6. PICK e \in Nat, s \in Nat : e = SubnetEpoch /\ s = nodes[i].start
  BY <1>0, <1>4
<1>7. ASSUME Clocks(idle)', Clocks(included)', DOMAIN nodes' = DOMAIN nodes, Waited(i)',
             \A j \in DOMAIN nodes : j # i =>
               /\ nodes'[j] = nodes[j] /\ (j \in DOMAIN included' <=> j \in DOMAIN included)
               /\ Get(idle', j) = Get(idle, j) /\ Get(included', j) = Get(included, j)
      PROVE  Aged'
  <2>1. ASSUME NEW j \in DOMAIN nodes, j # i PROVE Waited(j)'
    <3>1. Get(idle, j) \in Nat /\ Get(included, j) \in Nat
      BY <1>0, ClockFacts DEF Clocks
    <3>2. Get(idle', j) <= Get(idle, j) /\ Get(included', j) <= Get(included, j)
      BY <1>7, <2>1, <3>1
    <3>3. Spared(j)
      BY <1>7, <2>1, <3>2 DEF Spared
    <3> QED BY <1>7, <3>3, SparedWaited DEF Clocks
  <2> QED BY <1>7, <2>1 DEF Aged
<1>8. CASE nodes[i].class = Idle /\ handle_idle_node(i)
  <2>1. included' = included
    BY <1>8 DEF handle_idle_node
  <2>2. i \notin DOMAIN included /\ s + x <= e - 1
    BY <1>3, <1>4, <1>5, <1>6, <1>8 DEF Waited
  <2>3. CASE Graduate(i) /\ idle' = Without(idle, i)
    <3>1. /\ DOMAIN nodes' = DOMAIN nodes
          /\ \A j \in DOMAIN nodes : j # i => nodes'[j] = nodes[j]
          /\ nodes'[i].start = SubnetEpoch
          /\ nodes'[i].class = IF nodes[i].class = Validator THEN Validator
                               ELSE nodes[i].class + 1
      BY <1>0, <2>3, GraduateMap
    <3>2. nodes'[i].class = Included /\ Included # Idle
      BY <1>8, <3>1 DEF Idle, Included, Validator
    <3>3. Waited(i)'
      BY <1>0, <1>2, <2>1, <2>2, <3>1, <3>2, NewlyWaited
    <3>4. idle' \in [DOMAIN idle' -> Nat] /\ DOMAIN idle' = DOMAIN idle \ {i}
      BY <1>0, <2>3, ClockFacts, WithoutFacts DEF Clocks
    <3>5. Clocks(idle)' /\ Clocks(included)'
      BY <1>0, <2>1, <3>1, <3>4 DEF Clocks
    <3>6. \A j \in DOMAIN nodes : j # i => Get(idle', j) = Get(idle, j)
      BY <1>0, <2>3, ClockFacts DEF Clocks
    <3> QED BY <1>7, <2>1, <3>1, <3>3, <3>5, <3>6
  <2>4. CASE nodes' = nodes /\ idle' = Put(idle, i, Get(idle, i) + 1)
    <3>1. PICK y \in Nat : y = x + 1
      OBVIOUS
    <3>2. idle' = Put(idle, i, y)
      BY <1>5, <2>4, <3>1
    <3>3. /\ idle' \in [DOMAIN idle' -> Nat] /\ DOMAIN idle' = DOMAIN idle \cup {i}
          /\ Get(idle', i) = y
      <4>1. DOMAIN idle' = DOMAIN idle \cup {i}
        BY <3>2 DEF Put
      <4>2. idle \in [DOMAIN idle -> Nat]
        BY <1>0 DEF Clocks
      <4> QED BY <3>2, <4>1, <4>2 DEF Get, Put
    <3>4. s <= e /\ s + y <= e
      BY <2>2, <3>1
    <3>5. Waited(i)'
      <4>1. nodes'[i].start = s /\ nodes'[i].class = Idle /\ Idle # Included
        BY <1>6, <1>8, <2>4 DEF Idle, Included
      <4>2. Bound(i)' = e /\ i \notin DOMAIN included'
        BY <1>3, <1>6, <2>1, <2>2
      <4> QED BY <3>3, <3>4, <4>1, <4>2 DEF Waited
    <3>6. Clocks(idle)' /\ Clocks(included)'
      BY <1>0, <2>1, <2>4, <3>3 DEF Clocks
    <3>7. \A j \in DOMAIN nodes : j # i => Get(idle', j) = Get(idle, j)
      BY <3>2 DEF Get, Put
    <3> QED BY <1>7, <2>1, <2>4, <3>5, <3>6, <3>7
  <2> QED BY <1>8, <2>3, <2>4 DEF handle_idle_node
<1>9. ASSUME nodes[i].class = Included, NEW r \in Low .. Full, handle_included_node(i, r)
      PROVE  Aged'
  <2>1. idle' = idle
    BY <1>9 DEF handle_included_node
  <2>2. s + p <= e - 1
    BY <1>3, <1>4, <1>5, <1>6, <1>9 DEF Waited
  <2>3. CASE Graduate(i) /\ included' = Without(included, i)
    <3>1. /\ DOMAIN nodes' = DOMAIN nodes
          /\ \A j \in DOMAIN nodes : j # i => nodes'[j] = nodes[j]
          /\ nodes'[i].start = SubnetEpoch
          /\ nodes'[i].class = IF nodes[i].class = Validator THEN Validator
                               ELSE nodes[i].class + 1
      BY <1>0, <2>3, GraduateMap
    <3>2. nodes'[i].class # Included /\ nodes'[i].class # Idle
      BY <1>9, <3>1 DEF Idle, Included, Validator
    <3>3. Waited(i)'
      BY <1>0, <1>2, <3>1, <3>2, NewlyWaited
    <3>4. /\ included' \in [DOMAIN included' -> Nat]
          /\ DOMAIN included' = DOMAIN included \ {i}
      BY <1>0, <2>3, ClockFacts, WithoutFacts DEF Clocks
    <3>5. Clocks(idle)' /\ Clocks(included)'
      BY <1>0, <2>1, <3>1, <3>4 DEF Clocks
    <3>6. \A j \in DOMAIN nodes : j # i => Get(included', j) = Get(included, j)
      BY <1>0, <2>3, ClockFacts DEF Clocks
    <3> QED BY <1>7, <2>1, <3>1, <3>3, <3>4, <3>5, <3>6
  <2>4. CASE nodes' = nodes /\ included' = Put(included, i, Get(included, i) + 1)
    <3>1. PICK y \in Nat : y = p + 1
      OBVIOUS
    <3>2. included' = Put(included, i, y)
      BY <1>5, <2>4, <3>1
    <3>3. /\ included' \in [DOMAIN included' -> Nat]
          /\ DOMAIN included' = DOMAIN included \cup {i} /\ Get(included', i) = y
      <4>1. DOMAIN included' = DOMAIN included \cup {i}
        BY <3>2 DEF Put
      <4>2. included \in [DOMAIN included -> Nat]
        BY <1>0 DEF Clocks
      <4> QED BY <3>2, <4>1, <4>2 DEF Get, Put
    <3>4. s <= e /\ s + y <= e
      BY <2>2, <3>1
    <3>5. Waited(i)'
      <4>1. nodes'[i].start = s /\ nodes'[i].class = Included /\ Idle # Included
        BY <1>6, <1>9, <2>4 DEF Idle, Included
      <4>2. Bound(i)' = e
        BY <1>3, <1>6
      <4> QED BY <3>3, <3>4, <4>1, <4>2 DEF Waited
    <3>6. Clocks(idle)' /\ Clocks(included)'
      BY <1>0, <2>1, <2>4, <3>3 DEF Clocks
    <3>7. \A j \in DOMAIN nodes : j # i => Get(included', j) = Get(included, j)
      BY <3>2 DEF Get, Put
    <3> QED BY <1>7, <2>1, <2>4, <3>3, <3>5, <3>6, <3>7
  <2> QED BY <1>9, <2>3, <2>4 DEF handle_included_node
<1> QED BY <1>1, <1>8, <1>9

(* Every step keeps the counters in bounds.                                *)
LEMMA AgedNext == Inv /\ Inv' /\ Aged /\ [Next]_vars => Aged'
<1> SUFFICES ASSUME Inv, Inv', Aged, [Next]_vars, state' # "Removed" PROVE Aged'
  BY DEF Aged
<1>0. Timed /\ Tables /\ state # "Removed" /\ SubnetEpoch \in Nat
  BY RemovedStays, EpochType DEF Inv
<1>1. Onward
  BY NextKinds
<1>2. CASE \/ Quiet \/ do_owner_unpause_subnet \/ PrioritizeQueued
  <2>1. UNCHANGED <<nodes, idle, included>>
    BY <1>2 DEF Quiet, do_owner_unpause_subnet, PrioritizeQueued, scoreVars
  <2> QED BY <1>0, <1>1, <2>1, AgedFrame
<1>3. CASE Registers
  <2>1. PICK v \in Validators, u \in Uniques \cup {None} : register_subnet_node(v, u)
    BY <1>3 DEF Registers
  <2>2. /\ UNCHANGED <<idle, included>> /\ step' = "calls" /\ SubnetEpoch' = SubnetEpoch
    BY <2>1 DEF register_subnet_node, Calls, hookVars, timeVars, SubnetEpoch
  <2>3. \A j \in DOMAIN nodes : j \in DOMAIN nodes' /\ nodes'[j] = nodes[j]
    BY <1>0, <2>1, RegisterTables
  <2>4. ASSUME NEW j \in DOMAIN nodes', j \notin DOMAIN nodes PROVE Waited(j)'
    <3>1. nodes'[j].class = Validator /\ nodes'[j].start = SubnetEpoch /\ ~Unseen(j)'
      BY <2>1, <2>2, <2>4, NewcomerFacts DEF Unseen
    <3>2. nodes'[j].class # Idle /\ nodes'[j].class # Included
      BY <3>1 DEF Validator, Idle, Included
    <3> QED BY <1>0, <2>2, <3>1, <3>2, NewlyWaited
  <2> QED BY <1>0, <1>1, <2>2, <2>3, <2>4, AgedFrame
<1>4. CASE Updates
  <2>1. PICK i \in Uids, u \in Uniques \cup {None} : do_update_node_unique(i, u)
    BY <1>4 DEF Updates
  <2>2. UNCHANGED <<idle, included>>
    BY <2>1 DEF do_update_node_unique, scoreVars
  <2>3. /\ DOMAIN nodes' = DOMAIN nodes
        /\ \A j \in DOMAIN nodes : /\ nodes'[j].class = nodes[j].class
                                   /\ nodes'[j].start = nodes[j].start
    BY <1>0, <2>1, UpdateTables
  <2> QED BY <1>0, <1>1, <2>2, <2>3, AgedFrame
<1>5. CASE Activates
  <2>1. /\ UNCHANGED <<idle, included>>
        /\ \A j \in DOMAIN nodes : j \in DOMAIN nodes' /\ nodes'[j] = nodes[j]
        /\ \A j \in DOMAIN nodes' \ DOMAIN nodes : /\ nodes'[j].class = Idle
                                                   /\ nodes'[j].start = SubnetEpoch
    BY <1>0, <1>5, ActivationFacts DEF Activates
  <2>2. ASSUME NEW j \in DOMAIN nodes', j \notin DOMAIN nodes PROVE Waited(j)'
    <3>1. j \notin DOMAIN idle' /\ j \notin DOMAIN included'
      BY <1>0, <2>1, <2>2 DEF Aged, Clocks
    <3>2. SubnetEpoch' = SubnetEpoch /\ ~Unseen(j)'
      BY <1>5 DEF Activates, Unseen, SubnetEpoch
    <3> QED BY <1>0, <2>1, <2>2, <3>1, <3>2, NewlyWaited
  <2> QED BY <1>0, <1>1, <2>1, <2>2, AgedFrame
<1>6. CASE do_remove_subnet
  BY <1>6 DEF do_remove_subnet
<1> QED BY <1>0, <1>1, <1>2, <1>3, <1>4, <1>5, <1>6, NextKinds, AgedLeaves, AgedRestarts, AgedClimbs

(* Nodes climb one class at a time, when they have waited.                 *)
THEOREM ClassesAreClimbed == Spec => ClassLadder
<1> DEFINE Rises == \A i \in DOMAIN nodes \cap DOMAIN nodes' : RisesByTheRules(i)
<1>1. Init => Aged
  <2> SUFFICES ASSUME Init PROVE Aged
    OBVIOUS
  <2>1. DOMAIN EmptyMap = {} /\ EmptyMap \in [{} -> Nat]
    BY DEF EmptyMap
  <2> QED BY <2>1 DEF Init, Aged, Clocks
<1>2. ASSUME Inv, Aged, [Next]_vars PROVE Rises
  <2>0. Timed /\ Tables
    BY <1>2 DEF Inv
  <2>1. CASE \A i \in DOMAIN nodes \cap DOMAIN nodes' : nodes'[i].class = nodes[i].class
    BY <2>1 DEF RisesByTheRules
  <2>2. CASE Registers
    BY <2>0, <2>1, <2>2, RegisterTables DEF Registers
  <2>3. CASE Activates
    BY <2>0, <2>1, <2>3, ActivationFacts DEF Activates
  <2>4. CASE Climbs
    <3>1. PICK i \in DOMAIN nodes :
            /\ step = "reward" /\ i \in todo /\ emergency = None
            /\ \A j \in DOMAIN nodes : j # i => nodes'[j] = nodes[j]
            /\ \/ nodes'[i] = nodes[i]
               \/ /\ nodes[i].class = Idle /\ nodes'[i].class = Included
                  /\ Get(idle, i) + 1 >= IdleClassificationEpochs
                  /\ nodes'[i].start = SubnetEpoch
               \/ /\ nodes[i].class = Included /\ nodes'[i].class = Validator
                  /\ Get(included, i) + 1 >= IncludedClassificationEpochs
                  /\ nodes'[i].start = SubnetEpoch
                  /\ i \in submission.data /\ reputation'[i] = Full
      BY <1>2, <2>4, ClimbFacts
    <3>2. state # "Removed" /\ Clocks(idle) /\ Clocks(included) /\ Waited(i)
      BY <1>2, <2>0, <3>1 DEF Timed, Aged
    <3>3. Bound(i) = SubnetEpoch - 1
      BY <3>1 DEF Bound, Unseen
    <3>4. PICK s \in Nat, e \in Nat, x \in Nat, p \in Nat :
            s = nodes[i].start /\ e = SubnetEpoch /\ x = Get(idle, i) /\ p = Get(included, i)
      BY <2>0, <3>2, NodeFacts, EpochType, ClockFacts DEF Tables, Clocks
    <3>5. IdleClassificationEpochs \in Nat /\ IncludedClassificationEpochs \in Nat
      BY SubnetNodesAssumption
    <3>6. CASE /\ nodes[i].class = Idle /\ nodes'[i].class = Included
               /\ Get(idle, i) + 1 >= IdleClassificationEpochs
               /\ nodes'[i].start = SubnetEpoch
      <4>1. s + x <= e - 1 /\ x + 1 >= IdleClassificationEpochs
        BY <3>2, <3>3, <3>4, <3>6 DEF Waited
      <4>2. e >= s + IdleClassificationEpochs
        BY <3>5, <4>1
      <4>3. /\ nodes'[i].class = nodes[i].class + 1 /\ nodes'[i].class # Validator
            /\ WaitFor(nodes[i].class) = IdleClassificationEpochs
        BY <3>6 DEF WaitFor, Idle, Included, Validator
      <4>4. RisesByTheRules(i)
        BY <3>1, <3>4, <3>6, <4>2, <4>3 DEF RisesByTheRules
      <4> QED BY <3>1, <4>4 DEF RisesByTheRules
    <3>7. CASE /\ nodes[i].class = Included /\ nodes'[i].class = Validator
               /\ Get(included, i) + 1 >= IncludedClassificationEpochs
               /\ nodes'[i].start = SubnetEpoch
               /\ i \in submission.data /\ reputation'[i] = Full
      <4>1. s + p <= e - 1 /\ p + 1 >= IncludedClassificationEpochs
        BY <3>2, <3>3, <3>4, <3>7 DEF Waited
      <4>2. e >= s + IncludedClassificationEpochs
        BY <3>5, <4>1
      <4>3. /\ nodes'[i].class = nodes[i].class + 1
            /\ WaitFor(nodes[i].class) = IncludedClassificationEpochs
        BY <3>7 DEF WaitFor, Idle, Included, Validator
      <4>4. RisesByTheRules(i)
        BY <3>1, <3>4, <3>7, <4>2, <4>3 DEF RisesByTheRules
      <4> QED BY <3>1, <4>4 DEF RisesByTheRules
    <3> QED BY <2>1, <3>1, <3>6, <3>7
  <2> QED BY <1>2, <2>1, <2>2, <2>3, <2>4, NextKinds, OthersSettled DEF Settled
<1>3. Inv /\ Aged /\ [Next]_vars => [Rises]_vars
  BY <1>2
<1> QED BY <1>1, <1>3, AgedNext, AlwaysInv, PTL DEF Spec, ClassLadder
--------------------------------------------------------------------------------
(***************************************************************************)
(* The index of unique parameters.                                         *)
(***************************************************************************)
Holds(i, u) == \/ i \in DOMAIN nodes /\ nodes[i].unique = u
               \/ i \in DOMAIN registered /\ registered[i].unique = u
Finds(u, i) == u \in DOMAIN uniqueOf /\ uniqueOf[u] = i

(* The index finds the nodes that hold a parameter, and no others.         *)
Indexes == \A i, u : u # None => (Holds(i, u) <=> Finds(u, i))

(* The copies in the queue have the parameters of the registered nodes.    *)
Copies == \A k \in 1 .. Len(queue) : queue[k].unique = registered[queue[k].id].unique

(* Nobody holds another parameter, and the index stays.                    *)
LEMMA IndexKept ==
  ASSUME Indexes, uniqueOf' = uniqueOf, \A i, u : Holds(i, u)' <=> Holds(i, u)
  PROVE  Indexes'
<1>1. \A i, u : Finds(u, i)' <=> Finds(u, i)
  BY DEF Finds
<1> QED BY <1>1 DEF Indexes

(* Nodes leave the queue or change places in it.                           *)
LEMMA CopiesKept ==
  ASSUME Inv', Copies,
         \A k \in 1 .. Len(queue') : \E j \in 1 .. Len(queue) : queue'[k] = queue[j],
         \A i \in DOMAIN registered' : /\ i \in DOMAIN registered
                                       /\ registered'[i].unique = registered[i].unique
  PROVE  Copies'
<1> SUFFICES ASSUME NEW k \in 1 .. Len(queue')
             PROVE  queue'[k].unique = registered'[queue'[k].id].unique
  BY DEF Copies
<1>1. queue'[k].id \in DOMAIN registered'
  BY DEF Inv, Tables, Queued
<1>2. PICK j \in 1 .. Len(queue) : queue'[k] = queue[j]
  OBVIOUS
<1>3. queue[j].unique = registered[queue[j].id].unique
  BY DEF Copies
<1>4. registered'[queue[j].id].unique = registered[queue[j].id].unique
  BY <1>1, <1>2
<1> QED BY <1>2, <1>3, <1>4

(* A node holds one parameter.                                             *)
LEMMA HoldsOne ==
  ASSUME Mapped, NEW i, NEW u, NEW w, Holds(i, u), Holds(i, w)
  PROVE  u = w
BY DEF Mapped, Holds

(* Steps that leave the parameters alone.                                  *)
LEMMA IndexedFrame ==
  ASSUME Inv', Indexes, Copies, UNCHANGED <<queue, uniqueOf>>,
         DOMAIN nodes' = DOMAIN nodes, DOMAIN registered' = DOMAIN registered,
         \A i \in DOMAIN nodes : nodes'[i].unique = nodes[i].unique,
         \A i \in DOMAIN registered : registered'[i].unique = registered[i].unique
  PROVE  Indexes' /\ Copies'
<1>1. \A i, u : Holds(i, u)' <=> Holds(i, u)
  BY DEF Holds
<1>2. uniqueOf' = uniqueOf /\ queue' = queue
  OBVIOUS
<1>3. \A k \in 1 .. Len(queue') : \E j \in 1 .. Len(queue) : queue'[k] = queue[j]
  BY <1>2
<1> QED BY <1>1, <1>2, <1>3, IndexKept, CopiesKept

(* A node leaves, and its parameter is free.                               *)
LEMMA IndexedLeaves ==
  ASSUME Inv, Inv', Indexes, Copies, Leaves
  PROVE  Indexes' /\ Copies'
<1>0. Tables /\ Mapped
  BY DEF Inv, Tables
<1>1. PICK i : perform_remove_subnet_node(i)
  BY DEF Leaves
<1>2. \E x : /\ Holds(i, x)
             /\ uniqueOf' = IF x = None THEN uniqueOf ELSE Without(uniqueOf, x)
             /\ \A j, u : Holds(j, u)' <=> Holds(j, u) /\ j # i
             /\ Copies'
  <2>1. CASE i \in DOMAIN nodes /\ remove_active_subnet_node(i)
    <3>1. /\ nodes' = Without(nodes, i) /\ registered' = registered /\ queue' = queue
          /\ common_remove_subnet_node(nodes[i])
      BY <2>1 DEF remove_active_subnet_node, queueVars
    <3>2. PICK x : x = nodes[i].unique
      OBVIOUS
    <3>3. uniqueOf' = IF x = None THEN uniqueOf ELSE Without(uniqueOf, x)
      BY <3>1, <3>2 DEF common_remove_subnet_node
    <3>4. DOMAIN nodes' = DOMAIN nodes \ {i} /\ \A j \in DOMAIN nodes' : nodes'[j] = nodes[j]
      BY <3>1, WithoutFacts
    <3>5. i \notin DOMAIN registered
      BY <1>0, <2>1, NodeFacts
    <3>6. Holds(i, x) /\ \A j, u : Holds(j, u)' <=> Holds(j, u) /\ j # i
      BY <2>1, <3>1, <3>2, <3>4, <3>5 DEF Holds
    <3>7. Copies'
      BY <3>1 DEF Copies
    <3> QED BY <3>3, <3>6, <3>7
  <2>2. CASE i \in DOMAIN registered /\ remove_registered_subnet_node(i)
    <3>1. /\ registered' = Without(registered, i) /\ nodes' = nodes
          /\ common_remove_subnet_node(registered[i])
      BY <2>2 DEF remove_registered_subnet_node
    <3>2. PICK x : x = registered[i].unique
      OBVIOUS
    <3>3. uniqueOf' = IF x = None THEN uniqueOf ELSE Without(uniqueOf, x)
      BY <3>1, <3>2 DEF common_remove_subnet_node
    <3>4. /\ DOMAIN registered' = DOMAIN registered \ {i}
          /\ \A j \in DOMAIN registered' : registered'[j] = registered[j]
      BY <3>1, WithoutFacts
    <3>5. i \notin DOMAIN nodes
      BY <1>0, <2>2, NodeFacts
    <3>6. Holds(i, x) /\ \A j, u : Holds(j, u)' <=> Holds(j, u) /\ j # i
      BY <2>2, <3>1, <3>2, <3>4, <3>5 DEF Holds
    <3>7. \A k \in 1 .. Len(queue') : \E j \in 1 .. Len(queue) : queue'[k] = queue[j]
      BY <1>0, <2>2, RemoveQueuedTables DEF Leaves
    <3>8. Copies'
      BY <3>4, <3>7, CopiesKept
    <3> QED BY <3>3, <3>6, <3>8
  <2> QED BY <1>1, <2>1, <2>2 DEF perform_remove_subnet_node
<1>3. PICK x : /\ Holds(i, x)
               /\ uniqueOf' = IF x = None THEN uniqueOf ELSE Without(uniqueOf, x)
               /\ \A j, u : Holds(j, u)' <=> Holds(j, u) /\ j # i
               /\ Copies'
  BY <1>2
<1>4. ASSUME NEW j, NEW u, u # None PROVE Holds(j, u)' <=> Finds(u, j)'
  <2>1. Holds(j, u) <=> Finds(u, j)
    BY <1>4 DEF Indexes
  <2>2. Holds(i, u) => u = x
    BY <1>0, <1>3, HoldsOne
  <2>3. x # None => (Holds(i, x) <=> Finds(x, i))
    BY DEF Indexes
  <2>4. CASE x = None
    <3>1. Finds(u, j)' <=> Finds(u, j)
      BY <1>3, <2>4 DEF Finds
    <3>2. ~(j = i /\ Holds(j, u))
      BY <1>4, <2>2, <2>4
    <3> QED BY <1>3, <2>1, <3>1, <3>2
  <2>5. CASE x # None
    <3>1. uniqueOf' = Without(uniqueOf, x)
      BY <1>3, <2>5
    <3>2. /\ DOMAIN uniqueOf' = DOMAIN uniqueOf \ {x}
          /\ \A w \in DOMAIN uniqueOf' : uniqueOf'[w] = uniqueOf[w]
      BY <3>1, WithoutFacts
    <3>3. Finds(u, j)' <=> Finds(u, j) /\ u # x
      BY <3>2 DEF Finds
    <3>4. Finds(x, i)
      BY <1>3, <2>3, <2>5
    <3>5. Finds(u, j) => (u = x <=> j = i)
      <4>1. u = x /\ Finds(u, j) => j = i
        BY <3>4 DEF Finds
      <4>2. j = i /\ Finds(u, j) => u = x
        BY <2>1, <2>2
      <4> QED BY <4>1, <4>2
    <3> QED BY <1>3, <2>1, <3>3, <3>5
  <2> QED BY <2>4, <2>5
<1> QED BY <1>3, <1>4 DEF Indexes

(* A node registers, with a parameter nobody holds.                        *)
LEMMA IndexedRegisters ==
  ASSUME Inv, Inv', Indexes, Copies, Registers
  PROVE  Indexes' /\ Copies'
<1>0. Timed /\ Tables /\ Mapped
  BY DEF Inv, Tables
<1>1. PICK v \in Validators, u \in Uniques \cup {None} : register_subnet_node(v, u)
  BY DEF Registers
<1>2. PICK n, i : n = NewNode(uids + 1, v, u) /\ i = uids + 1
  OBVIOUS
<1>3. /\ u \notin DOMAIN uniqueOf
      /\ uniqueOf' = IF u = None THEN uniqueOf ELSE Put(uniqueOf, u, i)
      /\ n.id = i /\ n.unique = u
      /\ IF state = "Registered" THEN ActivateAtOnce(n) ELSE Enqueue(n)
  BY <1>1, <1>2 DEF register_subnet_node, NewNode
<1>4. i \notin DOMAIN nodes /\ i \notin DOMAIN registered
  <2>1. uids \in Nat /\ ~(i \in 1 .. uids)
    BY <1>0, <1>2, SubnetNodesAssumption DEF Mapped
  <2> QED BY <1>0, <2>1 DEF Mapped
<1>5. /\ \A j, w : Holds(j, w)' <=> Holds(j, w) \/ (j = i /\ w = u)
      /\ Copies'
  <2>1. CASE state = "Registered"
    <3>1. PICK a : a = [n EXCEPT !.class = Validator, !.start = SubnetEpoch]
      OBVIOUS
    <3>2. a.unique = u
      BY <1>2, <3>1 DEF NewNode
    <3>3. nodes' = Put(nodes, i, a) /\ registered' = registered /\ queue' = queue
      BY <1>3, <2>1, <3>1 DEF ActivateAtOnce, queueVars
    <3>4. /\ DOMAIN nodes' = DOMAIN nodes \cup {i} /\ nodes'[i] = a
          /\ \A j \in DOMAIN nodes : nodes'[j] = nodes[j]
      BY <1>4, <3>3 DEF Put
    <3>5. \A j, w : Holds(j, w)' <=> Holds(j, w) \/ (j = i /\ w = u)
      BY <1>4, <3>2, <3>3, <3>4 DEF Holds
    <3> QED BY <3>3, <3>5 DEF Copies
  <2>2. CASE state # "Registered"
    <3>1. registered' = Put(registered, i, n) /\ nodes' = nodes /\ queue' = Append(queue, n)
      BY <1>3, <2>2 DEF Enqueue
    <3>2. /\ DOMAIN registered' = DOMAIN registered \cup {i} /\ registered'[i] = n
          /\ \A j \in DOMAIN registered : registered'[j] = registered[j]
      BY <1>4, <3>1 DEF Put
    <3>3. \A j, w : Holds(j, w)' <=> Holds(j, w) \/ (j = i /\ w = u)
      BY <1>3, <1>4, <3>1, <3>2 DEF Holds
    <3>4. ASSUME NEW k \in 1 .. Len(queue')
          PROVE  queue'[k].unique = registered'[queue'[k].id].unique
      <4>1. PICK q : q = queue
        OBVIOUS
      <4>2. q \in Seq({q[x] : x \in DOMAIN q} \cup {n}) /\ Len(q) \in Nat
        <5>1. q \in Seq(Node)
          BY <1>0, <4>1 DEF Tables, Queued
        <5> QED BY <5>1
      <4>3. PICK T : T = {q[x] : x \in DOMAIN q} \cup {n}
        OBVIOUS
      <4>4. /\ Len(Append(q, n)) = Len(q) + 1 /\ Append(q, n)[Len(q) + 1] = n
            /\ \A x \in 1 .. Len(q) : Append(q, n)[x] = q[x]
        BY <4>2, <4>3, AppendFacts
      <4>5. CASE k = Len(q) + 1
        BY <1>3, <3>1, <3>2, <4>1, <4>4, <4>5
      <4>6. CASE k \in 1 .. Len(q)
        <5>1. queue'[k] = queue[k]
          BY <3>1, <4>1, <4>4, <4>6
        <5>2. queue[k].id \in DOMAIN registered
          BY <1>0, <4>1, <4>6 DEF Tables, Queued
        <5>3. queue[k].unique = registered[queue[k].id].unique
          BY <4>1, <4>6 DEF Copies
        <5> QED BY <3>2, <5>1, <5>2, <5>3
      <4>7. k \in 1 .. Len(q) + 1
        BY <3>1, <4>1, <4>4
      <4> QED BY <4>2, <4>5, <4>6, <4>7
    <3>5. Copies'
      BY <3>4 DEF Copies
    <3> QED BY <3>3, <3>5
  <2> QED BY <2>1, <2>2
<1>6. ASSUME NEW j, NEW w, w # None PROVE Holds(j, w)' <=> Finds(w, j)'
  <2>1. Holds(j, w) <=> Finds(w, j)
    BY <1>6 DEF Indexes
  <2>2. Finds(w, j)' <=> Finds(w, j) \/ (j = i /\ w = u)
    <3>1. CASE u = None
      BY <1>3, <1>6, <3>1 DEF Finds
    <3>2. CASE u # None
      <4>1. uniqueOf' = Put(uniqueOf, u, i)
        BY <1>3, <3>2
      <4>2. /\ DOMAIN uniqueOf' = DOMAIN uniqueOf \cup {u} /\ uniqueOf'[u] = i
            /\ \A x \in DOMAIN uniqueOf : uniqueOf'[x] = uniqueOf[x]
        BY <1>3, <4>1 DEF Put
      <4> QED BY <1>3, <4>2 DEF Finds
    <3> QED BY <3>1, <3>2
  <2> QED BY <1>5, <2>1, <2>2
<1> QED BY <1>5, <1>6 DEF Indexes

(* An active node takes another parameter, which nobody else holds.        *)
LEMMA IndexedUpdates ==
  ASSUME ~QueuedUpdates, Inv, Inv', Indexes, Copies, Updates
  PROVE  Indexes' /\ Copies'
<1>0. Timed /\ Tables /\ Mapped
  BY DEF Inv, Tables
<1>1. PICK i \in Uids, u \in Uniques \cup {None} : do_update_node_unique(i, u)
  BY DEF Updates
<1>2. /\ i \in DOMAIN nodes /\ Reindexed(nodes[i], u) /\ registered' = registered
      /\ nodes' = [nodes EXCEPT ![i].unique = u] /\ queue' = queue
  BY <1>1 DEF do_update_node_unique
<1>3. PICK x : x = nodes[i].unique
  OBVIOUS
<1>4. nodes[i] \in Node /\ nodes[i].id = i /\ i \notin DOMAIN registered
  BY <1>0, <1>2, NodeFacts
<1>5. /\ DOMAIN nodes' = DOMAIN nodes /\ nodes'[i].unique = u
      /\ \A j \in DOMAIN nodes : j # i => nodes'[j] = nodes[j]
  BY <1>2, <1>4 DEF Node
<1>6. PICK f : /\ f = IF x = None THEN uniqueOf ELSE Without(uniqueOf, x)
               /\ u \in DOMAIN f => f[u] = i
               /\ uniqueOf' = IF u = None THEN f ELSE Put(f, u, i)
  BY <1>2, <1>3, <1>4 DEF Reindexed
<1>7. \A j, w : Holds(j, w)' <=> IF j = i THEN w = u ELSE Holds(j, w)
  BY <1>2, <1>4, <1>5 DEF Holds
<1>8. Holds(i, x)
  BY <1>2, <1>3 DEF Holds
<1>9. ASSUME NEW w, w # None
      PROVE  /\ w \in DOMAIN f <=> w \in DOMAIN uniqueOf /\ w # x
             /\ w \in DOMAIN f => f[w] = uniqueOf[w]
  <2>1. CASE x = None
    BY <1>6, <1>9, <2>1
  <2>2. CASE x # None
    <3>1. f = Without(uniqueOf, x)
      BY <1>6, <2>2
    <3>2. /\ DOMAIN f = DOMAIN uniqueOf \ {x}
          /\ \A y \in DOMAIN uniqueOf \ {x} : f[y] = uniqueOf[y]
      BY <3>1 DEF Without, Restrict
    <3> QED BY <3>2
  <2> QED BY <2>1, <2>2
<1>10. ASSUME NEW j, NEW w, w # None PROVE Holds(j, w)' <=> Finds(w, j)'
  <2>1. Finds(w, j)' <=> IF w = u THEN j = i ELSE Finds(w, j) /\ w # x
    <3>1. CASE u = None
      <4>1. uniqueOf' = f
        BY <1>6, <3>1
      <4> QED BY <1>9, <1>10, <3>1, <4>1 DEF Finds
    <3>2. CASE u # None
      <4>1. uniqueOf' = Put(f, u, i)
        BY <1>6, <3>2
      <4>2. /\ DOMAIN uniqueOf' = DOMAIN f \cup {u} /\ uniqueOf'[u] = i
            /\ \A y \in DOMAIN f : y # u => uniqueOf'[y] = f[y]
        BY <4>1 DEF Put
      <4> QED BY <1>9, <1>10, <4>2 DEF Finds
    <3> QED BY <3>1, <3>2
  <2>2. /\ Holds(j, w) <=> Finds(w, j)
        /\ x # None => Finds(x, i)
    BY <1>8, <1>10 DEF Indexes
  <2>3. CASE j = i
    <3>1. Holds(i, w) => w = x
      BY <1>0, <1>8, HoldsOne
    <3> QED BY <1>7, <2>1, <2>2, <2>3, <3>1
  <2>4. CASE j # i
    <3>1. w = x => ~Finds(w, j)
      BY <1>10, <2>2, <2>4 DEF Finds
    <3>2. w = u => ~Finds(w, j)
      <4> SUFFICES ASSUME w = u, Finds(w, j) PROVE FALSE
        OBVIOUS
      <4>1. w # x
        BY <3>1
      <4>2. w \in DOMAIN f /\ f[w] = j
        BY <1>9, <1>10, <4>1 DEF Finds
      <4> QED BY <1>6, <2>4, <4>2
    <3> QED BY <1>7, <2>1, <2>2, <2>4, <3>1, <3>2
  <2> QED BY <2>3, <2>4
<1>11. Copies'
  BY <1>2 DEF Copies
<1> QED BY <1>10, <1>11 DEF Indexes

(* Nodes are activated with the parameters of their copies.                *)
LEMMA IndexedActivates ==
  ASSUME Inv, Inv', Indexes, Copies, Activates
  PROVE  Indexes' /\ Copies'
<1>0. Timed /\ Tables /\ Mapped /\ Mapped'
  BY DEF Inv, Tables
<1>1. /\ \A j \in DOMAIN nodes : j \in DOMAIN nodes' /\ nodes'[j] = nodes[j]
      /\ \A i \in DOMAIN nodes' \ DOMAIN nodes :
           \E j \in 1 .. Len(queue) : queue[j].id = i /\ nodes'[i].unique = queue[j].unique
      /\ \A i \in DOMAIN registered : i \in DOMAIN registered' \/ i \in DOMAIN nodes'
      /\ \A i \in DOMAIN registered' : i \in DOMAIN registered /\ registered'[i] = registered[i]
      /\ \A k \in 1 .. Len(queue') : \E j \in 1 .. Len(queue) : queue'[k] = queue[j]
      /\ uniqueOf' = uniqueOf
  BY <1>0, ActivationFacts DEF Activates
<1>2. ASSUME NEW i \in DOMAIN nodes', i \notin DOMAIN nodes
      PROVE  i \in DOMAIN registered /\ nodes'[i].unique = registered[i].unique
  <2>1. PICK j \in 1 .. Len(queue) : queue[j].id = i /\ nodes'[i].unique = queue[j].unique
    BY <1>1, <1>2
  <2>2. queue[j].id \in DOMAIN registered
    BY <1>0 DEF Tables, Queued
  <2> QED BY <2>1, <2>2 DEF Copies
<1>3. ASSUME NEW i, NEW u PROVE Holds(i, u)' <=> Holds(i, u)
  <2>1. CASE i \in DOMAIN nodes
    <3>1. i \notin DOMAIN registered /\ i \notin DOMAIN registered'
      BY <1>0, <1>1, <2>1 DEF Mapped
    <3> QED BY <1>1, <2>1, <3>1 DEF Holds
  <2>2. CASE i \notin DOMAIN nodes /\ i \in DOMAIN nodes'
    <3>1. i \notin DOMAIN registered'
      BY <1>0, <2>2 DEF Mapped
    <3> QED BY <1>2, <2>2, <3>1 DEF Holds
  <2>3. CASE i \notin DOMAIN nodes /\ i \notin DOMAIN nodes'
    BY <1>1, <2>3 DEF Holds
  <2> QED BY <2>1, <2>2, <2>3
<1>4. Copies'
  BY <1>1, CopiesKept
<1> QED BY <1>1, <1>3, <1>4, IndexKept

(* The index of unique parameters tells the truth, when nobody updates a   *)
(* node that is still queued: the queue's copy would keep the old one.     *)
THEOREM UniquesStayTruthful ==
  ASSUME ~QueuedUpdates
  PROVE  Spec => []UniquesTruthful
<1>1. Init => Indexes /\ Copies
  <2> SUFFICES ASSUME Init PROVE Indexes /\ Copies
    OBVIOUS
  <2>1. DOMAIN EmptyMap = {} /\ Len(<<>>) = 0 /\ 1 .. 0 = {}
    BY DEF EmptyMap
  <2> QED BY <2>1 DEF Init, Indexes, Copies, Holds, Finds
<1>2. ASSUME Inv, Inv', Indexes, Copies, [Next]_vars PROVE Indexes' /\ Copies'
  <2>0. Timed /\ Tables
    BY <1>2 DEF Inv
  <2>1. CASE Quiet \/ Restarts
    <3>1. UNCHANGED <<nodes, registered, queue, uniqueOf>>
      BY <2>1 DEF Quiet, Restarts
    <3> QED BY <1>2, <3>1, IndexedFrame
  <2>2. CASE do_owner_unpause_subnet
    <3>1. /\ UNCHANGED <<nodes, queue, uniqueOf>>
          /\ registered' = [i \in DOMAIN registered |->
                 [registered[i] EXCEPT !.start = registered[i].start + (epoch - startEpoch + 1)]]
      BY <2>2 DEF do_owner_unpause_subnet, indexVars
    <3>2. ASSUME NEW i \in DOMAIN registered
          PROVE  registered'[i].unique = registered[i].unique
      <4>1. PICK n, s : n = registered[i] /\ s = registered[i].start + (epoch - startEpoch + 1)
        OBVIOUS
      <4>2. n \in Node
        BY <2>0, <4>1, NodeFacts DEF Tables
      <4>3. registered'[i] = [n EXCEPT !.start = s]
        BY <3>1, <4>1
      <4> QED BY <4>1, <4>2, <4>3 DEF Node
    <3>3. DOMAIN registered' = DOMAIN registered
      BY <3>1
    <3> QED BY <1>2, <3>1, <3>2, <3>3, IndexedFrame
  <2>3. CASE do_remove_subnet
    <3>1. nodes' = EmptyMap /\ registered' = EmptyMap /\ queue' = <<>> /\ uniqueOf' = EmptyMap
      BY <2>3 DEF do_remove_subnet, clean_subnet_nodes
    <3>2. DOMAIN EmptyMap = {} /\ Len(<<>>) = 0 /\ 1 .. 0 = {}
      BY DEF EmptyMap
    <3> QED BY <3>1, <3>2 DEF Indexes, Copies, Holds, Finds
  <2>4. CASE PrioritizeQueued
    <3>1. \A k \in 1 .. Len(queue') : \E j \in 1 .. Len(queue) : queue'[k] = queue[j]
      BY <2>0, <2>4, PrioritizeTables
    <3>2. nodes' = nodes /\ registered' = registered /\ uniqueOf' = uniqueOf
      BY <2>4 DEF PrioritizeQueued, indexVars
    <3>3. \A i, u : Holds(i, u)' <=> Holds(i, u)
      BY <3>2 DEF Holds
    <3> QED BY <1>2, <3>1, <3>2, <3>3, IndexKept, CopiesKept
  <2>5. CASE Climbs
    <3>1. /\ DOMAIN nodes' = DOMAIN nodes
          /\ \A j \in DOMAIN nodes : nodes'[j].unique = nodes[j].unique
      BY <1>2, <2>5, ClimbFacts
    <3>2. UNCHANGED <<registered, queue, uniqueOf>>
      BY <2>5 DEF Climbs, handle_idle_node, handle_included_node, queueVars, indexVars
    <3> QED BY <1>2, <3>1, <3>2, IndexedFrame
  <2> QED BY <1>2, <2>1, <2>2, <2>3, <2>4, <2>5, NextKinds, IndexedLeaves, IndexedRegisters,
             IndexedUpdates, IndexedActivates
<1>3. Inv /\ Indexes => UniquesTruthful
  <2> SUFFICES ASSUME Inv, Indexes PROVE UniquesTruthful
    OBVIOUS
  <2>1. ASSUME NEW i \in DOMAIN nodes, nodes[i].unique # None
        PROVE  nodes[i].unique \in DOMAIN uniqueOf /\ uniqueOf[nodes[i].unique] = i
    <3>1. PICK u : u = nodes[i].unique
      OBVIOUS
    <3>2. Holds(i, u) /\ u # None
      BY <2>1, <3>1 DEF Holds
    <3> QED BY <3>1, <3>2 DEF Indexes, Finds
  <2>2. ASSUME NEW u \in DOMAIN uniqueOf PROVE Holds(uniqueOf[u], u)
    <3>1. u # None
      BY SubnetNodesAssumption DEF Inv, Tables, Owned
    <3>2. PICK i : i = uniqueOf[u]
      OBVIOUS
    <3>3. Finds(u, i)
      BY <3>2 DEF Finds
    <3> QED BY <3>1, <3>2, <3>3 DEF Indexes
  <2> QED BY <2>1, <2>2 DEF UniquesTruthful, Holds
<1>4. Inv /\ Inv' /\ Indexes /\ Copies /\ [Next]_vars => Indexes' /\ Copies'
  BY <1>2
<1> QED BY <1>1, <1>3, <1>4, AlwaysInv, PTL DEF Spec
================================================================================

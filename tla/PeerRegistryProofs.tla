--------------------------- MODULE PeerRegistryProofs ---------------------------
(***************************************************************************)
(* Proofs about PeerRegistry: for any number of nodes, names, updates and  *)
(* overwatch nodes, as long as no queued node is updated, nobody shares a  *)
(* name and the indices are true.                                          *)
(***************************************************************************)
EXTENDS PeerRegistry, TLAPS

NodeInfo == [Roles -> Infos \cup {None}]

(* The types, and that the copies in the queue are what they are copies    *)
(* of: what fails when queued nodes are updated.                           *)
TypeInv ==
  /\ uids \in 0 .. MaxNodes
  /\ nodes \in [DOMAIN nodes -> NodeInfo] /\ DOMAIN nodes \subseteq 1 .. uids
  /\ registered \in [DOMAIN registered -> NodeInfo] /\ DOMAIN registered \subseteq 1 .. uids
  /\ DOMAIN nodes \cap DOMAIN registered = {}
  /\ \A q \in queue : q.id \in DOMAIN registered /\ registered[q.id] = q.info
  /\ index \in [Roles -> [PeerIds -> NodeIds \cup {0}]]
  /\ MultiaddrSubnetNodeId \in [Multiaddrs -> NodeIds \cup {0}]
  /\ PeerIdOverwatchNodeId \in [PeerIds -> Watchers \cup {0}]
  /\ OverwatchNodeIndex \in [Watchers -> PeerIds \cup {None}]

(* A peer id is in one index at most.                                      *)
OneRole ==
  \A p \in PeerIds : \A q \in Roles : index[q][p] # 0 =>
    PeerIdOverwatchNodeId[p] = 0 /\ \A r \in Roles : index[r][p] # 0 => q = r

(* The addresses of one node differ.                                       *)
OwnAddresses ==
  \A i \in Present : \A q, r \in Roles : q # r /\ AddrOf(Info(i)[q]) # None =>
    AddrOf(Info(i)[q]) # AddrOf(Info(i)[r])

NamesInv == IndexTruthful /\ OneRole /\ OwnAddresses
Inv == TypeInv /\ NamesInv
--------------------------------------------------------------------------------
(* What the type of a node's data says of the names in it.                 *)
LEMMA NamesTyped ==
  ASSUME NEW x \in Infos \cup {None}
  PROVE  /\ IdOf(x) \in PeerIds \cup {None} /\ AddrOf(x) \in Multiaddrs \cup {None}
         /\ x # None => x.id \in PeerIds /\ IdOf(x) = x.id /\ AddrOf(x) = x.addr
         /\ x = None => IdOf(x) = None /\ AddrOf(x) = None
  BY PeerAssumption DEF Infos, IdOf, AddrOf

(* The data of a node that is present is that of a node.                   *)
LEMMA InfoTyped == ASSUME TypeInv, NEW i \in Present
                   PROVE  Info(i) \in NodeInfo /\ i \in 1 .. uids /\ i \in NodeIds
  BY PeerAssumption DEF TypeInv, Present, Info, NodeIds

(* The invariant implies that no name is held in two places.               *)
LEMMA InvUnique == Inv => PeersUnique
<1> SUFFICES ASSUME Inv PROVE PeersUnique
  OBVIOUS
<1> USE PeerAssumption
<1>1. ASSUME NEW x \in Places, NEW y \in Places, x # y, HeldIn(x) # None
      PROVE  HeldIn(x) # HeldIn(y)
  <2>1. ASSUME NEW i \in Present, NEW r \in Roles
        PROVE  /\ HeldIn(<<i, r>>) = IdOf(Info(i)[r])
               /\ IdOf(Info(i)[r]) \in PeerIds \cup {None}
               /\ \A p \in PeerIds : IdOf(Info(i)[r]) = p => index[r][p] = i /\ i # 0
    <3>1. Info(i)[r] \in Infos \cup {None} /\ i \in NodeIds
      BY <2>1, InfoTyped DEF Inv, NodeInfo
    <3>2. IdOf(Info(i)[r]) \in PeerIds \cup {None}
      BY <3>1, NamesTyped
    <3>3. HeldIn(<<i, r>>) = IdOf(Info(i)[r])
      BY <2>1 DEF HeldIn, Roles
    <3> QED BY <3>1, <3>2, <3>3, <2>1 DEF Inv, NamesInv, IndexTruthful, NodeIds
  <2>2. ASSUME NEW w \in Watchers
        PROVE  /\ HeldIn(<<w, "overwatch">>) = OverwatchNodeIndex[w]
               /\ OverwatchNodeIndex[w] \in PeerIds \cup {None}
               /\ OverwatchNodeIndex[w] # None => PeerIdOverwatchNodeId[OverwatchNodeIndex[w]] = w
               /\ w # 0
    BY <2>2 DEF Inv, NamesInv, TypeInv, IndexTruthful, HeldIn
  <2>3. \/ \E i \in Present, r \in Roles : x = <<i, r>>
        \/ \E w \in Watchers : x = <<w, "overwatch">>
    <3>1. x \in Present \X Roles \/ x \in Watchers \X {"overwatch"}
      BY DEF Places
    <3>2. CASE x \in Present \X Roles
      <4>1. x = <<x[1], x[2]>> /\ x[1] \in Present /\ x[2] \in Roles
        BY <3>2
      <4> QED BY <4>1
    <3>3. CASE x \in Watchers \X {"overwatch"}
      <4>1. x = <<x[1], x[2]>> /\ x[1] \in Watchers /\ x[2] = "overwatch"
        BY <3>3
      <4> QED BY <4>1
    <3> QED BY <3>1, <3>2, <3>3
  <2>4. \/ \E i \in Present, r \in Roles : y = <<i, r>>
        \/ \E w \in Watchers : y = <<w, "overwatch">>
    <3>1. y \in Present \X Roles \/ y \in Watchers \X {"overwatch"}
      BY DEF Places
    <3>2. CASE y \in Present \X Roles
      <4>1. y = <<y[1], y[2]>> /\ y[1] \in Present /\ y[2] \in Roles
        BY <3>2
      <4> QED BY <4>1
    <3>3. CASE y \in Watchers \X {"overwatch"}
      <4>1. y = <<y[1], y[2]>> /\ y[1] \in Watchers /\ y[2] = "overwatch"
        BY <3>3
      <4> QED BY <4>1
    <3> QED BY <3>1, <3>2, <3>3
  <2>5. CASE \E i \in Present, r \in Roles : x = <<i, r>>
    <3>1. PICK i \in Present, r \in Roles : x = <<i, r>>
      BY <2>5
    <3>2. CASE \E j \in Present, q \in Roles : y = <<j, q>>
      <4>1. PICK j \in Present, q \in Roles : y = <<j, q>>
        BY <3>2
      <4> QED BY <3>1, <4>1, <2>1, <1>1 DEF Inv, NamesInv, OneRole
    <3>3. CASE \E w \in Watchers : y = <<w, "overwatch">>
      <4>1. PICK w \in Watchers : y = <<w, "overwatch">>
        BY <3>3
      <4>2. index[r][HeldIn(x)] = i /\ i # 0 /\ HeldIn(x) \in PeerIds
        BY <3>1, <2>1, <1>1
      <4>3. PeerIdOverwatchNodeId[HeldIn(x)] = 0
        BY <4>2 DEF Inv, NamesInv, OneRole
      <4> QED BY <4>1, <4>3, <2>2, <1>1
    <3> QED BY <2>4, <3>2, <3>3
  <2>6. CASE \E w \in Watchers : x = <<w, "overwatch">>
    <3>1. PICK w \in Watchers : x = <<w, "overwatch">>
      BY <2>6
    <3>2. CASE \E j \in Present, q \in Roles : y = <<j, q>>
      <4>1. PICK j \in Present, q \in Roles : y = <<j, q>>
        BY <3>2
      <4>2. PeerIdOverwatchNodeId[HeldIn(x)] # 0 /\ HeldIn(x) \in PeerIds
        BY <3>1, <2>2, <1>1
      <4>3. HeldIn(y) = HeldIn(x) => index[q][HeldIn(x)] # 0
        BY <4>1, <4>2, <2>1
      <4> QED BY <4>2, <4>3 DEF Inv, NamesInv, OneRole
    <3>3. CASE \E u \in Watchers : y = <<u, "overwatch">>
      BY <3>1, <3>3, <2>2, <1>1
    <3> QED BY <2>4, <3>2, <3>3
  <2> QED BY <2>3, <2>5, <2>6
<1>2. ASSUME NEW i \in Present, NEW j \in Present, NEW q \in Roles, NEW r \in Roles,
             <<i, q>> # <<j, r>>, AddrOf(Info(i)[q]) # None
      PROVE  AddrOf(Info(i)[q]) # AddrOf(Info(j)[r])
  <2>1. CASE i = j
    BY <1>2, <2>1 DEF Inv, NamesInv, OwnAddresses
  <2>2. CASE i # j
    <3>1. AddrOf(Info(i)[q]) \in Multiaddrs /\ i \in NodeIds /\ j \in NodeIds
      BY <1>2, InfoTyped, NamesTyped DEF Inv, NodeInfo
    <3> QED BY <3>1, <2>2, <1>2 DEF Inv, NamesInv, IndexTruthful
  <2> QED BY <2>1, <2>2
<1> QED BY <1>1, <1>2 DEF PeersUnique
--------------------------------------------------------------------------------
(***************************************************************************)
(* What the calls do to the names, seen through Present and Info: a node   *)
(* comes, goes, has a name changed, or nothing happens.                    *)
(***************************************************************************)

(* A step that leaves names and indices alone keeps the invariant.         *)
LEMMA SameNames ==
  ASSUME Inv, Present' = Present, \A j \in Present : Info(j)' = Info(j),
         UNCHANGED <<indexVars, watchVars>>
  PROVE  NamesInv'
<1> USE DEF indexVars, watchVars, Inv, NamesInv
<1>1. IndexTruthful'
  BY DEF IndexTruthful
<1>2. OneRole'
  BY DEF OneRole
<1>3. OwnAddresses'
  BY DEF OwnAddresses
<1> QED BY <1>1, <1>2, <1>3

(* A registration under names that nobody has.                             *)
LEMMA Entered ==
  ASSUME Inv, NEW i \in NodeIds, i \notin Present, NEW info \in NodeInfo,
         validate_registration_peer_infos(info), EntryOfAll(info, i),
         Present' = Present \cup {i}, Info(i)' = info,
         \A j \in Present : Info(j)' = Info(j), UNCHANGED watchVars
  PROVE  NamesInv'
<1> USE PeerAssumption
<1>1. ASSUME NEW r \in Roles
      PROVE  /\ info[r] \in Infos \cup {None}
             /\ IdOf(info[r]) \in PeerIds \cup {None}
             /\ AddrOf(info[r]) \in Multiaddrs \cup {None}
             /\ info[r] # None => IdOf(info[r]) = info[r].id /\ AddrOf(info[r]) = info[r].addr
             /\ info[r] = None => IdOf(info[r]) = None /\ AddrOf(info[r]) = None
  BY NamesTyped DEF NodeInfo
<1>2. ASSUME NEW r \in Roles
      PROVE  /\ \A p \in PeerIds : IdOf(info[r]) = p =>
                    PeerIdOverwatchNodeId[p] = 0 /\ \A q \in Roles : index[q][p] = 0
             /\ \A m \in Multiaddrs : AddrOf(info[r]) = m => MultiaddrSubnetNodeId[m] = 0
  BY <1>1 DEF validate_registration_peer_infos, validate_peer_info,
       is_owner_of_peer_or_ownerless, is_owner_of_multiaddr_or_ownerless
<1>3. ASSUME NEW q \in Roles, NEW r \in Roles, q # r
      PROVE  /\ IdOf(info[q]) # None => IdOf(info[q]) # IdOf(info[r])
             /\ AddrOf(info[q]) # None => AddrOf(info[q]) # AddrOf(info[r])
  BY <1>1, <1>3 DEF validate_registration_peer_infos
<1>4. \A r \in Roles : \A p \in PeerIds :
        index'[r][p] = IF IdOf(info[r]) = p THEN i ELSE index[r][p]
  <2> SUFFICES ASSUME NEW r \in Roles, NEW p \in PeerIds
               PROVE  index'[r][p] = IF IdOf(info[r]) = p THEN i ELSE index[r][p]
    OBVIOUS
  <2>1. index[r] \in [PeerIds -> NodeIds \cup {0}]
    BY DEF Inv, TypeInv
  <2>2. index'[r] = Entry(index[r], IdOf(info[r]), i)
    BY DEF EntryOfAll
  <2> QED BY <2>1, <2>2, <1>1 DEF Entry
<1>5. \A m \in Multiaddrs : MultiaddrSubnetNodeId'[m] =
        IF \E r \in Roles : AddrOf(info[r]) = m THEN i ELSE MultiaddrSubnetNodeId[m]
  BY DEF EntryOfAll
<1>6. \A j \in NodeIds : j # i => (j \in Present' <=> j \in Present)
  OBVIOUS
<1>7. i # 0
  BY DEF NodeIds
<1>8. IndexTruthful'
  <2>1. ASSUME NEW r \in Roles, NEW p \in PeerIds, NEW j \in NodeIds
        PROVE  index'[r][p] = j <=> j \in Present' /\ IdOf(Info(j)'[r]) = p
    <3>1. index[r][p] = j <=> j \in Present /\ IdOf(Info(j)[r]) = p
      BY DEF Inv, NamesInv, IndexTruthful
    <3>2. CASE j = i
      BY <3>1, <3>2, <1>4
    <3>3. CASE j # i
      <4>1. j \in Present' <=> j \in Present
        BY <3>3
      <4>2. IdOf(info[r]) = p => index[r][p] = 0
        BY <1>2
      <4>3. j # 0
        BY DEF NodeIds
      <4> QED BY <3>1, <3>3, <4>1, <4>2, <4>3, <1>4
    <3> QED BY <3>2, <3>3
  <2>2. ASSUME NEW m \in Multiaddrs, NEW j \in NodeIds
        PROVE  MultiaddrSubnetNodeId'[m] = j
                 <=> j \in Present' /\ \E r \in Roles : AddrOf(Info(j)'[r]) = m
    <3>1. MultiaddrSubnetNodeId[m] = j <=> j \in Present /\ \E r \in Roles : AddrOf(Info(j)[r]) = m
      BY DEF Inv, NamesInv, IndexTruthful
    <3>2. CASE j = i
      BY <3>1, <3>2, <1>5
    <3>3. CASE j # i
      <4>1. j \in Present' <=> j \in Present
        BY <3>3
      <4>2. (\E r \in Roles : AddrOf(info[r]) = m) => MultiaddrSubnetNodeId[m] = 0
        BY <1>2
      <4>3. j # 0
        BY DEF NodeIds
      <4> QED BY <3>1, <3>3, <4>1, <4>2, <4>3, <1>5
    <3> QED BY <3>2, <3>3
  <2>3. ASSUME NEW w \in Watchers, OverwatchNodeIndex'[w] # None
        PROVE  PeerIdOverwatchNodeId'[OverwatchNodeIndex'[w]] = w
    BY <2>3 DEF Inv, NamesInv, IndexTruthful, watchVars
  <2> QED BY <2>1, <2>2, <2>3 DEF IndexTruthful
<1>9. OneRole'
  <2> SUFFICES ASSUME NEW p \in PeerIds, NEW q \in Roles, index'[q][p] # 0
               PROVE  PeerIdOverwatchNodeId[p] = 0
                        /\ \A r \in Roles : index'[r][p] # 0 => q = r
    BY DEF OneRole, watchVars
  <2>1. \A r \in Roles : index[q][p] # 0 =>
          PeerIdOverwatchNodeId[p] = 0 /\ (index[r][p] # 0 => q = r)
    BY DEF Inv, NamesInv, OneRole
  <2>2. p # None
    OBVIOUS
  <2> QED BY <2>1, <2>2, <1>2, <1>3, <1>4, <1>7
<1>10. OwnAddresses'
  <2> SUFFICES ASSUME NEW j \in Present', NEW q \in Roles, NEW r \in Roles,
                      q # r, AddrOf(Info(j)'[q]) # None
               PROVE  AddrOf(Info(j)'[q]) # AddrOf(Info(j)'[r])
    BY DEF OwnAddresses
  <2>1. CASE j = i
    BY <2>1, <1>3
  <2>2. CASE j # i
    BY <2>2 DEF Inv, NamesInv, OwnAddresses
  <2> QED BY <2>1, <2>2
<1> QED BY <1>8, <1>9, <1>10 DEF NamesInv

(* A node's name for one role is replaced by one that nobody has, or by    *)
(* none.                                                                   *)
LEMMA Renamed ==
  ASSUME Inv, NEW i \in Present, NEW r \in Roles, NEW new \in Infos \cup {None},
         Rename(i, r, Info(i)[r], new), Present' = Present,
         Info(i)' = [Info(i) EXCEPT ![r] = new],
         \A j \in Present : j # i => Info(j)' = Info(j), UNCHANGED watchVars
  PROVE  NamesInv'
<1> USE PeerAssumption
<1> DEFINE old == Info(i)[r]
<1>1. /\ i \in NodeIds /\ i # 0 /\ Info(i) \in NodeInfo
      /\ old \in Infos \cup {None}
  BY InfoTyped DEF Inv, NodeIds, NodeInfo
<1>2. /\ IdOf(old) \in PeerIds \cup {None} /\ AddrOf(old) \in Multiaddrs \cup {None}
      /\ IdOf(new) \in PeerIds \cup {None} /\ AddrOf(new) \in Multiaddrs \cup {None}
      /\ new # None => IdOf(new) = new.id /\ AddrOf(new) = new.addr
      /\ new = None => IdOf(new) = None /\ AddrOf(new) = None
  BY <1>1, NamesTyped
<1>3. /\ \A p \in PeerIds : IdOf(new) = p =>
           PeerIdOverwatchNodeId[p] = 0 /\ \A q \in Roles : index[q][p] = 0
      /\ \A m \in Multiaddrs : AddrOf(new) = m => MultiaddrSubnetNodeId[m] = 0
  BY <1>2 DEF Rename, validate_peer_info, is_owner_of_peer_or_ownerless,
       is_owner_of_multiaddr_or_ownerless
<1>4. \A q \in Roles : \A p \in PeerIds :
        index'[q][p] = IF q = r /\ IdOf(new) = p THEN i
                       ELSE IF q = r /\ IdOf(old) = p THEN 0 ELSE index[q][p]
  <2> SUFFICES ASSUME NEW q \in Roles, NEW p \in PeerIds
               PROVE  index'[q][p] = IF q = r /\ IdOf(new) = p THEN i
                        ELSE IF q = r /\ IdOf(old) = p THEN 0 ELSE index[q][p]
    OBVIOUS
  <2>1. index \in [Roles -> [PeerIds -> NodeIds \cup {0}]]
    BY DEF Inv, TypeInv
  <2>2. index' = [index EXCEPT ![r] = Entry(Entry(@, IdOf(old), 0), IdOf(new), i)]
    BY DEF Rename
  <2>3. CASE q # r
    BY <2>1, <2>2, <2>3
  <2>4. CASE q = r
    <3>1. index'[q] = Entry(Entry(index[r], IdOf(old), 0), IdOf(new), i)
      BY <2>1, <2>2, <2>4
    <3>2. index[r] \in [PeerIds -> NodeIds \cup {0}]
      BY <2>1
    <3>3. /\ Entry(index[r], IdOf(old), 0) \in [PeerIds -> NodeIds \cup {0}]
          /\ Entry(index[r], IdOf(old), 0)[p] = IF IdOf(old) = p THEN 0 ELSE index[r][p]
      BY <3>2, <1>2 DEF Entry
    <3> HIDE DEF old
    <3> QED BY <3>1, <3>3, <2>4, <1>2 DEF Entry
  <2> QED BY <2>3, <2>4
<1>5. \A m \in Multiaddrs : MultiaddrSubnetNodeId'[m] =
        IF AddrOf(new) = m THEN i ELSE IF AddrOf(old) = m THEN 0 ELSE MultiaddrSubnetNodeId[m]
  <2>1. MultiaddrSubnetNodeId \in [Multiaddrs -> NodeIds \cup {0}]
    BY DEF Inv, TypeInv
  <2>2. MultiaddrSubnetNodeId' = Entry(Entry(MultiaddrSubnetNodeId, AddrOf(old), 0), AddrOf(new), i)
    BY DEF Rename
  <2>3. /\ Entry(MultiaddrSubnetNodeId, AddrOf(old), 0) \in [Multiaddrs -> NodeIds \cup {0}]
        /\ \A m \in Multiaddrs : Entry(MultiaddrSubnetNodeId, AddrOf(old), 0)[m]
              = IF AddrOf(old) = m THEN 0 ELSE MultiaddrSubnetNodeId[m]
    BY <2>1, <1>2 DEF Entry
  <2> HIDE DEF old
  <2> QED BY <2>2, <2>3, <1>2 DEF Entry
<1>6. \A q \in Roles : Info(i)'[q] = IF q = r THEN new ELSE Info(i)[q]
  BY <1>1 DEF NodeInfo
<1> HIDE DEF old
<1>7. IndexTruthful'
  <2>1. ASSUME NEW q \in Roles, NEW p \in PeerIds, NEW j \in NodeIds
        PROVE  index'[q][p] = j <=> j \in Present' /\ IdOf(Info(j)'[q]) = p
    <3>1. /\ index[q][p] = j <=> j \in Present /\ IdOf(Info(j)[q]) = p
          /\ index[q][p] = i <=> IdOf(Info(i)[q]) = p
      BY <1>1 DEF Inv, NamesInv, IndexTruthful
    <3>2. j # 0 /\ p # None
      BY DEF NodeIds
    <3>3. CASE j = i
      <4>1. CASE q = r
        <5>1. index'[q][p] = IF IdOf(new) = p THEN i
                             ELSE IF IdOf(old) = p THEN 0 ELSE index[q][p]
          BY <4>1, <1>4
        <5>2. Info(i)'[q] = new /\ Info(i)[q] = old
          BY <4>1, <1>6 DEF old
        <5> QED BY <5>1, <5>2, <3>1, <3>3, <1>1
      <4>2. CASE q # r
        BY <4>2, <3>1, <3>3, <1>4, <1>6
      <4> QED BY <4>1, <4>2
    <3>4. CASE j # i
      BY <3>1, <3>2, <3>4, <1>3, <1>4 DEF old
    <3> QED BY <3>3, <3>4
  <2>2. ASSUME NEW m \in Multiaddrs, NEW j \in NodeIds
        PROVE  MultiaddrSubnetNodeId'[m] = j
                 <=> j \in Present' /\ \E q \in Roles : AddrOf(Info(j)'[q]) = m
    <3>1. /\ MultiaddrSubnetNodeId[m] = j
               <=> j \in Present /\ \E q \in Roles : AddrOf(Info(j)[q]) = m
          /\ MultiaddrSubnetNodeId[m] = i <=> \E q \in Roles : AddrOf(Info(i)[q]) = m
      BY <1>1 DEF Inv, NamesInv, IndexTruthful
    <3>2. j # 0 /\ m # None
      BY DEF NodeIds
    <3>3. AddrOf(old) = m => \A q \in Roles : q # r => AddrOf(Info(i)[q]) # m
      BY <3>2 DEF Inv, NamesInv, OwnAddresses, old
    <3>4. AddrOf(old) = m => MultiaddrSubnetNodeId[m] = i
      BY <3>1 DEF old
    <3>5. CASE j = i
      <4>1. (\E q \in Roles : AddrOf(Info(i)'[q]) = m)
              <=> AddrOf(new) = m \/ \E q \in Roles : q # r /\ AddrOf(Info(i)[q]) = m
        BY <1>6
      <4>2. (\E q \in Roles : AddrOf(Info(i)[q]) = m)
              <=> AddrOf(old) = m \/ \E q \in Roles : q # r /\ AddrOf(Info(i)[q]) = m
        BY DEF old
      <4> QED BY <3>1, <3>3, <3>5, <4>1, <4>2, <1>1, <1>5
    <3>6. CASE j # i
      <4>1. j \in Present => Info(j)' = Info(j)
        BY <3>6
      <4>2. AddrOf(new) = m => MultiaddrSubnetNodeId[m] = 0
        BY <1>3
      <4>3. MultiaddrSubnetNodeId'[m] = j <=> MultiaddrSubnetNodeId[m] = j
        BY <3>2, <3>4, <3>6, <4>2, <1>5
      <4> QED BY <3>1, <4>1, <4>3
    <3> QED BY <3>5, <3>6
  <2>3. ASSUME NEW w \in Watchers, OverwatchNodeIndex'[w] # None
        PROVE  PeerIdOverwatchNodeId'[OverwatchNodeIndex'[w]] = w
    BY <2>3 DEF Inv, NamesInv, IndexTruthful, watchVars
  <2> QED BY <2>1, <2>2, <2>3 DEF IndexTruthful
<1>8. OneRole'
  <2> SUFFICES ASSUME NEW p \in PeerIds, NEW q \in Roles, index'[q][p] # 0
               PROVE  PeerIdOverwatchNodeId[p] = 0
                        /\ \A s \in Roles : index'[s][p] # 0 => q = s
    BY DEF OneRole, watchVars
  <2>1. \A s \in Roles : index[q][p] # 0 =>
          PeerIdOverwatchNodeId[p] = 0 /\ (index[s][p] # 0 => q = s)
    BY DEF Inv, NamesInv, OneRole
  <2> QED BY <2>1, <1>3, <1>4
<1>9. OwnAddresses'
  <2> SUFFICES ASSUME NEW j \in Present, NEW q \in Roles, NEW s \in Roles,
                      q # s, AddrOf(Info(j)'[q]) # None
               PROVE  AddrOf(Info(j)'[q]) # AddrOf(Info(j)'[s])
    BY DEF OwnAddresses
  <2>1. AddrOf(Info(j)[q]) # None => AddrOf(Info(j)[q]) # AddrOf(Info(j)[s])
    BY DEF Inv, NamesInv, OwnAddresses
  <2>2. CASE j # i
    BY <2>1, <2>2
  <2>3. CASE j = i
    <3>1. \A t \in Roles : \A m \in Multiaddrs :
            AddrOf(Info(i)[t]) = m => MultiaddrSubnetNodeId[m] # 0
      BY <1>1 DEF Inv, NamesInv, IndexTruthful
    <3>2. \A t \in Roles : AddrOf(new) # None => AddrOf(Info(i)[t]) # AddrOf(new)
      BY <3>1, <1>2, <1>3
    <3> QED BY <2>1, <2>3, <3>2, <1>6
  <2> QED BY <2>2, <2>3
<1> QED BY <1>7, <1>8, <1>9 DEF NamesInv

(* A node goes, and its names with it.                                     *)
LEMMA Left ==
  ASSUME Inv, NEW i \in Present, common_remove_subnet_node(Info(i)),
         Present' = Present \ {i}, \A j \in Present' : Info(j)' = Info(j), UNCHANGED watchVars
  PROVE  NamesInv'
<1> USE PeerAssumption
<1>1. /\ i \in NodeIds /\ i # 0
      /\ \A r \in Roles : /\ IdOf(Info(i)[r]) \in PeerIds \cup {None}
                          /\ AddrOf(Info(i)[r]) \in Multiaddrs \cup {None}
  BY InfoTyped, NamesTyped DEF Inv, NodeIds, NodeInfo
<1>2. \A r \in Roles : \A p \in PeerIds :
        index'[r][p] = IF IdOf(Info(i)[r]) = p THEN 0 ELSE index[r][p]
  <2> SUFFICES ASSUME NEW r \in Roles, NEW p \in PeerIds
               PROVE  index'[r][p] = IF IdOf(Info(i)[r]) = p THEN 0 ELSE index[r][p]
    OBVIOUS
  <2>1. index[r] \in [PeerIds -> NodeIds \cup {0}]
    BY DEF Inv, TypeInv
  <2>2. index'[r] = Entry(index[r], IdOf(Info(i)[r]), 0)
    BY DEF common_remove_subnet_node, EntryOfAll
  <2> QED BY <2>1, <2>2, <1>1 DEF Entry
<1>3. \A m \in Multiaddrs : MultiaddrSubnetNodeId'[m] =
        IF \E r \in Roles : AddrOf(Info(i)[r]) = m THEN 0 ELSE MultiaddrSubnetNodeId[m]
  BY DEF common_remove_subnet_node, EntryOfAll
<1>4. IndexTruthful'
  <2>1. ASSUME NEW r \in Roles, NEW p \in PeerIds, NEW j \in NodeIds
        PROVE  index'[r][p] = j <=> j \in Present' /\ IdOf(Info(j)'[r]) = p
    <3>1. /\ index[r][p] = j <=> j \in Present /\ IdOf(Info(j)[r]) = p
          /\ index[r][p] = i <=> IdOf(Info(i)[r]) = p
      BY <1>1 DEF Inv, NamesInv, IndexTruthful
    <3>2. j # 0
      BY DEF NodeIds
    <3> QED BY <3>1, <3>2, <1>2
  <2>2. ASSUME NEW m \in Multiaddrs, NEW j \in NodeIds
        PROVE  MultiaddrSubnetNodeId'[m] = j
                 <=> j \in Present' /\ \E r \in Roles : AddrOf(Info(j)'[r]) = m
    <3>1. /\ MultiaddrSubnetNodeId[m] = j
               <=> j \in Present /\ \E r \in Roles : AddrOf(Info(j)[r]) = m
          /\ MultiaddrSubnetNodeId[m] = i <=> \E r \in Roles : AddrOf(Info(i)[r]) = m
      BY <1>1 DEF Inv, NamesInv, IndexTruthful
    <3>2. j # 0
      BY DEF NodeIds
    <3> QED BY <3>1, <3>2, <1>3
  <2>3. ASSUME NEW w \in Watchers, OverwatchNodeIndex'[w] # None
        PROVE  PeerIdOverwatchNodeId'[OverwatchNodeIndex'[w]] = w
    BY <2>3 DEF Inv, NamesInv, IndexTruthful, watchVars
  <2> QED BY <2>1, <2>2, <2>3 DEF IndexTruthful
<1>5. OneRole'
  BY <1>2 DEF Inv, NamesInv, OneRole, watchVars
<1>6. OwnAddresses'
  BY DEF Inv, NamesInv, OwnAddresses
<1> QED BY <1>4, <1>5, <1>6 DEF NamesInv
--------------------------------------------------------------------------------
(***************************************************************************)
(* The calls.                                                              *)
(***************************************************************************)

(* The entries of a whole node keep the indices' types.                    *)
LEMMA EntryType ==
  ASSUME TypeInv, NEW info \in NodeInfo, NEW i \in NodeIds \cup {0}, EntryOfAll(info, i)
  PROVE  /\ index' \in [Roles -> [PeerIds -> NodeIds \cup {0}]]
         /\ MultiaddrSubnetNodeId' \in [Multiaddrs -> NodeIds \cup {0}]
<1>1. ASSUME NEW r \in Roles
      PROVE  Entry(index[r], IdOf(info[r]), i) \in [PeerIds -> NodeIds \cup {0}]
  <2>1. info[r] \in Infos \cup {None} /\ index[r] \in [PeerIds -> NodeIds \cup {0}]
    BY DEF NodeInfo, TypeInv
  <2>2. IdOf(info[r]) \in PeerIds \cup {None}
    BY <2>1, NamesTyped
  <2> QED BY <2>1, <2>2 DEF Entry
<1> QED BY <1>1 DEF EntryOfAll, TypeInv

(* So does a new name for an old one.                                      *)
LEMMA RenameType ==
  ASSUME TypeInv, NEW i \in NodeIds, NEW r \in Roles, NEW old \in Infos \cup {None},
         NEW new \in Infos \cup {None}, Rename(i, r, old, new)
  PROVE  /\ index' \in [Roles -> [PeerIds -> NodeIds \cup {0}]]
         /\ MultiaddrSubnetNodeId' \in [Multiaddrs -> NodeIds \cup {0}]
<1>1. /\ IdOf(old) \in PeerIds \cup {None} /\ AddrOf(old) \in Multiaddrs \cup {None}
      /\ IdOf(new) \in PeerIds \cup {None} /\ AddrOf(new) \in Multiaddrs \cup {None}
  BY NamesTyped
<1>2. Entry(index[r], IdOf(old), 0) \in [PeerIds -> NodeIds \cup {0}]
  BY <1>1 DEF Entry, TypeInv
<1>3. Entry(Entry(index[r], IdOf(old), 0), IdOf(new), i) \in [PeerIds -> NodeIds \cup {0}]
  BY <1>1, <1>2 DEF Entry
<1>4. Entry(MultiaddrSubnetNodeId, AddrOf(old), 0) \in [Multiaddrs -> NodeIds \cup {0}]
  BY <1>1 DEF Entry, TypeInv
<1>5. Entry(Entry(MultiaddrSubnetNodeId, AddrOf(old), 0), AddrOf(new), i)
        \in [Multiaddrs -> NodeIds \cup {0}]
  BY <1>1, <1>4 DEF Entry
<1> QED BY <1>3, <1>5 DEF Rename, TypeInv

(* register_subnet_node, called directly or through the precompile.        *)
LEMMA RegisterInv ==
  ASSUME Inv, NEW info \in NodeInfo, register_subnet_node(info)
  PROVE  Inv'
<1> USE PeerAssumption
<1>0. PICK i \in NodeIds : i = uids + 1
  BY DEF register_subnet_node
<1>1. /\ i \in NodeIds /\ uids' = i /\ i \notin Present
      /\ uids \in 0 .. MaxNodes /\ 1 .. uids \subseteq 1 .. i
  BY <1>0 DEF register_subnet_node, Inv, TypeInv, Present, NodeIds
<1>2. /\ validate_registration_peer_infos(info) /\ EntryOfAll(info, i) /\ UNCHANGED watchVars
  BY <1>0 DEF register_subnet_node
<1>3. /\ index' \in [Roles -> [PeerIds -> NodeIds \cup {0}]]
      /\ MultiaddrSubnetNodeId' \in [Multiaddrs -> NodeIds \cup {0}]
  BY <1>1, <1>2, EntryType DEF Inv
<1>4. \/ nodes' = Put(nodes, i, info) /\ UNCHANGED <<registered, queue>>
      \/ /\ registered' = Put(registered, i, info) /\ UNCHANGED nodes
         /\ queue' = queue \cup {[id |-> i, info |-> info]}
  BY <1>0 DEF register_subnet_node
<1>5. TypeInv' /\ Present' = Present \cup {i} /\ Info(i)' = info
        /\ \A j \in Present : Info(j)' = Info(j)
  <2>0. /\ i \notin DOMAIN nodes /\ i \notin DOMAIN registered /\ i \in 1 .. i
        /\ nodes \in [DOMAIN nodes -> NodeInfo] /\ DOMAIN nodes \subseteq 1 .. i
        /\ registered \in [DOMAIN registered -> NodeInfo] /\ DOMAIN registered \subseteq 1 .. i
        /\ DOMAIN nodes \cap DOMAIN registered = {}
        /\ i \in 0 .. MaxNodes
        /\ \A q \in queue : q.id \in DOMAIN registered /\ registered[q.id] = q.info
        /\ PeerIdOverwatchNodeId' \in [PeerIds -> Watchers \cup {0}]
        /\ OverwatchNodeIndex' \in [Watchers -> PeerIds \cup {None}]
    BY <1>1, <1>2 DEF Inv, TypeInv, Present, NodeIds, watchVars
  <2>1. CASE nodes' = Put(nodes, i, info) /\ UNCHANGED <<registered, queue>>
    <3>1. /\ nodes' \in [DOMAIN nodes' -> NodeInfo]
          /\ DOMAIN nodes' = DOMAIN nodes \cup {i} /\ nodes'[i] = info
          /\ \A j \in DOMAIN nodes : nodes'[j] = nodes[j]
      BY <2>1, <2>0 DEF Put
    <3>2. TypeInv'
      BY <1>1, <1>3, <2>0, <2>1, <3>1 DEF TypeInv
    <3> QED BY <3>1, <3>2, <2>1, <2>0 DEF Present, Info
  <2>2. CASE /\ registered' = Put(registered, i, info) /\ UNCHANGED nodes
             /\ queue' = queue \cup {[id |-> i, info |-> info]}
    <3>1. /\ registered' \in [DOMAIN registered' -> NodeInfo]
          /\ DOMAIN registered' = DOMAIN registered \cup {i} /\ registered'[i] = info
          /\ \A j \in DOMAIN registered : registered'[j] = registered[j]
      BY <2>2, <2>0 DEF Put
    <3>2. \A q \in queue' : q.id \in DOMAIN registered' /\ registered'[q.id] = q.info
      BY <2>2, <3>1, <2>0
    <3>3. TypeInv'
      BY <1>1, <1>3, <2>0, <2>2, <3>1, <3>2 DEF TypeInv
    <3> QED BY <3>1, <3>3, <2>2, <2>0 DEF Present, Info
  <2> QED BY <1>4, <2>1, <2>2
<1> QED BY <1>1, <1>2, <1>5, Entered DEF Inv

(* An update of an active node.                                            *)
LEMMA RenameInv ==
  ASSUME Inv, NEW i \in NodeIds, NEW r \in Roles, NEW new \in Infos \cup {None},
         Update, RenameActive(i, r, new)
  PROVE  Inv'
<1>1. /\ i \in DOMAIN nodes /\ Rename(i, r, nodes[i][r], new)
      /\ nodes' = [nodes EXCEPT ![i][r] = new]
      /\ UNCHANGED <<registered, uids, queue, watchVars>>
  BY DEF RenameActive, Update
<1>2. /\ Info(i) = nodes[i] /\ nodes[i] \in NodeInfo /\ nodes[i][r] \in Infos \cup {None}
      /\ [nodes[i] EXCEPT ![r] = new] \in NodeInfo /\ i \in Present
  BY <1>1 DEF Info, Inv, TypeInv, NodeInfo, Present
<1>3. nodes' = [nodes EXCEPT ![i] = [nodes[i] EXCEPT ![r] = new]]
  BY <1>1
<1>4. /\ index' \in [Roles -> [PeerIds -> NodeIds \cup {0}]]
      /\ MultiaddrSubnetNodeId' \in [Multiaddrs -> NodeIds \cup {0}]
  BY <1>1, <1>2, RenameType DEF Inv
<1>5. /\ DOMAIN nodes' = DOMAIN nodes /\ nodes' \in [DOMAIN nodes -> NodeInfo]
      /\ nodes'[i] = [Info(i) EXCEPT ![r] = new]
      /\ \A j \in DOMAIN nodes : j # i => nodes'[j] = nodes[j]
  BY <1>1, <1>2, <1>3 DEF Inv, TypeInv
<1>6. TypeInv'
  BY <1>1, <1>4, <1>5 DEF Inv, TypeInv, watchVars
<1>7. /\ Present' = Present /\ Info(i)' = [Info(i) EXCEPT ![r] = new]
      /\ \A j \in Present : j # i => Info(j)' = Info(j)
  BY <1>1, <1>5 DEF Present, Info
<1> QED BY <1>1, <1>2, <1>6, <1>7, Renamed DEF Inv

(* do_activate_subnet_node inserts the copy, which is what it copies.      *)
LEMMA ActivateInv ==
  ASSUME Inv, NEW node \in queue, do_activate_subnet_node(node)
  PROVE  Inv'
<1>1. /\ nodes' = Put(nodes, node.id, node.info) /\ registered' = Without(registered, node.id)
      /\ queue' = {q \in queue : q.id # node.id}
      /\ UNCHANGED <<uids, indexVars, watchVars>>
  BY DEF do_activate_subnet_node
<1>2. /\ node.id \in DOMAIN registered /\ registered[node.id] = node.info
      /\ node.id \notin DOMAIN nodes /\ node.info \in NodeInfo
  BY DEF Inv, TypeInv
<1>3. /\ DOMAIN nodes' = DOMAIN nodes \cup {node.id}
      /\ DOMAIN registered' = DOMAIN registered \ {node.id}
      /\ nodes' \in [DOMAIN nodes' -> NodeInfo] /\ registered' \in [DOMAIN registered' -> NodeInfo]
      /\ nodes'[node.id] = node.info /\ \A j \in DOMAIN nodes : nodes'[j] = nodes[j]
      /\ \A j \in DOMAIN registered' : registered'[j] = registered[j]
  BY <1>1, <1>2 DEF Put, Without, Restrict, Inv, TypeInv
<1>4. TypeInv'
  BY <1>1, <1>2, <1>3 DEF Inv, TypeInv, indexVars, watchVars
<1>5. Present' = Present /\ \A j \in Present : Info(j)' = Info(j)
  BY <1>2, <1>3 DEF Present, Info
<1> QED BY <1>1, <1>4, <1>5, SameNames DEF Inv

(* perform_remove_subnet_node, for an active or a queued node.             *)
LEMMA RemoveInv ==
  ASSUME Inv, NEW i \in NodeIds, perform_remove_subnet_node(i)
  PROVE  Inv'
<1>0. UNCHANGED <<uids, watchVars>>
  BY DEF perform_remove_subnet_node
<1>1. ASSUME i \in Present, common_remove_subnet_node(Info(i)), Present' = Present \ {i},
             \A j \in Present' : Info(j)' = Info(j),
             nodes' \in [DOMAIN nodes' -> NodeInfo], DOMAIN nodes' \subseteq DOMAIN nodes,
             registered' \in [DOMAIN registered' -> NodeInfo],
             DOMAIN registered' \subseteq DOMAIN registered,
             \A q \in queue' : q.id \in DOMAIN registered' /\ registered'[q.id] = q.info
      PROVE  Inv'
  <2>1. /\ index' \in [Roles -> [PeerIds -> NodeIds \cup {0}]]
        /\ MultiaddrSubnetNodeId' \in [Multiaddrs -> NodeIds \cup {0}]
    BY <1>1, InfoTyped, EntryType DEF common_remove_subnet_node, Inv
  <2>2. TypeInv'
    BY <1>0, <1>1, <2>1 DEF Inv, TypeInv, watchVars
  <2> QED BY <1>0, <1>1, <2>2, Left DEF Inv
<1>2. CASE /\ i \in DOMAIN nodes /\ common_remove_subnet_node(nodes[i])
           /\ nodes' = Without(nodes, i) /\ UNCHANGED <<registered, queue>>
  <2>1. /\ DOMAIN nodes' = DOMAIN nodes \ {i} /\ nodes' \in [DOMAIN nodes' -> NodeInfo]
        /\ \A j \in DOMAIN nodes' : nodes'[j] = nodes[j] /\ i \notin DOMAIN registered
    BY <1>2 DEF Without, Restrict, Inv, TypeInv
  <2>2. i \notin DOMAIN registered
    BY <1>2 DEF Inv, TypeInv
  <2>3. /\ i \in Present /\ Info(i) = nodes[i] /\ Present' = Present \ {i}
        /\ \A j \in Present' : Info(j)' = Info(j)
    BY <1>2, <2>1, <2>2 DEF Present, Info
  <2> QED BY <1>1, <1>2, <2>1, <2>3 DEF Inv, TypeInv
<1>3. CASE /\ i \in DOMAIN registered \ DOMAIN nodes /\ common_remove_subnet_node(registered[i])
           /\ registered' = Without(registered, i) /\ queue' = {q \in queue : q.id # i}
           /\ UNCHANGED nodes
  <2>1. /\ DOMAIN registered' = DOMAIN registered \ {i}
        /\ registered' \in [DOMAIN registered' -> NodeInfo]
        /\ \A j \in DOMAIN registered' : registered'[j] = registered[j]
    BY <1>3 DEF Without, Restrict, Inv, TypeInv
  <2>2. /\ i \in Present /\ Info(i) = registered[i] /\ Present' = Present \ {i}
        /\ \A j \in Present' : Info(j)' = Info(j)
    BY <1>3, <2>1 DEF Present, Info
  <2>3. \A q \in queue' : q.id \in DOMAIN registered' /\ registered'[q.id] = q.info
    BY <1>3, <2>1 DEF Inv, TypeInv
  <2> QED BY <1>1, <1>3, <2>1, <2>2, <2>3 DEF Inv, TypeInv
<1> QED BY <1>2, <1>3 DEF perform_remove_subnet_node

(* clean_subnet_nodes leaves no node and no entry.                         *)
LEMMA CleanInv == ASSUME Inv, clean_subnet_nodes PROVE Inv'
<1> USE PeerAssumption
<1>1. /\ uids' = 0 /\ DOMAIN nodes' = {} /\ DOMAIN registered' = {} /\ queue' = {}
      /\ nodes' \in [{} -> NodeInfo] /\ registered' \in [{} -> NodeInfo]
      /\ index' = [r \in Roles |-> NoEntries] /\ MultiaddrSubnetNodeId' = [m \in Multiaddrs |-> 0]
      /\ UNCHANGED watchVars
  BY DEF clean_subnet_nodes, EmptyMap
<1>2. TypeInv'
  BY <1>1 DEF Inv, TypeInv, watchVars, NoEntries
<1>3. Present' = {}
  BY <1>1 DEF Present
<1>4. IndexTruthful'
  BY <1>1, <1>3 DEF Inv, NamesInv, IndexTruthful, watchVars, NoEntries, NodeIds
<1>5. OneRole' /\ OwnAddresses'
  BY <1>1, <1>3 DEF OneRole, OwnAddresses, NoEntries
<1> QED BY <1>2, <1>4, <1>5 DEF Inv, NamesInv

(* The calls of overwatch nodes.                                           *)
LEMMA WatchInv ==
  ASSUME Inv, NEW w \in Watchers,
         \/ \E p \in PeerIds : do_set_overwatch_node_peer_id(w, p)
         \/ perform_remove_overwatch_node(w)
  PROVE  Inv'
<1> USE PeerAssumption
<1>1. UNCHANGED <<nodeVars, indexVars>>
  BY DEF do_set_overwatch_node_peer_id, perform_remove_overwatch_node
<1>2. /\ PeerIdOverwatchNodeId \in [PeerIds -> Watchers \cup {0}]
      /\ OverwatchNodeIndex \in [Watchers -> PeerIds \cup {None}] /\ w # 0
      /\ \A u \in Watchers : OverwatchNodeIndex[u] # None =>
            PeerIdOverwatchNodeId[OverwatchNodeIndex[u]] = u
  BY DEF Inv, TypeInv, NamesInv, IndexTruthful
<1>3. /\ PeerIdOverwatchNodeId' \in [PeerIds -> Watchers \cup {0}]
      /\ OverwatchNodeIndex' \in [Watchers -> PeerIds \cup {None}]
      /\ \A u \in Watchers : OverwatchNodeIndex'[u] # None =>
            PeerIdOverwatchNodeId'[OverwatchNodeIndex'[u]] = u
      /\ \A p \in PeerIds : PeerIdOverwatchNodeId'[p] # 0 =>
            PeerIdOverwatchNodeId[p] # 0 \/ \A r \in Roles : index[r][p] = 0
  <2>1. CASE \E p \in PeerIds : do_set_overwatch_node_peer_id(w, p)
    <3>1. PICK p \in PeerIds : do_set_overwatch_node_peer_id(w, p)
      BY <2>1
    <3>2. /\ PeerIdOverwatchNodeId[p] = 0 /\ \A r \in Roles : index[r][p] = 0
          /\ PeerIdOverwatchNodeId' = [PeerIdOverwatchNodeId EXCEPT ![p] = w]
          /\ OverwatchNodeIndex' = [OverwatchNodeIndex EXCEPT ![w] = p]
      BY <3>1 DEF do_set_overwatch_node_peer_id, is_owner_of_peer_or_ownerless
    <3> QED BY <3>2, <1>2
  <2>2. CASE perform_remove_overwatch_node(w)
    <3>1. /\ PeerIdOverwatchNodeId' = Entry(PeerIdOverwatchNodeId, OverwatchNodeIndex[w], 0)
          /\ OverwatchNodeIndex' = [OverwatchNodeIndex EXCEPT ![w] = None]
      BY <2>2 DEF perform_remove_overwatch_node
    <3> QED BY <3>1, <1>2 DEF Entry
  <2> QED BY <2>1, <2>2
<1>4. TypeInv'
  BY <1>1, <1>3 DEF Inv, TypeInv, nodeVars, indexVars
<1>5. Present' = Present /\ \A j \in Present : Info(j)' = Info(j)
  BY <1>1 DEF nodeVars, Present, Info
<1>6. IndexTruthful'
  BY <1>1, <1>3, <1>5 DEF Inv, NamesInv, IndexTruthful, indexVars
<1>7. OneRole'
  BY <1>1, <1>3 DEF Inv, NamesInv, OneRole, indexVars
<1>8. OwnAddresses'
  BY <1>5 DEF Inv, NamesInv, OwnAddresses
<1> QED BY <1>4, <1>6, <1>7, <1>8 DEF Inv, NamesInv

(* Every step, when queued nodes are not updated.                          *)
LEMMA NextInv == ASSUME ~QueuedUpdates, Inv, [Next]_vars PROVE Inv'
<1> USE PeerAssumption
<1>1. ASSUME NEW i \in NodeIds, NEW info \in Infos \cup {None},
             \/ do_update_node_peer_info(i, info)
             \/ do_update_node_bootnode_peer_info(i, info)
             \/ do_update_node_client_peer_info(i, info)
      PROVE  Inv'
  <2>1. \E r \in Roles : Update /\ RenameActive(i, r, info)
    BY <1>1 DEF do_update_node_peer_info, do_update_node_bootnode_peer_info,
         do_update_node_client_peer_info, Roles
  <2> QED BY <2>1, RenameInv
<1>2. CASE Register \/ EvmRegister
  <2>1. \E info \in NodeInfo : register_subnet_node(info)
    BY <1>2 DEF Register, EvmRegister, NodeInfos, EvmInfos, NodeInfo
  <2> QED BY <2>1, RegisterInv
<1>3. CASE Updates \/ EvmUpdates
  BY <1>1, <1>3 DEF Updates, EvmUpdates, EvmInfos
<1>4. CASE Activate
  BY <1>4, ActivateInv DEF Activate
<1>5. CASE Remove \/ EvmRemove
  BY <1>5, RemoveInv DEF Remove, EvmRemove
<1>6. CASE do_activate_subnet \/ UNCHANGED vars
  <2>1. UNCHANGED <<nodeVars, indexVars, watchVars>>
    BY <1>6 DEF do_activate_subnet, vars
  <2>2. Present' = Present /\ \A j \in Present : Info(j)' = Info(j)
    BY <2>1 DEF nodeVars, Present, Info
  <2>3. TypeInv'
    BY <2>1 DEF Inv, TypeInv, nodeVars, indexVars, watchVars
  <2> QED BY <2>1, <2>2, <2>3, SameNames DEF Inv
<1>7. CASE clean_subnet_nodes
  BY <1>7, CleanInv
<1>8. CASE Watch \/ EvmWatch
  BY <1>8, WatchInv DEF Watch, EvmWatch
<1> QED BY <1>2, <1>3, <1>4, <1>5, <1>6, <1>7, <1>8 DEF Next

(* A new subnet has no names.                                              *)
LEMMA InitInv == Init => Inv
<1> SUFFICES ASSUME Init PROVE Inv
  OBVIOUS
<1> USE PeerAssumption
<1>1. /\ DOMAIN nodes = {} /\ DOMAIN registered = {}
      /\ nodes \in [{} -> NodeInfo] /\ registered \in [{} -> NodeInfo]
  BY DEF Init, EmptyMap
<1>2. TypeInv
  BY <1>1 DEF Init, TypeInv, NoEntries
<1>3. IndexTruthful
  BY <1>1 DEF Init, IndexTruthful, Present, NoEntries, NodeIds
<1>4. OneRole /\ OwnAddresses
  BY <1>1 DEF Init, OneRole, OwnAddresses, Present, NoEntries
<1> QED BY <1>2, <1>3, <1>4 DEF Inv, NamesInv

(* The invariant holds, when queued nodes are not updated.                 *)
THEOREM RegistryInvariant == ASSUME ~QueuedUpdates PROVE Spec => []Inv
  BY InitInv, NextInv, PTL DEF Spec

(* No peer id and no address is ever held in two places, by any number of  *)
(* nodes and overwatch nodes: what validate_peer_info is to guarantee, as  *)
(* long as the calls that change bootnode and client peers are made for    *)
(* active nodes only.                                                      *)
THEOREM PeersStayUnique == ASSUME ~QueuedUpdates PROVE Spec => []PeersUnique
  BY RegistryInvariant, InvUnique, PTL

(* The indices of peer ids and addresses and the data of the nodes say the *)
(* same after every sequence of registrations, updates of active nodes,    *)
(* activations and removals.                                               *)
THEOREM IndexStaysTruthful == ASSUME ~QueuedUpdates PROVE Spec => []IndexTruthful
<1>1. Inv => IndexTruthful
  BY DEF Inv, NamesInv
<1> QED BY <1>1, RegistryInvariant, PTL
================================================================================

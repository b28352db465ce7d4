------------------------------ MODULE PeerRegistry ------------------------------
(***************************************************************************)
(* The peer ids and addresses of one subnet: a node is reached at a peer   *)
(* id, and may serve as a bootnode and a client under two more, each with  *)
(* or without a multiaddr; overwatch nodes have a peer id in the subnet    *)
(* too.  All of them are one namespace, but it is kept in five indices     *)
(* beside the data of the nodes, and each call that gives, changes or      *)
(* frees a name writes some of them.                                       *)
(*                                                                         *)
(* Who may call, and when a queued node is activated or any node removed,  *)
(* is in SubnetNodes and ValidatorKeys; here it may happen at any time.    *)
(***************************************************************************)
EXTENDS Integers, Functions

CONSTANTS
  PeerIds, Multiaddrs,
  WellFormed,           \* the ids and addresses that have the form of one
  ShortIds,             \* the ids of at most 64 bytes, which fit a precompile's string
  None,
  Watchers,             \* overwatch node ids
  QueuedUpdates,        \* whether owners update nodes that are still queued
  MaxNodes, MaxUpdates  \* bounds

Roles == {"peer", "bootnode", "client"}
NodeIds == 1 .. MaxNodes
Infos == [id : PeerIds, addr : Multiaddrs \cup {None}]

ASSUME PeerAssumption ==
  /\ None \notin PeerIds \cup Multiaddrs \cup Infos \cup Watchers
  /\ WellFormed \subseteq PeerIds \cup Multiaddrs /\ ShortIds \subseteq PeerIds
  /\ Watchers \subseteq Nat \ {0}
  /\ QueuedUpdates \in BOOLEAN /\ {MaxNodes, MaxUpdates} \subseteq Nat

VARIABLES
  state,                  \* of the subnet
  uids,                   \* TotalSubnetNodeUids
  nodes, registered,      \* SubnetNodesData, RegisteredSubnetNodesData: id -> role -> info
  queue,                  \* SubnetNodeQueue: copies of registered nodes, in any order
  index,                  \* role -> peer id -> node, 0 if none: PeerIdSubnetNodeId,
                          \* BootnodePeerIdSubnetNodeId, ClientPeerIdSubnetNodeId
  MultiaddrSubnetNodeId,
  PeerIdOverwatchNodeId,
  OverwatchNodeIndex,     \* overwatch node -> its peer id in the subnet
  OverwatchNodes,
  nupdates                \* bound

nodeVars == <<uids, nodes, registered, queue>>
indexVars == <<index, MultiaddrSubnetNodeId>>
watchVars == <<PeerIdOverwatchNodeId, OverwatchNodeIndex, OverwatchNodes>>
vars == <<state, nodeVars, indexVars, watchVars, nupdates>>

NoEntries == [p \in PeerIds |-> 0]
EmptyMap == [i \in {} |-> None]

Init ==
  /\ state = "Registered" /\ uids = 0
  /\ nodes = EmptyMap /\ registered = EmptyMap /\ queue = {}
  /\ index = [r \in Roles |-> NoEntries]
  /\ MultiaddrSubnetNodeId = [m \in Multiaddrs |-> 0]
  /\ PeerIdOverwatchNodeId = NoEntries
  /\ OverwatchNodeIndex = [w \in Watchers |-> None] /\ OverwatchNodes = Watchers
  /\ nupdates = 0
--------------------------------------------------------------------------------
Put(f, k, v) == [x \in DOMAIN f \cup {k} |-> IF x = k THEN v ELSE f[x]]
Without(f, k) == Restrict(f, DOMAIN f \ {k})

IdOf(info) == IF info = None THEN None ELSE info.id
AddrOf(info) == IF info = None THEN None ELSE info.addr

(* An entry in an index is set, if there is a name to set it for.          *)
Entry(f, name, i) == IF name = None THEN f ELSE [f EXCEPT ![name] = i]

(* Names of a whole node are entered in the indices, or with 0 removed.    *)
EntryOfAll(info, i) ==
  /\ index' = [r \in Roles |-> Entry(index[r], IdOf(info[r]), i)]
  /\ MultiaddrSubnetNodeId' =
       [m \in Multiaddrs |-> IF \E r \in Roles : AddrOf(info[r]) = m THEN i
                             ELSE MultiaddrSubnetNodeId[m]]
--------------------------------------------------------------------------------
(***************************************************************************)
(* What a new name must satisfy: its form, and that nobody has it.         *)
(***************************************************************************)
validate_peer_id(p) == p \in WellFormed

(* Mutant: the client ids are not looked up.                               *)
OwnerlessButClient(p) ==
  index["peer"][p] = 0 /\ index["bootnode"][p] = 0 /\ PeerIdOverwatchNodeId[p] = 0

(* The calls ask on behalf of node 0 and overwatch node 0, which nobody    *)
(* is: a name that is taken by the caller itself is refused as well.       *)
is_owner_of_peer_or_ownerless(p) ==
  (\A r \in Roles : index[r][p] = 0) /\ PeerIdOverwatchNodeId[p] = 0

is_owner_of_multiaddr_or_ownerless(m) == MultiaddrSubnetNodeId[m] = 0

validate_peer_info(info) ==
  /\ validate_peer_id(info.id)
  /\ is_owner_of_peer_or_ownerless(info.id)
  /\ info.addr # None =>
       info.addr \in WellFormed /\ is_owner_of_multiaddr_or_ownerless(info.addr)

validate_registration_peer_infos(info) ==
  /\ \A r \in Roles : info[r] # None => validate_peer_info(info[r])
  /\ \A q, r \in Roles : q # r /\ info[q] # None /\ info[r] # None =>
       /\ info[q].id # info[r].id
       /\ info[q].addr # None => info[q].addr # info[r].addr
--------------------------------------------------------------------------------
(***************************************************************************)
(* Nodes.                                                                  *)
(***************************************************************************)
register_subnet_node(info) ==
  LET i == uids + 1
  IN  /\ state # "Removed" /\ i \in NodeIds
      /\ validate_registration_peer_infos(info)
      /\ uids' = i
      /\ EntryOfAll(info, i)
      /\ IF state = "Registered"
         THEN nodes' = Put(nodes, i, info) /\ UNCHANGED <<registered, queue>>
         ELSE /\ registered' = Put(registered, i, info)
              /\ queue' = queue \cup {[id |-> i, info |-> info]}
              /\ UNCHANGED nodes
      /\ UNCHANGED <<state, watchVars, nupdates>>

(* Mutant: the name a node had stays in the index.                         *)
RenameKeepsOld(i, r, old, new) ==
  /\ new # None => validate_peer_info(new)
  /\ index' = [index EXCEPT ![r] = Entry(@, IdOf(new), i)]
  /\ MultiaddrSubnetNodeId' = Entry(MultiaddrSubnetNodeId, AddrOf(new), i)

(* What the three updates have in common.                                  *)
Rename(i, r, old, new) ==
  /\ new # None => validate_peer_info(new)
  /\ index' = [index EXCEPT ![r] = Entry(Entry(@, IdOf(old), 0), IdOf(new), i)]
  /\ MultiaddrSubnetNodeId' =
       Entry(Entry(MultiaddrSubnetNodeId, AddrOf(old), 0), AddrOf(new), i)

Update ==
  /\ nupdates < MaxUpdates /\ nupdates' = nupdates + 1
  /\ UNCHANGED <<state, uids, queue, watchVars>>

RenameActive(i, r, new) ==
  /\ i \in DOMAIN nodes
  /\ Rename(i, r, nodes[i][r], new)
  /\ nodes' = [nodes EXCEPT ![i][r] = new]
  /\ UNCHANGED registered

(* The copy in the queue stays as it is.                                   *)
RenameQueued(i, r, new) ==
  /\ i \in DOMAIN registered \ DOMAIN nodes
  /\ Rename(i, r, registered[i][r], new)
  /\ registered' = [registered EXCEPT ![i][r] = new]
  /\ UNCHANGED nodes

(* Both branches of the code look the node up among the active ones.       *)
do_update_node_peer_info(i, new) == Update /\ RenameActive(i, "peer", new)

do_update_node_bootnode_peer_info(i, new) ==
  /\ Update
  /\ \/ RenameActive(i, "bootnode", new)
     \/ QueuedUpdates /\ RenameQueued(i, "bootnode", new)

do_update_node_client_peer_info(i, new) ==
  /\ Update
  /\ \/ RenameActive(i, "client", new)
     \/ QueuedUpdates /\ RenameQueued(i, "client", new)

(* From the queue, by the copy in it.  Any of them: a consensus may have   *)
(* moved it to the front.                                                  *)
do_activate_subnet_node(node) ==
  /\ state = "Active"
  /\ nodes' = Put(nodes, node.id, node.info)
  /\ registered' = Without(registered, node.id)
  /\ queue' = {q \in queue : q.id # node.id}
  /\ UNCHANGED <<state, uids, indexVars, watchVars, nupdates>>

(* What the node's data names is freed.                                    *)
common_remove_subnet_node(info) == EntryOfAll(info, 0)

perform_remove_subnet_node(i) ==
  /\ \/ /\ i \in DOMAIN nodes
        /\ common_remove_subnet_node(nodes[i])
        /\ nodes' = Without(nodes, i) /\ UNCHANGED <<registered, queue>>
     \/ /\ i \in DOMAIN registered \ DOMAIN nodes
        /\ common_remove_subnet_node(registered[i])
        /\ registered' = Without(registered, i)
        /\ queue' = {q \in queue : q.id # i}
        /\ UNCHANGED nodes
  /\ UNCHANGED <<state, uids, watchVars, nupdates>>
--------------------------------------------------------------------------------
(***************************************************************************)
(* The subnet and the overwatch nodes.                                     *)
(***************************************************************************)
do_activate_subnet ==
  /\ state = "Registered" /\ state' = "Active"
  /\ UNCHANGED <<nodeVars, indexVars, watchVars, nupdates>>

(* The overwatch nodes keep their peer ids, in a subnet that will not      *)
(* come back.                                                              *)
clean_subnet_nodes ==
  /\ state # "Removed" /\ state' = "Removed"
  /\ uids' = 0
  /\ nodes' = EmptyMap /\ registered' = EmptyMap /\ queue' = {}
  /\ index' = [r \in Roles |-> NoEntries]
  /\ MultiaddrSubnetNodeId' = [m \in Multiaddrs |-> 0]
  /\ UNCHANGED <<watchVars, nupdates>>

(* The peer id it had stays in PeerIdOverwatchNodeId; and one that was     *)
(* removed may still set a peer id.                                        *)
do_set_overwatch_node_peer_id(w, p) ==
  /\ state # "Removed"
  /\ nupdates < MaxUpdates /\ nupdates' = nupdates + 1
  /\ validate_peer_id(p) /\ is_owner_of_peer_or_ownerless(p)
  /\ PeerIdOverwatchNodeId' = [PeerIdOverwatchNodeId EXCEPT ![p] = w]
  /\ OverwatchNodeIndex' = [OverwatchNodeIndex EXCEPT ![w] = p]
  /\ UNCHANGED <<state, nodeVars, indexVars, OverwatchNodes>>

perform_remove_overwatch_node(w) ==
  /\ w \in OverwatchNodes
  /\ OverwatchNodes' = OverwatchNodes \ {w}
  /\ PeerIdOverwatchNodeId' = Entry(PeerIdOverwatchNodeId, OverwatchNodeIndex[w], 0)
  /\ OverwatchNodeIndex' = [OverwatchNodeIndex EXCEPT ![w] = None]
  /\ UNCHANGED <<state, nodeVars, indexVars, nupdates>>
--------------------------------------------------------------------------------
(***************************************************************************)
(* The precompiles.  An empty id means None when a node registers; in an   *)
(* update it is an id, which is refused, so they remove no name.           *)
(***************************************************************************)
EvmInfos == {info \in Infos : info.id \in ShortIds}

NodeInfos(S) == {info \in [Roles -> S \cup {None}] : info["peer"] # None}

EvmRegister == \E info \in NodeInfos(EvmInfos) : register_subnet_node(info)

EvmRemove == \E i \in NodeIds : perform_remove_subnet_node(i)

EvmUpdates == \E i \in NodeIds, info \in EvmInfos :
  \/ do_update_node_peer_info(i, info)
  \/ do_update_node_bootnode_peer_info(i, info)
  \/ do_update_node_client_peer_info(i, info)

EvmWatch == \E w \in Watchers, p \in ShortIds : do_set_overwatch_node_peer_id(w, p)
--------------------------------------------------------------------------------
Register == \E info \in NodeInfos(Infos) : register_subnet_node(info)

Updates == \E i \in NodeIds :
  \/ \E info \in Infos : do_update_node_peer_info(i, info)
  \/ \E info \in Infos \cup {None} :
       \/ do_update_node_bootnode_peer_info(i, info)
       \/ do_update_node_client_peer_info(i, info)

Activate == \E node \in queue : do_activate_subnet_node(node)

Remove == \E i \in NodeIds : perform_remove_subnet_node(i)

Watch == \E w \in Watchers :
  \/ \E p \in PeerIds : do_set_overwatch_node_peer_id(w, p)
  \/ perform_remove_overwatch_node(w)

Next ==
  \/ Register \/ Updates \/ Activate \/ Remove
  \/ do_activate_subnet \/ clean_subnet_nodes \/ Watch
  \/ EvmRegister \/ EvmRemove \/ EvmUpdates \/ EvmWatch

Spec == Init /\ [][Next]_vars
--------------------------------------------------------------------------------
(***************************************************************************)
(* Properties.                                                             *)
(***************************************************************************)
Present == DOMAIN nodes \cup DOMAIN registered
Info(i) == IF i \in DOMAIN nodes THEN nodes[i] ELSE registered[i]

(* Every place a peer id can be held: a role of a node, or an overwatch    *)
(* node.                                                                   *)
Places == (Present \X Roles) \cup (Watchers \X {"overwatch"})
HeldIn(place) == IF place[2] = "overwatch" THEN OverwatchNodeIndex[place[1]]
                 ELSE IdOf(Info(place[1])[place[2]])

(* No peer id and no address is held in two places, by nodes or overwatch  *)
(* nodes, whatever was registered, renamed, activated and removed between  *)
(* the two: "Main, bootnode, and client peer IDs must be unique so we      *)
(* check all of them to ensure that no one else owns them".                *)
PeersUnique ==
  /\ \A x, y \in Places : x # y /\ HeldIn(x) # None => HeldIn(x) # HeldIn(y)
  /\ \A i, j \in Present : \A q, r \in Roles :
       <<i, q>> # <<j, r>> /\ AddrOf(Info(i)[q]) # None
         => AddrOf(Info(i)[q]) # AddrOf(Info(j)[r])

(* The indices say who has which name, neither more nor less: a name that  *)
(* is indexed is in the data of that node, so that names are not lost for  *)
(* good, and a name in the data of a node is indexed, so that nobody else  *)
(* is given it.  Of the overwatch nodes' index only the second holds.      *)
IndexTruthful ==
  /\ \A r \in Roles : \A p \in PeerIds : \A i \in NodeIds :
       index[r][p] = i <=> i \in Present /\ IdOf(Info(i)[r]) = p
  /\ \A m \in Multiaddrs : \A i \in NodeIds :
       MultiaddrSubnetNodeId[m] = i
         <=> i \in Present /\ \E r \in Roles : AddrOf(Info(i)[r]) = m
  /\ \A w \in Watchers : LET p == OverwatchNodeIndex[w]
                         IN  p # None => PeerIdOverwatchNodeId[p] = w
================================================================================

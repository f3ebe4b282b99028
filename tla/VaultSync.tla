----------------------------- MODULE VaultSync -----------------------------
(***************************************************************************)
(* How the clients of the auth server keep up with the vault                  *)
(* (AuthServ/AuthVault.cpp, AuthDaemon.cpp, AuthServer.cpp, db/functions.sql).  *)
(* Vault nodes form a graph of references.  A client holds the trees below its  *)
(* player's node and below the node of the age it is in: it fetches them, and   *)
(* is then told of changes by broadcasts.  The daemon changes the vault, takes  *)
(* s_authClientMutex and visits every client; what it puts on their channels is *)
(* one shared, reference-counted buffer.  A worker answers its client's         *)
(* requests and forwards broadcasts from two channels, so that a tree may       *)
(* overtake changes that are older than it.                                     *)
(*                                                                              *)
(* Abstracted: a node's fields are a version number; which client asked for a   *)
(* change does not matter; a request the worker is blocked on and the daemon    *)
(* has not taken yet looks like one not made.  A statement that fails before    *)
(* the broadcast changes nothing and is a stuttering step; vault.has_node and    *)
(* the channels' put do not fail.                                               *)
(* The game client is external: it fetches the subtree and the contents of      *)
(* every node it is told of.                                                    *)
(***************************************************************************)
EXTENDS Integers, Sequences, FiniteSets

Seqs == INSTANCE SequencesExt

CONSTANTS
    Clients,      \* connections with a player set
    Nodes,        \* vault node ids
    Player,       \* client->m_player.m_playerId of each connection
    Ages,         \* nodes of ages with a game host
    Inboxes,      \* folders of type e_InboxFolder
    PlayerInfos,  \* nodes of type e_NodePlayerInfo
    AllPlayers,   \* s_allPlayers
    Links,        \* references that clients make: <<parent, child>>
    OldRefs,      \* references that exist at the start
    NoNode,       \* node id 0
    MaxChanges    \* bound on broadcast changes

\* vault.fetch_tree: the node n and everything below it along the references R,
\* level by level.
Tree(R, n) ==
    LET reach[i \in 0 .. Cardinality(Nodes)] ==
            IF i = 0 THEN {n}
            ELSE LET above == reach[i - 1]
                 IN  above \cup {e[2] : e \in {r \in R : r[1] \in above}}
    IN  reach[Cardinality(Nodes)]

ASSUME NodeAssumption ==
    /\ IsFiniteSet(Nodes) /\ NoNode \notin Nodes /\ IsFiniteSet(Clients)
    /\ Player \in [Clients -> Nodes]
    /\ Ages \cup Inboxes \cup PlayerInfos \cup {AllPlayers} \subseteq Nodes
    /\ OldRefs \subseteq Links /\ Links \subseteq Nodes \X Nodes
ASSUME ChangesAssumption == MaxChanges \in Nat

\* vault.has_node and vault.fetch_tree recurse without looking for cycles.
ASSUME AcyclicAssumption ==
    \A e \in Links : e[1] \notin Tree(Links, e[2])

VARIABLES
    refs,           \* vault."NodeRefs"
    version,        \* contents of each node
    changes,        \* changes broadcast so far: the newest buffer
    m_refs,         \* reference count of each buffer
    bcast,          \* the daemon: the buffer it sends, the clients not visited
    s_authClients,  \* the list of clients
    wpc,            \* each worker: not connected, in its loop (waiting in poll,
                    \* with a request, the same with a broadcast after it, with
                    \* that broadcast left), or ending
    m_broadcast,    \* broadcasts waiting for each worker
    m_ageNodeId,    \* client->m_ageNodeId
    view,           \* references the game client knows
    known,          \* version of each node the game client knows
    requests        \* requests on the socket of each client, oldest first

vaultVars == <<refs, version>>
bufferVars == <<changes, m_refs, bcast>>
clientVars == <<view, known, requests>>
vars == <<vaultVars, bufferVars, s_authClients, wpc, m_broadcast, m_ageNodeId, clientVars>>

Buffers == 1 .. MaxChanges
Unknown == -1

\* A broadcast: NodeAdded and NodeRemoved carry a reference, NodeChanged a node.
Broadcast(b, kind, p, n) == [buf |-> b, kind |-> kind, parent |-> p, child |-> n]
Broadcasts == [buf : Buffers \cup {0}, kind : {"added", "removed", "changed"},
               parent : Nodes \cup {NoNode}, child : Nodes \cup {NoNode}]

Quiet == [msg |-> Broadcast(0, "changed", NoNode, NoNode), left |-> {}]

\* The replies to cb_nodeTree and cb_nodeFetch.
Fetch(kind, n) == [kind |-> kind, node |-> n]
Fetches == [kind : {"tree", "node"}, node : Nodes]
FetchNodes(S) == {Fetch("node", n) : n \in S}

\* The game client asks for what it is not waiting for already.
Ask(c, waiting, fetches) ==
    requests' = [requests EXCEPT ![c] =
        waiting \o Seqs!SetToSeq(fetches \ {waiting[i] : i \in DOMAIN waiting})]

Looping == {"idle", "request", "both", "broadcast"}

TypeOK ==
    /\ refs \subseteq Links
    /\ version \in [Nodes -> 0 .. MaxChanges]
    /\ changes \in 0 .. MaxChanges
    /\ m_refs \in [Buffers -> 0 .. Cardinality(Clients) + 1]
    /\ bcast \in [msg : Broadcasts, left : SUBSET Clients]
    /\ s_authClients \subseteq Clients
    /\ wpc \in [Clients -> {"out", "drain"} \cup Looping]
    /\ m_broadcast \in [Clients -> Seq(Broadcasts)]
    /\ m_ageNodeId \in [Clients -> Ages \cup {NoNode}]
    /\ view \in [Clients -> SUBSET Links]
    /\ known \in [Clients -> [Nodes -> Unknown .. MaxChanges]]
    /\ requests \in [Clients -> Seq(Fetches)]

Init ==
    /\ refs = OldRefs
    /\ version = [n \in Nodes |-> 0]
    /\ changes = 0
    /\ m_refs = [b \in Buffers |-> 0]
    /\ bcast = Quiet
    /\ s_authClients = {}
    /\ wpc = [c \in Clients |-> "out"]
    /\ m_broadcast = [c \in Clients |-> <<>>]
    /\ m_ageNodeId = [c \in Clients |-> NoNode]
    /\ view = [c \in Clients |-> {}]
    /\ known = [c \in Clients |-> [n \in Nodes |-> Unknown]]
    /\ requests = [c \in Clients |-> <<>>]

-----------------------------------------------------------------------------
(* The daemon.                                                               *)

DaemonIdle == bcast = Quiet

\* v_has_node: the parent id 0 has nothing, every node has itself.
v_has_node(parent, n) == parent # NoNode /\ n \in Tree(refs, parent)

\* Variant: only the player's tree is looked at.
HoldsInPlayer(c, n) == v_has_node(Player[c], n)

\* Who is told of a change: its age's tree or its player's tree has the node.
Holds(c, n) == v_has_node(m_ageNodeId[c], n) \/ v_has_node(Player[c], n)

\* The node that a client must have in its trees to be told.
Subject(msg) == IF msg.kind = "changed" THEN msg.child ELSE msg.parent

\* dm_auth_bcast_*: a new buffer with one reference, the mutex is taken, and the
\* visit of the list begins.
Announce(kind, p, n) ==
    /\ changes < MaxChanges
    /\ changes' = changes + 1
    /\ m_refs' = [m_refs EXCEPT ![changes + 1] = 1]
    /\ bcast' = [msg |-> Broadcast(changes + 1, kind, p, n), left |-> s_authClients]
    /\ UNCHANGED <<s_authClients, wpc, m_broadcast, m_ageNodeId, clientVars>>

\* e_VaultRefNode
v_ref_node(p, n) ==
    /\ DaemonIdle
    /\ <<p, n>> \in Links
    /\ refs' = refs \cup {<<p, n>>}
    /\ Announce("added", p, n)
    /\ UNCHANGED version

\* e_VaultUnrefNode
v_unref_node(p, n) ==
    /\ DaemonIdle
    /\ <<p, n>> \in Links
    /\ refs' = refs \ {<<p, n>>}
    /\ Announce("removed", p, n)
    /\ UNCHANGED version

\* e_VaultSendNode: a reference from the inbox of the player, if it has one.
v_send_node(player, n) ==
    \E inbox \in Inboxes : <<player, inbox>> \in refs /\ v_ref_node(inbox, n)

\* e_VaultUpdateNode (an SDL node may take the way of AgeSdl before)
v_update_node(n) ==
    /\ DaemonIdle
    /\ version' = [version EXCEPT ![n] = changes + 1]
    /\ Announce("changed", NoNode, n)
    /\ UNCHANGED refs

\* dm_auth_addAllPlayers: toggle the reference to the AllPlayers folder.
dm_auth_addAllPlayers(player) ==
    IF v_has_node(player, AllPlayers)
    THEN v_unref_node(player, AllPlayers)
    ELSE v_ref_node(player, AllPlayers)

\* dm_auth_deletePlayer removes all references to the PlayerInfo, and tells
\* nobody.
dm_auth_deletePlayer(info) ==
    /\ DaemonIdle
    /\ refs' = {e \in refs : e[2] # info}
    /\ UNCHANGED <<version, bufferVars, s_authClients, wpc, m_broadcast, m_ageNodeId, clientVars>>

\* Variant: the buffer is put on the channel without msg->ref().
dm_auth_bcast_noref(c) ==
    /\ c \in bcast.left
    /\ IF Holds(c, Subject(bcast.msg))
       THEN m_broadcast' = [m_broadcast EXCEPT ![c] = Append(@, bcast.msg)]
       ELSE UNCHANGED m_broadcast
    /\ bcast' = [bcast EXCEPT !.left = @ \ {c}]
    /\ UNCHANGED <<vaultVars, changes, m_refs, s_authClients, wpc, m_ageNodeId, clientVars>>

\* dm_auth_bcast_*: one client of the list.
dm_auth_bcast(c) ==
    /\ c \in bcast.left
    /\ IF Holds(c, Subject(bcast.msg))
       THEN /\ m_refs' = [m_refs EXCEPT ![bcast.msg.buf] = @ + 1]
            /\ m_broadcast' = [m_broadcast EXCEPT ![c] = Append(@, bcast.msg)]
       ELSE UNCHANGED <<m_refs, m_broadcast>>
    /\ bcast' = [bcast EXCEPT !.left = @ \ {c}]
    /\ UNCHANGED <<vaultVars, changes, s_authClients, wpc, m_ageNodeId, clientVars>>

\* dm_auth_bcast_*: the daemon drops its own reference and the mutex.
dm_auth_bcast_end ==
    /\ ~DaemonIdle /\ bcast.left = {}
    /\ m_refs' = [m_refs EXCEPT ![bcast.msg.buf] = @ - 1]
    /\ bcast' = Quiet
    /\ UNCHANGED <<vaultVars, changes, s_authClients, wpc, m_broadcast, m_ageNodeId, clientVars>>

\* dm_auth_updateAgeSrv, asked by the host the player joins: subscribe to the
\* age.  The game client asks for an age on the socket on which it asked for its
\* player's tree before, and downloads the age's tree once the join is answered.
\* Bound: a connection joins one age.
dm_auth_updateAgeSrv(c, age) ==
    /\ DaemonIdle
    /\ c \in s_authClients
    /\ m_ageNodeId[c] = NoNode
    /\ \A i \in DOMAIN requests[c] : requests[c][i] # Fetch("tree", Player[c])
    /\ m_ageNodeId' = [m_ageNodeId EXCEPT ![c] = age]
    /\ Ask(c, requests[c], {Fetch("tree", age)})
    /\ UNCHANGED <<vaultVars, bufferVars, s_authClients, wpc, m_broadcast, view, known>>

-----------------------------------------------------------------------------
(* The workers and their game clients.                                       *)

\* wk_authWorker: into the list, under the mutex; then the player is set and the
\* client downloads his tree.
Connect(c) ==
    /\ wpc[c] = "out" /\ DaemonIdle
    /\ wpc' = [wpc EXCEPT ![c] = "idle"]
    /\ s_authClients' = s_authClients \cup {c}
    /\ Ask(c, requests[c], {Fetch("tree", Player[c])})
    /\ UNCHANGED <<vaultVars, bufferVars, m_broadcast, m_ageNodeId, view, known>>

\* wk_authWorker: poll sees a request, and whether a broadcast waits as well; the
\* request is read first.
cb_sockRead(c) ==
    /\ wpc[c] = "idle" /\ requests[c] # <<>>
    /\ wpc' = [wpc EXCEPT ![c] = IF m_broadcast[c] = <<>> THEN "request" ELSE "both"]
    /\ UNCHANGED <<vaultVars, bufferVars, s_authClients, m_broadcast, m_ageNodeId, clientVars>>

\* The worker waits for the daemon's answer and sends it.  Until then it takes
\* nothing else, and what it sends is the answer, so the two ends are one step.
Serve(c, f) ==
    /\ wpc[c] \in {"request", "both"} /\ DaemonIdle
    /\ Head(requests[c]) = f
    /\ wpc' = [wpc EXCEPT ![c] = IF @ = "both" THEN "broadcast" ELSE "idle"]
    /\ UNCHANGED <<vaultVars, bufferVars, s_authClients, m_broadcast, m_ageNodeId>>

\* cb_nodeTree, v_fetch_tree: the references below the node are added to what the
\* client knows, and it asks for the nodes.
cb_nodeTree(c, n) ==
    /\ Serve(c, Fetch("tree", n))
    /\ LET tree == Tree(refs, n)
       IN  /\ view' = [view EXCEPT ![c] = @ \cup {e \in refs : e[1] \in tree}]
           /\ Ask(c, Tail(requests[c]), FetchNodes(tree))
    /\ UNCHANGED known

\* cb_nodeFetch, v_fetch_node: the node's contents.
cb_nodeFetch(c, n) ==
    /\ Serve(c, Fetch("node", n))
    /\ known' = [known EXCEPT ![c][n] = version[n]]
    /\ Ask(c, Tail(requests[c]), {})
    /\ UNCHANGED view

\* msg->unref()
Unref(b) == m_refs' = [m_refs EXCEPT ![b] = @ - 1]

\* cb_broadcast, which poll saw together with a request or alone: forward the
\* oldest broadcast and drop the buffer.
cb_broadcast(c) ==
    /\ wpc[c] = "broadcast" \/ (wpc[c] = "idle" /\ requests[c] = <<>>)
    /\ m_broadcast[c] # <<>>
    /\ wpc' = [wpc EXCEPT ![c] = "idle"]
    /\ LET m == Head(m_broadcast[c])
           e == <<m.parent, m.child>>
       IN  /\ view' = [view EXCEPT ![c] = CASE m.kind = "added" -> @ \cup {e}
                                            [] m.kind = "removed" -> @ \ {e}
                                            [] OTHER -> @]
           /\ Ask(c, requests[c], CASE m.kind = "added" -> {Fetch("tree", m.child)}
                                    [] m.kind = "changed" -> {Fetch("node", m.child)}
                                    [] OTHER -> {})
           /\ Unref(m.buf)
    /\ m_broadcast' = [m_broadcast EXCEPT ![c] = Tail(@)]
    /\ UNCHANGED <<vaultVars, changes, bcast, s_authClients, m_ageNodeId, known>>

\* wk_authWorker after SockHup, in poll or in a reply: the game client is gone, and
\* the worker takes its structure out of the list, under the mutex.
Remove(c) ==
    /\ wpc[c] \in {"idle", "broadcast"} /\ DaemonIdle
    /\ wpc' = [wpc EXCEPT ![c] = "drain"]
    /\ s_authClients' = s_authClients \ {c}
    /\ view' = [view EXCEPT ![c] = {}]
    /\ known' = [known EXCEPT ![c] = [n \in Nodes |-> Unknown]]
    /\ requests' = [requests EXCEPT ![c] = <<>>]
    /\ UNCHANGED <<vaultVars, bufferVars, m_broadcast, m_ageNodeId>>

\* The structure and its channels are gone.
Forget(c) ==
    /\ wpc' = [wpc EXCEPT ![c] = "out"]
    /\ m_ageNodeId' = [m_ageNodeId EXCEPT ![c] = NoNode]

\* Variant: the worker ends with broadcasts on its channel.
EndUndrained(c) ==
    /\ wpc[c] = "drain"
    /\ m_broadcast' = [m_broadcast EXCEPT ![c] = <<>>]
    /\ Forget(c)
    /\ UNCHANGED <<vaultVars, bufferVars, s_authClients, clientVars>>

\* wk_authWorker: drain the broadcast channel ...
Drain(c) ==
    /\ wpc[c] = "drain" /\ m_broadcast[c] # <<>>
    /\ Unref(Head(m_broadcast[c]).buf)
    /\ m_broadcast' = [m_broadcast EXCEPT ![c] = Tail(@)]
    /\ UNCHANGED <<vaultVars, changes, bcast, s_authClients, wpc, m_ageNodeId, clientVars>>

\* ... and end.
End(c) ==
    /\ wpc[c] = "drain" /\ m_broadcast[c] = <<>>
    /\ Forget(c)
    /\ UNCHANGED <<vaultVars, bufferVars, s_authClients, m_broadcast, clientVars>>

Next ==
    \/ \E e \in Links : v_ref_node(e[1], e[2])
    \/ \E e \in Links : v_unref_node(e[1], e[2])
    \/ \E c \in Clients, n \in Nodes : v_send_node(Player[c], n)
    \/ \E n \in Nodes : v_update_node(n)
    \/ \E c \in Clients : dm_auth_addAllPlayers(Player[c])
    \/ \E n \in PlayerInfos : dm_auth_deletePlayer(n)
    \/ \E c \in Clients : dm_auth_bcast(c)
    \/ dm_auth_bcast_end
    \/ \E c \in Clients, a \in Ages : dm_auth_updateAgeSrv(c, a)
    \/ \E c \in Clients : Connect(c)
    \/ \E c \in Clients : cb_sockRead(c)
    \/ \E c \in Clients, n \in Nodes : cb_nodeTree(c, n)
    \/ \E c \in Clients, n \in Nodes : cb_nodeFetch(c, n)
    \/ \E c \in Clients : cb_broadcast(c)
    \/ \E c \in Clients : Remove(c)
    \/ \E c \in Clients : Drain(c)
    \/ \E c \in Clients : End(c)

Spec == Init /\ [][Next]_vars

-----------------------------------------------------------------------------
\* Nothing under way for the client: no broadcast, no reply, nothing to fetch.
AtRest(c) ==
    /\ wpc[c] = "idle" /\ m_broadcast[c] = <<>> /\ requests[c] = <<>> /\ c \notin bcast.left

\* A client at rest has missed nothing: it knows the present contents of every
\* node below its player and its age, and every reference below its player
\* (AuthDaemon.cpp:204-266, AuthServer.cpp:1096-1104).  Of the references below the
\* age it knows all whose parent is not one that the player's tree may lose: of
\* such a node an old removal may be forwarded behind the age's tree.
InStep ==
    \A c \in Clients : AtRest(c) =>
        LET below(n) == IF n = NoNode THEN {} ELSE Tree(refs, n)
            mine == below(Player[c])
            hers == below(m_ageNodeId[c])
        IN  /\ \A n \in mine \cup hers : known[c][n] = version[n]
            /\ \A e \in refs : e[1] \in mine \cup (hers \ Tree(Links, Player[c])) => e \in view[c]

\* A buffer's count is the number of channels it waits in, plus one while the
\* daemon is sending it: it is neither freed before its last reader nor leaked by
\* a worker that ends (streams.h:177-182, AuthServer.cpp:1096-1104, 1162-1167).
BuffersCounted ==
    \A b \in Buffers :
        m_refs[b] = Cardinality({x \in Clients \X Buffers :
                                   /\ x[2] <= Len(m_broadcast[x[1]])
                                   /\ m_broadcast[x[1]][x[2]].buf = b})
                    + (IF bcast.msg.buf = b THEN 1 ELSE 0)
=============================================================================

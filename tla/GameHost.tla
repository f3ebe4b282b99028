------------------------------ MODULE GameHost ------------------------------
(***************************************************************************)
(* The game server (GameServ/GameServer.cpp, GameHost.cpp) for one age:       *)
(* a wk_gameWorker thread per connection, the dm_gameHost thread of the age,  *)
(* the registry s_gameHosts through which workers find it, and the state the   *)
(* host keeps: members (m_clients), game master, object locks, and the scene   *)
(* it shows to its members: avatars, other clones, states of avatars.          *)
(*                                                                             *)
(* A worker obtains its GameHost_Private* from the registry and uses it from   *)
(* then on without a lock; the host deletes itself when its last member has    *)
(* left.  A worker that touches a deleted host is in undefined behaviour: it    *)
(* goes to "undefined" and nothing more is said about it.                      *)
(*                                                                             *)
(* Abstracted: the auth daemon's replies are a choice (AuthSession models      *)
(* them); buffers and SDL contents are not represented (SdlStore has the        *)
(* states of objects); what is put into a client's m_broadcast is taken as      *)
(* seen, since the channel keeps its order.  Clients join once per connection.  *)
(***************************************************************************)
EXTENDS Naturals, Sequences, FiniteSets

CONSTANTS
    Conns,      \* connections, each with its wk_gameWorker thread
    Players,    \* player ids
    PlayerOf,   \* the player that joins on each connection
    Hosts,      \* GameHost_Private objects, allocated one by one
    Objects,    \* lockable scene objects
    NoPlayer,   \* player id 0
    NoConn,     \* no map entry, a null client
    NoHost,     \* a null host
    Faults,     \* what may fail in this instance: a stored object key that does not decode
    Talks       \* bounds of a behaviour: [kinds : SUBSET GameMessages, conns : Nat]

ASSUME PlayerOfAssumption == PlayerOf \in [Conns -> Players]
ASSUME ObjectsAssumption == Objects # {}
ASSUME FaultAssumption == Faults \subseteq {"decode"}
ASSUME NullAssumption == NoPlayer \notin Players /\ NoConn \notin Conns /\ NoHost \notin Hosts

VARIABLES
    wpc,          \* where each worker is
    m_host,       \* client.m_host of each worker
    m_channel,    \* replies each worker has not read
    s_gameHosts,  \* the registered host of the age
    hstate,       \* life of each host object
    hpc,          \* what each host thread is doing, and for whom
    queue,        \* host->m_channel
    m_clients,    \* host->m_clients, by player
    m_gameMaster, \* host->m_gameMaster
    m_locks,      \* host->m_locks: the player that holds each object
    jammed,       \* host->m_clientMutex was left locked by an exception
    admitted,     \* ghost: connections whose join was answered with success
    owns,         \* ghost: connections last told that they own the objects
    holds,        \* ghost: objects each connection was affirmed and not freed
    stopping,     \* GameServer_Shutdown has run
    avatar,       \* client.m_clientKey and m_isLoaded of each worker
    m_clones,     \* host->m_clones: the clones that are no avatars
    m_states,     \* host->m_states: the avatars of which a state is kept
    sees,         \* ghost: what each client was told to load and not to unload
    listed,       \* ghost: connections that were sent the members' avatars
    talk          \* what is sent, and by how many connections: one of Talks

workerVars == <<wpc, m_host, m_channel>>
hostVars == <<hstate, hpc, queue, m_clients, m_gameMaster, m_locks, jammed>>
ghostVars == <<admitted, owns, holds>>
sceneVars == <<avatar, m_clones, m_states, sees, listed, talk>>
vars == <<workerVars, s_gameHosts, hostVars, ghostVars, stopping, sceneVars>>

CloneMessages == {"loadAvatar", "unloadAvatar", "loadClone", "unloadClone"}
GameMessages == {"lock", "unlock", "members", "sdl", "sdlBCast", "state", "other"} \cup CloneMessages
Kinds == GameMessages \cup {"join", "disconnect", "shutdown"}
Messages == [kind : Kinds, conn : Conns \cup {NoConn}, obj : Objects]
Message(k, c, o) == [kind |-> k, conn |-> c, obj |-> o]
AnyObject == CHOOSE o \in Objects : TRUE

\* What a client can be shown.
Avatar(c) == <<"avatar", c>>
Clone(o) == <<"clone", o>>
Sdl(c) == <<"sdl", c>>
Shown == {Avatar(c) : c \in Conns} \cup {Clone(o) : o \in Objects} \cup {Sdl(c) : c \in Conns}

TypeOK ==
    /\ wpc \in [Conns -> {"out", "starting", "found", "joining", "replied", "idle",
                          "asking", "erased", "leaving", "gone", "undefined"}]
    /\ m_host \in [Conns -> Hosts \cup {NoHost}]
    /\ m_channel \in [Conns -> Seq({"success", "failure"})]
    /\ s_gameHosts \in Hosts \cup {NoHost}
    /\ hstate \in [Hosts -> {"none", "up", "orphan", "closing", "deleted"}]
    /\ hpc \in [Hosts -> Conns \cup {NoConn}]
    /\ queue \in [Hosts -> Seq(Messages)]
    /\ m_clients \in [Hosts -> [Players -> Conns \cup {NoConn}]]
    /\ m_gameMaster \in [Hosts -> Players \cup {NoPlayer}]
    /\ m_locks \in [Hosts -> [Objects -> Players \cup {NoPlayer}]]
    /\ jammed \in [Hosts -> BOOLEAN]
    /\ admitted \subseteq Conns
    /\ owns \subseteq Conns
    /\ holds \in [Conns -> SUBSET Objects]
    /\ stopping \in BOOLEAN
    /\ avatar \in [Conns -> {"null", "loaded", "unloaded"}]
    /\ m_clones \in [Hosts -> SUBSET Objects]
    /\ m_states \in [Hosts -> SUBSET Conns]
    /\ sees \in [Conns -> SUBSET Shown]
    /\ listed \subseteq Conns
    /\ talk \in Talks

Init ==
    /\ wpc = [c \in Conns |-> "out"]
    /\ m_host = [c \in Conns |-> NoHost]
    /\ m_channel = [c \in Conns |-> <<>>]
    /\ s_gameHosts = NoHost
    /\ hstate = [h \in Hosts |-> "none"]
    /\ hpc = [h \in Hosts |-> NoConn]
    /\ queue = [h \in Hosts |-> <<>>]
    /\ m_clients = [h \in Hosts |-> [p \in Players |-> NoConn]]
    /\ m_gameMaster = [h \in Hosts |-> NoPlayer]
    /\ m_locks = [h \in Hosts |-> [o \in Objects |-> NoPlayer]]
    /\ jammed = [h \in Hosts |-> FALSE]
    /\ admitted = {}
    /\ owns = {}
    /\ holds = [c \in Conns |-> {}]
    /\ stopping = FALSE
    /\ avatar = [c \in Conns |-> "null"]
    /\ m_clones = [h \in Hosts |-> {}]
    /\ m_states = [h \in Hosts |-> {}]
    /\ sees = [c \in Conns |-> {}]
    /\ listed = {}
    /\ talk \in Talks

Members(h) == {m_clients[h][p] : p \in Players} \ {NoConn}

-----------------------------------------------------------------------------
(* The worker threads.                                                       *)

\* find_game_host, the lookup under s_gameHostMutex.
cb_join(c) ==
    /\ wpc[c] = "out"
    /\ Cardinality({d \in Conns : wpc[d] # "out"}) < talk.conns
    /\ m_host' = [m_host EXCEPT ![c] = s_gameHosts]
    /\ wpc' = [wpc EXCEPT ![c] = IF s_gameHosts = NoHost THEN "starting" ELSE "found"]
    /\ UNCHANGED <<m_channel, s_gameHosts, hostVars, ghostVars, stopping, sceneVars>>

\* start_game_host: the host is built without the mutex and then registered,
\* over whatever the registry holds by now.
start_game_host(c) ==
    /\ wpc[c] = "starting"
    /\ \E h \in Hosts :
         /\ hstate[h] = "none"
         /\ hstate' = [hstate EXCEPT ![h] = "up"]
         /\ s_gameHosts' = h
         /\ m_host' = [m_host EXCEPT ![c] = h]
    /\ wpc' = [wpc EXCEPT ![c] = "found"]
    /\ UNCHANGED <<m_channel, hpc, queue, m_clients, m_gameMaster, m_locks, jammed, ghostVars, stopping, sceneVars>>

\* start_game_host returned nullptr: the client is told and may try again.
start_game_host_fails(c) ==
    /\ wpc[c] = "starting"
    /\ wpc' = [wpc EXCEPT ![c] = "out"]
    /\ UNCHANGED <<m_host, m_channel, s_gameHosts, hostVars, ghostVars, stopping, sceneVars>>

\* start_game_host throws while it reads the stored states, after the host was
\* registered: the client is told that it failed, and the host has no thread.
start_game_host_orphan(c) ==
    /\ wpc[c] = "starting" /\ "decode" \in Faults
    /\ \E h \in Hosts :
         /\ hstate[h] = "none"
         /\ hstate' = [hstate EXCEPT ![h] = "orphan"]
         /\ s_gameHosts' = h
    /\ wpc' = [wpc EXCEPT ![c] = "out"]
    /\ UNCHANGED <<m_host, m_channel, hpc, queue, m_clients, m_gameMaster, m_locks, jammed, ghostVars, stopping, sceneVars>>

\* The worker uses its host pointer after the host was deleted.
UseDeletedHost(c) ==
    /\ wpc[c] \in {"found", "replied", "idle", "erased"}
    /\ m_host[c] # NoHost
    /\ hstate[m_host[c]] = "deleted"
    /\ wpc' = [wpc EXCEPT ![c] = "undefined"]
    /\ UNCHANGED <<m_host, m_channel, s_gameHosts, hostVars, ghostVars, stopping, sceneVars>>

\* c's host exists, and its m_clientMutex can be taken.
HostExists(c) == m_host[c] # NoHost /\ hstate[m_host[c]] # "deleted"

Put(c, kind, o, pc) ==
    /\ HostExists(c)
    /\ queue' = [queue EXCEPT ![m_host[c]] = Append(@, Message(kind, c, o))]
    /\ wpc' = [wpc EXCEPT ![c] = pc]
    /\ UNCHANGED <<m_host, m_channel, s_gameHosts, hstate, hpc, m_clients, m_gameMaster, m_locks,
                   jammed, ghostVars, stopping, sceneVars>>

\* cb_join, the vault knows the player: e_GameJoinAge.
PutJoin(c) ==
    /\ wpc[c] = "found"
    /\ Put(c, "join", AnyObject, "joining")

\* cb_join, the vault does not know the player: the worker keeps its m_host but
\* never becomes a member.
VaultRefuses(c) ==
    /\ wpc[c] = "found"
    /\ wpc' = [wpc EXCEPT ![c] = "idle"]
    /\ UNCHANGED <<m_host, m_channel, s_gameHosts, hostVars, ghostVars, stopping, sceneVars>>

\* cb_join, the host's reply arrives.
GetJoinReply(c) ==
    /\ wpc[c] = "joining" /\ m_channel[c] # <<>>
    /\ admitted' = IF Head(m_channel[c]) = "success" THEN admitted \cup {c} ELSE admitted
    /\ m_channel' = [m_channel EXCEPT ![c] = Tail(@)]
    /\ wpc' = [wpc EXCEPT ![c] = "replied"]
    /\ UNCHANGED <<m_host, s_gameHosts, hostVars, owns, holds, stopping, sceneVars>>

\* Variant: cb_join forgets the member map.
InsertNothing(c) ==
    /\ wpc[c] = "replied" /\ HostExists(c)
    /\ wpc' = [wpc EXCEPT ![c] = "idle"]
    /\ UNCHANGED <<m_host, m_channel, s_gameHosts, hostVars, ghostVars, stopping, sceneVars>>

\* cb_join, after the reply was sent to the client: become a member, whatever
\* the reply was.
Insert(c) ==
    /\ wpc[c] = "replied" /\ HostExists(c) /\ ~jammed[m_host[c]]
    /\ m_clients' = [m_clients EXCEPT ![m_host[c]][PlayerOf[c]] = c]
    /\ wpc' = [wpc EXCEPT ![c] = "idle"]
    /\ UNCHANGED <<m_host, m_channel, s_gameHosts, hstate, hpc, queue, m_gameMaster, m_locks,
                   jammed, ghostVars, stopping, sceneVars>>

\* cb_netmsg: whoever has a host may send, also a client that it did not admit and
\* one that never came into its member map.
cb_netmsg(c, kind, o) ==
    /\ wpc[c] = "idle"
    /\ kind \in talk.kinds
    /\ Put(c, kind, o, "asking")

\* cb_netmsg, the reply arrives.
GetReply(c) ==
    /\ wpc[c] = "asking" /\ m_channel[c] # <<>>
    /\ m_channel' = [m_channel EXCEPT ![c] = Tail(@)]
    /\ wpc' = [wpc EXCEPT ![c] = "idle"]
    /\ UNCHANGED <<m_host, s_gameHosts, hostVars, ghostVars, stopping, sceneVars>>

\* Variant: the worker disconnects without leaving the member map.
EraseNothing(c) ==
    /\ wpc[c] \in {"replied", "idle"} /\ HostExists(c)
    /\ wpc' = [wpc EXCEPT ![c] = "erased"]
    /\ UNCHANGED <<m_host, m_channel, s_gameHosts, hostVars, ghostVars, stopping, sceneVars>>

\* wk_gameWorker after SockHup: leave the member map, by player id.  The hangup
\* may also come while cb_join sends its reply.
Erase(c) ==
    /\ wpc[c] \in {"replied", "idle"} /\ HostExists(c) /\ ~jammed[m_host[c]]
    /\ m_clients' = [m_clients EXCEPT ![m_host[c]][PlayerOf[c]] = NoConn]
    /\ wpc' = [wpc EXCEPT ![c] = "erased"]
    /\ UNCHANGED <<m_host, m_channel, s_gameHosts, hstate, hpc, queue, m_gameMaster, m_locks,
                   jammed, ghostVars, stopping, sceneVars>>

\* ... then announce the disconnect and wait for the answer ...
PutDisconnect(c) ==
    /\ wpc[c] = "erased"
    /\ Put(c, "disconnect", AnyObject, "leaving")

\* ... and end.
GetDisconnectReply(c) ==
    /\ wpc[c] = "leaving" /\ m_channel[c] # <<>>
    /\ m_channel' = [m_channel EXCEPT ![c] = Tail(@)]
    /\ wpc' = [wpc EXCEPT ![c] = "gone"]
    /\ UNCHANGED <<m_host, s_gameHosts, hostVars, ghostVars, stopping, sceneVars>>

-----------------------------------------------------------------------------
(* The host threads.                                                         *)

\* getMessage returned a message of this kind; between two messages only.
Serving(h, kind) ==
    /\ hstate[h] = "up" /\ hpc[h] = NoConn
    /\ queue[h] # <<>>
    /\ Head(queue[h]).kind = kind

\* SEND_REPLY
Reply(c, code) == m_channel' = [m_channel EXCEPT ![c] = Append(@, code)]

Dequeue(h) == queue' = [queue EXCEPT ![h] = Tail(@)]

\* Variant: every joining player is made the game master.
dm_game_join_always(h) ==
    /\ Serving(h, "join")
    /\ LET c == Head(queue[h]).conn
       IN  /\ m_gameMaster' = [m_gameMaster EXCEPT ![h] = PlayerOf[c]]
           /\ owns' = owns \cup {c}
           /\ Reply(c, "success")
    /\ Dequeue(h)
    /\ UNCHANGED <<wpc, m_host, s_gameHosts, hstate, hpc, m_clients, m_locks, jammed, admitted, holds, stopping, sceneVars>>

\* dm_game_join: the auth daemon agrees.  The first player becomes the game
\* master; the others are told of the new member under m_clientMutex.
dm_game_join(h) ==
    /\ Serving(h, "join") /\ ~jammed[h]
    /\ LET c == Head(queue[h]).conn
           first == m_gameMaster[h] = NoPlayer
       IN  /\ m_gameMaster' = [m_gameMaster EXCEPT ![h] = IF first THEN PlayerOf[c] ELSE @]
           /\ owns' = IF first THEN owns \cup {c} ELSE owns \ {c}
           /\ Reply(c, "success")
    /\ Dequeue(h)
    /\ UNCHANGED <<wpc, m_host, s_gameHosts, hstate, hpc, m_clients, m_locks, jammed, admitted, holds, stopping, sceneVars>>

\* dm_game_join: the auth daemon does not know the player.
dm_game_join_refused(h) ==
    /\ Serving(h, "join")
    /\ Reply(Head(queue[h]).conn, "failure")
    /\ Dequeue(h)
    /\ UNCHANGED <<wpc, m_host, s_gameHosts, hstate, hpc, m_clients, m_gameMaster, m_locks, jammed,
                   ghostVars, stopping, sceneVars>>

\* dm_test_and_set with m_lockRequest: affirm a free object, deny another.
dm_test_and_set_lock(h) ==
    /\ Serving(h, "lock")
    /\ LET c == Head(queue[h]).conn
           o == Head(queue[h]).obj
           free == m_locks[h][o] = NoPlayer
       IN  /\ m_locks' = [m_locks EXCEPT ![h][o] = IF free THEN PlayerOf[c] ELSE @]
           /\ holds' = [holds EXCEPT ![c] = IF free THEN @ \cup {o} ELSE @]
           /\ Reply(c, "success")
    /\ Dequeue(h)
    /\ UNCHANGED <<wpc, m_host, s_gameHosts, hstate, hpc, m_clients, m_gameMaster, jammed, admitted, owns, stopping, sceneVars>>

\* Variant: a release frees the object whoever holds it.
dm_test_and_set_unlock_any(h) ==
    /\ Serving(h, "unlock")
    /\ LET c == Head(queue[h]).conn
           o == Head(queue[h]).obj
       IN  /\ m_locks' = [m_locks EXCEPT ![h][o] = NoPlayer]
           /\ holds' = [holds EXCEPT ![c] = @ \ {o}]
           /\ Reply(c, "success")
    /\ Dequeue(h)
    /\ UNCHANGED <<wpc, m_host, s_gameHosts, hstate, hpc, m_clients, m_gameMaster, jammed, admitted, owns, stopping, sceneVars>>

\* dm_test_and_set without m_lockRequest: the holder may release.
dm_test_and_set_unlock(h) ==
    /\ Serving(h, "unlock")
    /\ LET c == Head(queue[h]).conn
           o == Head(queue[h]).obj
       IN  /\ m_locks' = [m_locks EXCEPT ![h][o] = IF @ = PlayerOf[c] THEN NoPlayer ELSE @]
           /\ holds' = [holds EXCEPT ![c] = @ \ {o}]
           /\ Reply(c, "success")
    /\ Dequeue(h)
    /\ UNCHANGED <<wpc, m_host, s_gameHosts, hstate, hpc, m_clients, m_gameMaster, jammed, admitted, owns, stopping, sceneVars>>

\* dm_propagate: the members other than the sender load and unload these.
Propagate(h, sender, load, unload) ==
    sees' = [c \in Conns |-> IF c \in Members(h) /\ PlayerOf[c] # PlayerOf[sender]
                             THEN (sees[c] \ unload) \cup load ELSE sees[c]]

\* Variant: a requester gets the avatars only.
dm_send_members_noClones(h) ==
    /\ Serving(h, "members") /\ ~jammed[h]
    /\ LET c == Head(queue[h]).conn
       IN  /\ sees' = [sees EXCEPT ![c] = @ \cup
                         {Avatar(d) : d \in {d \in Members(h) \ {c} : avatar[d] # "null"}}]
           /\ listed' = listed \cup {c}
           /\ Reply(c, "success")
    /\ Dequeue(h)
    /\ UNCHANGED <<wpc, m_host, s_gameHosts, hstate, hpc, m_clients, m_gameMaster, m_locks, jammed,
                   ghostVars, stopping, avatar, m_clones, m_states, talk>>

\* dm_send_members: the clones, and to a requester that has an avatar key the
\* avatars of the other members, also of one who unloaded it.  reserve(size() - 1)
\* wraps around when the map is empty; the exception leaves m_clientMutex locked
\* and the requester gets an error.
dm_send_members(h) ==
    /\ Serving(h, "members") /\ ~jammed[h]
    /\ LET c == Head(queue[h]).conn
           empty == Members(h) = {}
           keyed == avatar[c] # "null"
           others == {d \in Members(h) : PlayerOf[d] # PlayerOf[c] /\ avatar[d] # "null"}
       IN  /\ jammed' = [jammed EXCEPT ![h] = empty]
           /\ sees' = [sees EXCEPT ![c] = IF empty THEN @ ELSE
                         @ \cup {Clone(o) : o \in m_clones[h]}
                           \cup (IF keyed THEN {Avatar(d) : d \in others} ELSE {})]
           /\ listed' = IF keyed /\ ~empty THEN listed \cup {c} ELSE listed
           /\ Reply(c, IF empty THEN "failure" ELSE "success")
    /\ Dequeue(h)
    /\ UNCHANGED <<wpc, m_host, s_gameHosts, hstate, hpc, m_clients, m_gameMaster, m_locks, ghostVars,
                   stopping, avatar, m_clones, m_states, talk>>

\* dm_load_clone, of the sender's avatar: only the connection keeps it.
dm_load_clone_player(h, load) ==
    /\ Serving(h, IF load THEN "loadAvatar" ELSE "unloadAvatar") /\ ~jammed[h]
    /\ LET c == Head(queue[h]).conn
       IN  /\ avatar' = [avatar EXCEPT ![c] = IF load THEN "loaded" ELSE "unloaded"]
           /\ IF load THEN Propagate(h, c, {Avatar(c)}, {})
                      ELSE Propagate(h, c, {}, {Avatar(c), Sdl(c)})
           /\ Reply(c, "success")
    /\ Dequeue(h)
    /\ UNCHANGED <<wpc, m_host, s_gameHosts, hstate, hpc, m_clients, m_gameMaster, m_locks, jammed,
                   ghostVars, stopping, m_clones, m_states, listed, talk>>

\* dm_load_clone, of another object: the host keeps the message.  The sender, who
\* is left out, has done what it tells the others to do.
dm_load_clone(h, load) ==
    /\ Serving(h, IF load THEN "loadClone" ELSE "unloadClone") /\ ~jammed[h]
    /\ LET c == Head(queue[h]).conn
           o == Head(queue[h]).obj
           told == {d \in Members(h) : PlayerOf[d] # PlayerOf[c]} \cup {c}
       IN  /\ m_clones' = [m_clones EXCEPT ![h] = IF load THEN @ \cup {o} ELSE @ \ {o}]
           /\ sees' = [d \in Conns |-> IF d \notin told THEN sees[d]
                           ELSE IF load THEN sees[d] \cup {Clone(o)} ELSE sees[d] \ {Clone(o)}]
           /\ Reply(c, "success")
    /\ Dequeue(h)
    /\ UNCHANGED <<wpc, m_host, s_gameHosts, hstate, hpc, m_clients, m_gameMaster, m_locks, jammed,
                   ghostVars, stopping, avatar, m_states, listed, talk>>

\* dm_read_sdl of the sender's avatar: the host keeps the state, and shows it to
\* the other members when it was a broadcast.
dm_read_sdl(h, bcast) ==
    /\ Serving(h, IF bcast THEN "sdlBCast" ELSE "sdl")
    /\ bcast => ~jammed[h]
    /\ LET c == Head(queue[h]).conn
       IN  /\ m_states' = [m_states EXCEPT ![h] = @ \cup {c}]
           /\ IF bcast THEN Propagate(h, c, {Sdl(c)}, {}) ELSE UNCHANGED sees
           /\ Reply(c, "success")
    /\ Dequeue(h)
    /\ UNCHANGED <<wpc, m_host, s_gameHosts, hstate, hpc, m_clients, m_gameMaster, m_locks, jammed,
                   ghostVars, stopping, avatar, m_clones, listed, talk>>

\* dm_send_state: every state the host keeps.
dm_send_state(h) ==
    /\ Serving(h, "state")
    /\ LET c == Head(queue[h]).conn
       IN  /\ sees' = [sees EXCEPT ![c] = @ \cup {Sdl(d) : d \in m_states[h]}]
           /\ Reply(c, "success")
    /\ Dequeue(h)
    /\ UNCHANGED <<wpc, m_host, s_gameHosts, hstate, hpc, m_clients, m_gameMaster, m_locks, jammed,
                   ghostVars, stopping, avatar, m_clones, m_states, listed, talk>>

\* Variant: an unparsable message is answered and then handled and answered.
dm_game_message_twice(h) ==
    /\ Serving(h, "other")
    /\ LET c == Head(queue[h]).conn
       IN  m_channel' = [m_channel EXCEPT ![c] = @ \o <<"failure", "success">>]
    /\ Dequeue(h)
    /\ UNCHANGED <<wpc, m_host, s_gameHosts, hstate, hpc, m_clients, m_gameMaster, m_locks, jammed,
                   ghostVars, stopping, sceneVars>>

\* dm_game_message, every other message: parsed or refused, propagated to the
\* members, answered once.
dm_game_message(h) ==
    /\ Serving(h, "other") /\ ~jammed[h]
    /\ \E code \in {"success", "failure"} : Reply(Head(queue[h]).conn, code)
    /\ Dequeue(h)
    /\ UNCHANGED <<wpc, m_host, s_gameHosts, hstate, hpc, m_clients, m_gameMaster, m_locks, jammed,
                   ghostVars, stopping, sceneVars>>

\* Variant: the new game master is taken from the map without asking whether the
\* map is empty.
dm_game_disconnect_begin(h) ==
    /\ Serving(h, "disconnect")
    /\ LET c == Head(queue[h]).conn
       IN  /\ m_gameMaster' = [m_gameMaster EXCEPT ![h] =
                 IF @ # PlayerOf[c] THEN @ ELSE IF Members(h) = {} THEN NoConn
                                                ELSE PlayerOf[CHOOSE d \in Members(h) : TRUE]]
           /\ hpc' = [hpc EXCEPT ![h] = c]
    /\ Dequeue(h)
    /\ UNCHANGED <<workerVars, s_gameHosts, hstate, m_clients, m_locks, jammed, ghostVars, stopping, sceneVars>>

\* Variant: a leaving game master is not replaced.
dm_game_disconnect_keepsMaster(h) ==
    /\ Serving(h, "disconnect")
    /\ LET c == Head(queue[h]).conn
       IN  /\ owns' = owns \ {c}
           /\ hpc' = [hpc EXCEPT ![h] = c]
    /\ Dequeue(h)
    /\ UNCHANGED <<workerVars, s_gameHosts, hstate, m_clients, m_gameMaster, m_locks, jammed, admitted, holds, stopping, sceneVars>>

\* Variant: the state of the avatar is kept.
dm_game_disconnect_keepsState(h) ==
    /\ Serving(h, "disconnect") /\ ~jammed[h]
    /\ LET c == Head(queue[h]).conn
       IN  /\ hpc' = [hpc EXCEPT ![h] = c]
           /\ Propagate(h, c, {}, {Avatar(c), Sdl(c)})
    /\ Dequeue(h)
    /\ UNCHANGED <<workerVars, s_gameHosts, hstate, m_clients, m_gameMaster, m_locks, jammed, ghostVars,
                   stopping, avatar, m_clones, m_states, listed, talk>>

\* dm_game_disconnect up to the vault write: tell the members, unload the avatar
\* and drop its state if it is loaded, release the player's locks, and make any
\* member the new game master if he was it.
dm_game_disconnect(h) ==
    /\ Serving(h, "disconnect") /\ ~jammed[h]
    /\ LET c == Head(queue[h]).conn
           p == PlayerOf[c]
       IN  /\ IF avatar[c] = "loaded"
              THEN /\ Propagate(h, c, {}, {Avatar(c), Sdl(c)})
                   /\ m_states' = [m_states EXCEPT ![h] = @ \ {c}]
              ELSE UNCHANGED <<sees, m_states>>
           /\ m_locks' = [m_locks EXCEPT ![h] = [o \in Objects |-> IF @[o] = p THEN NoPlayer ELSE @[o]]]
           /\ holds' = [holds EXCEPT ![c] = {}]
           /\ \E new \in IF Members(h) = {} THEN {NoConn} ELSE Members(h) :
                IF m_gameMaster[h] # p
                THEN /\ owns' = owns \ {c}
                     /\ UNCHANGED m_gameMaster
                ELSE /\ m_gameMaster' = [m_gameMaster EXCEPT ![h] =
                            IF new = NoConn THEN NoPlayer ELSE PlayerOf[new]]
                     /\ owns' = (owns \ {c}) \cup ({new} \ {NoConn})
           /\ hpc' = [hpc EXCEPT ![h] = c]
    /\ Dequeue(h)
    /\ UNCHANGED <<workerVars, s_gameHosts, hstate, m_clients, jammed, admitted, stopping, avatar,
                   m_clones, listed, talk>>

\* dm_game_disconnect after the vault write: an empty age shuts itself down,
\* the worker is answered.
dm_game_disconnect_finish(h) ==
    /\ hstate[h] = "up" /\ hpc[h] # NoConn
    /\ queue' = [queue EXCEPT ![h] = IF Members(h) = {}
                    THEN Append(@, Message("shutdown", NoConn, AnyObject)) ELSE @]
    /\ Reply(hpc[h], "success")
    /\ hpc' = [hpc EXCEPT ![h] = NoConn]
    /\ UNCHANGED <<wpc, m_host, s_gameHosts, hstate, m_clients, m_gameMaster, m_locks, jammed, ghostVars, stopping, sceneVars>>

\* dm_game_shutdown: close the members' sockets and drop the clones; no message is
\* read from here on.
dm_game_shutdown_close(h) ==
    /\ Serving(h, "shutdown") /\ ~jammed[h]
    /\ hstate' = [hstate EXCEPT ![h] = "closing"]
    /\ m_clones' = [m_clones EXCEPT ![h] = {}]
    /\ Dequeue(h)
    /\ UNCHANGED <<workerVars, s_gameHosts, hpc, m_clients, m_gameMaster, m_locks, jammed, ghostVars, stopping,
                   avatar, m_states, sees, listed, talk>>

\* dm_game_shutdown, after at most 50 turns: unregister and delete the host.
dm_game_shutdown_delete(h) ==
    /\ hstate[h] = "closing"
    /\ hstate' = [hstate EXCEPT ![h] = "deleted"]
    /\ s_gameHosts' = IF s_gameHosts = h THEN NoHost ELSE s_gameHosts
    /\ UNCHANGED <<workerVars, hpc, queue, m_clients, m_gameMaster, m_locks, jammed, ghostVars, stopping, sceneVars>>

\* GameServer_Shutdown tells the registered host.
GameServer_Shutdown ==
    /\ ~stopping
    /\ stopping' = TRUE
    /\ queue' = IF s_gameHosts = NoHost THEN queue
                ELSE [queue EXCEPT ![s_gameHosts] = Append(@, Message("shutdown", NoConn, AnyObject))]
    /\ UNCHANGED <<workerVars, s_gameHosts, hstate, hpc, m_clients, m_gameMaster, m_locks, jammed, ghostVars, sceneVars>>

dm_gameHost(h) ==
    \/ dm_game_join(h)
    \/ dm_game_join_refused(h)
    \/ dm_test_and_set_lock(h)
    \/ dm_test_and_set_unlock(h)
    \/ dm_send_members(h)
    \/ \E load \in BOOLEAN : dm_load_clone_player(h, load)
    \/ \E load \in BOOLEAN : dm_load_clone(h, load)
    \/ \E bcast \in BOOLEAN : dm_read_sdl(h, bcast)
    \/ dm_send_state(h)
    \/ dm_game_message(h)
    \/ dm_game_disconnect(h)
    \/ dm_game_disconnect_finish(h)
    \/ dm_game_shutdown_close(h)
    \/ dm_game_shutdown_delete(h)

\* The steps of a worker that no peer and no other thread has to allow.
WorkerProceeds(c) ==
    \/ start_game_host(c)
    \/ start_game_host_fails(c)
    \/ start_game_host_orphan(c)
    \/ PutJoin(c)
    \/ VaultRefuses(c)
    \/ GetJoinReply(c)
    \/ Insert(c)
    \/ GetReply(c)
    \/ PutDisconnect(c)
    \/ GetDisconnectReply(c)
    \/ UseDeletedHost(c)

Next ==
    \/ \E c \in Conns : cb_join(c)
    \/ \E c \in Conns : WorkerProceeds(c)
    \/ \E c \in Conns, k \in GameMessages, o \in Objects : cb_netmsg(c, k, o)
    \/ \E c \in Conns : Erase(c)
    \/ \E h \in Hosts : dm_gameHost(h)
    \/ GameServer_Shutdown

Spec == Init /\ [][Next]_vars

\* Host and worker threads keep running; peers and the operator are free.
Fairness ==
    /\ \A h \in Hosts : WF_vars(dm_gameHost(h))
    /\ \A c \in Conns : WF_vars(WorkerProceeds(c))

FairSpec == Spec /\ Fairness

-----------------------------------------------------------------------------
Alive(h) == hstate[h] \in {"up", "closing"}

\* No other connection of the host is of c's player.
Alone(c) == \A e \in Conns \ {c} : m_host[e] = m_host[c] => PlayerOf[e] # PlayerOf[c]

\* Of the clients of a host whom no other connection shares its player with, two are
\* never affirmed one object before the first has released it or its disconnect was
\* handled; and whoever holds an object on record, with the player shared or not, is a
\* client that was affirmed it and has not left (GameHost.cpp:492-524, 213-221).
LockExclusive ==
    /\ \A c, d \in Conns :
        (c # d /\ m_host[c] = m_host[d] /\ Alone(c) /\ Alone(d)) => holds[c] \cap holds[d] = {}
    /\ \A h \in Hosts : \A o \in Objects : m_locks[h][o] # NoPlayer =>
        \E c \in Conns : m_host[c] = h /\ PlayerOf[c] = m_locks[h][o] /\ o \in holds[c]

\* At most one client of a host believes that it owns the synched objects
\* (GameHost.cpp:283-299, 223-249).
OneOwner ==
    \A c, d \in owns : m_host[c] = m_host[d] => c = d

\* The game master on record is a client that has been told so and whose
\* disconnect was not yet handled (GameHost.cpp:223-249).
MasterIsLive ==
    \A h \in Hosts : (Alive(h) /\ m_gameMaster[h] # NoPlayer) =>
        \E c \in owns : m_host[c] = h /\ PlayerOf[c] = m_gameMaster[h]

\* A pointer in the member map belongs to a worker that still is in its loop:
\* the host thread dereferences it at will (GameServer.cpp:159-161, 287-290).
NoDanglingClient ==
    \A h \in Hosts : Alive(h) =>
        \A c \in Members(h) : m_host[c] = h /\ wpc[c] \in {"idle", "asking"}

\* A client that has the host and is not in its member map.
Outsider(h, c) == m_host[c] = h /\ wpc[c] \in {"idle", "asking"} /\ c \notin Members(h)

\* No admitted client with a player of its own locks up the member map: when
\* m_clientMutex was left locked, a client that was refused, or that another connection
\* of its player took out of the map, had asked for the members of an empty age
\* (GameHost.cpp:536-547; GameServer.cpp:133-138, 172-174, 287-290).
OnlyOutsidersJam ==
    \A h \in Hosts : jammed[h] =>
        \E c \in Conns : Outsider(h, c) /\ (c \notin admitted \/ ~Alone(c))

\* A member that was sent the member list has what the host has: the avatar of
\* every other member that loaded one, and the same clones.  What was loaded
\* while it was joining, when it is not in the map yet, reaches it only with the
\* list (GameHost.cpp:555-588, 591-621; GameServer.cpp:159-161).
SceneComplete ==
    \A h \in Hosts : \A c \in (IF hstate[h] = "up" THEN Members(h) \cap listed ELSE {}) :
        /\ \A d \in Members(h) \ {c} : avatar[d] = "loaded" => Avatar(d) \in sees[c]
        /\ \A o \in Objects : Clone(o) \in sees[c] <=> o \in m_clones[h]

\* Nothing is left of a player who is gone, in the host or in the scene of its
\* members, unless he had unloaded his avatar, or never loaded it, before he left
\* (GameHost.cpp:172-198, 574-581: the list shows unloaded avatars too).
NoLeftovers ==
    \A d \in Conns : (wpc[d] = "gone" /\ avatar[d] = "loaded") =>
        /\ \A h \in Hosts : d \notin m_states[h]
        /\ \A h \in Hosts : \A c \in (IF hstate[h] = "up" THEN Members(h) ELSE {}) :
              sees[c] \cap {Avatar(d), Sdl(d)} = {}

Waiting(c) == wpc[c] \in {"joining", "asking", "leaving"}

\* Messages of c that its host has not answered, and answers c has not read.
Outstanding(c) ==
    (IF m_host[c] = NoHost THEN 0 ELSE
       Cardinality({i \in DOMAIN queue[m_host[c]] : queue[m_host[c]][i].conn = c})
       + (IF hpc[m_host[c]] = c THEN 1 ELSE 0))
    + Len(m_channel[c])

\* A waiting worker has exactly one message or answer under way, any other
\* worker none (GameServer.cpp:146-150, 172-174, 291-298).
OneReplyPerMessage ==
    \A c \in Conns : Outstanding(c) = IF Waiting(c) THEN 1 ELSE 0

\* "In MOUL, one player owns ALL synched objects" (GameHost.cpp:283-285): no two
\* joined clients of the age are told so, and a host at rest with a joined member
\* has a game master.
OneGameMaster ==
    /\ \A c, d \in owns \cap admitted : (Alive(m_host[c]) /\ Alive(m_host[d])) => c = d
    /\ \A h \in Hosts :
        (hstate[h] = "up" /\ queue[h] = <<>> /\ hpc[h] = NoConn /\ Members(h) \cap admitted # {})
            => m_gameMaster[h] # NoPlayer

\* "Keep clients from blocking on a reply" (GameHost.cpp:828): a worker that
\* announced its disconnect ends.
LeaverAnswered == \A c \in Conns : (wpc[c] = "leaving") ~> (wpc[c] = "gone")
=============================================================================

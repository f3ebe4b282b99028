------------------------------- MODULE AgeSdl -------------------------------
(***************************************************************************)
(* The two ways into an age's SDL state, and the two threads that call each   *)
(* other on the way: the auth daemon (AuthDaemon.cpp, e_VaultUpdateNode,       *)
(* e_AuthFetchSDL, e_AuthUpdateAgeSrv) and the game host of the age            *)
(* (GameHost.cpp, start_game_host, dm_game_join, dm_read_sdl,                  *)
(* dm_local_sdl_update, dm_game_disconnect, dm_game_shutdown).                 *)
(*                                                                             *)
(* A client may save the SDL node in the vault: the daemon passes it to the    *)
(* registered host, holding s_gameHostMutex, and blocks for the answer.  A     *)
(* client in the age may send an AgeSDLHook update: the host merges it and      *)
(* asks the daemon to save its copy, blocking for the answer.                  *)
(*                                                                             *)
(* Each update changes a variable of its own, so a state is the set of         *)
(* updates it contains and State::add and State::merge are both union.  One    *)
(* game client visits the age again and again; the races between several are   *)
(* in GameHost.                                                                *)
(***************************************************************************)
EXTENDS Naturals, Sequences

CONSTANTS
    VaultUpdates,  \* saves of the SDL node, each by an auth worker of its own
    HookUpdates,   \* AgeSDLHook updates sent from inside the age
    Faults,        \* failures that may happen in this instance
    MaxLives       \* bound on the number of game hosts started

ASSUME UpdatesAssumption == VaultUpdates \cap HookUpdates = {}
ASSUME FaultAssumption == Faults \subseteq {"fetch", "parse", "update", "internal"}
ASSUME LivesAssumption == MaxLives \in Nat

Updates == VaultUpdates \cup HookUpdates

VARIABLES
    vpc,           \* each auth worker that saves the node
    gpc,           \* the game client's worker
    toSend,        \* AgeSDLHook updates not yet sent
    s_authChannel, \* the daemon's queue
    daemon,        \* "idle", or the save it has passed to the host
    phase,         \* what the host thread is doing or waiting for
    registered,    \* the host is in s_gameHosts
    m_channel,     \* the host's queue
    m_localState,  \* the host's copy of the age's SDL state
    hookReply,     \* the update whose sender waits for the host
    answered,      \* a reply of the daemon waits for the host
    hostAnswered,  \* the reply of the host that waits for the daemon, if any
    vault,         \* Blob_1 of the SDL node
    hookAcked,     \* ghost: AgeSDLHook updates whose sender was answered
    exposed,       \* ghost: updates that a failed fetch or save of the host dealt with
    lives          \* hosts started so far

vars == <<vpc, gpc, toSend, s_authChannel, daemon, phase, registered, m_channel,
          m_localState, hookReply, answered, hostAnswered, vault, hookAcked, exposed, lives>>

NoUpdate == "none"
Phases == {"none", "fetch", "null", "fetched", "upgrading", "ready", "idle", "join", "hook",
           "vaultWrite", "leave", "closing"}

Request(kind, u, blob) == [kind |-> kind, upd |-> u, blob |-> blob]

\* The messages of the two queues.
AuthRequests == [kind : {"fetch", "save", "internal", "ageSrv"},
                 upd : Updates \cup {NoUpdate}, blob : SUBSET Updates]
HostRequests == [kind : {"join", "hook", "leave", "localSdl", "shutdown"},
                 upd : Updates \cup {NoUpdate}, blob : SUBSET Updates]

TypeOK ==
    /\ vpc \in [VaultUpdates -> {"new", "wait", "acked", "refused"}]
    /\ gpc \in {"out", "starting", "joining", "in", "asking", "leaving"}
    /\ toSend \subseteq HookUpdates
    /\ s_authChannel \in Seq(AuthRequests)
    /\ daemon \in VaultUpdates \cup {"idle"}
    /\ phase \in Phases
    /\ registered \in BOOLEAN
    /\ m_channel \in Seq(HostRequests)
    /\ m_localState \subseteq Updates
    /\ hookReply \in HookUpdates \cup {NoUpdate}
    /\ answered \in BOOLEAN
    /\ hostAnswered \in {"none", "acked", "refused"}
    /\ vault \subseteq Updates
    /\ hookAcked \subseteq HookUpdates
    /\ exposed \subseteq Updates
    /\ lives \in 0 .. MaxLives

Init ==
    /\ vpc = [u \in VaultUpdates |-> "new"]
    /\ gpc = "out"
    /\ toSend = HookUpdates
    /\ s_authChannel = <<>>
    /\ daemon = "idle"
    /\ phase = "none"
    /\ registered = FALSE
    /\ m_channel = <<>>
    /\ m_localState = {}
    /\ hookReply = NoUpdate
    /\ answered = FALSE
    /\ hostAnswered = "none"
    /\ vault = {}
    /\ hookAcked = {}
    /\ exposed = {}
    /\ lives = 0

\* s_gameHostMutex is held by the daemon while it waits for the host.
MutexFree == daemon = "idle"

Ask(kind, u, blob) == s_authChannel' = Append(s_authChannel, Request(kind, u, blob))
Send(kind, u, blob) == m_channel' = Append(m_channel, Request(kind, u, blob))

-----------------------------------------------------------------------------
(* Clients.                                                                  *)

\* cb_nodeUpdate: the client saves the node, with its change on top of the
\* node's present contents.
cb_nodeUpdate(u) ==
    /\ vpc[u] = "new"
    /\ vpc' = [vpc EXCEPT ![u] = "wait"]
    /\ Ask("save", u, vault \cup {u})
    /\ UNCHANGED <<gpc, toSend, daemon, phase, registered, m_channel, m_localState, hookReply,
                   answered, hostAnswered, vault, hookAcked, exposed, lives>>

\* cb_join: find_game_host finds the host.
cb_join ==
    /\ gpc = "out" /\ MutexFree /\ registered
    /\ gpc' = "joining"
    /\ Send("join", NoUpdate, {})
    /\ UNCHANGED <<vpc, toSend, s_authChannel, daemon, phase, registered, m_localState, hookReply,
                   answered, hostAnswered, vault, hookAcked, exposed, lives>>

\* start_game_host asks the daemon for the age's state, before the new host is
\* known to anybody.
start_game_host ==
    /\ gpc = "out" /\ MutexFree /\ ~registered /\ phase = "none"
    /\ lives < MaxLives
    /\ lives' = lives + 1
    /\ gpc' = "starting"
    /\ phase' = "fetch"
    /\ Ask("fetch", NoUpdate, {})
    /\ UNCHANGED <<vpc, toSend, daemon, registered, m_channel, m_localState, hookReply, answered,
                   hostAnswered, vault, hookAcked, exposed>>

\* start_game_host: the node was empty, or could not be read, and the host starts
\* from the default state; or the descriptor was updated.  Write the state back.
start_game_host_upgrade ==
    /\ phase \in {"null", "fetched"}
    /\ phase' = "upgrading"
    /\ Ask("internal", NoUpdate, m_localState)
    /\ UNCHANGED <<vpc, gpc, toSend, daemon, registered, m_channel, m_localState, hookReply,
                   answered, hostAnswered, vault, hookAcked, exposed, lives>>

\* start_game_host, the blob cannot be parsed: it gives the new host up, and cb_join
\* tells the client.
start_game_host_unparsed ==
    /\ "parse" \in Faults
    /\ phase = "fetched"
    /\ phase' = "none"
    /\ gpc' = "out"
    /\ m_localState' = {}
    /\ UNCHANGED <<vpc, toSend, s_authChannel, daemon, registered, m_channel, hookReply, answered,
                   hostAnswered, vault, hookAcked, exposed, lives>>

\* start_game_host registers the host; cb_join then sends it the join.
start_game_host_register ==
    /\ phase \in {"fetched", "ready"} /\ MutexFree
    /\ phase' = "idle"
    /\ registered' = TRUE
    /\ gpc' = "joining"
    /\ Send("join", NoUpdate, {})
    /\ UNCHANGED <<vpc, toSend, s_authChannel, daemon, m_localState, hookReply, answered,
                   hostAnswered, vault, hookAcked, exposed, lives>>

\* cb_netmsg with an AgeSDLHook update
cb_netmsg(u) ==
    /\ gpc = "in" /\ u \in toSend
    /\ toSend' = toSend \ {u}
    /\ gpc' = "asking"
    /\ Send("hook", u, {u})
    /\ UNCHANGED <<vpc, s_authChannel, daemon, phase, registered, m_localState, hookReply, answered,
                   hostAnswered, vault, hookAcked, exposed, lives>>

\* wk_gameWorker: e_GameDisconnect
Disconnect ==
    /\ gpc = "in"
    /\ gpc' = "leaving"
    /\ Send("leave", NoUpdate, {})
    /\ UNCHANGED <<vpc, toSend, s_authChannel, daemon, phase, registered, m_localState, hookReply,
                   answered, hostAnswered, vault, hookAcked, exposed, lives>>

-----------------------------------------------------------------------------
(* The game host.                                                            *)

Hosting(kind) == phase = "idle" /\ m_channel # <<>> /\ Head(m_channel).kind = kind

\* The daemon's reply, which the host thread was blocked for.
Awaited(p) == phase = p /\ answered

\* dm_game_join asks for the player with e_AuthUpdateAgeSrv and blocks ...
dm_game_join ==
    /\ Hosting("join")
    /\ m_channel' = Tail(m_channel)
    /\ phase' = "join"
    /\ Ask("ageSrv", NoUpdate, {})
    /\ UNCHANGED <<vpc, gpc, toSend, daemon, registered, m_localState, hookReply, answered,
                   hostAnswered, vault, hookAcked, exposed, lives>>

\* ... and answers the worker.
dm_game_join_reply ==
    /\ Awaited("join")
    /\ answered' = FALSE
    /\ phase' = "idle"
    /\ gpc' = "in"
    /\ UNCHANGED <<vpc, toSend, s_authChannel, daemon, registered, m_channel, m_localState,
                   hookReply, hostAnswered, vault, hookAcked, exposed, lives>>

\* dm_read_sdl for the AgeSDLHook: add the update, save the whole copy ...
dm_read_sdl ==
    /\ Hosting("hook")
    /\ m_channel' = Tail(m_channel)
    /\ phase' = "hook"
    /\ m_localState' = m_localState \cup Head(m_channel).blob
    /\ hookReply' = Head(m_channel).upd
    /\ Ask("internal", NoUpdate, m_localState')
    /\ UNCHANGED <<vpc, gpc, toSend, daemon, registered, answered, hostAnswered, vault, hookAcked, exposed, lives>>

\* Variant: the pending request is cleared before it is acknowledged.
dm_read_sdl_reply_cleared ==
    /\ Awaited("hook")
    /\ answered' = FALSE
    /\ phase' = "idle"
    /\ gpc' = "in"
    /\ hookReply' = NoUpdate
    /\ hookAcked' = hookAcked \cup {hookReply'}
    /\ UNCHANGED <<vpc, toSend, s_authChannel, daemon, registered, m_channel, m_localState,
                   hostAnswered, vault, exposed, lives>>

\* ... and answer the worker.
dm_read_sdl_reply ==
    /\ Awaited("hook")
    /\ answered' = FALSE
    /\ phase' = "idle"
    /\ gpc' = "in"
    /\ hookAcked' = hookAcked \cup {hookReply}
    /\ hookReply' = NoUpdate
    /\ UNCHANGED <<vpc, toSend, s_authChannel, daemon, registered, m_channel, m_localState,
                   hostAnswered, vault, exposed, lives>>

\* Variant: the daemon's blob is saved as it came instead of the merged copy.
dm_local_sdl_update_raw ==
    /\ Hosting("localSdl")
    /\ m_channel' = Tail(m_channel)
    /\ phase' = "vaultWrite"
    /\ m_localState' = m_localState \cup Head(m_channel).blob
    /\ hostAnswered' = "acked"
    /\ Ask("internal", NoUpdate, Head(m_channel).blob)
    /\ UNCHANGED <<vpc, gpc, toSend, daemon, registered, hookReply, answered, vault, hookAcked, exposed, lives>>

\* dm_local_sdl_update: merge the vault's version, release the daemon, and ask
\* it to save the authoritative one.
dm_local_sdl_update ==
    /\ Hosting("localSdl")
    /\ m_channel' = Tail(m_channel)
    /\ phase' = "vaultWrite"
    /\ m_localState' = m_localState \cup Head(m_channel).blob
    /\ hostAnswered' = "acked"
    /\ Ask("internal", NoUpdate, m_localState')
    /\ UNCHANGED <<vpc, gpc, toSend, daemon, registered, hookReply, answered, vault, hookAcked, exposed, lives>>

\* dm_local_sdl_update, the blob cannot be parsed: only the daemon is answered.
dm_local_sdl_update_refused ==
    /\ "parse" \in Faults
    /\ Hosting("localSdl")
    /\ m_channel' = Tail(m_channel)
    /\ hostAnswered' = "refused"
    /\ UNCHANGED <<vpc, gpc, toSend, s_authChannel, daemon, phase, registered, m_localState,
                   hookReply, answered, vault, hookAcked, exposed, lives>>

\* dm_local_sdl_update and start_game_host after their save, which may have
\* failed: carry on.
SaveReply ==
    /\ Awaited("vaultWrite") \/ Awaited("upgrading")
    /\ answered' = FALSE
    /\ phase' = IF phase = "upgrading" THEN "ready" ELSE "idle"
    /\ UNCHANGED <<vpc, gpc, toSend, s_authChannel, daemon, registered, m_channel, m_localState,
                   hookReply, hostAnswered, vault, hookAcked, exposed, lives>>

\* dm_game_disconnect writes the state back to the vault ...
dm_game_disconnect ==
    /\ Hosting("leave")
    /\ m_channel' = Tail(m_channel)
    /\ phase' = "leave"
    /\ Ask("internal", NoUpdate, m_localState)
    /\ UNCHANGED <<vpc, gpc, toSend, daemon, registered, m_localState, hookReply, answered,
                   hostAnswered, vault, hookAcked, exposed, lives>>

\* Variant: the worker of the last player is forgotten.
dm_game_disconnect_noReply ==
    /\ Awaited("leave")
    /\ answered' = FALSE
    /\ phase' = "idle"
    /\ Send("shutdown", NoUpdate, {})
    /\ UNCHANGED <<vpc, gpc, toSend, s_authChannel, daemon, registered, m_localState, hookReply,
                   hostAnswered, vault, hookAcked, exposed, lives>>

\* ... then, the age being empty, tells itself to shut down.
dm_game_disconnect_reply ==
    /\ Awaited("leave")
    /\ answered' = FALSE
    /\ phase' = "idle"
    /\ gpc' = "out"
    /\ Send("shutdown", NoUpdate, {})
    /\ UNCHANGED <<vpc, toSend, s_authChannel, daemon, registered, m_localState, hookReply,
                   hostAnswered, vault, hookAcked, exposed, lives>>

\* dm_game_shutdown closes the sockets: no message is read from here on ...
dm_game_shutdown ==
    /\ Hosting("shutdown")
    /\ m_channel' = Tail(m_channel)
    /\ phase' = "closing"
    /\ UNCHANGED <<vpc, gpc, toSend, s_authChannel, daemon, registered, m_localState, hookReply,
                   answered, hostAnswered, vault, hookAcked, exposed, lives>>

\* ... and the host leaves s_gameHosts and is deleted with its queue.
dm_game_shutdown_delete ==
    /\ phase = "closing" /\ MutexFree
    /\ phase' = "none"
    /\ registered' = FALSE
    /\ m_channel' = <<>>
    /\ m_localState' = {}
    /\ UNCHANGED <<vpc, gpc, toSend, s_authChannel, daemon, hookReply, answered, hostAnswered,
                   vault, hookAcked, exposed, lives>>

-----------------------------------------------------------------------------
(* The auth daemon.                                                          *)

Serving(kind) == daemon = "idle" /\ s_authChannel # <<>> /\ Head(s_authChannel).kind = kind

\* e_VaultUpdateNode from a client, the age has a host: GameServer_UpdateVaultSDL
\* passes it on and blocks, with s_gameHostMutex held.
GameServer_UpdateVaultSDL ==
    /\ Serving("save") /\ registered
    /\ daemon' = Head(s_authChannel).upd
    /\ s_authChannel' = Tail(s_authChannel)
    /\ Send("localSdl", Head(s_authChannel).upd, Head(s_authChannel).blob)
    /\ UNCHANGED <<vpc, gpc, toSend, phase, registered, m_localState, hookReply, answered,
                   hostAnswered, vault, hookAcked, exposed, lives>>

\* The host answered: the client is told so; the host saves the node later.
GameServer_UpdateVaultSDL_reply ==
    /\ daemon # "idle" /\ hostAnswered # "none"
    /\ hostAnswered' = "none"
    /\ vpc' = [vpc EXCEPT ![daemon] = hostAnswered]
    /\ daemon' = "idle"
    /\ UNCHANGED <<gpc, toSend, s_authChannel, phase, registered, m_channel, m_localState,
                   hookReply, answered, vault, hookAcked, exposed, lives>>

\* e_VaultUpdateNode from a client, no host (e_NetAgeNotFound): straight to the
\* vault.
v_update_node ==
    /\ Serving("save") /\ ~registered
    /\ \/ /\ vault' = Head(s_authChannel).blob
          /\ vpc' = [vpc EXCEPT ![Head(s_authChannel).upd] = "acked"]
       \/ /\ "update" \in Faults
          /\ vpc' = [vpc EXCEPT ![Head(s_authChannel).upd] = "refused"]
          /\ UNCHANGED vault
    /\ s_authChannel' = Tail(s_authChannel)
    /\ UNCHANGED <<gpc, toSend, daemon, phase, registered, m_channel, m_localState, hookReply,
                   answered, hostAnswered, hookAcked, exposed, lives>>

\* e_VaultUpdateNode from a host (m_internal): saved as it is.  The host prints
\* a failure and carries on.
v_update_node_internal ==
    /\ Serving("internal")
    /\ \/ vault' = Head(s_authChannel).blob /\ UNCHANGED exposed
       \/ /\ "internal" \in Faults
          /\ exposed' = exposed \cup Head(s_authChannel).blob
          /\ UNCHANGED vault
    /\ answered' = TRUE
    /\ s_authChannel' = Tail(s_authChannel)
    /\ UNCHANGED <<vpc, gpc, toSend, daemon, phase, registered, m_channel, m_localState, hookReply,
                   hostAnswered, hookAcked, lives>>

\* dm_auth_fetchSDL
dm_auth_fetchSDL ==
    /\ Serving("fetch")
    /\ m_localState' = vault
    /\ phase' = "fetched"
    /\ s_authChannel' = Tail(s_authChannel)
    /\ UNCHANGED <<vpc, gpc, toSend, daemon, registered, m_channel, hookReply, answered,
                   hostAnswered, vault, hookAcked, exposed, lives>>

\* dm_auth_fetchSDL, the SELECT of v_fetch_node fails: the reply is a success all the
\* same, with an empty blob, which the host takes for a node without a state.
dm_auth_fetchSDL_null ==
    /\ "fetch" \in Faults
    /\ Serving("fetch")
    /\ m_localState' = {}
    /\ phase' = "null"
    /\ exposed' = exposed \cup vault
    /\ s_authChannel' = Tail(s_authChannel)
    /\ UNCHANGED <<vpc, gpc, toSend, daemon, registered, m_channel, hookReply, answered,
                   hostAnswered, vault, hookAcked, lives>>

\* dm_auth_updateAgeSrv
dm_auth_updateAgeSrv ==
    /\ Serving("ageSrv")
    /\ answered' = TRUE
    /\ s_authChannel' = Tail(s_authChannel)
    /\ UNCHANGED <<vpc, gpc, toSend, daemon, phase, registered, m_channel, m_localState, hookReply,
                   hostAnswered, vault, hookAcked, exposed, lives>>

dm_gameHost ==
    \/ start_game_host_upgrade
    \/ start_game_host_unparsed
    \/ start_game_host_register
    \/ dm_game_join
    \/ dm_game_join_reply
    \/ dm_read_sdl
    \/ dm_read_sdl_reply
    \/ dm_local_sdl_update
    \/ dm_local_sdl_update_refused
    \/ SaveReply
    \/ dm_game_disconnect
    \/ dm_game_disconnect_reply
    \/ dm_game_shutdown
    \/ dm_game_shutdown_delete

dm_authDaemon ==
    \/ GameServer_UpdateVaultSDL
    \/ GameServer_UpdateVaultSDL_reply
    \/ v_update_node
    \/ v_update_node_internal
    \/ dm_auth_fetchSDL
    \/ dm_auth_fetchSDL_null
    \/ dm_auth_updateAgeSrv

Next ==
    \/ \E u \in VaultUpdates : cb_nodeUpdate(u)
    \/ cb_join
    \/ start_game_host
    \/ \E u \in HookUpdates : cb_netmsg(u)
    \/ Disconnect
    \/ dm_gameHost
    \/ dm_authDaemon

Spec == Init /\ [][Next]_vars

\* Both threads run; the clients are free.
FairSpec == Spec /\ WF_vars(dm_gameHost) /\ WF_vars(dm_authDaemon)

-----------------------------------------------------------------------------
\* An update the host has acknowledged to a player in the age is in the vault and
\* stays there, whatever is saved by other clients and later hosts, unless the host
\* itself met a failing statement with it: a save that carried it, or a fetch that
\* should have returned it (GameHost.cpp:461-466, 746-784, 911-933).
Safe == hookAcked \ exposed
HookAckedIsSaved == Safe \subseteq vault

\* As long as the daemon keeps coming back from the host, the worker of a player
\* who joins, leaves or sends an update is answered (GameHost.cpp:828 "Keep
\* clients from blocking on a reply"): nothing but a save passed to the host can
\* stop it.  A worker that joins behind the host's own shutdown message is the
\* race of GameHost.
WorkerAnswered ==
    []<>(daemon = "idle") =>
        /\ (gpc \in {"starting", "asking", "leaving"}) ~> (gpc \in {"joining", "in", "out"})
        /\ (gpc = "joining") ~> (gpc = "in" \/ phase \in {"closing", "none"})

\* "This prevents race conditions between the AgeSDLHook and vault updates"
\* (AuthDaemon.cpp:1095-1097): with both threads at rest, every save that was
\* answered with success is in the vault.
SavesNotLost ==
    (s_authChannel = <<>> /\ daemon = "idle" /\ phase \in {"none", "idle"} /\ m_channel = <<>>)
        => \A u \in VaultUpdates : vpc[u] = "acked" => u \in vault

\* "Keep clients from blocking on a reply" (AuthDaemon.cpp:1253): the worker that
\* saves the node is answered.
SavesAnswered == \A u \in VaultUpdates : (vpc[u] = "wait") ~> (vpc[u] \in {"acked", "refused"})
=============================================================================

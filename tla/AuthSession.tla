---------------------------- MODULE AuthSession ----------------------------
(***************************************************************************)
(* The auth server's session layer (AuthServ/AuthServer.cpp, AuthDaemon.cpp): *)
(* one worker thread per connection, one daemon thread that owns the          *)
(* database, the request queue s_authChannel between them, one reply channel   *)
(* per requester, and the shared list s_authClients.  A worker puts a request  *)
(* whose payload is on its own stack and blocks on its reply channel; a game   *)
(* host does the same with e_AuthUpdateAgeSrv.                                 *)
(*                                                                             *)
(* The worker writes m_player.m_playerId itself, before the daemon has         *)
(* validated it, and without a lock: every reader of another client's          *)
(* m_playerId may see a player that was never granted.                         *)
(*                                                                             *)
(* Abstracted: channels are the atomic FIFO of FifoChannel (MsgChannelProofs   *)
(* shows the implementation keeps that contract); the broadcast of changed     *)
(* vault nodes, the age a session is in (m_ageNodeId) and the text fields of a  *)
(* player are data no property here tells apart.                               *)
(***************************************************************************)
EXTENDS Naturals, Sequences, FiniteSets

CONSTANTS
    Clients,      \* connections, each served by a wk_authWorker thread
    Hosts,        \* game host threads that send e_AuthUpdateAgeSrv
    Players,      \* rows that auth."Players" may ever hold
    Accounts,     \* rows of auth."Accounts"
    NoPlayer,     \* player id 0
    NoAccount,    \* the null account uuid
    NoClient,     \* a null AuthServer_Private*
    Faults,       \* database statements that may fail in this instance
    MaxRestarts   \* bound on the console's "restart auth"

ASSUME NullAssumption ==
    /\ NoPlayer \notin Players
    /\ NoAccount \notin Accounts \cup {"absent", "deleted"}
    /\ {"absent", "deleted"} \cap Accounts = {}
    /\ NoClient \notin Clients \cup Hosts
    /\ Clients \cap Hosts = {}
ASSUME FaultAssumption == Faults \subseteq {"init", "select", "update", "createNode", "insert"}
ASSUME RestartAssumption == MaxRestarts \in Nat

Requesters == Clients \cup Hosts

VARIABLES
    pc,             \* where each worker or host is
    sock,           \* is the connection's socket still open?
    s_authClients,  \* the list of clients the daemon may reach
    acct,           \* client->m_acctUuid
    playerId,       \* client->m_player.m_playerId
    grant,          \* ghost: what the daemon last said about playerId
    s_authChannel,  \* requests waiting for the daemon
    daemon,         \* the daemon thread: phase, current request, client found
    m_channel,      \* replies waiting for each requester
    owner,          \* auth."Players": the account of each player
    online,         \* Int32_1 of each player's PlayerInfo node
    restarts,       \* restarts so far
    console,        \* main: at its prompt, or joining the daemon in a restart
    dropped         \* ghost: workers whose request was taken and never answered

vars == <<pc, sock, s_authClients, acct, playerId, grant,
          s_authChannel, daemon, m_channel, owner, online, restarts, console, dropped>>

Kinds == {"login", "setPlayer", "createPlayer", "deletePlayer", "findAge",
          "disconnect", "updateAgeSrv", "shutdown"}

Request(kind, r, arg) == [kind |-> kind, client |-> r, arg |-> arg]

Requests == [kind : Kinds, client : Requesters \cup {NoClient},
             arg : Accounts \cup Players \cup {NoPlayer}]

Idle == [phase |-> "idle", msg |-> Request("shutdown", NoClient, NoPlayer), found |-> NoClient]

TypeOK ==
    /\ pc \in [Requesters -> {"down", "idle", "wait", "leaving", "left"}]
    /\ sock \in [Clients -> BOOLEAN]
    /\ s_authClients \subseteq Clients
    /\ acct \in [Clients -> Accounts \cup {NoAccount}]
    /\ playerId \in [Clients -> Players \cup {NoPlayer}]
    /\ grant \in [Clients -> {"none", "marked", "unmarked"}]
    /\ s_authChannel \in Seq(Requests)
    /\ daemon \in [phase : {"init", "idle", "mark", "ageWrite", "closing", "dead"},
                   msg : Requests, found : Clients \cup {NoClient}]
    /\ m_channel \in [Requesters -> Seq({"success", "failure"})]
    /\ owner \in [Players -> Accounts \cup {NoAccount, "absent", "deleted"}]
    /\ online \in [Players -> BOOLEAN]
    /\ restarts \in 0 .. MaxRestarts
    /\ console \in {"idle", "join"}
    /\ dropped \subseteq Clients

\* AuthServer_Init has just started the daemon.  Some players may exist from
\* earlier runs of the server, and their PlayerInfo may still say online.
Init ==
    /\ pc = [r \in Requesters |-> IF r \in Hosts THEN "idle" ELSE "down"]
    /\ sock = [c \in Clients |-> FALSE]
    /\ s_authClients = {}
    /\ acct = [c \in Clients |-> NoAccount]
    /\ playerId = [c \in Clients |-> NoPlayer]
    /\ grant = [c \in Clients |-> "none"]
    /\ s_authChannel = <<>>
    /\ daemon = [Idle EXCEPT !.phase = "init"]
    /\ m_channel = [r \in Requesters |-> <<>>]
    /\ owner \in [Players -> Accounts \cup {"absent"}]
    /\ online \in [Players -> BOOLEAN]
    /\ \A p \in Players : owner[p] = "absent" => ~online[p]
    /\ restarts = 0
    /\ console = "idle"
    /\ dropped = {}

clientVars == <<sock, s_authClients, acct, playerId, grant>>
dbVars == <<owner, online>>
consoleVars == <<restarts, console, dropped>>

-----------------------------------------------------------------------------
(* The worker threads.                                                       *)

\* wk_authWorker: the handshake succeeded, the client joins the list.
Connect(c) ==
    /\ pc[c] = "down"
    /\ pc' = [pc EXCEPT ![c] = "idle"]
    /\ sock' = [sock EXCEPT ![c] = TRUE]
    /\ s_authClients' = s_authClients \cup {c}
    /\ UNCHANGED <<acct, playerId, grant, s_authChannel, daemon, m_channel, dbVars, consoleVars>>

\* The worker leaves its loop and announces the disconnect.
Leave(c) ==
    /\ s_authChannel' = Append(s_authChannel, Request("disconnect", c, NoPlayer))
    /\ pc' = [pc EXCEPT ![c] = "leaving"]
    /\ UNCHANGED <<clientVars, daemon, m_channel, dbVars, consoleVars>>

\* wk_authWorker: auth_init threw.  The worker was never in the list but still
\* tells the daemon that it disconnects.
HandshakeFails(c) ==
    /\ pc[c] = "down"
    /\ Leave(c)

\* putMessage on s_authChannel, then getMessage on the requester's own channel.
Ask(r, kind, arg) ==
    /\ s_authChannel' = Append(s_authChannel, Request(kind, r, arg))
    /\ pc' = [pc EXCEPT ![r] = "wait"]

\* cb_login
cb_login(c, a) ==
    /\ pc[c] = "idle" /\ sock[c]
    /\ Ask(c, "login", a)
    /\ UNCHANGED <<clientVars, daemon, m_channel, dbVars, consoleVars>>

\* cb_setPlayer: m_playerId is written before anybody has looked at it.
cb_setPlayer(c, p) ==
    /\ pc[c] = "idle" /\ sock[c]
    /\ playerId' = [playerId EXCEPT ![c] = p]
    /\ grant' = [grant EXCEPT ![c] = "none"]
    /\ IF p = NoPlayer
       THEN UNCHANGED <<pc, s_authChannel>>
       ELSE Ask(c, "setPlayer", p)
    /\ UNCHANGED <<sock, s_authClients, acct, daemon, m_channel, dbVars, consoleVars>>

\* cb_playerCreate, cb_playerDelete, cb_ageRequest
cb_request(c, kind, p) ==
    /\ pc[c] = "idle" /\ sock[c]
    /\ kind \in {"createPlayer", "deletePlayer", "findAge"}
    /\ Ask(c, kind, p)
    /\ UNCHANGED <<clientVars, daemon, m_channel, dbVars, consoleVars>>

\* The blocked worker or host gets its reply and goes back to its loop.
GetReply(r) ==
    /\ pc[r] = "wait"
    /\ m_channel[r] # <<>>
    /\ m_channel' = [m_channel EXCEPT ![r] = Tail(@)]
    /\ pc' = [pc EXCEPT ![r] = "idle"]
    /\ UNCHANGED <<clientVars, s_authChannel, daemon, dbVars, consoleVars>>

\* The peer goes away, or stays silent for NET_TIMEOUT.
PeerCloses(c) ==
    /\ pc[c] \in {"idle", "wait"} /\ sock[c]
    /\ sock' = [sock EXCEPT ![c] = FALSE]
    /\ UNCHANGED <<pc, s_authClients, acct, playerId, grant, s_authChannel, daemon, m_channel, dbVars, consoleVars>>

\* poll, recv or send reports it: SockHup leaves the loop.
Hup(c) ==
    /\ pc[c] = "idle" /\ ~sock[c]
    /\ Leave(c)

\* The leaving worker waits for the daemon's reply, still in the list ...
GetDisconnectReply(c) ==
    /\ pc[c] = "leaving"
    /\ m_channel[c] # <<>>
    /\ m_channel' = [m_channel EXCEPT ![c] = Tail(@)]
    /\ pc' = [pc EXCEPT ![c] = "left"]
    /\ UNCHANGED <<clientVars, s_authChannel, daemon, dbVars, consoleVars>>

\* ... and then leaves the list, drains its broadcasts and ends; the client
\* structure was on its stack.
Remove(c) ==
    /\ pc[c] = "left"
    /\ s_authClients' = s_authClients \ {c}
    /\ pc' = [pc EXCEPT ![c] = "down"]
    /\ sock' = [sock EXCEPT ![c] = FALSE]
    /\ acct' = [acct EXCEPT ![c] = NoAccount]
    /\ playerId' = [playerId EXCEPT ![c] = NoPlayer]
    /\ grant' = [grant EXCEPT ![c] = "none"]
    /\ m_channel' = [m_channel EXCEPT ![c] = <<>>]
    /\ UNCHANGED <<s_authChannel, daemon, dbVars, consoleVars>>

\* dm_game_join in a game host asks whether the player is logged in, and has
\* its age node id stored with the session.
HostAsks(h, p) ==
    /\ pc[h] = "idle"
    /\ Ask(h, "updateAgeSrv", p)
    /\ UNCHANGED <<clientVars, daemon, m_channel, dbVars, consoleVars>>

-----------------------------------------------------------------------------
(* The daemon thread.                                                        *)

\* getMessage on s_authChannel returned a request of this kind.
Serving(kind) ==
    /\ daemon.phase = "idle"
    /\ s_authChannel # <<>>
    /\ Head(s_authChannel).kind = kind

\* SEND_REPLY
Reply(r, code) == m_channel' = [m_channel EXCEPT ![r] = Append(@, code)]

\* dm_auth_login: the account is cleared, then looked up; a banned or restricted
\* account is refused after m_acctUuid has been set.
dm_auth_login ==
    /\ Serving("login")
    /\ LET c == Head(s_authChannel).client
           a == Head(s_authChannel).arg
       IN  \E outcome \in {"denied", "refused", "accepted"} :
             /\ acct' = [acct EXCEPT ![c] = IF outcome = "denied" THEN NoAccount ELSE a]
             /\ Reply(c, IF outcome = "accepted" THEN "success" ELSE "failure")
    /\ s_authChannel' = Tail(s_authChannel)
    /\ UNCHANGED <<pc, sock, s_authClients, playerId, grant, daemon, dbVars, consoleVars>>

\* Variant: the scan for another session of the player is left out.
dm_auth_setPlayer_noScan ==
    /\ Serving("setPlayer")
    /\ LET c == Head(s_authChannel).client
           valid == owner[playerId[c]] = acct[c]
       IN  \/ /\ ~valid
              /\ playerId' = [playerId EXCEPT ![c] = NoPlayer]
              /\ Reply(c, "failure")
              /\ UNCHANGED daemon
           \/ /\ valid
              /\ daemon' = [Idle EXCEPT !.phase = "mark", !.msg = Head(s_authChannel)]
              /\ UNCHANGED <<playerId, m_channel>>
    /\ s_authChannel' = Tail(s_authChannel)
    /\ UNCHANGED <<pc, sock, s_authClients, acct, grant, dbVars, consoleVars>>

\* dm_auth_setPlayer, up to the scan of the list: the player must belong to the
\* account and must not be in use by another client of the list.
dm_auth_setPlayer_scan ==
    /\ Serving("setPlayer")
    /\ LET c == Head(s_authChannel).client
           valid == owner[playerId[c]] = acct[c]
           elsewhere == \E d \in s_authClients : d # c /\ playerId[d] = playerId[c]
       IN  \/ /\ ~valid \/ elsewhere \/ "select" \in Faults
              /\ playerId' = [playerId EXCEPT ![c] = NoPlayer]
              /\ Reply(c, "failure")
              /\ UNCHANGED daemon
           \/ /\ valid /\ ~elsewhere
              /\ daemon' = [Idle EXCEPT !.phase = "mark", !.msg = Head(s_authChannel)]
              /\ UNCHANGED <<playerId, m_channel>>
    /\ s_authChannel' = Tail(s_authChannel)
    /\ UNCHANGED <<pc, sock, s_authClients, acct, grant, dbVars, consoleVars>>

\* dm_auth_setPlayer, after the scan: mark the PlayerInfo online and reply.  A
\* failed UPDATE does not stop it.
dm_auth_setPlayer_mark ==
    /\ daemon.phase = "mark"
    /\ LET c == daemon.msg.client
       IN  /\ \E updated \in BOOLEAN :
                /\ updated \/ "update" \in Faults
                /\ online' = IF updated THEN [online EXCEPT ![playerId[c]] = TRUE] ELSE online
                /\ grant' = [grant EXCEPT ![c] = IF updated THEN "marked" ELSE "unmarked"]
           /\ Reply(c, "success")
    /\ daemon' = Idle
    /\ UNCHANGED <<pc, sock, s_authClients, acct, playerId, s_authChannel, owner, consoleVars>>

\* Variant: the INSERT binds the player's id where the account's belongs.
dm_auth_createPlayer_swapped ==
    /\ Serving("createPlayer")
    /\ LET c == Head(s_authChannel).client
       IN  /\ \E p \in {q \in Players : owner[q] = "absent"} : owner' = [owner EXCEPT ![p] = p]
           /\ Reply(c, "success")
    /\ s_authChannel' = Tail(s_authChannel)
    /\ UNCHANGED <<pc, clientVars, daemon, online, consoleVars>>

\* dm_auth_createPlayer: a taken name or a failed SELECT is refused.  When
\* v_create_player fails the handler replies and then carries on to the INSERT
\* and a second reply.
dm_auth_createPlayer ==
    /\ Serving("createPlayer")
    /\ LET c == Head(s_authChannel).client
       IN  \/ /\ Reply(c, "failure")
              /\ UNCHANGED owner
           \/ /\ \E p \in {q \in Players : owner[q] = "absent"} :
                   owner' = [owner EXCEPT ![p] = acct[c]]
              /\ Reply(c, "success")
           \/ /\ "createNode" \in Faults
              /\ \E code \in {"success", "failure"} :
                   m_channel' = [m_channel EXCEPT ![c] = @ \o <<"failure", code>>]
              /\ UNCHANGED owner
    /\ s_authChannel' = Tail(s_authChannel)
    /\ UNCHANGED <<pc, clientVars, daemon, online, consoleVars>>

\* Variant: the return after "doesn't exist" is missing.
dm_auth_deletePlayer_fallsThrough ==
    /\ Serving("deletePlayer")
    /\ LET c == Head(s_authChannel).client
           p == Head(s_authChannel).arg
       IN  m_channel' = [m_channel EXCEPT ![c] =
                IF owner[p] = acct[c] THEN Append(@, "success") ELSE @ \o <<"failure", "failure">>]
    /\ s_authChannel' = Tail(s_authChannel)
    /\ UNCHANGED <<pc, clientVars, daemon, dbVars, consoleVars>>

\* dm_auth_deletePlayer: the row of auth."Players" goes first; a later failure
\* still answers an error.
dm_auth_deletePlayer ==
    /\ Serving("deletePlayer")
    /\ LET c == Head(s_authChannel).client
           p == Head(s_authChannel).arg
           valid == owner[p] = acct[c]
       IN  \/ /\ ~valid \/ "select" \in Faults
              /\ Reply(c, "failure")
              /\ UNCHANGED owner
           \/ /\ valid
              /\ owner' = [owner EXCEPT ![p] = "deleted"]
              /\ \E code \in {"success", "failure"} : Reply(c, code)
    /\ s_authChannel' = Tail(s_authChannel)
    /\ UNCHANGED <<pc, clientVars, daemon, online, consoleVars>>

\* dm_auth_findAge: the age's server row is found or inserted.  A failed INSERT
\* returns without a reply: the worker waits for ever.
dm_auth_findAge ==
    /\ Serving("findAge")
    /\ LET c == Head(s_authChannel).client
       IN  \/ /\ \E code \in {"success", "failure"} : Reply(c, code)
              /\ UNCHANGED dropped
           \/ /\ "insert" \in Faults
              /\ dropped' = dropped \cup {c}
              /\ UNCHANGED m_channel
    /\ s_authChannel' = Tail(s_authChannel)
    /\ UNCHANGED <<pc, clientVars, daemon, dbVars, restarts, console>>

\* Variant: a client without a player is not answered.
dm_auth_disconnect_onlyPlayers ==
    /\ Serving("disconnect")
    /\ LET c == Head(s_authChannel).client
       IN  IF playerId[c] = NoPlayer
           THEN UNCHANGED <<online, grant, m_channel>>
           ELSE /\ online' = [online EXCEPT ![playerId[c]] = FALSE]
                /\ grant' = [grant EXCEPT ![c] = "none"]
                /\ Reply(c, "success")
    /\ s_authChannel' = Tail(s_authChannel)
    /\ UNCHANGED <<pc, sock, s_authClients, acct, playerId, daemon, owner, consoleVars>>

\* dm_auth_disconnect: a non-zero player is marked offline.
dm_auth_disconnect ==
    /\ Serving("disconnect")
    /\ LET c == Head(s_authChannel).client
       IN  /\ \E updated \in BOOLEAN :
                /\ updated \/ "update" \in Faults
                /\ online' = IF updated /\ playerId[c] # NoPlayer
                             THEN [online EXCEPT ![playerId[c]] = FALSE] ELSE online
           /\ grant' = [grant EXCEPT ![c] = "none"]
           /\ Reply(c, "success")
    /\ s_authChannel' = Tail(s_authChannel)
    /\ UNCHANGED <<pc, sock, s_authClients, acct, playerId, daemon, owner, consoleVars>>

\* dm_auth_updateAgeSrv, under the list mutex: find the first client with the
\* player.  The list order is the connection order; any match may be first.
dm_auth_updateAgeSrv_find ==
    /\ Serving("updateAgeSrv")
    /\ LET p == Head(s_authChannel).arg
           matching == {c \in s_authClients : playerId[c] = p}
       IN  \E c \in IF matching = {} THEN {NoClient} ELSE matching :
             daemon' = [phase |-> "ageWrite", msg |-> Head(s_authChannel), found |-> c]
    /\ s_authChannel' = Tail(s_authChannel)
    /\ UNCHANGED <<pc, clientVars, m_channel, dbVars, consoleVars>>

\* dm_auth_updateAgeSrv, after the mutex is released: use the client.
dm_auth_updateAgeSrv_write ==
    /\ daemon.phase = "ageWrite"
    /\ Reply(daemon.msg.client, IF daemon.found = NoClient THEN "failure" ELSE "success")
    /\ daemon' = Idle
    /\ UNCHANGED <<pc, sock, s_authClients, acct, playerId, grant, s_authChannel, dbVars, consoleVars>>

\* "restart auth" on the console: AuthServer_Shutdown puts e_AuthShutdown and
\* joins the daemon ...
AuthServer_Shutdown ==
    /\ console = "idle" /\ restarts < MaxRestarts
    /\ restarts' = restarts + 1
    /\ console' = "join"
    /\ s_authChannel' = Append(s_authChannel, Request("shutdown", NoClient, NoPlayer))
    /\ UNCHANGED <<pc, clientVars, daemon, m_channel, dbVars, dropped>>

\* ... and AuthServer_Init then starts a new one.  The queue is the old one: when
\* the old daemon had died before, e_AuthShutdown is still in it.
AuthServer_Init ==
    /\ console = "join" /\ daemon.phase = "dead"
    /\ console' = "idle"
    /\ daemon' = [Idle EXCEPT !.phase = "init"]
    /\ UNCHANGED <<pc, clientVars, s_authChannel, m_channel, dbVars, restarts, dropped>>

\* Variant: shutdown waits for the list without closing the sockets.
dm_auth_shutdown_noClose ==
    /\ Serving("shutdown")
    /\ daemon' = [Idle EXCEPT !.phase = "closing"]
    /\ s_authChannel' = Tail(s_authChannel)
    /\ UNCHANGED <<pc, clientVars, m_channel, dbVars, consoleVars>>

\* dm_auth_shutdown closes every socket of the list ...
dm_auth_shutdown_close ==
    /\ Serving("shutdown")
    /\ sock' = [c \in Clients |-> sock[c] /\ c \notin s_authClients]
    /\ daemon' = [Idle EXCEPT !.phase = "closing"]
    /\ s_authChannel' = Tail(s_authChannel)
    /\ UNCHANGED <<pc, s_authClients, acct, playerId, grant, m_channel, dbVars, consoleVars>>

\* ... and polls the list for at most 50 turns, whether it empties or not.
dm_auth_shutdown_wait ==
    /\ daemon.phase = "closing"
    /\ daemon' = [Idle EXCEPT !.phase = "dead"]
    /\ UNCHANGED <<pc, clientVars, s_authChannel, m_channel, dbVars, consoleVars>>

\* dm_authDaemon, up to its loop.  When the database cannot be reached, or the
\* vault, the global SDL, the static ages or the AllPlayers folder fail, the thread
\* returns.  The UPDATE that marks every PlayerInfo offline may fail.
dm_authDaemon_init ==
    /\ daemon.phase = "init"
    /\ \/ /\ daemon' = Idle
          /\ \/ online' = [p \in Players |-> FALSE]
             \/ "update" \in Faults /\ UNCHANGED online
       \/ /\ "init" \in Faults
          /\ daemon' = [Idle EXCEPT !.phase = "dead"]
          /\ UNCHANGED online
    /\ UNCHANGED <<pc, clientVars, s_authChannel, m_channel, owner, consoleVars>>

dm_authDaemon ==
    \/ dm_auth_login
    \/ dm_auth_setPlayer_scan
    \/ dm_auth_setPlayer_mark
    \/ dm_auth_createPlayer
    \/ dm_auth_deletePlayer
    \/ dm_auth_findAge
    \/ dm_auth_disconnect
    \/ dm_auth_updateAgeSrv_find
    \/ dm_auth_updateAgeSrv_write
    \/ dm_auth_shutdown_close
    \/ dm_auth_shutdown_wait
    \/ dm_authDaemon_init

WorkerProceeds(c) == Hup(c) \/ GetDisconnectReply(c) \/ Remove(c)

Next ==
    \/ \E c \in Clients : Connect(c)
    \/ \E c \in Clients : HandshakeFails(c)
    \/ \E c \in Clients, a \in Accounts : cb_login(c, a)
    \/ \E c \in Clients, p \in Players \cup {NoPlayer} : cb_setPlayer(c, p)
    \/ \E c \in Clients, p \in Players, k \in {"createPlayer", "deletePlayer", "findAge"} : cb_request(c, k, p)
    \/ \E r \in Requesters : GetReply(r)
    \/ \E c \in Clients : PeerCloses(c)
    \/ \E c \in Clients : Hup(c)
    \/ \E c \in Clients : GetDisconnectReply(c)
    \/ \E c \in Clients : Remove(c)
    \/ \E h \in Hosts, p \in Players : HostAsks(h, p)
    \/ AuthServer_Shutdown
    \/ AuthServer_Init
    \/ dm_authDaemon

Spec == Init /\ [][Next]_vars

\* The threads of the server keep running; peers, hosts and the operator are
\* under no obligation.
Fairness ==
    /\ WF_vars(dm_authDaemon)
    /\ WF_vars(AuthServer_Init)
    /\ \A c \in Clients : WF_vars(WorkerProceeds(c))
    /\ \A r \in Requesters : WF_vars(GetReply(r))

FairSpec == Spec /\ Fairness

-----------------------------------------------------------------------------
\* A player is played by one connection at a time: two clients are never both
\* told that they are the same player (AuthDaemon.cpp:324-335 refuses with
\* e_NetLoggedInElsewhere), whatever m_playerId values other workers write
\* meanwhile.
OneSessionPerPlayer ==
    \A c, d \in Clients :
        (c # d /\ grant[c] # "none" /\ grant[d] # "none") => playerId[c] # playerId[d]

\* A player in use is shown online: no disconnect, restart or late request of
\* another connection turns the PlayerInfo of a live session off
\* (AuthDaemon.cpp:271-290, 341-352, 1038-1047).
ActiveIsOnline ==
    \A c \in Clients : (grant[c] = "marked" /\ sock[c]) => online[playerId[c]]

\* Requests of r that are queued or being served, and replies r has not read.
Outstanding(r) ==
    Cardinality({i \in DOMAIN s_authChannel : s_authChannel[i].client = r})
    + (IF daemon.phase \in {"mark", "ageWrite"} /\ daemon.msg.client = r THEN 1 ELSE 0)
    + Len(m_channel[r])

\* Request and reply stay paired on every channel: a waiting thread has exactly
\* one request or reply under way, any other thread none, so that no reply is
\* taken for the answer to another request (AuthServer.cpp:180-182, 233-235).
OneReplyPerRequest ==
    \A r \in Requesters : Outstanding(r) = IF pc[r] \in {"wait", "leaving"} THEN 1 ELSE 0

\* The daemon's thread has returned, and main is not about to start another.
Abandoned == daemon.phase = "dead" /\ console = "idle"

\* Nobody waits for the daemon forever, across restarts (AuthDaemon.cpp:1253 "Keep
\* clients from blocking on a reply"), but for the two cases in which the code
\* leaves him: the daemon could not start (AuthDaemon.cpp:1014-1036), or a failed
\* INSERT of dm_auth_findAge was not answered.
RequestsAnswered ==
    \A r \in Requesters :
        (pc[r] \in {"wait", "leaving"})
            ~> (pc[r] \notin {"wait", "leaving"} \/ Abandoned \/ r \in dropped)
=============================================================================

------------------------- MODULE AuthSessionProofs -------------------------
(***************************************************************************)
(* Proofs about AuthSession, for any number of connections, game hosts,       *)
(* players, accounts and restarts.                                             *)
(*                                                                             *)
(* BaseInv, types and forms of the requests, is inductive whatever fails.      *)
(* The rest needs the handlers to answer once (Answering): RequestInv, a        *)
(* blocked thread has its one request in the queue, or with the daemon, or its *)
(* reply in its channel, and SessionInv, which follows a player id from the     *)
(* moment a worker writes it until the daemon has granted or cleared it.        *)
(***************************************************************************)
EXTENDS AuthSession, QueueLemmas, FiniteSetTheorems, TLAPS

\* No database fault makes a handler answer twice or not at all: v_create_player
\* and the INSERT of dm_auth_findAge succeed or are refused before they start.
Answering == Faults \cap {"createNode", "insert"} = {}

\* The payload each kind of request has on its sender's stack.
WellFormed(m) ==
    /\ m.kind = "shutdown" <=> m.client = NoClient
    /\ m.kind = "updateAgeSrv" <=> m.client \in Hosts
    /\ m.kind = "login" => m.arg \in Accounts
    /\ m.kind \in {"deletePlayer", "updateAgeSrv"} => m.arg \in Players

\* What the daemon works on between two steps of a handler.
FormInv ==
    /\ \A i \in 1 .. Len(s_authChannel) : WellFormed(s_authChannel[i])
    /\ daemon.phase = "mark" => daemon.msg.client \in Clients
    /\ daemon.phase = "ageWrite" => daemon.msg.client \in Hosts

\* What holds whatever fails.
BaseInv == TypeOK /\ FormInv

Waits(r) == pc[r] \in {"wait", "leaving"}

\* The daemon has taken r's request and not answered it.
Held(r) == daemon.phase \in {"mark", "ageWrite"} /\ daemon.msg.client = r

\* The request at position i is the one request of a thread that waits for it.
Sound(i) ==
    s_authChannel[i].client # NoClient =>
        /\ Waits(s_authChannel[i].client)
        /\ s_authChannel[i].kind = "disconnect" <=> pc[s_authChannel[i].client] = "leaving"
        /\ m_channel[s_authChannel[i].client] = <<>>
        /\ ~Held(s_authChannel[i].client)
        /\ \A j \in 1 .. Len(s_authChannel) :
              s_authChannel[j].client = s_authChannel[i].client => i = j

QueueInv == \A i \in 1 .. Len(s_authChannel) : Sound(i)

\* So is the one the daemon is working on.
HeldInv ==
    \A r \in Requesters : Held(r) => pc[r] = "wait" /\ m_channel[r] = <<>>

\* A reply is there only for a thread that waits, and a thread that waits has a
\* reply or a request under way.
ReplyInv ==
    \A r \in Requesters :
        /\ m_channel[r] # <<>> => Waits(r) /\ Len(m_channel[r]) = 1
        /\ Waits(r) => \/ m_channel[r] # <<>>
                       \/ Held(r)
                       \/ \E i \in 1 .. Len(s_authChannel) : s_authChannel[i].client = r

RequestInv == QueueInv /\ HeldInv /\ ReplyInv

\* A client the daemon may find is in the list, one without a player has none.
ListInv ==
    \A c \in Clients :
        /\ pc[c] \in {"idle", "wait"} => c \in s_authClients
        /\ pc[c] \in {"down", "left"} => grant[c] = "none"
        /\ pc[c] = "leaving" /\ m_channel[c] # <<>> => grant[c] = "none"
        /\ pc[c] = "down" => playerId[c] = NoPlayer
        /\ grant[c] # "none" => c \in s_authClients /\ playerId[c] \in Players

\* A player id in m_playerId is none, or granted.
Settled(c) == playerId[c] = NoPlayer \/ grant[c] # "none"

\* A worker with its reply, or outside a request, is settled: m_playerId is not
\* settled only from cb_setPlayer to the daemon's answer, and after the disconnect.
WorkerInv ==
    \A c \in Clients :
        (pc[c] = "idle" \/ (pc[c] = "wait" /\ m_channel[c] # <<>>)) => Settled(c)

\* What a queued request says about its client's player.
Claim(i) ==
    s_authChannel[i].client \in Clients =>
        IF s_authChannel[i].kind = "setPlayer"
        THEN /\ grant[s_authChannel[i].client] = "none"
             /\ playerId[s_authChannel[i].client] \in Players
        ELSE Settled(s_authChannel[i].client)

ClaimInv == \A i \in 1 .. Len(s_authChannel) : Claim(i)

\* Between the scan and the grant nobody else is granted the player.
MarkInv ==
    daemon.phase = "mark" =>
        /\ grant[daemon.msg.client] = "none"
        /\ playerId[daemon.msg.client] \in Players
        /\ \A d \in Clients : grant[d] # "none" => playerId[d] # playerId[daemon.msg.client]

\* While no daemon serves requests no granted client has its socket.
ClosedInv ==
    daemon.phase \in {"closing", "dead", "init"} => \A c \in Clients : grant[c] # "none" => ~sock[c]

SessionInv ==
    /\ ListInv /\ WorkerInv /\ ClaimInv /\ MarkInv /\ ClosedInv
    /\ OneSessionPerPlayer /\ ActiveIsOnline

\* The inductive invariant.
IInv == BaseInv /\ RequestInv /\ SessionInv

-----------------------------------------------------------------------------
(* Facts about requests.                                                     *)

\* Queued requests are requests.
LEMMA QueuedType ==
    ASSUME TypeOK
    PROVE  /\ s_authChannel \in Seq(Requests) /\ Len(s_authChannel) \in Nat
           /\ \A i \in 1 .. Len(s_authChannel) :
                  /\ s_authChannel[i] \in Requests
                  /\ s_authChannel[i].client \in Requesters \cup {NoClient}
<1>1. s_authChannel \in Seq(Requests)
  BY DEF TypeOK
<1>2. \A i \in 1 .. Len(s_authChannel) : s_authChannel[i] \in Requests
  BY <1>1
<1>3. QED
  BY <1>1, <1>2 DEF Requests

\* What the daemon takes from the queue.
LEMMA ServingFacts ==
    ASSUME BaseInv, NEW k \in Kinds, Serving(k)
    PROVE  /\ Head(s_authChannel) = s_authChannel[1] /\ 1 \in 1 .. Len(s_authChannel)
           /\ Head(s_authChannel) \in Requests /\ Head(s_authChannel).kind = k
           /\ WellFormed(Head(s_authChannel))
           /\ k \notin {"shutdown", "updateAgeSrv"} => Head(s_authChannel).client \in Clients
           /\ k = "updateAgeSrv" => Head(s_authChannel).client \in Hosts
           /\ Tail(s_authChannel) \in Seq(Requests)
           /\ Len(Tail(s_authChannel)) = Len(s_authChannel) - 1
           /\ \A i \in 1 .. Len(Tail(s_authChannel)) :
                  /\ Tail(s_authChannel)[i] = s_authChannel[i + 1]
                  /\ i + 1 \in 1 .. Len(s_authChannel)
<1>1. s_authChannel \in Seq(Requests) /\ s_authChannel # <<>> /\ Head(s_authChannel).kind = k
  BY DEF BaseInv, TypeOK, Serving
<1>2. /\ Head(s_authChannel) = s_authChannel[1] /\ 1 \in 1 .. Len(s_authChannel)
      /\ Head(s_authChannel) \in Requests /\ Len(s_authChannel) \in Nat \ {0}
  BY <1>1, HeadFacts
<1>3. WellFormed(Head(s_authChannel))
  BY <1>2 DEF BaseInv, FormInv
<1>4. Head(s_authChannel).client \in Requesters \cup {NoClient}
  BY <1>2 DEF Requests
<1>5. /\ k \notin {"shutdown", "updateAgeSrv"} => Head(s_authChannel).client \in Clients
      /\ k = "updateAgeSrv" => Head(s_authChannel).client \in Hosts
  BY <1>1, <1>3, <1>4 DEF WellFormed, Requesters
<1>6. /\ Tail(s_authChannel) \in Seq(Requests)
      /\ Len(Tail(s_authChannel)) = Len(s_authChannel) - 1
      /\ \A i \in 1 .. Len(s_authChannel) - 1 : Tail(s_authChannel)[i] = s_authChannel[i + 1]
  BY <1>1, <1>2, TailFacts
<1>7. QED
  BY <1>1, <1>2, <1>3, <1>5, <1>6

\* What a request is.
LEMMA RequestType ==
    ASSUME NEW k \in Kinds, NEW r \in Requesters \cup {NoClient},
           NEW x \in Accounts \cup Players \cup {NoPlayer}
    PROVE  Request(k, r, x) \in Requests
  BY DEF Request, Requests

\* The idle daemon.
LEMMA IdleType ==
    Idle \in [phase : {"init", "idle", "mark", "ageWrite", "closing", "dead"},
              msg : Requests, found : Clients \cup {NoClient}]
<1>1. Request("shutdown", NoClient, NoPlayer) \in Requests
  BY RequestType DEF Kinds
<1>2. QED
  BY <1>1 DEF Idle

\* SEND_REPLY, once or twice, keeps a channel a queue of codes.
LEMMA AnswerType ==
    ASSUME TypeOK, NEW r \in Requesters, NEW code \in {"success", "failure"}
    PROVE  \A ch : (\/ ch = [m_channel EXCEPT ![r] = Append(m_channel[r], code)]
                    \/ ch = [m_channel EXCEPT ![r] = m_channel[r] \o <<"failure", code>>])
                       => ch \in [Requesters -> Seq({"success", "failure"})]
<1>1. /\ m_channel[r] \in Seq({"success", "failure"})
      /\ <<"failure", code>> \in Seq({"success", "failure"})
  BY DEF TypeOK
<1>2. /\ m_channel[r] \o <<"failure", code>> \in Seq({"success", "failure"})
      /\ Append(m_channel[r], code) \in Seq({"success", "failure"})
  BY <1>1
<1>3. \A s \in Seq({"success", "failure"}) :
        [m_channel EXCEPT ![r] = s] \in [Requesters -> Seq({"success", "failure"})]
  BY DEF TypeOK
<1>4. QED
  BY <1>2, <1>3, Zenon

-----------------------------------------------------------------------------
(* BaseInv.                                                                  *)

\* Every step keeps the variables in their types.
LEMMA TypeStep ==
    ASSUME BaseInv, [Next]_vars
    PROVE  TypeOK'
<1>1. ASSUME NEW c \in Clients, Connect(c)
      PROVE  TypeOK'
  BY <1>1 DEF Connect, dbVars, consoleVars, BaseInv, TypeOK, Requesters
<1>2. ASSUME NEW c \in Clients, HandshakeFails(c)
      PROVE  TypeOK'
  <2>1. Request("disconnect", c, NoPlayer) \in Requests
    BY <1>2, RequestType DEF HandshakeFails, Kinds, Requesters
  <2>2. s_authChannel' \in Seq(Requests)
    BY <1>2, <2>1 DEF HandshakeFails, Leave, BaseInv, TypeOK
  <2> HIDE DEF Request
  <2>3. QED
    BY <1>2, <2>2 DEF HandshakeFails, Leave, clientVars, dbVars, consoleVars, BaseInv, TypeOK, Requesters
<1>3. ASSUME NEW c \in Clients, NEW a \in Accounts, cb_login(c, a)
      PROVE  TypeOK'
  <2>1. Request("login", c, a) \in Requests
    BY <1>3, RequestType DEF cb_login, Kinds, Requesters
  <2>2. s_authChannel' \in Seq(Requests)
    BY <1>3, <2>1 DEF cb_login, Ask, BaseInv, TypeOK
  <2> HIDE DEF Request
  <2>3. QED
    BY <1>3, <2>2 DEF cb_login, Ask, clientVars, dbVars, consoleVars, BaseInv, TypeOK, Requesters
<1>4. ASSUME NEW c \in Clients, NEW p \in Players \cup {NoPlayer}, cb_setPlayer(c, p)
      PROVE  TypeOK'
  <2>1. Request("setPlayer", c, p) \in Requests
    BY <1>4, RequestType DEF cb_setPlayer, Kinds, Requesters
  <2>2. s_authChannel' \in Seq(Requests)
    <3>1. CASE p = NoPlayer
      BY <1>4, <3>1 DEF cb_setPlayer, BaseInv, TypeOK
    <3>2. CASE p # NoPlayer
      <4>1. s_authChannel' = Append(s_authChannel, Request("setPlayer", c, p))
        BY <1>4, <3>2 DEF cb_setPlayer, Ask
      <4>2. QED
        BY <2>1, <4>1 DEF BaseInv, TypeOK
    <3>3. QED
      BY <3>1, <3>2
  <2> HIDE DEF Request
  <2>3. QED
    BY <1>4, <2>2 DEF cb_setPlayer, Ask, dbVars, consoleVars, BaseInv, TypeOK, Requesters
<1>5. ASSUME NEW c \in Clients, NEW p \in Players,
             NEW k \in {"createPlayer", "deletePlayer", "findAge"}, cb_request(c, k, p)
      PROVE  TypeOK'
  <2>1. Request(k, c, p) \in Requests
    BY <1>5, RequestType DEF cb_request, Kinds, Requesters
  <2>2. s_authChannel' \in Seq(Requests)
    BY <1>5, <2>1 DEF cb_request, Ask, BaseInv, TypeOK
  <2> HIDE DEF Request
  <2>3. QED
    BY <1>5, <2>2 DEF cb_request, Ask, clientVars, dbVars, consoleVars, BaseInv, TypeOK, Requesters
<1>6. ASSUME NEW r \in Requesters, GetReply(r)
      PROVE  TypeOK'
  BY <1>6 DEF GetReply, clientVars, dbVars, consoleVars, BaseInv, TypeOK, Requesters
<1>7. ASSUME NEW c \in Clients, PeerCloses(c)
      PROVE  TypeOK'
  BY <1>7 DEF PeerCloses, dbVars, consoleVars, BaseInv, TypeOK, Requesters
<1>8. ASSUME NEW c \in Clients, Hup(c)
      PROVE  TypeOK'
  <2>1. Request("disconnect", c, NoPlayer) \in Requests
    BY <1>8, RequestType DEF Hup, Kinds, Requesters
  <2>2. s_authChannel' \in Seq(Requests)
    BY <1>8, <2>1 DEF Hup, Leave, BaseInv, TypeOK
  <2> HIDE DEF Request
  <2>3. QED
    BY <1>8, <2>2 DEF Hup, Leave, clientVars, dbVars, consoleVars, BaseInv, TypeOK, Requesters
<1>9. ASSUME NEW c \in Clients, GetDisconnectReply(c)
      PROVE  TypeOK'
  BY <1>9 DEF GetDisconnectReply, clientVars, dbVars, consoleVars, BaseInv, TypeOK, Requesters
<1>10. ASSUME NEW c \in Clients, Remove(c)
       PROVE  TypeOK'
  BY <1>10 DEF Remove, dbVars, consoleVars, BaseInv, TypeOK, Requesters
<1>11. ASSUME NEW h \in Hosts, NEW p \in Players, HostAsks(h, p)
       PROVE  TypeOK'
  <2>1. Request("updateAgeSrv", h, p) \in Requests
    BY <1>11, RequestType DEF HostAsks, Kinds, Requesters
  <2>2. s_authChannel' \in Seq(Requests)
    BY <1>11, <2>1 DEF HostAsks, Ask, BaseInv, TypeOK
  <2> HIDE DEF Request
  <2>3. QED
    BY <1>11, <2>2 DEF HostAsks, Ask, clientVars, dbVars, consoleVars, BaseInv, TypeOK, Requesters
<1>12. CASE AuthServer_Shutdown
  <2>1. Request("shutdown", NoClient, NoPlayer) \in Requests
    BY <1>12, RequestType DEF AuthServer_Shutdown, Kinds, Requesters
  <2>2. s_authChannel' \in Seq(Requests)
    BY <1>12, <2>1 DEF AuthServer_Shutdown, BaseInv, TypeOK
  <2> HIDE DEF Request
  <2>3. QED
    BY <1>12, <2>2, RestartAssumption
       DEF AuthServer_Shutdown, clientVars, dbVars, consoleVars, BaseInv, TypeOK, Requesters
<1>13. CASE dm_auth_login
  <2>1. /\ Head(s_authChannel) \in Requests /\ WellFormed(Head(s_authChannel))
        /\ Head(s_authChannel).kind = "login" /\ Tail(s_authChannel) \in Seq(Requests)
        /\ Head(s_authChannel).client \in Clients
    BY <1>13, ServingFacts DEF dm_auth_login, Kinds
  <2>2. QED
    BY <1>13, <2>1 DEF dm_auth_login, Reply, dbVars, consoleVars, WellFormed, BaseInv, TypeOK, Requesters
<1>14. CASE dm_auth_setPlayer_scan
  <2>1. /\ Head(s_authChannel) \in Requests /\ WellFormed(Head(s_authChannel))
        /\ Head(s_authChannel).kind = "setPlayer" /\ Tail(s_authChannel) \in Seq(Requests)
        /\ Head(s_authChannel).client \in Clients
    BY <1>14, ServingFacts DEF dm_auth_setPlayer_scan, Kinds
  <2>2. m_channel' \in [Requesters -> Seq({"success", "failure"})]
    <3>1. PICK code \in {"success", "failure"} :
           \/ m_channel' = [m_channel EXCEPT ![Head(s_authChannel).client] =
                                Append(m_channel[Head(s_authChannel).client], code)]
           \/ UNCHANGED m_channel
      BY <1>14 DEF dm_auth_setPlayer_scan, Reply
    <3>2. QED
      BY <2>1, <3>1, AnswerType DEF BaseInv, TypeOK, Requesters
  <2>3. [Idle EXCEPT !.phase = "mark", !.msg = Head(s_authChannel)]
            \in [phase : {"init", "idle", "mark", "ageWrite", "closing", "dead"},
                 msg : Requests, found : Clients \cup {NoClient}]
    BY <2>1, IdleType
  <2>4. playerId' \in [Clients -> Players \cup {NoPlayer}]
    BY <1>14, <2>1 DEF dm_auth_setPlayer_scan, BaseInv, TypeOK
  <2>5. daemon' \in [phase : {"init", "idle", "mark", "ageWrite", "closing", "dead"},
                    msg : Requests, found : Clients \cup {NoClient}]
    BY <1>14, <2>3 DEF dm_auth_setPlayer_scan, BaseInv, TypeOK
  <2>6. QED
    BY <1>14, <2>1, <2>2, <2>4, <2>5 DEF dm_auth_setPlayer_scan, dbVars, consoleVars, BaseInv, TypeOK
<1>15. CASE dm_auth_setPlayer_mark
  <2>1. daemon.msg.client \in Clients
    BY <1>15 DEF dm_auth_setPlayer_mark, BaseInv, FormInv
  <2>2. m_channel' \in [Requesters -> Seq({"success", "failure"})]
    <3>1. PICK code \in {"success", "failure"} :
           \/ m_channel' = [m_channel EXCEPT ![daemon.msg.client] =
                                Append(m_channel[daemon.msg.client], code)]
      BY <1>15 DEF dm_auth_setPlayer_mark, Reply
    <3>2. QED
      BY <2>1, <3>1, AnswerType DEF BaseInv, Requesters
  <2>3. online' \in [Players -> BOOLEAN] /\ grant' \in [Clients -> {"none", "marked", "unmarked"}]
    BY <1>15, <2>1 DEF dm_auth_setPlayer_mark, BaseInv, TypeOK
  <2>4. QED
    BY <1>15, <2>2, <2>3, IdleType DEF dm_auth_setPlayer_mark, consoleVars, BaseInv, TypeOK
<1>16. CASE dm_auth_createPlayer
  <2>1. /\ Head(s_authChannel) \in Requests /\ WellFormed(Head(s_authChannel))
        /\ Head(s_authChannel).kind = "createPlayer" /\ Tail(s_authChannel) \in Seq(Requests)
        /\ Head(s_authChannel).client \in Clients
    BY <1>16, ServingFacts DEF dm_auth_createPlayer, Kinds
  <2>2. m_channel' \in [Requesters -> Seq({"success", "failure"})]
    <3>1. PICK code \in {"success", "failure"} :
           \/ m_channel' = [m_channel EXCEPT ![Head(s_authChannel).client] =
                                Append(m_channel[Head(s_authChannel).client], code)]
           \/ m_channel' = [m_channel EXCEPT ![Head(s_authChannel).client] =
                                m_channel[Head(s_authChannel).client] \o <<"failure", code>>]
      BY <1>16 DEF dm_auth_createPlayer, Reply
    <3>2. QED
      BY <2>1, <3>1, AnswerType DEF BaseInv, Requesters
  <2>3. owner' \in [Players -> Accounts \cup {NoAccount, "absent", "deleted"}]
    <3>1. acct[Head(s_authChannel).client] \in Accounts \cup {NoAccount}
      BY <2>1 DEF BaseInv, TypeOK
    <3>2. QED
      BY <1>16, <3>1 DEF dm_auth_createPlayer, BaseInv, TypeOK
  <2>4. QED
    BY <1>16, <2>1, <2>2, <2>3 DEF dm_auth_createPlayer, clientVars, dbVars, consoleVars, BaseInv, TypeOK
<1>17. CASE dm_auth_deletePlayer
  <2>1. /\ Head(s_authChannel) \in Requests /\ WellFormed(Head(s_authChannel))
        /\ Head(s_authChannel).kind = "deletePlayer" /\ Tail(s_authChannel) \in Seq(Requests)
        /\ Head(s_authChannel).client \in Clients
    BY <1>17, ServingFacts DEF dm_auth_deletePlayer, Kinds
  <2>2. m_channel' \in [Requesters -> Seq({"success", "failure"})]
    <3>1. PICK code \in {"success", "failure"} :
           \/ m_channel' = [m_channel EXCEPT ![Head(s_authChannel).client] =
                                Append(m_channel[Head(s_authChannel).client], code)]
      BY <1>17 DEF dm_auth_deletePlayer, Reply
    <3>2. QED
      BY <2>1, <3>1, AnswerType DEF BaseInv, Requesters
  <2>3. owner' \in [Players -> Accounts \cup {NoAccount, "absent", "deleted"}]
    BY <1>17, <2>1 DEF dm_auth_deletePlayer, BaseInv, TypeOK
  <2>4. QED
    BY <1>17, <2>1, <2>2, <2>3 DEF dm_auth_deletePlayer, clientVars, dbVars, consoleVars, BaseInv, TypeOK
<1>18. CASE dm_auth_findAge
  <2>1. /\ Head(s_authChannel) \in Requests /\ WellFormed(Head(s_authChannel))
        /\ Head(s_authChannel).kind = "findAge" /\ Tail(s_authChannel) \in Seq(Requests)
        /\ Head(s_authChannel).client \in Clients
    BY <1>18, ServingFacts DEF dm_auth_findAge, Kinds
  <2>2. m_channel' \in [Requesters -> Seq({"success", "failure"})]
    <3>1. PICK code \in {"success", "failure"} :
           \/ m_channel' = [m_channel EXCEPT ![Head(s_authChannel).client] =
                                Append(m_channel[Head(s_authChannel).client], code)]
           \/ UNCHANGED m_channel
      BY <1>18 DEF dm_auth_findAge, Reply
    <3>2. QED
      BY <2>1, <3>1, AnswerType DEF BaseInv, TypeOK, Requesters
  <2>3. QED
    BY <1>18, <2>1, <2>2 DEF dm_auth_findAge, clientVars, dbVars, consoleVars, BaseInv, TypeOK
<1>19. CASE dm_auth_disconnect
  <2>1. /\ Head(s_authChannel) \in Requests /\ WellFormed(Head(s_authChannel))
        /\ Head(s_authChannel).kind = "disconnect" /\ Tail(s_authChannel) \in Seq(Requests)
        /\ Head(s_authChannel).client \in Clients
    BY <1>19, ServingFacts DEF dm_auth_disconnect, Kinds
  <2>2. QED
    BY <1>19, <2>1 DEF dm_auth_disconnect, Reply, consoleVars, BaseInv, TypeOK, Requesters
<1>20. CASE dm_auth_updateAgeSrv_find
  <2>1. /\ Head(s_authChannel) \in Requests /\ WellFormed(Head(s_authChannel))
        /\ Head(s_authChannel).kind = "updateAgeSrv" /\ Tail(s_authChannel) \in Seq(Requests)
    BY <1>20, ServingFacts DEF dm_auth_updateAgeSrv_find, Kinds
  <2>2. QED
    BY <1>20, <2>1
     DEF dm_auth_updateAgeSrv_find, clientVars, dbVars, consoleVars, BaseInv, TypeOK, Requesters
<1>21. CASE dm_auth_updateAgeSrv_write
  BY <1>21, IdleType
     DEF dm_auth_updateAgeSrv_write, Reply, clientVars, dbVars, consoleVars, BaseInv, FormInv, TypeOK,
         Requesters
<1>22. CASE dm_auth_shutdown_close
  <2>1. /\ Head(s_authChannel) \in Requests /\ WellFormed(Head(s_authChannel))
        /\ Head(s_authChannel).kind = "shutdown" /\ Tail(s_authChannel) \in Seq(Requests)
    BY <1>22, ServingFacts DEF dm_auth_shutdown_close, Kinds
  <2>2. QED
    BY <1>22, <2>1, IdleType DEF dm_auth_shutdown_close, dbVars, consoleVars, BaseInv, TypeOK, Requesters
<1>23. CASE dm_auth_shutdown_wait
  BY <1>23, IdleType DEF dm_auth_shutdown_wait, clientVars, dbVars, consoleVars, BaseInv, TypeOK
<1>24. CASE AuthServer_Init
  BY <1>24, IdleType DEF AuthServer_Init, clientVars, dbVars, consoleVars, BaseInv, TypeOK
<1>24a. CASE dm_authDaemon_init
  BY <1>24a, IdleType DEF dm_authDaemon_init, clientVars, consoleVars, BaseInv, TypeOK
<1>25. CASE UNCHANGED vars
  BY <1>25 DEF vars, BaseInv, TypeOK
<1>26. QED
  BY <1>1, <1>2, <1>3, <1>4, <1>5, <1>6, <1>7, <1>8, <1>9, <1>10, <1>11, <1>12, <1>13,
     <1>14, <1>15, <1>16, <1>17, <1>18, <1>19, <1>20, <1>21, <1>22, <1>23, <1>24, <1>24a, <1>25
     DEF Next, dm_authDaemon

\* A well-formed request joins the queue.
LEMMA PutForm ==
    ASSUME BaseInv, NEW m \in Requests, WellFormed(m),
           s_authChannel' = Append(s_authChannel, m), UNCHANGED daemon
    PROVE  FormInv'
<1>1. /\ Len(s_authChannel') = Len(s_authChannel) + 1 /\ Len(s_authChannel) \in Nat
      /\ \A i \in 1 .. Len(s_authChannel) : s_authChannel'[i] = s_authChannel[i]
      /\ s_authChannel'[Len(s_authChannel) + 1] = m
  BY QueuedType, AppendFacts DEF BaseInv
<1>2. \A i \in 1 .. Len(s_authChannel') :
        i \in 1 .. Len(s_authChannel) \/ i = Len(s_authChannel) + 1
  BY <1>1
<1>3. QED
  BY <1>1, <1>2 DEF BaseInv, FormInv

\* The first request leaves it.
LEMMA TakeForm ==
    ASSUME BaseInv, NEW k \in Kinds, Serving(k), s_authChannel' = Tail(s_authChannel)
    PROVE  \A i \in 1 .. Len(s_authChannel') : WellFormed(s_authChannel'[i])
  BY ServingFacts DEF BaseInv, FormInv

\* Every request is put with the payload its handler expects.
LEMMA FormStep ==
    ASSUME BaseInv, [Next]_vars
    PROVE  FormInv'
<1>1. ASSUME NEW c \in Clients, Connect(c)
      PROVE  FormInv'
  BY <1>1 DEF Connect, BaseInv, FormInv
<1>2. ASSUME NEW c \in Clients, HandshakeFails(c)
      PROVE  FormInv'
  <2>1. /\ Request("disconnect", c, NoPlayer) \in Requests
        /\ WellFormed(Request("disconnect", c, NoPlayer))
    BY <1>2, RequestType, NullAssumption
       DEF HandshakeFails, Kinds, Requesters, WellFormed, Request
  <2>2. QED
    BY <1>2, <2>1, PutForm DEF HandshakeFails, Leave
<1>3. ASSUME NEW c \in Clients, NEW a \in Accounts, cb_login(c, a)
      PROVE  FormInv'
  <2>1. /\ Request("login", c, a) \in Requests
        /\ WellFormed(Request("login", c, a))
    BY <1>3, RequestType, NullAssumption
       DEF cb_login, Kinds, Requesters, WellFormed, Request
  <2>2. QED
    BY <1>3, <2>1, PutForm DEF cb_login, Ask
<1>4. ASSUME NEW c \in Clients, NEW p \in Players \cup {NoPlayer}, cb_setPlayer(c, p)
      PROVE  FormInv'
  <2>1. CASE p = NoPlayer
    BY <1>4, <2>1 DEF cb_setPlayer, BaseInv, FormInv
  <2>2. CASE p # NoPlayer
    <3>1. /\ Request("setPlayer", c, p) \in Requests
          /\ WellFormed(Request("setPlayer", c, p))
      BY RequestType, NullAssumption DEF Kinds, Requesters, WellFormed, Request
    <3>2. s_authChannel' = Append(s_authChannel, Request("setPlayer", c, p)) /\ UNCHANGED daemon
      BY <1>4, <2>2 DEF cb_setPlayer, Ask
    <3>3. QED
      BY <3>1, <3>2, PutForm
  <2>3. QED
    BY <2>1, <2>2
<1>5. ASSUME NEW c \in Clients, NEW p \in Players,
             NEW k \in {"createPlayer", "deletePlayer", "findAge"}, cb_request(c, k, p)
      PROVE  FormInv'
  <2>1. /\ Request(k, c, p) \in Requests
        /\ WellFormed(Request(k, c, p))
    BY <1>5, RequestType, NullAssumption
       DEF cb_request, Kinds, Requesters, WellFormed, Request
  <2>2. QED
    BY <1>5, <2>1, PutForm DEF cb_request, Ask
<1>6. ASSUME NEW r \in Requesters, GetReply(r)
      PROVE  FormInv'
  BY <1>6 DEF GetReply, BaseInv, FormInv
<1>7. ASSUME NEW c \in Clients, PeerCloses(c)
      PROVE  FormInv'
  BY <1>7 DEF PeerCloses, BaseInv, FormInv
<1>8. ASSUME NEW c \in Clients, Hup(c)
      PROVE  FormInv'
  <2>1. /\ Request("disconnect", c, NoPlayer) \in Requests
        /\ WellFormed(Request("disconnect", c, NoPlayer))
    BY <1>8, RequestType, NullAssumption DEF Hup, Kinds, Requesters, WellFormed, Request
  <2>2. QED
    BY <1>8, <2>1, PutForm DEF Hup, Leave
<1>9. ASSUME NEW c \in Clients, GetDisconnectReply(c)
      PROVE  FormInv'
  BY <1>9 DEF GetDisconnectReply, BaseInv, FormInv
<1>10. ASSUME NEW c \in Clients, Remove(c)
       PROVE  FormInv'
  BY <1>10 DEF Remove, BaseInv, FormInv
<1>11. ASSUME NEW h \in Hosts, NEW p \in Players, HostAsks(h, p)
       PROVE  FormInv'
  <2>1. /\ Request("updateAgeSrv", h, p) \in Requests
        /\ WellFormed(Request("updateAgeSrv", h, p))
    BY <1>11, RequestType, NullAssumption
       DEF HostAsks, Kinds, Requesters, WellFormed, Request
  <2>2. QED
    BY <1>11, <2>1, PutForm DEF HostAsks, Ask
<1>12. CASE AuthServer_Shutdown
  <2>1. /\ Request("shutdown", NoClient, NoPlayer) \in Requests
        /\ WellFormed(Request("shutdown", NoClient, NoPlayer))
    BY <1>12, RequestType, NullAssumption
       DEF AuthServer_Shutdown, Kinds, Requesters, WellFormed, Request
  <2>2. QED
    BY <1>12, <2>1, PutForm DEF AuthServer_Shutdown
<1>13. CASE dm_auth_login
  <2>1. \A i \in 1 .. Len(s_authChannel') : WellFormed(s_authChannel'[i])
    BY <1>13, TakeForm DEF dm_auth_login, Kinds
  <2>2. QED
    BY <1>13, <2>1 DEF dm_auth_login, BaseInv, FormInv
<1>14. CASE dm_auth_setPlayer_scan
  <2>1. \A i \in 1 .. Len(s_authChannel') : WellFormed(s_authChannel'[i])
    BY <1>14, TakeForm DEF dm_auth_setPlayer_scan, Kinds
  <2>2. Head(s_authChannel).client \in Clients
    BY <1>14, ServingFacts DEF dm_auth_setPlayer_scan, Kinds
  <2>3. QED
    BY <1>14, <2>1, <2>2 DEF dm_auth_setPlayer_scan, Serving, Idle, BaseInv, FormInv
<1>15. CASE dm_auth_setPlayer_mark
  BY <1>15 DEF dm_auth_setPlayer_mark, Idle, BaseInv, FormInv
<1>16. CASE dm_auth_createPlayer
  <2>1. \A i \in 1 .. Len(s_authChannel') : WellFormed(s_authChannel'[i])
    BY <1>16, TakeForm DEF dm_auth_createPlayer, Kinds
  <2>2. QED
    BY <1>16, <2>1 DEF dm_auth_createPlayer, BaseInv, FormInv
<1>17. CASE dm_auth_deletePlayer
  <2>1. \A i \in 1 .. Len(s_authChannel') : WellFormed(s_authChannel'[i])
    BY <1>17, TakeForm DEF dm_auth_deletePlayer, Kinds
  <2>2. QED
    BY <1>17, <2>1 DEF dm_auth_deletePlayer, BaseInv, FormInv
<1>18. CASE dm_auth_findAge
  <2>1. \A i \in 1 .. Len(s_authChannel') : WellFormed(s_authChannel'[i])
    BY <1>18, TakeForm DEF dm_auth_findAge, Kinds
  <2>2. QED
    BY <1>18, <2>1 DEF dm_auth_findAge, BaseInv, FormInv
<1>19. CASE dm_auth_disconnect
  <2>1. \A i \in 1 .. Len(s_authChannel') : WellFormed(s_authChannel'[i])
    BY <1>19, TakeForm DEF dm_auth_disconnect, Kinds
  <2>2. QED
    BY <1>19, <2>1 DEF dm_auth_disconnect, BaseInv, FormInv
<1>20. CASE dm_auth_updateAgeSrv_find
  <2>1. \A i \in 1 .. Len(s_authChannel') : WellFormed(s_authChannel'[i])
    BY <1>20, TakeForm DEF dm_auth_updateAgeSrv_find, Kinds
  <2>2. Head(s_authChannel).client \in Hosts
    BY <1>20, ServingFacts DEF dm_auth_updateAgeSrv_find, Kinds
  <2>3. QED
    BY <1>20, <2>1, <2>2 DEF dm_auth_updateAgeSrv_find, Serving, Idle, BaseInv, FormInv
<1>21. CASE dm_auth_updateAgeSrv_write
  BY <1>21 DEF dm_auth_updateAgeSrv_write, Idle, BaseInv, FormInv
<1>22. CASE dm_auth_shutdown_close
  <2>1. \A i \in 1 .. Len(s_authChannel') : WellFormed(s_authChannel'[i])
    BY <1>22, TakeForm DEF dm_auth_shutdown_close, Kinds
  <2>2. QED
    BY <1>22, <2>1 DEF dm_auth_shutdown_close, Idle, FormInv
<1>23. CASE dm_auth_shutdown_wait
  BY <1>23 DEF dm_auth_shutdown_wait, Idle, BaseInv, FormInv
<1>24. CASE AuthServer_Init
  BY <1>24 DEF AuthServer_Init, Idle, BaseInv, FormInv
<1>24a. CASE dm_authDaemon_init
  BY <1>24a DEF dm_authDaemon_init, Idle, BaseInv, FormInv
<1>25. CASE UNCHANGED vars
  BY <1>25 DEF vars, BaseInv, FormInv
<1>26. QED
  BY <1>1, <1>2, <1>3, <1>4, <1>5, <1>6, <1>7, <1>8, <1>9, <1>10, <1>11, <1>12, <1>13,
     <1>14, <1>15, <1>16, <1>17, <1>18, <1>19, <1>20, <1>21, <1>22, <1>23, <1>24, <1>24a, <1>25
     DEF Next, dm_authDaemon

-----------------------------------------------------------------------------
(* RequestInv.                                                               *)

\* Whose request the daemon takes is waiting for it, and has no other.
LEMMA HeadSound ==
    ASSUME BaseInv, RequestInv, NEW k \in Kinds \ {"shutdown"}, Serving(k),
           NEW c, c = Head(s_authChannel).client
    PROVE  /\ c \in Requesters /\ c # NoClient /\ Waits(c) /\ m_channel[c] = <<>> /\ ~Held(c)
           /\ k = "disconnect" <=> pc[c] = "leaving"
           /\ \A i \in 1 .. Len(Tail(s_authChannel)) : Tail(s_authChannel)[i].client # c
<1>1. /\ Head(s_authChannel) = s_authChannel[1] /\ 1 \in 1 .. Len(s_authChannel)
      /\ Head(s_authChannel) \in Requests /\ Head(s_authChannel).kind = k
      /\ WellFormed(Head(s_authChannel))
      /\ \A i \in 1 .. Len(Tail(s_authChannel)) :
             /\ Tail(s_authChannel)[i] = s_authChannel[i + 1]
             /\ i + 1 \in 1 .. Len(s_authChannel)
  BY ServingFacts
<1>2. c # NoClient /\ c \in Requesters
  BY <1>1 DEF WellFormed, Requests
<1>3. Sound(1)
  BY <1>1 DEF RequestInv, QueueInv
<1>4. QED
  BY <1>1, <1>2, <1>3 DEF Sound

\* The other requests stay, each one place further up.
LEMMA TakeKeeps ==
    ASSUME BaseInv, RequestInv, NEW k \in Kinds, Serving(k),
           s_authChannel' = Tail(s_authChannel), UNCHANGED pc,
           \A r \in Requesters : r # Head(s_authChannel).client =>
               m_channel'[r] = m_channel[r] /\ (Held(r)' <=> Held(r))
    PROVE  /\ QueueInv'
           /\ \A r \in Requesters : r # Head(s_authChannel).client =>
                 \A i \in 1 .. Len(s_authChannel) : s_authChannel[i].client = r =>
                     \E j \in 1 .. Len(s_authChannel') : s_authChannel'[j].client = r
<1> DEFINE c == Head(s_authChannel).client
           q == Tail(s_authChannel)
<1>1. /\ Head(s_authChannel) = s_authChannel[1] /\ Head(s_authChannel).kind = k
      /\ 1 \in 1 .. Len(s_authChannel) /\ Len(s_authChannel) \in Nat
      /\ Len(q) = Len(s_authChannel) - 1
      /\ \A i \in 1 .. Len(q) : q[i] = s_authChannel[i + 1] /\ i + 1 \in 1 .. Len(s_authChannel)
  BY ServingFacts, QueuedType DEF BaseInv
<1>2. \A i \in 1 .. Len(q) : q[i].client # c \/ q[i].client = NoClient
  <2>1. CASE k = "shutdown"
    BY <1>1, <2>1, ServingFacts DEF WellFormed
  <2>2. CASE k # "shutdown"
    BY <2>2, HeadSound
  <2>3. QED
    BY <2>1, <2>2
<1>3. \A i \in 1 .. Len(s_authChannel) :
        s_authChannel[i].client \in Requesters \cup {NoClient}
  BY QueuedType DEF BaseInv
<1>4. c = s_authChannel[1].client
  BY <1>1
<1>5. \A r \in Requesters : r # c => m_channel'[r] = m_channel[r] /\ (Held(r)' <=> Held(r))
  OBVIOUS
<1>6. s_authChannel' = q
  OBVIOUS
<1> HIDE DEF c, q
<1>7. ASSUME NEW i \in 1 .. Len(q)
      PROVE  Sound(i)'
  <2>1. q[i] = s_authChannel[i + 1] /\ i + 1 \in 1 .. Len(s_authChannel) /\ Sound(i + 1)
    BY <1>1 DEF RequestInv, QueueInv
  <2>2. CASE q[i].client = NoClient
    BY <1>6, <2>2 DEF Sound
  <2>3. CASE q[i].client # NoClient
    <3>1. q[i].client \in Requesters /\ q[i].client # c
      BY <1>2, <1>3, <2>1, <2>3
    <3>2. \A j \in 1 .. Len(q) : q[j].client = q[i].client => i = j
      BY <1>1, <2>1, <2>3 DEF Sound
    <3>3. QED
      BY <1>5, <1>6, <2>1, <2>3, <3>1, <3>2 DEF Sound, Waits
  <2>4. QED
    BY <2>2, <2>3
<1>8. ASSUME NEW r \in Requesters, r # c, NEW i \in 1 .. Len(s_authChannel),
             s_authChannel[i].client = r
      PROVE  \E j \in 1 .. Len(q) : q[j].client = r
  <2>1. i # 1
    BY <1>4, <1>8
  <2>2. i - 1 \in 1 .. Len(q) /\ (i - 1) + 1 = i
    BY <1>1, <2>1
  <2>3. q[i - 1].client = r
    BY <1>1, <1>8, <2>2
  <2>4. QED
    BY <2>2, <2>3
<1>9. QED
  BY <1>6, <1>7, <1>8 DEF QueueInv, c

\* A handler that answers its request once keeps requests and replies paired ...
LEMMA AnswerKeeps ==
    ASSUME BaseInv, RequestInv, NEW k \in Kinds \ {"shutdown"}, Serving(k),
           NEW code \in {"success", "failure"},
           s_authChannel' = Tail(s_authChannel),
           m_channel' = [m_channel EXCEPT ![Head(s_authChannel).client] =
                            Append(m_channel[Head(s_authChannel).client], code)],
           UNCHANGED <<pc, daemon>>
    PROVE  RequestInv'
<1> DEFINE c == Head(s_authChannel).client
<1>1. c \in Requesters /\ Waits(c) /\ m_channel[c] = <<>> /\ ~Held(c)
  BY HeadSound
<1>2. /\ m_channel'[c] # <<>> /\ Len(m_channel'[c]) = 1
      /\ \A r \in Requesters : r # c => m_channel'[r] = m_channel[r]
  BY <1>1 DEF BaseInv, TypeOK
<1>3. \A r \in Requesters : Held(r)' <=> Held(r)
  BY DEF Held
<1>4. /\ QueueInv'
      /\ \A r \in Requesters : r # c =>
            \A i \in 1 .. Len(s_authChannel) : s_authChannel[i].client = r =>
                \E j \in 1 .. Len(s_authChannel') : s_authChannel'[j].client = r
  BY <1>2, <1>3, TakeKeeps
<1> HIDE DEF c
<1>5. HeldInv'
  BY <1>1, <1>2, <1>3 DEF RequestInv, HeldInv
<1>6. ReplyInv'
  BY <1>1, <1>2, <1>3, <1>4 DEF RequestInv, ReplyInv, Waits
<1>7. QED
  BY <1>4, <1>5, <1>6 DEF RequestInv

\* ... and so does one that keeps it for its next step ...
LEMMA HoldKeeps ==
    ASSUME BaseInv, RequestInv, NEW k \in Kinds \ {"shutdown", "disconnect"}, Serving(k),
           s_authChannel' = Tail(s_authChannel),
           daemon'.phase \in {"mark", "ageWrite"}, daemon'.msg = Head(s_authChannel),
           UNCHANGED <<pc, m_channel>>
    PROVE  RequestInv'
<1> DEFINE c == Head(s_authChannel).client
<1>1. c \in Requesters /\ Waits(c) /\ m_channel[c] = <<>> /\ pc[c] # "leaving"
  BY HeadSound
<1>2. \A r \in Requesters : (Held(r)' <=> r = c) /\ ~Held(r)
  BY DEF Held, Serving
<1>3. /\ QueueInv'
      /\ \A r \in Requesters : r # c =>
            \A i \in 1 .. Len(s_authChannel) : s_authChannel[i].client = r =>
                \E j \in 1 .. Len(s_authChannel') : s_authChannel'[j].client = r
  BY <1>2, TakeKeeps
<1> HIDE DEF c
<1>4. HeldInv'
  BY <1>1, <1>2 DEF HeldInv, Waits
<1>5. ReplyInv'
  BY <1>1, <1>2, <1>3 DEF RequestInv, ReplyInv, Waits
<1>6. QED
  BY <1>3, <1>4, <1>5 DEF RequestInv

\* ... and answers it then ...
LEMMA FinishKeeps ==
    ASSUME BaseInv, RequestInv, daemon.phase \in {"mark", "ageWrite"},
           NEW code \in {"success", "failure"},
           m_channel' = [m_channel EXCEPT ![daemon.msg.client] =
                            Append(m_channel[daemon.msg.client], code)],
           daemon' = Idle, UNCHANGED <<pc, s_authChannel>>
    PROVE  RequestInv'
<1> DEFINE c == daemon.msg.client
<1>1. c \in Requesters /\ Held(c)
  BY DEF BaseInv, FormInv, Requesters, Held
<1>2. pc[c] = "wait" /\ m_channel[c] = <<>>
  BY <1>1 DEF RequestInv, HeldInv
<1>3. /\ m_channel'[c] # <<>> /\ Len(m_channel'[c]) = 1
      /\ \A r \in Requesters : r # c => m_channel'[r] = m_channel[r]
  BY <1>1, <1>2 DEF BaseInv, TypeOK
<1>4. \A r \in Requesters : ~Held(r)' /\ (r # c => ~Held(r))
  BY DEF Held, Idle
<1>5. \A i \in 1 .. Len(s_authChannel) :
         s_authChannel[i].client # c /\ s_authChannel[i].client \in Requesters \cup {NoClient}
  BY <1>1, QueuedType, NullAssumption DEF RequestInv, QueueInv, Sound, BaseInv, Requesters
<1> HIDE DEF c
<1>6. QueueInv'
  BY <1>3, <1>4, <1>5 DEF RequestInv, QueueInv, Sound, Waits
<1>7. HeldInv'
  BY <1>4 DEF HeldInv
<1>8. ReplyInv'
  BY <1>2, <1>3, <1>4 DEF RequestInv, ReplyInv, Waits
<1>9. QED
  BY <1>6, <1>7, <1>8 DEF RequestInv

\* ... and a thread that puts its request and waits ...
LEMMA AskKeeps ==
    ASSUME BaseInv, RequestInv, NEW r \in Requesters, ~Waits(r),
           NEW k \in Kinds \ {"shutdown"}, NEW x \in Accounts \cup Players \cup {NoPlayer},
           s_authChannel' = Append(s_authChannel, Request(k, r, x)),
           NEW next \in {"wait", "leaving"}, k = "disconnect" <=> next = "leaving",
           pc' = [pc EXCEPT ![r] = next],
           UNCHANGED <<daemon, m_channel>>
    PROVE  RequestInv'
<1> DEFINE n == Len(s_authChannel) + 1
<1>1. /\ Request(k, r, x) \in Requests
      /\ Request(k, r, x).kind = k /\ Request(k, r, x).client = r
  BY RequestType DEF Request
<1>2. /\ Len(s_authChannel) \in Nat /\ Len(s_authChannel') = n
      /\ \A i \in 1 .. Len(s_authChannel) : s_authChannel'[i] = s_authChannel[i]
      /\ s_authChannel'[n].kind = k /\ s_authChannel'[n].client = r
      /\ \A i \in 1 .. Len(s_authChannel) : s_authChannel[i].client \in Requesters \cup {NoClient}
  BY <1>1, QueuedType, AppendFacts DEF BaseInv
<1>3. n \in 1 .. n /\ \A i \in 1 .. n : i \in 1 .. Len(s_authChannel) \/ i = n
  BY <1>2
<1>4. \A i \in 1 .. Len(s_authChannel) : i \in 1 .. n /\ i # n
  BY <1>2
<1>5. pc'[r] = next /\ \A d \in Requesters : d # r => pc'[d] = pc[d]
  BY DEF BaseInv, TypeOK
<1>6. r # NoClient
  BY NullAssumption DEF Requesters
<1>7. m_channel[r] = <<>> /\ ~Held(r)
  BY DEF RequestInv, ReplyInv, HeldInv, Waits
<1>8. \A i \in 1 .. Len(s_authChannel) : s_authChannel[i].client # r
  BY <1>6 DEF RequestInv, QueueInv, Sound
<1>9. \A d \in Requesters : Held(d)' <=> Held(d)
  BY DEF Held
<1> HIDE DEF n
<1>10. QueueInv'
  <2> SUFFICES ASSUME NEW i \in 1 .. n
               PROVE  Sound(i)'
    BY <1>2 DEF QueueInv
  <2>1. CASE i = n
    <3>1. \A j \in 1 .. n : s_authChannel'[j].client = r => j = n
      BY <1>2, <1>3, <1>8
    <3>2. QED
      BY <1>2, <1>5, <1>7, <1>9, <2>1, <3>1 DEF Sound, Waits
  <2>2. CASE i \in 1 .. Len(s_authChannel)
    <3>1. s_authChannel'[i] = s_authChannel[i] /\ Sound(i) /\ s_authChannel[i].client # r
      BY <1>2, <1>8, <2>2 DEF RequestInv, QueueInv
    <3>2. \A j \in 1 .. n : s_authChannel'[j].client = s_authChannel[i].client =>
            j \in 1 .. Len(s_authChannel) /\ s_authChannel[j].client = s_authChannel[i].client
      BY <1>2, <1>3, <3>1
    <3>3. s_authChannel[i].client \in Requesters \cup {NoClient}
      BY <1>2, <2>2
    <3>4. QED
      BY <1>2, <1>5, <1>9, <2>2, <3>1, <3>2, <3>3 DEF Sound, Waits
  <2>3. QED
    BY <1>3, <2>1, <2>2
<1>11. HeldInv'
  BY <1>5, <1>7, <1>9 DEF RequestInv, HeldInv
<1>12. ReplyInv'
  <2> SUFFICES ASSUME NEW d \in Requesters
               PROVE  /\ m_channel[d] # <<>> => Waits(d)' /\ Len(m_channel[d]) = 1
                      /\ Waits(d)' => \/ m_channel[d] # <<>>
                                      \/ Held(d)
                                      \/ \E i \in 1 .. n : s_authChannel'[i].client = d
    BY <1>2, <1>9 DEF ReplyInv
  <2>1. CASE d = r
    BY <1>2, <1>3, <1>7, <2>1
  <2>2. CASE d # r
    <3>1. Waits(d)' <=> Waits(d)
      BY <1>5, <2>2 DEF Waits
    <3>2. \A i \in 1 .. Len(s_authChannel) :
            i \in 1 .. n /\ s_authChannel'[i] = s_authChannel[i]
      BY <1>2, <1>4
    <3>3. QED
      BY <3>1, <3>2 DEF RequestInv, ReplyInv
  <2>3. QED
    BY <2>1, <2>2
<1>13. QED
  BY <1>10, <1>11, <1>12 DEF RequestInv

\* ... for an answer ...
LEMMA WaitKeeps ==
    ASSUME BaseInv, RequestInv, NEW r \in Requesters, ~Waits(r),
           NEW k \in Kinds \ {"shutdown", "disconnect"},
           NEW x \in Accounts \cup Players \cup {NoPlayer},
           s_authChannel' = Append(s_authChannel, Request(k, r, x)),
           pc' = [pc EXCEPT ![r] = "wait"], UNCHANGED <<daemon, m_channel>>
    PROVE  RequestInv'
<1>1. "wait" \in {"wait", "leaving"} /\ (k = "disconnect" <=> "wait" = "leaving")
  OBVIOUS
<1>2. QED
  BY <1>1, AskKeeps

\* ... and one that reads its reply ...
LEMMA ReadKeeps ==
    ASSUME BaseInv, RequestInv, NEW r \in Requesters, m_channel[r] # <<>>,
           NEW next \in {"idle", "left"},
           m_channel' = [m_channel EXCEPT ![r] = Tail(m_channel[r])],
           pc' = [pc EXCEPT ![r] = next],
           UNCHANGED <<s_authChannel, daemon>>
    PROVE  RequestInv'
<1>1. Waits(r) /\ Len(m_channel[r]) = 1
  BY DEF RequestInv, ReplyInv
<1>2. m_channel'[r] = <<>> /\ \A d \in Requesters : d # r => m_channel'[d] = m_channel[d]
  <2>1. Tail(m_channel[r]) = <<>>
    BY <1>1, LastTaken DEF BaseInv, TypeOK
  <2>2. QED
    BY <2>1 DEF BaseInv, TypeOK
<1>3. pc'[r] = next /\ \A d \in Requesters : d # r => pc'[d] = pc[d]
  BY DEF BaseInv, TypeOK
<1>4. \A d \in Requesters : (Held(d)' <=> Held(d)) /\ (Held(d) => d # r)
  BY DEF Held, RequestInv, HeldInv
<1>5. \A i \in 1 .. Len(s_authChannel) :
         s_authChannel[i].client # r /\ s_authChannel[i].client \in Requesters \cup {NoClient}
  BY QueuedType, NullAssumption DEF RequestInv, QueueInv, Sound, BaseInv, Requesters
<1>6. QueueInv'
  BY <1>2, <1>3, <1>4, <1>5 DEF RequestInv, QueueInv, Sound, Waits
<1>7. HeldInv'
  BY <1>2, <1>3, <1>4 DEF RequestInv, HeldInv
<1>8. ReplyInv'
  BY <1>2, <1>3, <1>4 DEF RequestInv, ReplyInv, Waits
<1>9. QED
  BY <1>6, <1>7, <1>8 DEF RequestInv

\* ... and one that moves on without a request.
LEMMA MoveKeeps ==
    ASSUME BaseInv, RequestInv, NEW r \in Requesters, ~Waits(r),
           NEW next \in {"idle", "down"},
           pc' = [pc EXCEPT ![r] = next],
           \A d \in Requesters : m_channel'[d] = m_channel[d] \/ (d = r /\ m_channel'[d] = <<>>),
           UNCHANGED <<s_authChannel, daemon>>
    PROVE  RequestInv'
<1>1. pc'[r] = next /\ \A d \in Requesters : d # r => pc'[d] = pc[d]
  BY DEF BaseInv, TypeOK
<1>2. \A d \in Requesters : m_channel'[d] = m_channel[d]
  BY DEF RequestInv, ReplyInv
<1>3. \A d \in Requesters : (Held(d)' <=> Held(d)) /\ (Held(d) => d # r)
  BY DEF Held, RequestInv, HeldInv, Waits
<1>4. \A i \in 1 .. Len(s_authChannel) :
         s_authChannel[i].client # r /\ s_authChannel[i].client \in Requesters \cup {NoClient}
  BY QueuedType, NullAssumption DEF RequestInv, QueueInv, Sound, BaseInv, Requesters
<1>5. QueueInv'
  BY <1>1, <1>2, <1>3, <1>4 DEF RequestInv, QueueInv, Sound, Waits
<1>6. HeldInv'
  BY <1>1, <1>2, <1>3 DEF RequestInv, HeldInv
<1>7. ReplyInv'
  BY <1>1, <1>2, <1>3 DEF RequestInv, ReplyInv, Waits
<1>8. QED
  BY <1>5, <1>6, <1>7 DEF RequestInv

\* Nobody waits for the answer to e_AuthShutdown: neither when it is put ...
LEMMA NoticeKeeps ==
    ASSUME BaseInv, RequestInv,
           s_authChannel' = Append(s_authChannel, Request("shutdown", NoClient, NoPlayer)),
           UNCHANGED <<pc, daemon, m_channel>>
    PROVE  RequestInv'
<1> DEFINE n == Len(s_authChannel) + 1
<1>1. /\ Request("shutdown", NoClient, NoPlayer) \in Requests
      /\ Request("shutdown", NoClient, NoPlayer).client = NoClient
  BY RequestType DEF Request, Kinds
<1>2. /\ Len(s_authChannel) \in Nat /\ Len(s_authChannel') = n
      /\ \A i \in 1 .. Len(s_authChannel) : s_authChannel'[i] = s_authChannel[i]
      /\ s_authChannel'[n].client = NoClient
  BY <1>1, QueuedType, AppendFacts DEF BaseInv
<1>3. \A i \in 1 .. n : i \in 1 .. Len(s_authChannel) \/ i = n
  BY <1>2
<1>4. \A i \in 1 .. Len(s_authChannel) : i \in 1 .. n
  BY <1>2
<1>5. \A d : Held(d)' <=> Held(d)
  BY DEF Held
<1> HIDE DEF n
<1>6. QueueInv'
  <2> SUFFICES ASSUME NEW i \in 1 .. n
               PROVE  Sound(i)'
    BY <1>2 DEF QueueInv
  <2>1. CASE s_authChannel'[i].client = NoClient
    BY <2>1 DEF Sound
  <2>2. CASE s_authChannel'[i].client # NoClient
    <3>1. i \in 1 .. Len(s_authChannel) /\ s_authChannel'[i] = s_authChannel[i] /\ Sound(i)
      BY <1>2, <1>3, <2>2 DEF RequestInv, QueueInv
    <3>2. \A j \in 1 .. n : s_authChannel'[j].client = s_authChannel[i].client =>
            j \in 1 .. Len(s_authChannel) /\ s_authChannel[j].client = s_authChannel[i].client
      BY <1>2, <1>3, <2>2, <3>1
    <3>3. QED
      BY <1>2, <1>5, <2>2, <3>1, <3>2 DEF Sound, Waits
  <2>3. QED
    BY <2>1, <2>2
<1>7. HeldInv'
  BY <1>5 DEF RequestInv, HeldInv
<1>8. ReplyInv'
  <2>1. \A i \in 1 .. Len(s_authChannel) :
          i \in 1 .. Len(s_authChannel') /\ s_authChannel'[i] = s_authChannel[i]
    BY <1>2, <1>4
  <2>2. QED
    BY <1>5, <2>1 DEF RequestInv, ReplyInv, Waits
<1>9. QED
  BY <1>6, <1>7, <1>8 DEF RequestInv

\* ... nor when it is taken.
LEMMA CloseKeeps ==
    ASSUME BaseInv, RequestInv, Serving("shutdown"),
           s_authChannel' = Tail(s_authChannel), daemon'.phase = "closing",
           UNCHANGED <<pc, m_channel>>
    PROVE  RequestInv'
<1>1. Head(s_authChannel).client = NoClient
  BY ServingFacts DEF WellFormed, Kinds
<1>2. \A r : ~Held(r) /\ ~Held(r)'
  BY DEF Held, Serving
<1>3. /\ QueueInv'
      /\ \A r \in Requesters : r # NoClient =>
            \A i \in 1 .. Len(s_authChannel) : s_authChannel[i].client = r =>
                \E j \in 1 .. Len(s_authChannel') : s_authChannel'[j].client = r
  BY <1>1, <1>2, TakeKeeps DEF Kinds
<1>4. NoClient \notin Requesters
  BY NullAssumption DEF Requesters
<1>5. HeldInv' /\ ReplyInv'
  BY <1>2, <1>3, <1>4 DEF RequestInv, HeldInv, ReplyInv, Waits
<1>6. QED
  BY <1>3, <1>5 DEF RequestInv

\* Every step keeps requests and replies paired.
LEMMA RequestStep ==
    ASSUME Answering, BaseInv, RequestInv, [Next]_vars
    PROVE  RequestInv'
<1>1. ASSUME NEW c \in Clients, Connect(c)
      PROVE  RequestInv'
  <2>1. c \in Requesters /\ ~Waits(c)
    BY <1>1 DEF Connect, Requesters, Waits
  <2>2. pc' = [pc EXCEPT ![c] = "idle"] /\ UNCHANGED <<m_channel, s_authChannel, daemon>>
    BY <1>1 DEF Connect
  <2>3. QED
    BY <2>1, <2>2, MoveKeeps
<1>2. ASSUME NEW c \in Clients, HandshakeFails(c)
      PROVE  RequestInv'
  <2>1. c \in Requesters /\ ~Waits(c)
    BY <1>2 DEF HandshakeFails, Requesters, Waits
  <2>2. /\ s_authChannel' = Append(s_authChannel, Request("disconnect", c, NoPlayer))
        /\ pc' = [pc EXCEPT ![c] = "leaving"]
        /\ UNCHANGED <<daemon, m_channel>>
    BY <1>2 DEF HandshakeFails, Leave
  <2>3. QED
    BY <2>1, <2>2, AskKeeps DEF Kinds
<1>3. ASSUME NEW c \in Clients, NEW a \in Accounts, cb_login(c, a)
      PROVE  RequestInv'
  <2>1. c \in Requesters /\ ~Waits(c)
    BY <1>3 DEF cb_login, Requesters, Waits
  <2>2. /\ s_authChannel' = Append(s_authChannel, Request("login", c, a))
        /\ pc' = [pc EXCEPT ![c] = "wait"]
        /\ UNCHANGED <<daemon, m_channel>>
    BY <1>3 DEF cb_login, Ask
  <2>3. QED
    BY <2>1, <2>2, WaitKeeps DEF Kinds
<1>4. ASSUME NEW c \in Clients, NEW p \in Players \cup {NoPlayer}, cb_setPlayer(c, p)
      PROVE  RequestInv'
  <2>1. CASE p = NoPlayer
    BY <1>4, <2>1
       DEF cb_setPlayer, RequestInv, QueueInv, HeldInv, ReplyInv, Sound, Held, Waits
  <2>2. CASE p # NoPlayer
    <3>1. c \in Requesters /\ ~Waits(c)
      BY <1>4, <2>2 DEF cb_setPlayer, Requesters, Waits
    <3>2. /\ s_authChannel' = Append(s_authChannel, Request("setPlayer", c, p))
          /\ pc' = [pc EXCEPT ![c] = "wait"]
          /\ UNCHANGED <<daemon, m_channel>>
      BY <1>4, <2>2 DEF cb_setPlayer, Ask
    <3>3. QED
      BY <3>1, <3>2, WaitKeeps DEF Kinds
  <2>3. QED
    BY <2>1, <2>2
<1>5. ASSUME NEW c \in Clients, NEW p \in Players,
             NEW k \in {"createPlayer", "deletePlayer", "findAge"}, cb_request(c, k, p)
      PROVE  RequestInv'
  <2>1. c \in Requesters /\ ~Waits(c)
    BY <1>5 DEF cb_request, Requesters, Waits
  <2>2. /\ s_authChannel' = Append(s_authChannel, Request(k, c, p))
        /\ pc' = [pc EXCEPT ![c] = "wait"]
        /\ UNCHANGED <<daemon, m_channel>>
    BY <1>5 DEF cb_request, Ask
  <2>3. QED
    BY <2>1, <2>2, WaitKeeps DEF Kinds
<1>6. ASSUME NEW r \in Requesters, GetReply(r)
      PROVE  RequestInv'
  <2>1. /\ r \in Requesters /\ m_channel[r] # <<>>
        /\ m_channel' = [m_channel EXCEPT ![r] = Tail(m_channel[r])]
        /\ pc' = [pc EXCEPT ![r] = "idle"]
        /\ UNCHANGED <<s_authChannel, daemon>>
    BY <1>6 DEF GetReply, Requesters
  <2>2. QED
    BY <2>1, ReadKeeps
<1>7. ASSUME NEW c \in Clients, PeerCloses(c)
      PROVE  RequestInv'
  BY <1>7 DEF PeerCloses, RequestInv, QueueInv, HeldInv, ReplyInv, Sound, Held, Waits
<1>8. ASSUME NEW c \in Clients, Hup(c)
      PROVE  RequestInv'
  <2>1. c \in Requesters /\ ~Waits(c)
    BY <1>8 DEF Hup, Requesters, Waits
  <2>2. /\ s_authChannel' = Append(s_authChannel, Request("disconnect", c, NoPlayer))
        /\ pc' = [pc EXCEPT ![c] = "leaving"]
        /\ UNCHANGED <<daemon, m_channel>>
    BY <1>8 DEF Hup, Leave
  <2>3. QED
    BY <2>1, <2>2, AskKeeps DEF Kinds
<1>9. ASSUME NEW c \in Clients, GetDisconnectReply(c)
      PROVE  RequestInv'
  <2>1. /\ c \in Requesters /\ m_channel[c] # <<>>
        /\ m_channel' = [m_channel EXCEPT ![c] = Tail(m_channel[c])]
        /\ pc' = [pc EXCEPT ![c] = "left"]
        /\ UNCHANGED <<s_authChannel, daemon>>
    BY <1>9 DEF GetDisconnectReply, Requesters
  <2>2. QED
    BY <2>1, ReadKeeps
<1>10. ASSUME NEW c \in Clients, Remove(c)
       PROVE  RequestInv'
  <2>1. c \in Requesters /\ ~Waits(c)
    BY <1>10 DEF Remove, Requesters, Waits
  <2>2. /\ pc' = [pc EXCEPT ![c] = "down"] /\ UNCHANGED <<s_authChannel, daemon>>
        /\ \A d \in Requesters : m_channel'[d] = m_channel[d] \/ (d = c /\ m_channel'[d] = <<>>)
    BY <1>10 DEF Remove, BaseInv, TypeOK
  <2>3. QED
    BY <2>1, <2>2, MoveKeeps
<1>11. ASSUME NEW h \in Hosts, NEW p \in Players, HostAsks(h, p)
       PROVE  RequestInv'
  <2>1. h \in Requesters /\ ~Waits(h)
    BY <1>11 DEF HostAsks, Requesters, Waits
  <2>2. /\ s_authChannel' = Append(s_authChannel, Request("updateAgeSrv", h, p))
        /\ pc' = [pc EXCEPT ![h] = "wait"]
        /\ UNCHANGED <<daemon, m_channel>>
    BY <1>11 DEF HostAsks, Ask
  <2>3. QED
    BY <2>1, <2>2, WaitKeeps DEF Kinds
<1>12. CASE AuthServer_Shutdown
  BY <1>12, NoticeKeeps DEF AuthServer_Shutdown
<1>13. CASE dm_auth_login
  <2>1. PICK code \in {"success", "failure"} :
          m_channel' = [m_channel EXCEPT ![Head(s_authChannel).client] =
                           Append(m_channel[Head(s_authChannel).client], code)]
    BY <1>13 DEF dm_auth_login, Reply
  <2>2. Serving("login") /\ s_authChannel' = Tail(s_authChannel) /\ UNCHANGED <<pc, daemon>>
    BY <1>13 DEF dm_auth_login
  <2>3. QED
    BY <2>1, <2>2, AnswerKeeps DEF Kinds
<1>14. CASE dm_auth_setPlayer_scan
  <2>1. Serving("setPlayer") /\ s_authChannel' = Tail(s_authChannel) /\ UNCHANGED pc
    BY <1>14 DEF dm_auth_setPlayer_scan
  <2>2. CASE /\ m_channel' = [m_channel EXCEPT ![Head(s_authChannel).client] =
                                Append(m_channel[Head(s_authChannel).client], "failure")]
             /\ UNCHANGED daemon
    BY <2>1, <2>2, AnswerKeeps DEF Kinds
  <2>3. CASE /\ daemon' = [Idle EXCEPT !.phase = "mark", !.msg = Head(s_authChannel)]
             /\ UNCHANGED m_channel
    <3>1. daemon'.phase = "mark" /\ daemon'.msg = Head(s_authChannel)
      BY <2>3 DEF Idle
    <3>2. QED
      BY <2>1, <2>3, <3>1, HoldKeeps DEF Kinds
  <2>4. QED
    BY <1>14, <2>2, <2>3 DEF dm_auth_setPlayer_scan, Reply
<1>15. CASE dm_auth_setPlayer_mark
  <2>1. PICK code \in {"success", "failure"} :
          m_channel' = [m_channel EXCEPT ![daemon.msg.client] =
                           Append(m_channel[daemon.msg.client], code)]
    BY <1>15 DEF dm_auth_setPlayer_mark, Reply
  <2>2. /\ daemon.phase \in {"mark", "ageWrite"} /\ daemon' = Idle
        /\ UNCHANGED <<pc, s_authChannel>>
    BY <1>15 DEF dm_auth_setPlayer_mark
  <2>3. QED
    BY <2>1, <2>2, FinishKeeps
<1>16. CASE dm_auth_createPlayer
  <2>1. PICK code \in {"success", "failure"} :
          m_channel' = [m_channel EXCEPT ![Head(s_authChannel).client] =
                           Append(m_channel[Head(s_authChannel).client], code)]
    BY <1>16 DEF dm_auth_createPlayer, Reply, Answering
  <2>2. Serving("createPlayer") /\ s_authChannel' = Tail(s_authChannel) /\ UNCHANGED <<pc, daemon>>
    BY <1>16 DEF dm_auth_createPlayer
  <2>3. QED
    BY <2>1, <2>2, AnswerKeeps DEF Kinds
<1>17. CASE dm_auth_deletePlayer
  <2>1. PICK code \in {"success", "failure"} :
          m_channel' = [m_channel EXCEPT ![Head(s_authChannel).client] =
                           Append(m_channel[Head(s_authChannel).client], code)]
    BY <1>17 DEF dm_auth_deletePlayer, Reply
  <2>2. Serving("deletePlayer") /\ s_authChannel' = Tail(s_authChannel) /\ UNCHANGED <<pc, daemon>>
    BY <1>17 DEF dm_auth_deletePlayer
  <2>3. QED
    BY <2>1, <2>2, AnswerKeeps DEF Kinds
<1>18. CASE dm_auth_findAge
  <2>1. PICK code \in {"success", "failure"} :
          m_channel' = [m_channel EXCEPT ![Head(s_authChannel).client] =
                           Append(m_channel[Head(s_authChannel).client], code)]
    BY <1>18 DEF dm_auth_findAge, Reply, Answering
  <2>2. Serving("findAge") /\ s_authChannel' = Tail(s_authChannel) /\ UNCHANGED <<pc, daemon>>
    BY <1>18 DEF dm_auth_findAge
  <2>3. QED
    BY <2>1, <2>2, AnswerKeeps DEF Kinds
<1>19. CASE dm_auth_disconnect
  <2>1. PICK code \in {"success", "failure"} :
          m_channel' = [m_channel EXCEPT ![Head(s_authChannel).client] =
                           Append(m_channel[Head(s_authChannel).client], code)]
    BY <1>19 DEF dm_auth_disconnect, Reply
  <2>2. Serving("disconnect") /\ s_authChannel' = Tail(s_authChannel) /\ UNCHANGED <<pc, daemon>>
    BY <1>19 DEF dm_auth_disconnect
  <2>3. QED
    BY <2>1, <2>2, AnswerKeeps DEF Kinds
<1>20. CASE dm_auth_updateAgeSrv_find
  <2>1. /\ Serving("updateAgeSrv") /\ s_authChannel' = Tail(s_authChannel)
        /\ daemon'.phase = "ageWrite" /\ daemon'.msg = Head(s_authChannel)
        /\ UNCHANGED <<pc, m_channel>>
    BY <1>20 DEF dm_auth_updateAgeSrv_find
  <2>2. QED
    BY <2>1, HoldKeeps DEF Kinds
<1>21. CASE dm_auth_updateAgeSrv_write
  <2>1. PICK code \in {"success", "failure"} :
          m_channel' = [m_channel EXCEPT ![daemon.msg.client] =
                           Append(m_channel[daemon.msg.client], code)]
    BY <1>21 DEF dm_auth_updateAgeSrv_write, Reply
  <2>2. /\ daemon.phase \in {"mark", "ageWrite"} /\ daemon' = Idle
        /\ UNCHANGED <<pc, s_authChannel>>
    BY <1>21 DEF dm_auth_updateAgeSrv_write
  <2>3. QED
    BY <2>1, <2>2, FinishKeeps
<1>22. CASE dm_auth_shutdown_close
  <2>1. daemon'.phase = "closing"
    BY <1>22 DEF dm_auth_shutdown_close, Idle
  <2>2. QED
    BY <1>22, <2>1, CloseKeeps DEF dm_auth_shutdown_close
<1>23. CASE dm_auth_shutdown_wait
  <2>1. \A r : ~Held(r) /\ ~Held(r)'
    BY <1>23 DEF dm_auth_shutdown_wait, Held, Idle
  <2>2. QED
    BY <1>23, <2>1
       DEF dm_auth_shutdown_wait, RequestInv, QueueInv, HeldInv, ReplyInv, Sound, Waits
<1>24. CASE AuthServer_Init
  <2>1. \A r : ~Held(r) /\ ~Held(r)'
    BY <1>24 DEF AuthServer_Init, Held, Idle
  <2>2. QED
    BY <1>24, <2>1
       DEF AuthServer_Init, RequestInv, QueueInv, HeldInv, ReplyInv, Sound, Waits
<1>24a. CASE dm_authDaemon_init
  <2>1. \A r : ~Held(r) /\ ~Held(r)'
    BY <1>24a DEF dm_authDaemon_init, Held, Idle
  <2>2. QED
    BY <1>24a, <2>1
       DEF dm_authDaemon_init, RequestInv, QueueInv, HeldInv, ReplyInv, Sound, Waits
<1>25. CASE UNCHANGED vars
  BY <1>25 DEF vars, RequestInv, QueueInv, HeldInv, ReplyInv, Sound, Held, Waits
<1>26. QED
  BY <1>1, <1>2, <1>3, <1>4, <1>5, <1>6, <1>7, <1>8, <1>9, <1>10, <1>11, <1>12, <1>13,
     <1>14, <1>15, <1>16, <1>17, <1>18, <1>19, <1>20, <1>21, <1>22, <1>23, <1>24, <1>24a, <1>25
     DEF Next, dm_authDaemon

-----------------------------------------------------------------------------
(* SessionInv.                                                               *)

\* A thread outside a request has none in the queue, and is not the one the
\* daemon works for.
LEMMA NotWaiting ==
    ASSUME BaseInv, RequestInv, NEW c \in Requesters, ~Waits(c)
    PROVE  /\ c # NoClient /\ ~Held(c) /\ m_channel[c] = <<>>
           /\ \A i \in 1 .. Len(s_authChannel) : s_authChannel[i].client # c
<1>1. c # NoClient
  BY NullAssumption DEF Requesters
<1>2. QED
  BY <1>1 DEF RequestInv, QueueInv, HeldInv, ReplyInv, Sound, Waits

\* Nor has the client of the request the daemon works on another one.
LEMMA MarkFacts ==
    ASSUME BaseInv, RequestInv, daemon.phase = "mark", NEW c, c = daemon.msg.client
    PROVE  /\ c \in Clients /\ c \in Requesters /\ Held(c) /\ pc[c] = "wait" /\ m_channel[c] = <<>>
           /\ \A i \in 1 .. Len(s_authChannel) : s_authChannel[i].client # c
<1>1. c \in Clients /\ c \in Requesters /\ c # NoClient
  BY NullAssumption DEF BaseInv, FormInv, Requesters
<1>2. Held(c)
  BY DEF Held
<1>3. QED
  BY <1>1, <1>2 DEF RequestInv, QueueInv, HeldInv, Sound

\* The client whose request is taken, its player settled unless it asks for one.
LEMMA TakenFacts ==
    ASSUME IInv, NEW k \in Kinds \ {"shutdown", "updateAgeSrv"}, Serving(k),
           NEW c, c = Head(s_authChannel).client
    PROVE  /\ c \in Clients /\ c \in Requesters /\ Waits(c) /\ m_channel[c] = <<>>
           /\ k = "disconnect" <=> pc[c] = "leaving"
           /\ k = "setPlayer" => grant[c] = "none" /\ playerId[c] \in Players
           /\ k # "setPlayer" => Settled(c)
           /\ \A i \in 1 .. Len(Tail(s_authChannel)) : Tail(s_authChannel)[i].client # c
<1>1. /\ c \in Clients /\ c = s_authChannel[1].client /\ s_authChannel[1].kind = k
      /\ 1 \in 1 .. Len(s_authChannel)
  BY ServingFacts DEF IInv
<1>2. Claim(1)
  BY <1>1 DEF IInv, SessionInv, ClaimInv
<1>3. /\ k = "setPlayer" => grant[c] = "none" /\ playerId[c] \in Players
      /\ k # "setPlayer" => Settled(c)
  BY <1>1, <1>2 DEF Claim
<1>4. /\ c \in Requesters /\ Waits(c) /\ m_channel[c] = <<>>
      /\ k = "disconnect" <=> pc[c] = "leaving"
      /\ \A i \in 1 .. Len(Tail(s_authChannel)) : Tail(s_authChannel)[i].client # c
  BY HeadSound DEF IInv
<1>5. QED
  BY <1>1, <1>3, <1>4

\* What the queued requests claim holds on while their clients wait.
LEMMA ClaimsKeep ==
    ASSUME BaseInv, ClaimInv,
           \A i \in 1 .. Len(s_authChannel') :
               /\ \E j \in 1 .. Len(s_authChannel) : s_authChannel'[i] = s_authChannel[j]
               /\ s_authChannel'[i].client \in Clients =>
                     /\ playerId'[s_authChannel'[i].client] = playerId[s_authChannel'[i].client]
                     /\ grant'[s_authChannel'[i].client] = grant[s_authChannel'[i].client]
    PROVE  ClaimInv'
<1> SUFFICES ASSUME NEW i \in 1 .. Len(s_authChannel')
             PROVE  Claim(i)'
  BY DEF ClaimInv
<1>1. PICK j \in 1 .. Len(s_authChannel) : s_authChannel'[i] = s_authChannel[j]
  OBVIOUS
<1>2. Claim(j)
  BY DEF ClaimInv
<1>3. QED
  BY <1>1, <1>2 DEF Claim, Settled

\* A request joins the queue with a claim that holds.
LEMMA ClaimsPut ==
    ASSUME BaseInv, ClaimInv, NEW m \in Requests,
           s_authChannel' = Append(s_authChannel, m),
           m.client \in Clients =>
               IF m.kind = "setPlayer"
               THEN grant'[m.client] = "none" /\ playerId'[m.client] \in Players
               ELSE Settled(m.client)',
           \A i \in 1 .. Len(s_authChannel) : s_authChannel[i].client \in Clients =>
               /\ playerId'[s_authChannel[i].client] = playerId[s_authChannel[i].client]
               /\ grant'[s_authChannel[i].client] = grant[s_authChannel[i].client]
    PROVE  ClaimInv'
<1>1. /\ Len(s_authChannel) \in Nat /\ Len(s_authChannel') = Len(s_authChannel) + 1
      /\ \A i \in 1 .. Len(s_authChannel) : s_authChannel'[i] = s_authChannel[i]
      /\ s_authChannel'[Len(s_authChannel) + 1] = m
  BY QueuedType, AppendFacts DEF BaseInv
<1>2. ASSUME NEW i \in 1 .. Len(s_authChannel')
      PROVE  Claim(i)'
  <2>1. CASE i = Len(s_authChannel) + 1
    BY <1>1, <2>1 DEF Claim
  <2>2. CASE i \in 1 .. Len(s_authChannel)
    <3>1. Claim(i) /\ s_authChannel'[i] = s_authChannel[i]
      BY <1>1, <2>2 DEF ClaimInv
    <3>2. QED
      BY <2>2, <3>1 DEF Claim, Settled
  <2>3. QED
    BY <1>1, <2>1, <2>2
<1>3. QED
  BY <1>2 DEF ClaimInv

\* Every granted client is in the list.
LEMMA ListStep ==
    ASSUME IInv, [Next]_vars
    PROVE  ListInv'
<1>1. ASSUME NEW c \in Clients, Connect(c)
      PROVE  ListInv'
  BY <1>1 DEF Connect, IInv, SessionInv, ListInv, BaseInv, TypeOK, Requesters
<1>2. ASSUME NEW c \in Clients, HandshakeFails(c)
      PROVE  ListInv'
  <2>1. m_channel[c] = <<>>
    BY <1>2, NotWaiting DEF HandshakeFails, IInv, Waits, Requesters
  <2>2. QED
    BY <1>2, <2>1
     DEF HandshakeFails, Leave, clientVars, IInv, SessionInv, ListInv, BaseInv, TypeOK,
         Requesters
<1>3. ASSUME NEW c \in Clients, NEW a \in Accounts, cb_login(c, a)
      PROVE  ListInv'
  BY <1>3
     DEF cb_login, Ask, clientVars, IInv, SessionInv, ListInv, BaseInv, TypeOK, Requesters
<1>4. ASSUME NEW c \in Clients, NEW p \in Players \cup {NoPlayer}, cb_setPlayer(c, p)
      PROVE  ListInv'
  BY <1>4 DEF cb_setPlayer, Ask, IInv, SessionInv, ListInv, BaseInv, TypeOK, Requesters
<1>5. ASSUME NEW c \in Clients, NEW p \in Players,
             NEW k \in {"createPlayer", "deletePlayer", "findAge"}, cb_request(c, k, p)
      PROVE  ListInv'
  BY <1>5
     DEF cb_request, Ask, clientVars, IInv, SessionInv, ListInv, BaseInv, TypeOK,
         Requesters
<1>6. ASSUME NEW r \in Requesters, GetReply(r)
      PROVE  ListInv'
  BY <1>6 DEF GetReply, clientVars, IInv, SessionInv, ListInv, BaseInv, TypeOK, Requesters
<1>7. ASSUME NEW c \in Clients, PeerCloses(c)
      PROVE  ListInv'
  BY <1>7 DEF PeerCloses, IInv, SessionInv, ListInv, BaseInv, TypeOK, Requesters
<1>8. ASSUME NEW c \in Clients, Hup(c)
      PROVE  ListInv'
  <2>1. m_channel[c] = <<>>
    BY <1>8, NotWaiting DEF Hup, IInv, Waits, Requesters
  <2>2. QED
    BY <1>8, <2>1
     DEF Hup, Leave, clientVars, IInv, SessionInv, ListInv, BaseInv, TypeOK, Requesters
<1>9. ASSUME NEW c \in Clients, GetDisconnectReply(c)
      PROVE  ListInv'
  BY <1>9
     DEF GetDisconnectReply, clientVars, IInv, SessionInv, ListInv, BaseInv, TypeOK,
         Requesters
<1>10. ASSUME NEW c \in Clients, Remove(c)
       PROVE  ListInv'
  BY <1>10 DEF Remove, IInv, SessionInv, ListInv, BaseInv, TypeOK, Requesters
<1>11. ASSUME NEW h \in Hosts, NEW p \in Players, HostAsks(h, p)
       PROVE  ListInv'
  BY <1>11
     DEF HostAsks, Ask, clientVars, IInv, SessionInv, ListInv, BaseInv, TypeOK, Requesters
<1>12. CASE AuthServer_Shutdown
  BY <1>12
     DEF AuthServer_Shutdown, clientVars, IInv, SessionInv, ListInv, BaseInv, TypeOK,
         Requesters
<1>13. CASE dm_auth_login
  <2>1. PICK c \in Clients :
           /\ c = Head(s_authChannel).client /\ c \in Requesters
           /\ Waits(c) /\ m_channel[c] = <<>> /\ pc[c] # "leaving"
           /\ Settled(c)
    BY <1>13, TakenFacts DEF dm_auth_login, Kinds
  <2>2. QED
    BY <1>13, <2>1
     DEF dm_auth_login, Reply, IInv, SessionInv, ListInv, Waits, BaseInv, TypeOK,
         Requesters
<1>14. CASE dm_auth_setPlayer_scan
  <2>1. PICK c \in Clients :
           /\ c = Head(s_authChannel).client /\ c \in Requesters
           /\ Waits(c) /\ m_channel[c] = <<>> /\ pc[c] # "leaving"
           /\ grant[c] = "none" /\ playerId[c] \in Players
    BY <1>14, TakenFacts DEF dm_auth_setPlayer_scan, Kinds
  <2>2. QED
    BY <1>14, <2>1
     DEF dm_auth_setPlayer_scan, Reply, IInv, SessionInv, ListInv, Waits, BaseInv, TypeOK,
         Requesters
<1>15. CASE dm_auth_setPlayer_mark
  <2>1. PICK c \in Clients : c = daemon.msg.client /\ pc[c] = "wait" /\ c \in Requesters
    BY <1>15, MarkFacts DEF dm_auth_setPlayer_mark, IInv
  <2>2. playerId[c] \in Players /\ c \in s_authClients
    BY <1>15, <2>1 DEF dm_auth_setPlayer_mark, IInv, SessionInv, MarkInv, ListInv
  <2>3. QED
    BY <1>15, <2>1, <2>2
       DEF dm_auth_setPlayer_mark, Reply, IInv, SessionInv, ListInv, BaseInv, TypeOK,
           Requesters
<1>16. CASE dm_auth_createPlayer
  <2>1. PICK c \in Clients :
           /\ c = Head(s_authChannel).client /\ c \in Requesters
           /\ Waits(c) /\ m_channel[c] = <<>> /\ pc[c] # "leaving"
           /\ Settled(c)
    <3>1. Serving("createPlayer")
      BY <1>16 DEF dm_auth_createPlayer
    <3>2. QED
      BY <3>1, TakenFacts DEF Kinds
  <2>2. QED
    BY <1>16, <2>1
     DEF dm_auth_createPlayer, Reply, clientVars, IInv, SessionInv, ListInv, Waits,
         BaseInv, TypeOK, Requesters
<1>17. CASE dm_auth_deletePlayer
  <2>1. PICK c \in Clients :
           /\ c = Head(s_authChannel).client /\ c \in Requesters
           /\ Waits(c) /\ m_channel[c] = <<>> /\ pc[c] # "leaving"
           /\ Settled(c)
    BY <1>17, TakenFacts DEF dm_auth_deletePlayer, Kinds
  <2>2. QED
    BY <1>17, <2>1
     DEF dm_auth_deletePlayer, Reply, clientVars, IInv, SessionInv, ListInv, Waits,
         BaseInv, TypeOK, Requesters
<1>18. CASE dm_auth_findAge
  <2>1. PICK c \in Clients :
           /\ c = Head(s_authChannel).client /\ c \in Requesters
           /\ Waits(c) /\ m_channel[c] = <<>> /\ pc[c] # "leaving"
           /\ Settled(c)
    BY <1>18, TakenFacts DEF dm_auth_findAge, Kinds
  <2>2. QED
    BY <1>18, <2>1
     DEF dm_auth_findAge, Reply, clientVars, IInv, SessionInv, ListInv, Waits, BaseInv,
         TypeOK, Requesters
<1>19. CASE dm_auth_disconnect
  <2>1. PICK c \in Clients :
           /\ c = Head(s_authChannel).client /\ c \in Requesters
           /\ Waits(c) /\ m_channel[c] = <<>> /\ pc[c] = "leaving"
           /\ Settled(c)
    BY <1>19, TakenFacts DEF dm_auth_disconnect, Kinds
  <2>2. QED
    BY <1>19, <2>1
     DEF dm_auth_disconnect, Reply, IInv, SessionInv, ListInv, Waits, BaseInv, TypeOK,
         Requesters
<1>20. CASE dm_auth_updateAgeSrv_find
  BY <1>20 DEF dm_auth_updateAgeSrv_find, clientVars, IInv, SessionInv, ListInv
<1>21. CASE dm_auth_updateAgeSrv_write
  <2>1. daemon.msg.client \in Hosts
    BY <1>21 DEF dm_auth_updateAgeSrv_write, IInv, BaseInv, FormInv
  <2>2. \A c \in Clients : m_channel'[c] = m_channel[c]
    BY <1>21, <2>1, NullAssumption
       DEF dm_auth_updateAgeSrv_write, Reply, IInv, BaseInv, TypeOK, Requesters
  <2>3. QED
    BY <1>21, <2>2 DEF dm_auth_updateAgeSrv_write, IInv, SessionInv, ListInv
<1>22. CASE dm_auth_shutdown_close
  BY <1>22 DEF dm_auth_shutdown_close, Idle, IInv, SessionInv, ListInv
<1>23. CASE dm_auth_shutdown_wait
  BY <1>23 DEF dm_auth_shutdown_wait, Idle, clientVars, IInv, SessionInv, ListInv
<1>24. CASE AuthServer_Init
  BY <1>24 DEF AuthServer_Init, Idle, clientVars, IInv, SessionInv, ListInv
<1>24a. CASE dm_authDaemon_init
  BY <1>24a DEF dm_authDaemon_init, Idle, clientVars, IInv, SessionInv, ListInv
<1>25. CASE UNCHANGED vars
  BY <1>25 DEF vars, IInv, SessionInv, ListInv
<1>26. QED
  BY <1>1, <1>2, <1>3, <1>4, <1>5, <1>6, <1>7, <1>8, <1>9, <1>10, <1>11, <1>12, <1>13,
     <1>14, <1>15, <1>16, <1>17, <1>18, <1>19, <1>20, <1>21, <1>22, <1>23, <1>24, <1>24a, <1>25
     DEF Next, dm_authDaemon

\* A worker that goes on has no player, or a granted one.
LEMMA WorkerStep ==
    ASSUME Answering, IInv, [Next]_vars
    PROVE  WorkerInv'
<1>1. ASSUME NEW c \in Clients, Connect(c)
      PROVE  WorkerInv'
  BY <1>1
     DEF Connect, IInv, SessionInv, WorkerInv, Settled, ListInv, BaseInv, TypeOK,
         Requesters
<1>2. ASSUME NEW c \in Clients, HandshakeFails(c)
      PROVE  WorkerInv'
  BY <1>2
     DEF HandshakeFails, Leave, clientVars, IInv, SessionInv, WorkerInv, Settled, BaseInv,
         TypeOK, Requesters
<1>3. ASSUME NEW c \in Clients, NEW a \in Accounts, cb_login(c, a)
      PROVE  WorkerInv'
  BY <1>3
     DEF cb_login, Ask, clientVars, IInv, SessionInv, WorkerInv, Settled, BaseInv, TypeOK,
         Requesters
<1>4. ASSUME NEW c \in Clients, NEW p \in Players \cup {NoPlayer}, cb_setPlayer(c, p)
      PROVE  WorkerInv'
  <2>1. m_channel[c] = <<>>
    BY <1>4, NotWaiting DEF cb_setPlayer, IInv, Waits, Requesters
  <2>2. /\ playerId'[c] = p /\ pc'[c] \in {"idle", "wait"}
        /\ (p # NoPlayer => pc'[c] = "wait")
        /\ \A d \in Clients : d # c => /\ playerId'[d] = playerId[d] /\ grant'[d] = grant[d]
                                       /\ pc'[d] = pc[d]
        /\ UNCHANGED m_channel
    BY <1>4 DEF cb_setPlayer, Ask, IInv, BaseInv, TypeOK, Requesters
  <2>3. QED
    BY <2>1, <2>2 DEF IInv, SessionInv, WorkerInv, Settled
<1>5. ASSUME NEW c \in Clients, NEW p \in Players,
             NEW k \in {"createPlayer", "deletePlayer", "findAge"}, cb_request(c, k, p)
      PROVE  WorkerInv'
  BY <1>5
     DEF cb_request, Ask, clientVars, IInv, SessionInv, WorkerInv, Settled, BaseInv,
         TypeOK, Requesters
<1>6. ASSUME NEW r \in Requesters, GetReply(r)
      PROVE  WorkerInv'
  BY <1>6
     DEF GetReply, clientVars, IInv, SessionInv, WorkerInv, Settled, BaseInv, TypeOK,
         Requesters
<1>7. ASSUME NEW c \in Clients, PeerCloses(c)
      PROVE  WorkerInv'
  BY <1>7 DEF PeerCloses, IInv, SessionInv, WorkerInv, Settled, BaseInv, TypeOK, Requesters
<1>8. ASSUME NEW c \in Clients, Hup(c)
      PROVE  WorkerInv'
  BY <1>8
     DEF Hup, Leave, clientVars, IInv, SessionInv, WorkerInv, Settled, BaseInv, TypeOK,
         Requesters
<1>9. ASSUME NEW c \in Clients, GetDisconnectReply(c)
      PROVE  WorkerInv'
  BY <1>9
     DEF GetDisconnectReply, clientVars, IInv, SessionInv, WorkerInv, Settled, BaseInv,
         TypeOK, Requesters
<1>10. ASSUME NEW c \in Clients, Remove(c)
       PROVE  WorkerInv'
  BY <1>10 DEF Remove, IInv, SessionInv, WorkerInv, Settled, BaseInv, TypeOK, Requesters
<1>11. ASSUME NEW h \in Hosts, NEW p \in Players, HostAsks(h, p)
       PROVE  WorkerInv'
  BY <1>11
     DEF HostAsks, Ask, clientVars, IInv, SessionInv, WorkerInv, Settled, BaseInv, TypeOK,
         Requesters
<1>12. CASE AuthServer_Shutdown
  BY <1>12
     DEF AuthServer_Shutdown, clientVars, IInv, SessionInv, WorkerInv, Settled, BaseInv,
         TypeOK, Requesters
<1>13. CASE dm_auth_login
  <2>1. PICK c \in Clients :
           /\ c = Head(s_authChannel).client /\ c \in Requesters
           /\ Waits(c) /\ m_channel[c] = <<>> /\ pc[c] # "leaving"
           /\ Settled(c)
    BY <1>13, TakenFacts DEF dm_auth_login, Kinds
  <2>2. QED
    BY <1>13, <2>1
     DEF dm_auth_login, Reply, IInv, SessionInv, WorkerInv, Settled, Waits, BaseInv,
         TypeOK, Requesters
<1>14. CASE dm_auth_setPlayer_scan
  <2>1. PICK c \in Clients :
           /\ c = Head(s_authChannel).client /\ c \in Requesters
           /\ Waits(c) /\ m_channel[c] = <<>> /\ pc[c] # "leaving"
           /\ grant[c] = "none" /\ playerId[c] \in Players
    BY <1>14, TakenFacts DEF dm_auth_setPlayer_scan, Kinds
  <2>2. QED
    BY <1>14, <2>1
     DEF dm_auth_setPlayer_scan, Reply, IInv, SessionInv, WorkerInv, Settled, Waits,
         BaseInv, TypeOK, Requesters
<1>15. CASE dm_auth_setPlayer_mark
  <2>1. PICK c \in Clients : c = daemon.msg.client /\ pc[c] = "wait" /\ c \in Requesters
    BY <1>15, MarkFacts DEF dm_auth_setPlayer_mark, IInv
  <2>2. QED
    BY <1>15, <2>1
     DEF dm_auth_setPlayer_mark, Reply, IInv, SessionInv, WorkerInv, Settled, BaseInv,
         TypeOK, Requesters
<1>16. CASE dm_auth_createPlayer
  <2>1. PICK c \in Clients :
           /\ c = Head(s_authChannel).client /\ c \in Requesters
           /\ Waits(c) /\ m_channel[c] = <<>> /\ pc[c] # "leaving"
           /\ Settled(c)
    <3>1. Serving("createPlayer")
      BY <1>16 DEF dm_auth_createPlayer
    <3>2. QED
      BY <3>1, TakenFacts DEF Kinds
  <2>2. QED
    BY <1>16, <2>1
     DEF dm_auth_createPlayer, Reply, clientVars, IInv, SessionInv, WorkerInv, Settled,
         Waits, BaseInv, TypeOK, Requesters, Answering
<1>17. CASE dm_auth_deletePlayer
  <2>1. PICK c \in Clients :
           /\ c = Head(s_authChannel).client /\ c \in Requesters
           /\ Waits(c) /\ m_channel[c] = <<>> /\ pc[c] # "leaving"
           /\ Settled(c)
    BY <1>17, TakenFacts DEF dm_auth_deletePlayer, Kinds
  <2>2. QED
    BY <1>17, <2>1
     DEF dm_auth_deletePlayer, Reply, clientVars, IInv, SessionInv, WorkerInv, Settled,
         Waits, BaseInv, TypeOK, Requesters
<1>18. CASE dm_auth_findAge
  <2>1. PICK c \in Clients :
           /\ c = Head(s_authChannel).client /\ c \in Requesters
           /\ Waits(c) /\ m_channel[c] = <<>> /\ pc[c] # "leaving"
           /\ Settled(c)
    BY <1>18, TakenFacts DEF dm_auth_findAge, Kinds
  <2>2. QED
    BY <1>18, <2>1
     DEF dm_auth_findAge, Reply, clientVars, IInv, SessionInv, WorkerInv, Settled, Waits,
         BaseInv, TypeOK, Requesters, Answering
<1>19. CASE dm_auth_disconnect
  <2>1. PICK c \in Clients :
           /\ c = Head(s_authChannel).client /\ c \in Requesters
           /\ Waits(c) /\ m_channel[c] = <<>> /\ pc[c] = "leaving"
           /\ Settled(c)
    BY <1>19, TakenFacts DEF dm_auth_disconnect, Kinds
  <2>2. QED
    BY <1>19, <2>1
     DEF dm_auth_disconnect, Reply, IInv, SessionInv, WorkerInv, Settled, Waits, BaseInv,
         TypeOK, Requesters
<1>20. CASE dm_auth_updateAgeSrv_find
  BY <1>20 DEF dm_auth_updateAgeSrv_find, clientVars, IInv, SessionInv, WorkerInv, Settled
<1>21. CASE dm_auth_updateAgeSrv_write
  <2>1. daemon.msg.client \in Hosts
    BY <1>21 DEF dm_auth_updateAgeSrv_write, IInv, BaseInv, FormInv
  <2>2. \A c \in Clients : m_channel'[c] = m_channel[c]
    BY <1>21, <2>1, NullAssumption
       DEF dm_auth_updateAgeSrv_write, Reply, IInv, BaseInv, TypeOK, Requesters
  <2>3. QED
    BY <1>21, <2>2 DEF dm_auth_updateAgeSrv_write, IInv, SessionInv, WorkerInv, Settled
<1>22. CASE dm_auth_shutdown_close
  BY <1>22 DEF dm_auth_shutdown_close, Idle, IInv, SessionInv, WorkerInv, Settled
<1>23. CASE dm_auth_shutdown_wait
  BY <1>23 DEF dm_auth_shutdown_wait, Idle, clientVars, IInv, SessionInv, WorkerInv, Settled
<1>24. CASE AuthServer_Init
  BY <1>24 DEF AuthServer_Init, Idle, clientVars, IInv, SessionInv, WorkerInv, Settled
<1>24a. CASE dm_authDaemon_init
  BY <1>24a DEF dm_authDaemon_init, Idle, clientVars, IInv, SessionInv, WorkerInv, Settled
<1>25. CASE UNCHANGED vars
  BY <1>25 DEF vars, IInv, SessionInv, WorkerInv, Settled
<1>26. QED
  BY <1>1, <1>2, <1>3, <1>4, <1>5, <1>6, <1>7, <1>8, <1>9, <1>10, <1>11, <1>12, <1>13,
     <1>14, <1>15, <1>16, <1>17, <1>18, <1>19, <1>20, <1>21, <1>22, <1>23, <1>24, <1>24a, <1>25
     DEF Next, dm_authDaemon

\* A queued request's claim holds until it is taken.
LEMMA ClaimStep ==
    ASSUME IInv, [Next]_vars
    PROVE  ClaimInv'
<1>1. ASSUME NEW c \in Clients, Connect(c)
      PROVE  ClaimInv'
  <2>1. \A i \in 1 .. Len(s_authChannel') :
           /\ \E j \in 1 .. Len(s_authChannel) : s_authChannel'[i] = s_authChannel[j]
           /\ s_authChannel'[i].client \in Clients =>
                 /\ playerId'[s_authChannel'[i].client] = playerId[s_authChannel'[i].client]
                 /\ grant'[s_authChannel'[i].client] = grant[s_authChannel'[i].client]
    BY <1>1 DEF Connect
  <2>2. QED
    BY <2>1, ClaimsKeep DEF IInv, SessionInv
<1>2. ASSUME NEW c \in Clients, HandshakeFails(c)
      PROVE  ClaimInv'
  <2>1. /\ Request("disconnect", c, NoPlayer) \in Requests
        /\ Request("disconnect", c, NoPlayer).kind = "disconnect"
        /\ Request("disconnect", c, NoPlayer).client = c
    BY <1>2, RequestType DEF HandshakeFails, Request, Kinds, Requesters
  <2>2. /\ s_authChannel' = Append(s_authChannel, Request("disconnect", c, NoPlayer))
        /\ UNCHANGED <<playerId, grant>>
    BY <1>2 DEF HandshakeFails, Leave, clientVars
  <2>3. Settled(c)' /\ "disconnect" # "setPlayer"
    BY <1>2, <2>2 DEF HandshakeFails, IInv, SessionInv, ListInv, Settled
  <2>4. QED
    BY <2>1, <2>2, <2>3, ClaimsPut DEF IInv, SessionInv
<1>3. ASSUME NEW c \in Clients, NEW a \in Accounts, cb_login(c, a)
      PROVE  ClaimInv'
  <2>1. /\ Request("login", c, a) \in Requests
        /\ Request("login", c, a).kind = "login" /\ Request("login", c, a).client = c
    BY <1>3, RequestType DEF cb_login, Request, Kinds, Requesters
  <2>2. /\ s_authChannel' = Append(s_authChannel, Request("login", c, a))
        /\ UNCHANGED <<playerId, grant>>
    BY <1>3 DEF cb_login, Ask, clientVars
  <2>3. Settled(c)' /\ "login" # "setPlayer"
    BY <1>3, <2>2 DEF cb_login, IInv, SessionInv, WorkerInv, Settled
  <2>4. QED
    BY <2>1, <2>2, <2>3, ClaimsPut DEF IInv, SessionInv
<1>4. ASSUME NEW c \in Clients, NEW p \in Players \cup {NoPlayer}, cb_setPlayer(c, p)
      PROVE  ClaimInv'
  <2>1. \A i \in 1 .. Len(s_authChannel) : s_authChannel[i].client # c
    BY <1>4, NotWaiting DEF cb_setPlayer, IInv, Waits, Requesters
  <2>2. \A d \in Clients : d # c => playerId'[d] = playerId[d] /\ grant'[d] = grant[d]
    BY <1>4 DEF cb_setPlayer, IInv, BaseInv, TypeOK
  <2>3. CASE p = NoPlayer
    <3>1. UNCHANGED s_authChannel
      BY <1>4, <2>3 DEF cb_setPlayer
    <3>2. QED
      BY <2>1, <2>2, <3>1, ClaimsKeep DEF IInv, SessionInv
  <2>4. CASE p # NoPlayer
    <3>1. /\ Request("setPlayer", c, p) \in Requests
          /\ Request("setPlayer", c, p).kind = "setPlayer"
          /\ Request("setPlayer", c, p).client = c
      BY RequestType DEF Request, Kinds, Requesters
    <3>2. s_authChannel' = Append(s_authChannel, Request("setPlayer", c, p))
      BY <1>4, <2>4 DEF cb_setPlayer, Ask
    <3>3. grant'[c] = "none" /\ playerId'[c] \in Players
      BY <1>4, <2>4 DEF cb_setPlayer, IInv, BaseInv, TypeOK
    <3>4. QED
      BY <2>1, <2>2, <3>1, <3>2, <3>3, ClaimsPut DEF IInv, SessionInv
  <2>5. QED
    BY <2>3, <2>4
<1>5. ASSUME NEW c \in Clients, NEW p \in Players,
             NEW k \in {"createPlayer", "deletePlayer", "findAge"}, cb_request(c, k, p)
      PROVE  ClaimInv'
  <2>1. /\ Request(k, c, p) \in Requests
        /\ Request(k, c, p).kind = k /\ Request(k, c, p).client = c
    BY <1>5, RequestType DEF cb_request, Request, Kinds, Requesters
  <2>2. /\ s_authChannel' = Append(s_authChannel, Request(k, c, p))
        /\ UNCHANGED <<playerId, grant>>
    BY <1>5 DEF cb_request, Ask, clientVars
  <2>3. Settled(c)' /\ k # "setPlayer"
    BY <1>5, <2>2 DEF cb_request, IInv, SessionInv, WorkerInv, Settled
  <2>4. QED
    BY <2>1, <2>2, <2>3, ClaimsPut DEF IInv, SessionInv
<1>6. ASSUME NEW r \in Requesters, GetReply(r)
      PROVE  ClaimInv'
  <2>1. \A i \in 1 .. Len(s_authChannel') :
           /\ \E j \in 1 .. Len(s_authChannel) : s_authChannel'[i] = s_authChannel[j]
           /\ s_authChannel'[i].client \in Clients =>
                 /\ playerId'[s_authChannel'[i].client] = playerId[s_authChannel'[i].client]
                 /\ grant'[s_authChannel'[i].client] = grant[s_authChannel'[i].client]
    BY <1>6 DEF GetReply, clientVars
  <2>2. QED
    BY <2>1, ClaimsKeep DEF IInv, SessionInv
<1>7. ASSUME NEW c \in Clients, PeerCloses(c)
      PROVE  ClaimInv'
  <2>1. \A i \in 1 .. Len(s_authChannel') :
           /\ \E j \in 1 .. Len(s_authChannel) : s_authChannel'[i] = s_authChannel[j]
           /\ s_authChannel'[i].client \in Clients =>
                 /\ playerId'[s_authChannel'[i].client] = playerId[s_authChannel'[i].client]
                 /\ grant'[s_authChannel'[i].client] = grant[s_authChannel'[i].client]
    BY <1>7 DEF PeerCloses
  <2>2. QED
    BY <2>1, ClaimsKeep DEF IInv, SessionInv
<1>8. ASSUME NEW c \in Clients, Hup(c)
      PROVE  ClaimInv'
  <2>1. /\ Request("disconnect", c, NoPlayer) \in Requests
        /\ Request("disconnect", c, NoPlayer).kind = "disconnect"
        /\ Request("disconnect", c, NoPlayer).client = c
    BY <1>8, RequestType DEF Hup, Request, Kinds, Requesters
  <2>2. /\ s_authChannel' = Append(s_authChannel, Request("disconnect", c, NoPlayer))
        /\ UNCHANGED <<playerId, grant>>
    BY <1>8 DEF Hup, Leave, clientVars
  <2>3. Settled(c)' /\ "disconnect" # "setPlayer"
    BY <1>8, <2>2 DEF Hup, IInv, SessionInv, WorkerInv, Settled
  <2>4. QED
    BY <2>1, <2>2, <2>3, ClaimsPut DEF IInv, SessionInv
<1>9. ASSUME NEW c \in Clients, GetDisconnectReply(c)
      PROVE  ClaimInv'
  <2>1. \A i \in 1 .. Len(s_authChannel') :
           /\ \E j \in 1 .. Len(s_authChannel) : s_authChannel'[i] = s_authChannel[j]
           /\ s_authChannel'[i].client \in Clients =>
                 /\ playerId'[s_authChannel'[i].client] = playerId[s_authChannel'[i].client]
                 /\ grant'[s_authChannel'[i].client] = grant[s_authChannel'[i].client]
    BY <1>9 DEF GetDisconnectReply, clientVars
  <2>2. QED
    BY <2>1, ClaimsKeep DEF IInv, SessionInv
<1>10. ASSUME NEW c \in Clients, Remove(c)
       PROVE  ClaimInv'
  <2>1. \A i \in 1 .. Len(s_authChannel) : s_authChannel[i].client # c
    BY <1>10, NotWaiting DEF Remove, IInv, Waits, Requesters
  <2>2. \A i \in 1 .. Len(s_authChannel') :
           /\ \E j \in 1 .. Len(s_authChannel) : s_authChannel'[i] = s_authChannel[j]
           /\ s_authChannel'[i].client \in Clients =>
                 /\ playerId'[s_authChannel'[i].client] = playerId[s_authChannel'[i].client]
                 /\ grant'[s_authChannel'[i].client] = grant[s_authChannel'[i].client]
    BY <1>10, <2>1 DEF Remove, IInv, BaseInv, TypeOK
  <2>3. QED
    BY <2>2, ClaimsKeep DEF IInv, SessionInv
<1>11. ASSUME NEW h \in Hosts, NEW p \in Players, HostAsks(h, p)
       PROVE  ClaimInv'
  <2>1. /\ Request("updateAgeSrv", h, p) \in Requests
        /\ Request("updateAgeSrv", h, p).kind = "updateAgeSrv"
        /\ Request("updateAgeSrv", h, p).client = h
    BY <1>11, RequestType DEF HostAsks, Request, Kinds, Requesters
  <2>2. /\ s_authChannel' = Append(s_authChannel, Request("updateAgeSrv", h, p))
        /\ UNCHANGED <<playerId, grant>>
    BY <1>11 DEF HostAsks, Ask, clientVars
  <2>3. h \notin Clients
    BY NullAssumption
  <2>4. QED
    BY <2>1, <2>2, <2>3, ClaimsPut DEF IInv, SessionInv
<1>12. CASE AuthServer_Shutdown
  <2>1. /\ Request("shutdown", NoClient, NoPlayer) \in Requests
        /\ Request("shutdown", NoClient, NoPlayer).kind = "shutdown"
        /\ Request("shutdown", NoClient, NoPlayer).client = NoClient
    BY <1>12, RequestType DEF AuthServer_Shutdown, Request, Kinds, Requesters
  <2>2. /\ s_authChannel' = Append(s_authChannel, Request("shutdown", NoClient, NoPlayer))
        /\ UNCHANGED <<playerId, grant>>
    BY <1>12 DEF AuthServer_Shutdown, clientVars
  <2>3. NoClient \notin Clients
    BY NullAssumption
  <2>4. QED
    BY <2>1, <2>2, <2>3, ClaimsPut DEF IInv, SessionInv
<1>13. CASE dm_auth_login
  <2>1. \A i \in 1 .. Len(Tail(s_authChannel)) :
           /\ Tail(s_authChannel)[i].client # Head(s_authChannel).client
           /\ Tail(s_authChannel)[i] = s_authChannel[i + 1] /\ i + 1 \in 1 .. Len(s_authChannel)
    BY <1>13, TakenFacts, ServingFacts DEF dm_auth_login, Kinds, IInv
  <2>2. \A i \in 1 .. Len(s_authChannel') :
           /\ \E j \in 1 .. Len(s_authChannel) : s_authChannel'[i] = s_authChannel[j]
           /\ s_authChannel'[i].client \in Clients =>
                 /\ playerId'[s_authChannel'[i].client] = playerId[s_authChannel'[i].client]
                 /\ grant'[s_authChannel'[i].client] = grant[s_authChannel'[i].client]
    BY <1>13, <2>1 DEF dm_auth_login, IInv, BaseInv, TypeOK
  <2>3. QED
    BY <2>2, ClaimsKeep DEF IInv, SessionInv
<1>14. CASE dm_auth_setPlayer_scan
  <2>1. \A i \in 1 .. Len(Tail(s_authChannel)) :
           /\ Tail(s_authChannel)[i].client # Head(s_authChannel).client
           /\ Tail(s_authChannel)[i] = s_authChannel[i + 1] /\ i + 1 \in 1 .. Len(s_authChannel)
    BY <1>14, TakenFacts, ServingFacts DEF dm_auth_setPlayer_scan, Kinds, IInv
  <2>2. \A i \in 1 .. Len(s_authChannel') :
           /\ \E j \in 1 .. Len(s_authChannel) : s_authChannel'[i] = s_authChannel[j]
           /\ s_authChannel'[i].client \in Clients =>
                 /\ playerId'[s_authChannel'[i].client] = playerId[s_authChannel'[i].client]
                 /\ grant'[s_authChannel'[i].client] = grant[s_authChannel'[i].client]
    BY <1>14, <2>1 DEF dm_auth_setPlayer_scan, IInv, BaseInv, TypeOK
  <2>3. QED
    BY <2>2, ClaimsKeep DEF IInv, SessionInv
<1>15. CASE dm_auth_setPlayer_mark
  <2>1. \A i \in 1 .. Len(s_authChannel) : s_authChannel[i].client # daemon.msg.client
    BY <1>15, MarkFacts DEF dm_auth_setPlayer_mark, IInv
  <2>2. \A i \in 1 .. Len(s_authChannel') :
           /\ \E j \in 1 .. Len(s_authChannel) : s_authChannel'[i] = s_authChannel[j]
           /\ s_authChannel'[i].client \in Clients =>
                 /\ playerId'[s_authChannel'[i].client] = playerId[s_authChannel'[i].client]
                 /\ grant'[s_authChannel'[i].client] = grant[s_authChannel'[i].client]
    BY <1>15, <2>1 DEF dm_auth_setPlayer_mark, IInv, BaseInv, TypeOK
  <2>3. QED
    BY <2>2, ClaimsKeep DEF IInv, SessionInv
<1>16. CASE dm_auth_createPlayer
  <2>1. \A i \in 1 .. Len(Tail(s_authChannel)) :
           /\ Tail(s_authChannel)[i].client # Head(s_authChannel).client
           /\ Tail(s_authChannel)[i] = s_authChannel[i + 1] /\ i + 1 \in 1 .. Len(s_authChannel)
    BY <1>16, TakenFacts, ServingFacts DEF dm_auth_createPlayer, Kinds, IInv
  <2>2. \A i \in 1 .. Len(s_authChannel') :
           /\ \E j \in 1 .. Len(s_authChannel) : s_authChannel'[i] = s_authChannel[j]
           /\ s_authChannel'[i].client \in Clients =>
                 /\ playerId'[s_authChannel'[i].client] = playerId[s_authChannel'[i].client]
                 /\ grant'[s_authChannel'[i].client] = grant[s_authChannel'[i].client]
    BY <1>16, <2>1 DEF dm_auth_createPlayer, clientVars, IInv, BaseInv, TypeOK
  <2>3. QED
    BY <2>2, ClaimsKeep DEF IInv, SessionInv
<1>17. CASE dm_auth_deletePlayer
  <2>1. \A i \in 1 .. Len(Tail(s_authChannel)) :
           /\ Tail(s_authChannel)[i].client # Head(s_authChannel).client
           /\ Tail(s_authChannel)[i] = s_authChannel[i + 1] /\ i + 1 \in 1 .. Len(s_authChannel)
    BY <1>17, TakenFacts, ServingFacts DEF dm_auth_deletePlayer, Kinds, IInv
  <2>2. \A i \in 1 .. Len(s_authChannel') :
           /\ \E j \in 1 .. Len(s_authChannel) : s_authChannel'[i] = s_authChannel[j]
           /\ s_authChannel'[i].client \in Clients =>
                 /\ playerId'[s_authChannel'[i].client] = playerId[s_authChannel'[i].client]
                 /\ grant'[s_authChannel'[i].client] = grant[s_authChannel'[i].client]
    BY <1>17, <2>1 DEF dm_auth_deletePlayer, clientVars, IInv, BaseInv, TypeOK
  <2>3. QED
    BY <2>2, ClaimsKeep DEF IInv, SessionInv
<1>18. CASE dm_auth_findAge
  <2>1. \A i \in 1 .. Len(Tail(s_authChannel)) :
           /\ Tail(s_authChannel)[i].client # Head(s_authChannel).client
           /\ Tail(s_authChannel)[i] = s_authChannel[i + 1] /\ i + 1 \in 1 .. Len(s_authChannel)
    BY <1>18, TakenFacts, ServingFacts DEF dm_auth_findAge, Kinds, IInv
  <2>2. \A i \in 1 .. Len(s_authChannel') :
           /\ \E j \in 1 .. Len(s_authChannel) : s_authChannel'[i] = s_authChannel[j]
           /\ s_authChannel'[i].client \in Clients =>
                 /\ playerId'[s_authChannel'[i].client] = playerId[s_authChannel'[i].client]
                 /\ grant'[s_authChannel'[i].client] = grant[s_authChannel'[i].client]
    BY <1>18, <2>1 DEF dm_auth_findAge, clientVars, IInv, BaseInv, TypeOK
  <2>3. QED
    BY <2>2, ClaimsKeep DEF IInv, SessionInv
<1>19. CASE dm_auth_disconnect
  <2>1. \A i \in 1 .. Len(Tail(s_authChannel)) :
           /\ Tail(s_authChannel)[i].client # Head(s_authChannel).client
           /\ Tail(s_authChannel)[i] = s_authChannel[i + 1] /\ i + 1 \in 1 .. Len(s_authChannel)
    BY <1>19, TakenFacts, ServingFacts DEF dm_auth_disconnect, Kinds, IInv
  <2>2. \A i \in 1 .. Len(s_authChannel') :
           /\ \E j \in 1 .. Len(s_authChannel) : s_authChannel'[i] = s_authChannel[j]
           /\ s_authChannel'[i].client \in Clients =>
                 /\ playerId'[s_authChannel'[i].client] = playerId[s_authChannel'[i].client]
                 /\ grant'[s_authChannel'[i].client] = grant[s_authChannel'[i].client]
    BY <1>19, <2>1 DEF dm_auth_disconnect, IInv, BaseInv, TypeOK
  <2>3. QED
    BY <2>2, ClaimsKeep DEF IInv, SessionInv
<1>20. CASE dm_auth_updateAgeSrv_find
  <2>1. \A i \in 1 .. Len(Tail(s_authChannel)) :
           Tail(s_authChannel)[i] = s_authChannel[i + 1] /\ i + 1 \in 1 .. Len(s_authChannel)
    BY <1>20, ServingFacts DEF dm_auth_updateAgeSrv_find, Kinds, IInv
  <2>2. \A i \in 1 .. Len(s_authChannel') :
           /\ \E j \in 1 .. Len(s_authChannel) : s_authChannel'[i] = s_authChannel[j]
           /\ s_authChannel'[i].client \in Clients =>
                 /\ playerId'[s_authChannel'[i].client] = playerId[s_authChannel'[i].client]
                 /\ grant'[s_authChannel'[i].client] = grant[s_authChannel'[i].client]
    BY <1>20, <2>1 DEF dm_auth_updateAgeSrv_find, clientVars
  <2>3. QED
    BY <2>2, ClaimsKeep DEF IInv, SessionInv
<1>21. CASE dm_auth_updateAgeSrv_write
  <2>1. \A i \in 1 .. Len(s_authChannel') :
           /\ \E j \in 1 .. Len(s_authChannel) : s_authChannel'[i] = s_authChannel[j]
           /\ s_authChannel'[i].client \in Clients =>
                 /\ playerId'[s_authChannel'[i].client] = playerId[s_authChannel'[i].client]
                 /\ grant'[s_authChannel'[i].client] = grant[s_authChannel'[i].client]
    BY <1>21 DEF dm_auth_updateAgeSrv_write
  <2>2. QED
    BY <2>1, ClaimsKeep DEF IInv, SessionInv
<1>22. CASE dm_auth_shutdown_close
  <2>1. \A i \in 1 .. Len(Tail(s_authChannel)) :
           Tail(s_authChannel)[i] = s_authChannel[i + 1] /\ i + 1 \in 1 .. Len(s_authChannel)
    BY <1>22, ServingFacts DEF dm_auth_shutdown_close, Kinds, IInv
  <2>2. \A i \in 1 .. Len(s_authChannel') :
           /\ \E j \in 1 .. Len(s_authChannel) : s_authChannel'[i] = s_authChannel[j]
           /\ s_authChannel'[i].client \in Clients =>
                 /\ playerId'[s_authChannel'[i].client] = playerId[s_authChannel'[i].client]
                 /\ grant'[s_authChannel'[i].client] = grant[s_authChannel'[i].client]
    BY <1>22, <2>1 DEF dm_auth_shutdown_close
  <2>3. QED
    BY <2>2, ClaimsKeep DEF IInv, SessionInv
<1>23. CASE dm_auth_shutdown_wait
  <2>1. \A i \in 1 .. Len(s_authChannel') :
           /\ \E j \in 1 .. Len(s_authChannel) : s_authChannel'[i] = s_authChannel[j]
           /\ s_authChannel'[i].client \in Clients =>
                 /\ playerId'[s_authChannel'[i].client] = playerId[s_authChannel'[i].client]
                 /\ grant'[s_authChannel'[i].client] = grant[s_authChannel'[i].client]
    BY <1>23 DEF dm_auth_shutdown_wait, clientVars
  <2>2. QED
    BY <2>1, ClaimsKeep DEF IInv, SessionInv
<1>24. CASE AuthServer_Init
  <2>1. \A i \in 1 .. Len(s_authChannel') :
           /\ \E j \in 1 .. Len(s_authChannel) : s_authChannel'[i] = s_authChannel[j]
           /\ s_authChannel'[i].client \in Clients =>
                 /\ playerId'[s_authChannel'[i].client] = playerId[s_authChannel'[i].client]
                 /\ grant'[s_authChannel'[i].client] = grant[s_authChannel'[i].client]
    BY <1>24 DEF AuthServer_Init, clientVars
  <2>2. QED
    BY <2>1, ClaimsKeep DEF IInv, SessionInv
<1>24a. CASE dm_authDaemon_init
  <2>1. \A i \in 1 .. Len(s_authChannel') :
           /\ \E j \in 1 .. Len(s_authChannel) : s_authChannel'[i] = s_authChannel[j]
           /\ s_authChannel'[i].client \in Clients =>
                 /\ playerId'[s_authChannel'[i].client] = playerId[s_authChannel'[i].client]
                 /\ grant'[s_authChannel'[i].client] = grant[s_authChannel'[i].client]
    BY <1>24a DEF dm_authDaemon_init, clientVars
  <2>2. QED
    BY <2>1, ClaimsKeep DEF IInv, SessionInv
<1>25. CASE UNCHANGED vars
  BY <1>25 DEF vars, IInv, SessionInv, ClaimInv, Claim, Settled
<1>26. QED
  BY <1>1, <1>2, <1>3, <1>4, <1>5, <1>6, <1>7, <1>8, <1>9, <1>10, <1>11, <1>12, <1>13,
     <1>14, <1>15, <1>16, <1>17, <1>18, <1>19, <1>20, <1>21, <1>22, <1>23, <1>24, <1>24a, <1>25
     DEF Next, dm_authDaemon

\* The scan's result stays true until the daemon has marked the player.
LEMMA MarkStep ==
    ASSUME IInv, [Next]_vars
    PROVE  MarkInv'
<1>1. ASSUME NEW c \in Clients, Connect(c)
      PROVE  MarkInv'
  BY <1>1 DEF Connect, IInv, SessionInv, MarkInv
<1>2. ASSUME NEW c \in Clients, HandshakeFails(c)
      PROVE  MarkInv'
  BY <1>2 DEF HandshakeFails, Leave, clientVars, IInv, SessionInv, MarkInv
<1>3. ASSUME NEW c \in Clients, NEW a \in Accounts, cb_login(c, a)
      PROVE  MarkInv'
  BY <1>3 DEF cb_login, Ask, clientVars, IInv, SessionInv, MarkInv
<1>4. ASSUME NEW c \in Clients, NEW p \in Players \cup {NoPlayer}, cb_setPlayer(c, p)
      PROVE  MarkInv'
  <2>1. daemon.phase = "mark" =>
          /\ daemon.msg.client \in Clients /\ daemon.msg.client \in Requesters
          /\ pc[daemon.msg.client] = "wait"
    BY MarkFacts DEF IInv
  <2>2. QED
    BY <1>4, <2>1 DEF cb_setPlayer, IInv, SessionInv, MarkInv, BaseInv, TypeOK, Requesters
<1>5. ASSUME NEW c \in Clients, NEW p \in Players,
             NEW k \in {"createPlayer", "deletePlayer", "findAge"}, cb_request(c, k, p)
      PROVE  MarkInv'
  BY <1>5 DEF cb_request, Ask, clientVars, IInv, SessionInv, MarkInv
<1>6. ASSUME NEW r \in Requesters, GetReply(r)
      PROVE  MarkInv'
  BY <1>6 DEF GetReply, clientVars, IInv, SessionInv, MarkInv
<1>7. ASSUME NEW c \in Clients, PeerCloses(c)
      PROVE  MarkInv'
  BY <1>7 DEF PeerCloses, IInv, SessionInv, MarkInv
<1>8. ASSUME NEW c \in Clients, Hup(c)
      PROVE  MarkInv'
  BY <1>8 DEF Hup, Leave, clientVars, IInv, SessionInv, MarkInv
<1>9. ASSUME NEW c \in Clients, GetDisconnectReply(c)
      PROVE  MarkInv'
  BY <1>9 DEF GetDisconnectReply, clientVars, IInv, SessionInv, MarkInv
<1>10. ASSUME NEW c \in Clients, Remove(c)
       PROVE  MarkInv'
  <2>1. daemon.phase = "mark" =>
          /\ daemon.msg.client \in Clients /\ daemon.msg.client \in Requesters
          /\ pc[daemon.msg.client] = "wait"
    BY MarkFacts DEF IInv
  <2>2. QED
    BY <1>10, <2>1 DEF Remove, IInv, SessionInv, MarkInv, BaseInv, TypeOK, Requesters
<1>11. ASSUME NEW h \in Hosts, NEW p \in Players, HostAsks(h, p)
       PROVE  MarkInv'
  BY <1>11 DEF HostAsks, Ask, clientVars, IInv, SessionInv, MarkInv
<1>12. CASE AuthServer_Shutdown
  BY <1>12 DEF AuthServer_Shutdown, clientVars, IInv, SessionInv, MarkInv
<1>13. CASE dm_auth_login
  BY <1>13 DEF dm_auth_login, Serving, MarkInv
<1>14. CASE dm_auth_setPlayer_scan
  <2>1. PICK c \in Clients :
           /\ c = Head(s_authChannel).client /\ c \in Requesters
           /\ Waits(c) /\ m_channel[c] = <<>> /\ pc[c] # "leaving"
           /\ grant[c] = "none" /\ playerId[c] \in Players
    BY <1>14, TakenFacts DEF dm_auth_setPlayer_scan, Kinds
  <2>2. CASE UNCHANGED daemon
    BY <1>14, <2>2 DEF dm_auth_setPlayer_scan, Serving, MarkInv
  <2>3. CASE /\ daemon' = [Idle EXCEPT !.phase = "mark", !.msg = Head(s_authChannel)]
             /\ ~\E d \in s_authClients : d # c /\ playerId[d] = playerId[c]
             /\ UNCHANGED playerId
    <3>1. daemon'.phase = "mark" /\ daemon'.msg.client = c
      BY <2>1, <2>3 DEF Idle
    <3>2. \A d \in Clients : grant[d] # "none" => d \in s_authClients
      BY DEF IInv, SessionInv, ListInv
    <3>3. UNCHANGED grant
      BY <1>14 DEF dm_auth_setPlayer_scan
    <3>4. QED
      BY <2>1, <2>3, <3>1, <3>2, <3>3 DEF MarkInv
  <2>4. QED
    BY <1>14, <2>1, <2>2, <2>3 DEF dm_auth_setPlayer_scan
<1>15. CASE dm_auth_setPlayer_mark
  BY <1>15 DEF dm_auth_setPlayer_mark, Idle, MarkInv
<1>16. CASE dm_auth_createPlayer
  BY <1>16 DEF dm_auth_createPlayer, clientVars, Serving, MarkInv
<1>17. CASE dm_auth_deletePlayer
  BY <1>17 DEF dm_auth_deletePlayer, clientVars, Serving, MarkInv
<1>18. CASE dm_auth_findAge
  BY <1>18 DEF dm_auth_findAge, clientVars, Serving, MarkInv
<1>19. CASE dm_auth_disconnect
  BY <1>19 DEF dm_auth_disconnect, Serving, MarkInv
<1>20. CASE dm_auth_updateAgeSrv_find
  BY <1>20 DEF dm_auth_updateAgeSrv_find, clientVars, MarkInv
<1>21. CASE dm_auth_updateAgeSrv_write
  BY <1>21 DEF dm_auth_updateAgeSrv_write, Idle, MarkInv
<1>22. CASE dm_auth_shutdown_close
  BY <1>22 DEF dm_auth_shutdown_close, Idle, MarkInv
<1>23. CASE dm_auth_shutdown_wait
  BY <1>23 DEF dm_auth_shutdown_wait, Idle, clientVars, MarkInv
<1>24. CASE AuthServer_Init
  BY <1>24 DEF AuthServer_Init, Idle, clientVars, MarkInv
<1>24a. CASE dm_authDaemon_init
  BY <1>24a DEF dm_authDaemon_init, Idle, clientVars, MarkInv
<1>25. CASE UNCHANGED vars
  BY <1>25 DEF vars, IInv, SessionInv, MarkInv
<1>26. QED
  BY <1>1, <1>2, <1>3, <1>4, <1>5, <1>6, <1>7, <1>8, <1>9, <1>10, <1>11, <1>12, <1>13,
     <1>14, <1>15, <1>16, <1>17, <1>18, <1>19, <1>20, <1>21, <1>22, <1>23, <1>24, <1>24a, <1>25
     DEF Next, dm_authDaemon

\* Between the closing of the sockets and the new daemon nobody comes back granted.
LEMMA ClosedStep ==
    ASSUME IInv, [Next]_vars
    PROVE  ClosedInv'
<1>1. ASSUME NEW c \in Clients, Connect(c)
      PROVE  ClosedInv'
  BY <1>1 DEF Connect, IInv, SessionInv, ClosedInv, ListInv, BaseInv, TypeOK, Requesters
<1>2. ASSUME NEW c \in Clients, HandshakeFails(c)
      PROVE  ClosedInv'
  BY <1>2 DEF HandshakeFails, Leave, clientVars, IInv, SessionInv, ClosedInv
<1>3. ASSUME NEW c \in Clients, NEW a \in Accounts, cb_login(c, a)
      PROVE  ClosedInv'
  BY <1>3 DEF cb_login, Ask, clientVars, IInv, SessionInv, ClosedInv
<1>4. ASSUME NEW c \in Clients, NEW p \in Players \cup {NoPlayer}, cb_setPlayer(c, p)
      PROVE  ClosedInv'
  BY <1>4 DEF cb_setPlayer, Ask, IInv, SessionInv, ClosedInv, BaseInv, TypeOK, Requesters
<1>5. ASSUME NEW c \in Clients, NEW p \in Players,
             NEW k \in {"createPlayer", "deletePlayer", "findAge"}, cb_request(c, k, p)
      PROVE  ClosedInv'
  BY <1>5 DEF cb_request, Ask, clientVars, IInv, SessionInv, ClosedInv
<1>6. ASSUME NEW r \in Requesters, GetReply(r)
      PROVE  ClosedInv'
  BY <1>6 DEF GetReply, clientVars, IInv, SessionInv, ClosedInv
<1>7. ASSUME NEW c \in Clients, PeerCloses(c)
      PROVE  ClosedInv'
  BY <1>7 DEF PeerCloses, IInv, SessionInv, ClosedInv, BaseInv, TypeOK, Requesters
<1>8. ASSUME NEW c \in Clients, Hup(c)
      PROVE  ClosedInv'
  BY <1>8 DEF Hup, Leave, clientVars, IInv, SessionInv, ClosedInv
<1>9. ASSUME NEW c \in Clients, GetDisconnectReply(c)
      PROVE  ClosedInv'
  BY <1>9 DEF GetDisconnectReply, clientVars, IInv, SessionInv, ClosedInv
<1>10. ASSUME NEW c \in Clients, Remove(c)
       PROVE  ClosedInv'
  BY <1>10 DEF Remove, IInv, SessionInv, ClosedInv, BaseInv, TypeOK, Requesters
<1>11. ASSUME NEW h \in Hosts, NEW p \in Players, HostAsks(h, p)
       PROVE  ClosedInv'
  BY <1>11 DEF HostAsks, Ask, clientVars, IInv, SessionInv, ClosedInv
<1>12. CASE AuthServer_Shutdown
  BY <1>12 DEF AuthServer_Shutdown, clientVars, IInv, SessionInv, ClosedInv
<1>13. CASE dm_auth_login
  BY <1>13 DEF dm_auth_login, Serving, ClosedInv
<1>14. CASE dm_auth_setPlayer_scan
  BY <1>14 DEF dm_auth_setPlayer_scan, Idle, Serving, ClosedInv
<1>15. CASE dm_auth_setPlayer_mark
  BY <1>15 DEF dm_auth_setPlayer_mark, Idle, ClosedInv
<1>16. CASE dm_auth_createPlayer
  BY <1>16 DEF dm_auth_createPlayer, clientVars, Serving, ClosedInv
<1>17. CASE dm_auth_deletePlayer
  BY <1>17 DEF dm_auth_deletePlayer, clientVars, Serving, ClosedInv
<1>18. CASE dm_auth_findAge
  BY <1>18 DEF dm_auth_findAge, clientVars, Serving, ClosedInv
<1>19. CASE dm_auth_disconnect
  BY <1>19 DEF dm_auth_disconnect, Serving, ClosedInv
<1>20. CASE dm_auth_updateAgeSrv_find
  BY <1>20 DEF dm_auth_updateAgeSrv_find, clientVars, ClosedInv
<1>21. CASE dm_auth_updateAgeSrv_write
  BY <1>21 DEF dm_auth_updateAgeSrv_write, Idle, ClosedInv
<1>22. CASE dm_auth_shutdown_close
  BY <1>22 DEF dm_auth_shutdown_close, Idle, IInv, SessionInv, ClosedInv, ListInv
<1>23. CASE dm_auth_shutdown_wait
  BY <1>23 DEF dm_auth_shutdown_wait, Idle, clientVars, IInv, SessionInv, ClosedInv
<1>24. CASE AuthServer_Init
  BY <1>24 DEF AuthServer_Init, Idle, clientVars, IInv, SessionInv, ClosedInv
<1>24a. CASE dm_authDaemon_init
  BY <1>24a DEF dm_authDaemon_init, Idle, clientVars, IInv, SessionInv, ClosedInv
<1>25. CASE UNCHANGED vars
  BY <1>25 DEF vars, IInv, SessionInv, ClosedInv
<1>26. QED
  BY <1>1, <1>2, <1>3, <1>4, <1>5, <1>6, <1>7, <1>8, <1>9, <1>10, <1>11, <1>12, <1>13,
     <1>14, <1>15, <1>16, <1>17, <1>18, <1>19, <1>20, <1>21, <1>22, <1>23, <1>24, <1>24a, <1>25
     DEF Next, dm_authDaemon

\* No step grants a player that another client has.
LEMMA SessionStep ==
    ASSUME IInv, [Next]_vars
    PROVE  OneSessionPerPlayer'
<1>1. ASSUME NEW c \in Clients, Connect(c)
      PROVE  OneSessionPerPlayer'
  BY <1>1 DEF Connect, IInv, SessionInv, OneSessionPerPlayer
<1>2. ASSUME NEW c \in Clients, HandshakeFails(c)
      PROVE  OneSessionPerPlayer'
  BY <1>2 DEF HandshakeFails, Leave, clientVars, IInv, SessionInv, OneSessionPerPlayer
<1>3. ASSUME NEW c \in Clients, NEW a \in Accounts, cb_login(c, a)
      PROVE  OneSessionPerPlayer'
  BY <1>3 DEF cb_login, Ask, clientVars, IInv, SessionInv, OneSessionPerPlayer
<1>4. ASSUME NEW c \in Clients, NEW p \in Players \cup {NoPlayer}, cb_setPlayer(c, p)
      PROVE  OneSessionPerPlayer'
  BY <1>4 DEF cb_setPlayer, Ask, IInv, SessionInv, OneSessionPerPlayer, BaseInv, TypeOK
<1>5. ASSUME NEW c \in Clients, NEW p \in Players,
             NEW k \in {"createPlayer", "deletePlayer", "findAge"}, cb_request(c, k, p)
      PROVE  OneSessionPerPlayer'
  BY <1>5 DEF cb_request, Ask, clientVars, IInv, SessionInv, OneSessionPerPlayer
<1>6. ASSUME NEW r \in Requesters, GetReply(r)
      PROVE  OneSessionPerPlayer'
  BY <1>6 DEF GetReply, clientVars, IInv, SessionInv, OneSessionPerPlayer
<1>7. ASSUME NEW c \in Clients, PeerCloses(c)
      PROVE  OneSessionPerPlayer'
  BY <1>7 DEF PeerCloses, IInv, SessionInv, OneSessionPerPlayer, BaseInv, TypeOK
<1>8. ASSUME NEW c \in Clients, Hup(c)
      PROVE  OneSessionPerPlayer'
  BY <1>8 DEF Hup, Leave, clientVars, IInv, SessionInv, OneSessionPerPlayer
<1>9. ASSUME NEW c \in Clients, GetDisconnectReply(c)
      PROVE  OneSessionPerPlayer'
  BY <1>9 DEF GetDisconnectReply, clientVars, IInv, SessionInv, OneSessionPerPlayer
<1>10. ASSUME NEW c \in Clients, Remove(c)
       PROVE  OneSessionPerPlayer'
  BY <1>10 DEF Remove, IInv, SessionInv, OneSessionPerPlayer, BaseInv, TypeOK
<1>11. ASSUME NEW h \in Hosts, NEW p \in Players, HostAsks(h, p)
       PROVE  OneSessionPerPlayer'
  BY <1>11 DEF HostAsks, Ask, clientVars, IInv, SessionInv, OneSessionPerPlayer
<1>12. CASE AuthServer_Shutdown
  BY <1>12 DEF AuthServer_Shutdown, clientVars, IInv, SessionInv, OneSessionPerPlayer
<1>13. CASE dm_auth_login
  BY <1>13 DEF dm_auth_login, IInv, SessionInv, OneSessionPerPlayer
<1>14. CASE dm_auth_setPlayer_scan
  <2>1. PICK c \in Clients :
           /\ c = Head(s_authChannel).client /\ c \in Requesters
           /\ Waits(c) /\ m_channel[c] = <<>> /\ pc[c] # "leaving"
           /\ grant[c] = "none" /\ playerId[c] \in Players
    BY <1>14, TakenFacts DEF dm_auth_setPlayer_scan, Kinds
  <2>2. QED
    BY <1>14, <2>1
     DEF dm_auth_setPlayer_scan, IInv, SessionInv, OneSessionPerPlayer, BaseInv, TypeOK
<1>15. CASE dm_auth_setPlayer_mark
  <2>1. PICK c \in Clients : c = daemon.msg.client
    BY <1>15, MarkFacts DEF dm_auth_setPlayer_mark, IInv
  <2>2. \A d \in Clients : grant[d] # "none" => playerId[d] # playerId[c]
    BY <1>15, <2>1 DEF dm_auth_setPlayer_mark, IInv, SessionInv, MarkInv
  <2>3. QED
    BY <1>15, <2>1, <2>2
       DEF dm_auth_setPlayer_mark, IInv, SessionInv, OneSessionPerPlayer, BaseInv, TypeOK
<1>16. CASE dm_auth_createPlayer
  BY <1>16 DEF dm_auth_createPlayer, clientVars, IInv, SessionInv, OneSessionPerPlayer
<1>17. CASE dm_auth_deletePlayer
  BY <1>17 DEF dm_auth_deletePlayer, clientVars, IInv, SessionInv, OneSessionPerPlayer
<1>18. CASE dm_auth_findAge
  BY <1>18 DEF dm_auth_findAge, clientVars, IInv, SessionInv, OneSessionPerPlayer
<1>19. CASE dm_auth_disconnect
  <2>1. PICK c \in Clients :
           /\ c = Head(s_authChannel).client /\ c \in Requesters
           /\ Waits(c) /\ m_channel[c] = <<>> /\ pc[c] = "leaving"
           /\ Settled(c)
    BY <1>19, TakenFacts DEF dm_auth_disconnect, Kinds
  <2>2. QED
    BY <1>19, <2>1
     DEF dm_auth_disconnect, IInv, SessionInv, OneSessionPerPlayer, BaseInv, TypeOK
<1>20. CASE dm_auth_updateAgeSrv_find
  BY <1>20 DEF dm_auth_updateAgeSrv_find, clientVars, IInv, SessionInv, OneSessionPerPlayer
<1>21. CASE dm_auth_updateAgeSrv_write
  BY <1>21 DEF dm_auth_updateAgeSrv_write, IInv, SessionInv, OneSessionPerPlayer
<1>22. CASE dm_auth_shutdown_close
  BY <1>22 DEF dm_auth_shutdown_close, IInv, SessionInv, OneSessionPerPlayer
<1>23. CASE dm_auth_shutdown_wait
  BY <1>23 DEF dm_auth_shutdown_wait, clientVars, IInv, SessionInv, OneSessionPerPlayer
<1>24. CASE AuthServer_Init
  BY <1>24 DEF AuthServer_Init, clientVars, IInv, SessionInv, OneSessionPerPlayer
<1>24a. CASE dm_authDaemon_init
  BY <1>24a DEF dm_authDaemon_init, clientVars, IInv, SessionInv, OneSessionPerPlayer
<1>25. CASE UNCHANGED vars
  BY <1>25 DEF vars, IInv, SessionInv, OneSessionPerPlayer
<1>26. QED
  BY <1>1, <1>2, <1>3, <1>4, <1>5, <1>6, <1>7, <1>8, <1>9, <1>10, <1>11, <1>12, <1>13,
     <1>14, <1>15, <1>16, <1>17, <1>18, <1>19, <1>20, <1>21, <1>22, <1>23, <1>24, <1>24a, <1>25
     DEF Next, dm_authDaemon

\* No step turns the PlayerInfo of a live session off.
LEMMA OnlineStep ==
    ASSUME IInv, [Next]_vars
    PROVE  ActiveIsOnline'
<1>1. ASSUME NEW c \in Clients, Connect(c)
      PROVE  ActiveIsOnline'
  BY <1>1
     DEF Connect, dbVars, IInv, SessionInv, ActiveIsOnline, ListInv, BaseInv, TypeOK,
         Requesters
<1>2. ASSUME NEW c \in Clients, HandshakeFails(c)
      PROVE  ActiveIsOnline'
  BY <1>2 DEF HandshakeFails, Leave, clientVars, dbVars, IInv, SessionInv, ActiveIsOnline
<1>3. ASSUME NEW c \in Clients, NEW a \in Accounts, cb_login(c, a)
      PROVE  ActiveIsOnline'
  BY <1>3 DEF cb_login, Ask, clientVars, dbVars, IInv, SessionInv, ActiveIsOnline
<1>4. ASSUME NEW c \in Clients, NEW p \in Players \cup {NoPlayer}, cb_setPlayer(c, p)
      PROVE  ActiveIsOnline'
  BY <1>4 DEF cb_setPlayer, Ask, dbVars, IInv, SessionInv, ActiveIsOnline, BaseInv, TypeOK
<1>5. ASSUME NEW c \in Clients, NEW p \in Players,
             NEW k \in {"createPlayer", "deletePlayer", "findAge"}, cb_request(c, k, p)
      PROVE  ActiveIsOnline'
  BY <1>5 DEF cb_request, Ask, clientVars, dbVars, IInv, SessionInv, ActiveIsOnline
<1>6. ASSUME NEW r \in Requesters, GetReply(r)
      PROVE  ActiveIsOnline'
  BY <1>6 DEF GetReply, clientVars, dbVars, IInv, SessionInv, ActiveIsOnline
<1>7. ASSUME NEW c \in Clients, PeerCloses(c)
      PROVE  ActiveIsOnline'
  BY <1>7 DEF PeerCloses, dbVars, IInv, SessionInv, ActiveIsOnline, BaseInv, TypeOK
<1>8. ASSUME NEW c \in Clients, Hup(c)
      PROVE  ActiveIsOnline'
  BY <1>8 DEF Hup, Leave, clientVars, dbVars, IInv, SessionInv, ActiveIsOnline
<1>9. ASSUME NEW c \in Clients, GetDisconnectReply(c)
      PROVE  ActiveIsOnline'
  BY <1>9 DEF GetDisconnectReply, clientVars, dbVars, IInv, SessionInv, ActiveIsOnline
<1>10. ASSUME NEW c \in Clients, Remove(c)
       PROVE  ActiveIsOnline'
  BY <1>10 DEF Remove, dbVars, IInv, SessionInv, ActiveIsOnline, BaseInv, TypeOK
<1>11. ASSUME NEW h \in Hosts, NEW p \in Players, HostAsks(h, p)
       PROVE  ActiveIsOnline'
  BY <1>11 DEF HostAsks, Ask, clientVars, dbVars, IInv, SessionInv, ActiveIsOnline
<1>12. CASE AuthServer_Shutdown
  BY <1>12 DEF AuthServer_Shutdown, clientVars, dbVars, IInv, SessionInv, ActiveIsOnline
<1>13. CASE dm_auth_login
  BY <1>13 DEF dm_auth_login, dbVars, IInv, SessionInv, ActiveIsOnline
<1>14. CASE dm_auth_setPlayer_scan
  <2>1. PICK c \in Clients :
           /\ c = Head(s_authChannel).client /\ c \in Requesters
           /\ Waits(c) /\ m_channel[c] = <<>> /\ pc[c] # "leaving"
           /\ grant[c] = "none" /\ playerId[c] \in Players
    BY <1>14, TakenFacts DEF dm_auth_setPlayer_scan, Kinds
  <2>2. QED
    BY <1>14, <2>1
     DEF dm_auth_setPlayer_scan, dbVars, IInv, SessionInv, ActiveIsOnline, BaseInv, TypeOK
<1>15. CASE dm_auth_setPlayer_mark
  <2>1. PICK c \in Clients : c = daemon.msg.client
    BY <1>15, MarkFacts DEF dm_auth_setPlayer_mark, IInv
  <2>2. playerId[c] \in Players
    BY <1>15, <2>1 DEF dm_auth_setPlayer_mark, IInv, SessionInv, MarkInv
  <2>3. \A d \in Clients : grant[d] # "none" => playerId[d] \in Players
    BY DEF IInv, SessionInv, ListInv
  <2>4. QED
    BY <1>15, <2>1, <2>2, <2>3
       DEF dm_auth_setPlayer_mark, IInv, SessionInv, ActiveIsOnline, BaseInv, TypeOK
<1>16. CASE dm_auth_createPlayer
  BY <1>16 DEF dm_auth_createPlayer, clientVars, IInv, SessionInv, ActiveIsOnline
<1>17. CASE dm_auth_deletePlayer
  BY <1>17 DEF dm_auth_deletePlayer, clientVars, IInv, SessionInv, ActiveIsOnline
<1>18. CASE dm_auth_findAge
  BY <1>18 DEF dm_auth_findAge, clientVars, dbVars, IInv, SessionInv, ActiveIsOnline
<1>19. CASE dm_auth_disconnect
  <2>1. PICK c \in Clients :
           /\ c = Head(s_authChannel).client /\ c \in Requesters
           /\ Waits(c) /\ m_channel[c] = <<>> /\ pc[c] = "leaving"
           /\ Settled(c)
    BY <1>19, TakenFacts DEF dm_auth_disconnect, Kinds
  <2>2. ASSUME NEW d \in Clients, grant'[d] = "marked", sock'[d]
        PROVE  online'[playerId'[d]]
    <3>1. /\ d # c /\ grant[d] = "marked" /\ sock[d] /\ playerId'[d] = playerId[d]
          /\ playerId[d] \in Players /\ online[playerId[d]]
      BY <1>19, <2>1, <2>2
         DEF dm_auth_disconnect, IInv, SessionInv, ListInv, ActiveIsOnline, BaseInv,
             TypeOK
    <3>2. playerId[c] = NoPlayer \/ playerId[c] # playerId[d]
      BY <2>1, <3>1 DEF IInv, SessionInv, OneSessionPerPlayer, Settled
    <3>3. playerId[c] \in Players \/ playerId[c] = NoPlayer
      BY DEF IInv, BaseInv, TypeOK
    <3>4. QED
      BY <1>19, <2>1, <3>1, <3>2, <3>3 DEF dm_auth_disconnect, IInv, BaseInv, TypeOK
  <2>3. QED
    BY <2>2 DEF ActiveIsOnline
<1>20. CASE dm_auth_updateAgeSrv_find
  BY <1>20
     DEF dm_auth_updateAgeSrv_find, clientVars, dbVars, IInv, SessionInv, ActiveIsOnline
<1>21. CASE dm_auth_updateAgeSrv_write
  BY <1>21 DEF dm_auth_updateAgeSrv_write, dbVars, IInv, SessionInv, ActiveIsOnline
<1>22. CASE dm_auth_shutdown_close
  BY <1>22 DEF dm_auth_shutdown_close, dbVars, IInv, SessionInv, ActiveIsOnline
<1>23. CASE dm_auth_shutdown_wait
  BY <1>23 DEF dm_auth_shutdown_wait, clientVars, dbVars, IInv, SessionInv, ActiveIsOnline
<1>24. CASE AuthServer_Init
  BY <1>24 DEF AuthServer_Init, clientVars, dbVars, IInv, SessionInv, ActiveIsOnline
<1>24a. CASE dm_authDaemon_init
  BY <1>24a DEF dm_authDaemon_init, clientVars, IInv, SessionInv, ClosedInv, ActiveIsOnline
<1>25. CASE UNCHANGED vars
  BY <1>25 DEF vars, IInv, SessionInv, ActiveIsOnline
<1>26. QED
  BY <1>1, <1>2, <1>3, <1>4, <1>5, <1>6, <1>7, <1>8, <1>9, <1>10, <1>11, <1>12, <1>13,
     <1>14, <1>15, <1>16, <1>17, <1>18, <1>19, <1>20, <1>21, <1>22, <1>23, <1>24, <1>24a, <1>25
     DEF Next, dm_authDaemon

-----------------------------------------------------------------------------
(* Theorems.                                                                 *)

\* The server starts without connections, requests or replies.
LEMMA InitHolds == Init => IInv
<1> SUFFICES ASSUME Init
             PROVE  IInv
  OBVIOUS
<1>1. TypeOK
  BY IdleType, RestartAssumption DEF Init, TypeOK
<1>2. FormInv
  BY DEF Init, FormInv, Idle
<1>3. \A r \in Requesters : ~Held(r) /\ m_channel[r] = <<>> /\ ~Waits(r)
  BY DEF Init, Held, Idle, Waits
<1>4. RequestInv
  BY <1>3 DEF Init, RequestInv, QueueInv, HeldInv, ReplyInv
<1>5. \A c \in Clients : grant[c] = "none" /\ playerId[c] = NoPlayer /\ pc[c] = "down"
  BY NullAssumption DEF Init, Requesters
<1>6. ListInv /\ WorkerInv /\ ClaimInv
  BY <1>3, <1>5 DEF Init, ListInv, WorkerInv, ClaimInv, Settled, Requesters
<1>7. MarkInv /\ ClosedInv
  BY DEF Init, MarkInv, ClosedInv, Idle
<1>8. OneSessionPerPlayer /\ ActiveIsOnline
  BY <1>5 DEF OneSessionPerPlayer, ActiveIsOnline
<1>9. QED
  BY <1>1, <1>2, <1>4, <1>6, <1>7, <1>8 DEF IInv, BaseInv, SessionInv

\* Types and forms of the requests are an inductive invariant, whatever statement
\* of the database fails.
THEOREM BaseInductive == Spec => []BaseInv
<1>1. Init => BaseInv
  BY InitHolds DEF IInv
<1>2. BaseInv /\ [Next]_vars => BaseInv'
  BY TypeStep, FormStep DEF BaseInv
<1>3. QED
  BY <1>1, <1>2, PTL DEF Spec

\* Every variable of the session layer stays in its type: in particular no handler
\* writes the reply or the account of a client that does not exist
\* (AuthDaemon.cpp:207-352).
THEOREM TypeCorrect == Spec => []TypeOK
<1>1. BaseInv => TypeOK
  BY DEF BaseInv
<1>2. QED
  BY <1>1, BaseInductive, PTL

\* With handlers that answer once, the whole of IInv is inductive.
THEOREM InductiveInvariant ==
    ASSUME Answering
    PROVE  Spec => []IInv
<1>1. Init => IInv
  BY InitHolds
<1>2. IInv /\ [Next]_vars => IInv'
  <2> SUFFICES ASSUME IInv, [Next]_vars
               PROVE  IInv'
    OBVIOUS
  <2>1. BaseInv /\ RequestInv
    BY DEF IInv
  <2>2. BaseInv'
    BY <2>1, TypeStep, FormStep DEF BaseInv
  <2>3. RequestInv'
    BY <2>1, RequestStep
  <2>4. ListInv' /\ WorkerInv' /\ ClaimInv' /\ MarkInv' /\ ClosedInv'
    BY ListStep, WorkerStep, ClaimStep, MarkStep, ClosedStep
  <2>5. OneSessionPerPlayer' /\ ActiveIsOnline'
    BY SessionStep, OnlineStep
  <2>6. QED
    BY <2>2, <2>3, <2>4, <2>5 DEF IInv, SessionInv
<1>3. QED
  BY <1>1, <1>2, PTL DEF Spec

\* Two clients are never both told that they are the same player
\* (AuthDaemon.cpp:324-335), though every worker writes m_playerId before the
\* daemon has looked at it.
THEOREM SessionUnique ==
    ASSUME Answering
    PROVE  Spec => []OneSessionPerPlayer
<1>1. IInv => OneSessionPerPlayer
  BY DEF IInv, SessionInv
<1>2. QED
  BY <1>1, InductiveInvariant, PTL

\* No disconnect, restart or late request turns the PlayerInfo of a live session
\* off (AuthDaemon.cpp:271-290, 341-352, 1038-1047).
THEOREM OnlineWhileActive ==
    ASSUME Answering
    PROVE  Spec => []ActiveIsOnline
<1>1. IInv => ActiveIsOnline
  BY DEF IInv, SessionInv
<1>2. QED
  BY <1>1, InductiveInvariant, PTL

\* A request is in one place only.
LEMMA OutstandingFacts ==
    ASSUME BaseInv, RequestInv, NEW r \in Requesters
    PROVE  Outstanding(r) = IF Waits(r) THEN 1 ELSE 0
<1> DEFINE I == {i \in DOMAIN s_authChannel : s_authChannel[i].client = r}
           here == IF Held(r) THEN 1 ELSE 0
<1>1. m_channel[r] \in Seq({"success", "failure"}) /\ Len(m_channel[r]) \in Nat
  BY DEF BaseInv, TypeOK
<1>2. m_channel[r] = <<>> => Len(m_channel[r]) = 0
  OBVIOUS
<1>3. m_channel[r] # <<>> => Waits(r) /\ Len(m_channel[r]) = 1
  BY DEF RequestInv, ReplyInv
<1>4. DOMAIN s_authChannel = 1 .. Len(s_authChannel) /\ r # NoClient
  BY NullAssumption DEF BaseInv, TypeOK, Requesters
<1>5. \A i \in I : Waits(r) /\ m_channel[r] = <<>> /\ ~Held(r) /\ \A j \in I : i = j
  BY <1>4 DEF RequestInv, QueueInv, Sound
<1>6. Held(r) => Waits(r) /\ m_channel[r] = <<>>
  BY DEF RequestInv, HeldInv, Waits
<1>7. Waits(r) => m_channel[r] # <<>> \/ Held(r) \/ I # {}
  BY <1>4 DEF RequestInv, ReplyInv
<1>8. Outstanding(r) = Cardinality(I) + here + Len(m_channel[r])
  BY DEF Outstanding, Held
<1>9. CASE I = {}
  <2>1. Cardinality(I) = 0
    BY <1>9, FS_EmptySet
  <2>2. CASE Held(r)
    <3>1. here = 1 /\ Len(m_channel[r]) = 0 /\ Waits(r)
      BY <1>2, <1>6, <2>2
    <3> HIDE DEF I, here
    <3>2. QED
      BY <1>8, <2>1, <3>1
  <2>3. CASE ~Held(r) /\ Waits(r)
    <3>1. here = 0 /\ Len(m_channel[r]) = 1
      BY <1>3, <1>7, <1>9, <2>3
    <3> HIDE DEF I, here
    <3>2. QED
      BY <1>8, <2>1, <2>3, <3>1
  <2>4. CASE ~Held(r) /\ ~Waits(r)
    <3>1. here = 0 /\ Len(m_channel[r]) = 0
      BY <1>2, <1>3, <2>4
    <3> HIDE DEF I, here
    <3>2. QED
      BY <1>8, <2>1, <2>4, <3>1
  <2>5. QED
    BY <2>2, <2>3, <2>4
<1>10. CASE I # {}
  <2>1. PICK i \in I : TRUE
    BY <1>10
  <2>2. I = {i}
    BY <1>5, <2>1
  <2>3. Cardinality(I) = 1
    BY <2>2, FS_Singleton
  <2>4. here = 0 /\ Len(m_channel[r]) = 0 /\ Waits(r)
    BY <1>2, <1>5, <2>1
  <2> HIDE DEF I, here
  <2>5. QED
    BY <1>8, <2>3, <2>4
<1>11. QED
  BY <1>9, <1>10

\* Every request is answered once, and no reply is left over for the next one
\* (AuthServer.cpp:180-182, 233-235).
THEOREM OneReply ==
    ASSUME Answering
    PROVE  Spec => []OneReplyPerRequest
<1>1. IInv => OneReplyPerRequest
  BY OutstandingFacts DEF IInv, OneReplyPerRequest, Waits
<1>2. QED
  BY <1>1, InductiveInvariant, PTL
=============================================================================

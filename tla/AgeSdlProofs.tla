---------------------------- MODULE AgeSdlProofs ----------------------------
(***************************************************************************)
(* Machine-checked proofs about AgeSdl, for any sets of updates, any faults    *)
(* and any number of hosts: type correctness, and that an AgeSDLHook update    *)
(* whose sender was answered stays in the vault unless a failing statement of  *)
(* the host dealt with it.                                                     *)
(*                                                                             *)
(* The hard part is a save that a client made before the update was saved: its *)
(* blob lacks the update, and it waits in the daemon's queue.  It must reach   *)
(* the daemon while the host is there to merge it.  It does, because the host  *)
(* saves its copy a last time before it leaves: that save stands behind the    *)
(* client's in the queue, and the host waits for its answer.                   *)
(***************************************************************************)
EXTENDS AgeSdl, QueueLemmas, TLAPS

ClientKinds == {"join", "hook", "leave"}
HostKinds == {"fetch", "internal", "ageSrv"}
Waiting == {"fetch", "upgrading", "join", "hook", "vaultWrite", "leave"}
Alone == {"none", "fetch", "null", "fetched", "upgrading", "ready"}

\* What the two queues carry.
MessageInv ==
    /\ \A i \in 1 .. Len(s_authChannel) :
           s_authChannel[i].kind = "save" => s_authChannel[i].upd \in VaultUpdates
    /\ \A i \in 1 .. Len(m_channel) :
           m_channel[i].kind = "hook" =>
               m_channel[i].upd \in HookUpdates /\ m_channel[i].blob = {m_channel[i].upd}
    /\ phase = "hook" => hookReply \in HookUpdates

\* The host is registered from start_game_host's last step to its deletion.
RegistryInv ==
    /\ registered = (phase \notin Alone)
    /\ daemon # "idle" => registered

\* The host blocks for the daemon: at most one request of its own is queued, and
\* it is the one the phase tells of.
HostWaits ==
    /\ \A i \in 1 .. Len(s_authChannel) :
           /\ s_authChannel[i].kind = "fetch" => phase = "fetch"
           /\ s_authChannel[i].kind = "ageSrv" => phase = "join"
           /\ s_authChannel[i].kind = "internal" =>
                  phase \in {"upgrading", "hook", "vaultWrite", "leave"}
           /\ s_authChannel[i].kind \in HostKinds => ~answered
    /\ \A i, j \in 1 .. Len(s_authChannel) :
           s_authChannel[i].kind \in HostKinds /\ s_authChannel[j].kind \in HostKinds => i = j
    /\ answered => phase \in Waiting \ {"fetch"}

\* The game client blocks for the host in the same way.
ClientWaits ==
    /\ \A i \in 1 .. Len(m_channel) :
           /\ m_channel[i].kind = "join" => gpc = "joining"
           /\ m_channel[i].kind = "hook" => gpc = "asking"
           /\ m_channel[i].kind = "leave" => gpc = "leaving"
           /\ m_channel[i].kind \in ClientKinds => phase \notin ClientKinds
    /\ \A i, j \in 1 .. Len(m_channel) :
           m_channel[i].kind \in ClientKinds /\ m_channel[j].kind \in ClientKinds => i = j
    /\ phase = "join" => gpc = "joining"
    /\ phase = "hook" => gpc = "asking"
    /\ phase = "leave" => gpc = "leaving"
    /\ phase \in Alone => m_channel = <<>>
    /\ gpc \in {"in", "asking", "leaving"} => registered

\* The host has told itself to shut down.
ShutdownSent == phase = "closing" \/ \E i \in 1 .. Len(m_channel) : m_channel[i].kind = "shutdown"

\* From then on it is empty: a client that still finds it stays behind the message.
ShutdownInv ==
    /\ ShutdownSent => gpc \in {"out", "joining"} /\ phase \in {"idle", "vaultWrite", "closing"}
    /\ \A i, j \in 1 .. Len(m_channel) :
           m_channel[i].kind = "shutdown" /\ m_channel[j].kind = "join" => i < j

\* The host is registered and will save its copy again before it goes.
Open == phase \in {"idle", "join", "hook", "vaultWrite"} /\ ~ShutdownSent

\* The last save of the host is queued behind position i.
SaveBehind(i) ==
    phase = "leave" /\ \E j \in i + 1 .. Len(s_authChannel) : s_authChannel[j].kind = "internal"

\* The update that the host is saving, unless a failing statement dealt with it.
Pending == {hookReply} \ exposed

\* Nothing that may be written to the vault as it stands lacks a safe update; a
\* client's save may lack one while the host is there to merge it.
SavedInv ==
    /\ Safe \subseteq vault
    /\ phase \notin {"none", "fetch"} => Safe \subseteq m_localState
    /\ phase = "hook" => Pending \subseteq m_localState /\ (answered => Pending \subseteq vault)
    /\ \A i \in 1 .. Len(s_authChannel) :
           /\ s_authChannel[i].kind = "internal" =>
                  /\ Safe \subseteq s_authChannel[i].blob
                  /\ phase = "hook" => Pending \subseteq s_authChannel[i].blob
           /\ s_authChannel[i].kind = "save" =>
                  Safe \subseteq s_authChannel[i].blob \/ Open \/ SaveBehind(i)

\* The inductive invariant.
IInv ==
    /\ TypeOK /\ MessageInv /\ RegistryInv /\ HostWaits /\ ClientWaits /\ ShutdownInv
    /\ SavedInv

\* The first message of each queue, when there is one.
LEMMA FirstMessages ==
    ASSUME TypeOK
    PROVE  /\ s_authChannel # <<>> =>
                  /\ Head(s_authChannel) \in AuthRequests
                  /\ Tail(s_authChannel) \in Seq(AuthRequests)
                  /\ Head(s_authChannel) = s_authChannel[1] /\ 1 \in 1 .. Len(s_authChannel)
           /\ m_channel # <<>> =>
                  /\ Head(m_channel) \in HostRequests
                  /\ Tail(m_channel) \in Seq(HostRequests)
                  /\ Head(m_channel) = m_channel[1] /\ 1 \in 1 .. Len(m_channel)
  BY HeadFacts DEF TypeOK

\* Ask and Send keep the types of the queues.
LEMMA AskType ==
    ASSUME NEW q \in Seq(AuthRequests), NEW k \in {"fetch", "save", "internal", "ageSrv"},
           NEW u \in Updates \cup {NoUpdate}, NEW b \in SUBSET Updates
    PROVE  Append(q, Request(k, u, b)) \in Seq(AuthRequests)
  BY DEF AuthRequests, Request

LEMMA SendType ==
    ASSUME NEW q \in Seq(HostRequests),
           NEW k \in {"join", "hook", "leave", "localSdl", "shutdown"},
           NEW u \in Updates \cup {NoUpdate}, NEW b \in SUBSET Updates
    PROVE  Append(q, Request(k, u, b)) \in Seq(HostRequests)
  BY DEF HostRequests, Request

\* A message that is not the shutdown does not tell the host to shut down.
LEMMA SendKeepsShutdown ==
    ASSUME m_channel \in Seq(HostRequests), NEW e, e.kind # "shutdown",
           m_channel' = Append(m_channel, e), phase' = phase
    PROVE  ShutdownSent' = ShutdownSent
<1>1. /\ Len(m_channel) \in Nat /\ Len(m_channel') = Len(m_channel) + 1
      /\ \A i \in 1 .. Len(m_channel) : m_channel'[i] = m_channel[i]
      /\ m_channel'[Len(m_channel) + 1] = e
  OBVIOUS
<1>2. \A i : i \in 1 .. Len(m_channel') <=> i \in 1 .. Len(m_channel) \/ i = Len(m_channel) + 1
  BY <1>1
<1>3. QED
  BY <1>1, <1>2 DEF ShutdownSent

\* Where the daemon's next request moves the others.
LEMMA ServeFacts ==
    ASSUME TypeOK, s_authChannel # <<>>, s_authChannel' = Tail(s_authChannel)
    PROVE  /\ Len(s_authChannel) \in Nat /\ Len(s_authChannel') = Len(s_authChannel) - 1
           /\ \A i \in 1 .. Len(s_authChannel') :
                  s_authChannel'[i] = s_authChannel[i + 1] /\ i + 1 \in 1 .. Len(s_authChannel)
  BY DEF TypeOK

\* Every step keeps the variables in their types.
LEMMA TypeStep == IInv /\ [Next]_vars => TypeOK'
<1> SUFFICES ASSUME IInv, [Next]_vars
             PROVE  TypeOK'
  OBVIOUS
<1> USE DEF IInv, TypeOK, Ask, Send, Hosting, Awaited, Serving, MutexFree
<1>1. ASSUME NEW u \in VaultUpdates, cb_nodeUpdate(u)
      PROVE  TypeOK'
  <2>1. s_authChannel' \in Seq(AuthRequests)
    BY <1>1, AskType DEF cb_nodeUpdate, Updates
  <2>2. QED
    BY <1>1, <2>1 DEF cb_nodeUpdate
<1>2. CASE cb_join
  <2>1. m_channel' \in Seq(HostRequests)
    BY <1>2, SendType DEF cb_join
  <2>2. QED
    BY <1>2, <2>1 DEF cb_join, Phases
<1>3. CASE start_game_host
  <2>1. s_authChannel' \in Seq(AuthRequests)
    BY <1>3, AskType DEF start_game_host
  <2>2. lives' \in 0 .. MaxLives
    BY <1>3, LivesAssumption DEF start_game_host
  <2>3. QED
    BY <1>3, <2>1, <2>2 DEF start_game_host, Phases
<1>4. ASSUME NEW u \in HookUpdates, cb_netmsg(u)
      PROVE  TypeOK'
  <2>1. m_channel' \in Seq(HostRequests)
    BY <1>4, SendType DEF cb_netmsg, Updates
  <2>2. QED
    BY <1>4, <2>1 DEF cb_netmsg
<1>5. CASE Disconnect
  <2>1. m_channel' \in Seq(HostRequests)
    BY <1>5, SendType DEF Disconnect
  <2>2. QED
    BY <1>5, <2>1 DEF Disconnect, Phases
<1>6. CASE start_game_host_upgrade
  <2>1. s_authChannel' \in Seq(AuthRequests)
    BY <1>6, AskType DEF start_game_host_upgrade
  <2>2. QED
    BY <1>6, <2>1 DEF start_game_host_upgrade, Phases
<1>7. CASE start_game_host_register
  <2>1. m_channel' \in Seq(HostRequests)
    BY <1>7, SendType DEF start_game_host_register
  <2>2. QED
    BY <1>7, <2>1 DEF start_game_host_register, Phases
<1>8. CASE dm_game_join
  <2>1. Tail(m_channel) \in Seq(HostRequests)
    BY <1>8, FirstMessages DEF dm_game_join
  <2>2. s_authChannel' \in Seq(AuthRequests)
    BY <1>8, AskType DEF dm_game_join
  <2>3. QED
    BY <1>8, <2>1, <2>2 DEF dm_game_join, Phases
<1>9. CASE dm_game_join_reply
  BY <1>9 DEF dm_game_join_reply, Phases
<1>10. CASE dm_read_sdl
  <2>1. /\ Head(m_channel) \in HostRequests /\ Tail(m_channel) \in Seq(HostRequests)
        /\ Head(m_channel).upd \in HookUpdates
    BY <1>10, FirstMessages DEF dm_read_sdl, MessageInv
  <2>2. m_localState' \in SUBSET Updates
    BY <1>10, <2>1 DEF dm_read_sdl, HostRequests
  <2>3. s_authChannel' \in Seq(AuthRequests)
    BY <1>10, <2>2, AskType DEF dm_read_sdl
  <2>4. QED
    BY <1>10, <2>1, <2>2, <2>3 DEF dm_read_sdl, Phases
<1>11. CASE dm_read_sdl_reply
  BY <1>11 DEF dm_read_sdl_reply, MessageInv, Phases
<1>12. CASE dm_local_sdl_update
  <2>1. Head(m_channel) \in HostRequests /\ Tail(m_channel) \in Seq(HostRequests)
    BY <1>12, FirstMessages DEF dm_local_sdl_update
  <2>2. m_localState' \in SUBSET Updates
    BY <1>12, <2>1 DEF dm_local_sdl_update, HostRequests
  <2>3. s_authChannel' \in Seq(AuthRequests)
    BY <1>12, <2>2, AskType DEF dm_local_sdl_update
  <2>4. QED
    BY <1>12, <2>1, <2>2, <2>3 DEF dm_local_sdl_update, Phases
<1>13. CASE dm_local_sdl_update_refused
  <2>1. Tail(m_channel) \in Seq(HostRequests)
    BY <1>13, FirstMessages DEF dm_local_sdl_update_refused
  <2>2. QED
    BY <1>13, <2>1 DEF dm_local_sdl_update_refused, Phases
<1>14. CASE SaveReply
  BY <1>14 DEF SaveReply, Phases
<1>15. CASE dm_game_disconnect
  <2>1. Tail(m_channel) \in Seq(HostRequests)
    BY <1>15, FirstMessages DEF dm_game_disconnect
  <2>2. s_authChannel' \in Seq(AuthRequests)
    BY <1>15, AskType DEF dm_game_disconnect
  <2>3. QED
    BY <1>15, <2>1, <2>2 DEF dm_game_disconnect, Phases
<1>16. CASE dm_game_disconnect_reply
  <2>1. m_channel' \in Seq(HostRequests)
    BY <1>16, SendType DEF dm_game_disconnect_reply
  <2>2. QED
    BY <1>16, <2>1 DEF dm_game_disconnect_reply, Phases
<1>17. CASE dm_game_shutdown
  <2>1. Tail(m_channel) \in Seq(HostRequests)
    BY <1>17, FirstMessages DEF dm_game_shutdown
  <2>2. QED
    BY <1>17, <2>1 DEF dm_game_shutdown, Phases
<1>18. CASE dm_game_shutdown_delete
  <2>1. <<>> \in Seq(HostRequests)
    OBVIOUS
  <2>2. QED
    BY <1>18, <2>1 DEF dm_game_shutdown_delete, Phases
<1>19. CASE GameServer_UpdateVaultSDL
  <2>1. /\ Head(s_authChannel) \in AuthRequests /\ Tail(s_authChannel) \in Seq(AuthRequests)
        /\ Head(s_authChannel).upd \in VaultUpdates
    BY <1>19, FirstMessages DEF GameServer_UpdateVaultSDL, MessageInv
  <2>2. /\ Head(s_authChannel).upd \in Updates \cup {NoUpdate}
        /\ Head(s_authChannel).blob \in SUBSET Updates
    BY <2>1 DEF AuthRequests
  <2>3. m_channel' \in Seq(HostRequests)
    BY <1>19, <2>2, SendType DEF GameServer_UpdateVaultSDL
  <2>4. QED
    BY <1>19, <2>1, <2>3 DEF GameServer_UpdateVaultSDL
<1>20. CASE GameServer_UpdateVaultSDL_reply
  BY <1>20 DEF GameServer_UpdateVaultSDL_reply
<1>21. CASE v_update_node
  <2>1. /\ Head(s_authChannel) \in AuthRequests /\ Tail(s_authChannel) \in Seq(AuthRequests)
        /\ Head(s_authChannel).upd \in VaultUpdates
    BY <1>21, FirstMessages DEF v_update_node, MessageInv
  <2>2. vault' \subseteq Updates
    BY <1>21, <2>1 DEF v_update_node, AuthRequests
  <2>3. vpc' \in [VaultUpdates -> {"new", "wait", "acked", "refused"}]
    BY <1>21, <2>1 DEF v_update_node
  <2>4. QED
    BY <1>21, <2>1, <2>2, <2>3 DEF v_update_node
<1>22. CASE v_update_node_internal
  <2>1. Head(s_authChannel) \in AuthRequests /\ Tail(s_authChannel) \in Seq(AuthRequests)
    BY <1>22, FirstMessages DEF v_update_node_internal
  <2>2. vault' \subseteq Updates
    BY <1>22, <2>1 DEF v_update_node_internal, AuthRequests
  <2>3. exposed' \subseteq Updates
    BY <1>22, <2>1 DEF v_update_node_internal, AuthRequests
  <2>4. QED
    BY <1>22, <2>1, <2>2, <2>3 DEF v_update_node_internal
<1>23. CASE dm_auth_fetchSDL
  <2>1. Tail(s_authChannel) \in Seq(AuthRequests)
    BY <1>23, FirstMessages DEF dm_auth_fetchSDL
  <2>2. QED
    BY <1>23, <2>1 DEF dm_auth_fetchSDL, Phases
<1>24. CASE dm_auth_fetchSDL_null
  <2>1. Tail(s_authChannel) \in Seq(AuthRequests)
    BY <1>24, FirstMessages DEF dm_auth_fetchSDL_null
  <2>2. QED
    BY <1>24, <2>1 DEF dm_auth_fetchSDL_null, Phases
<1>24a. CASE start_game_host_unparsed
  BY <1>24a DEF start_game_host_unparsed, Phases
<1>25. CASE dm_auth_updateAgeSrv
  <2>1. Tail(s_authChannel) \in Seq(AuthRequests)
    BY <1>25, FirstMessages DEF dm_auth_updateAgeSrv
  <2>2. QED
    BY <1>25, <2>1 DEF dm_auth_updateAgeSrv, Phases
<1>26. CASE UNCHANGED vars
  BY <1>26 DEF vars
<1>27. QED
  BY <1>1, <1>2, <1>3, <1>4, <1>5, <1>6, <1>7, <1>8, <1>9, <1>10, <1>11, <1>12, <1>13,
     <1>14, <1>15, <1>16, <1>17, <1>18, <1>19, <1>20, <1>21, <1>22, <1>23, <1>24, <1>24a, <1>25,
     <1>26
     DEF Next, dm_gameHost, dm_authDaemon

\* A save carries a save, a hook a hook.
LEMMA MessageStep == IInv /\ [Next]_vars => MessageInv'
<1> SUFFICES ASSUME IInv, [Next]_vars
             PROVE  MessageInv'
  OBVIOUS
<1> USE UpdatesAssumption DEF IInv, TypeOK, MessageInv, Updates, AuthRequests,
        HostRequests, Phases, Ask, Send, Request, Hosting, Awaited, Serving, MutexFree
<1>1. ASSUME NEW u \in VaultUpdates, cb_nodeUpdate(u)
      PROVE  MessageInv'
  <2>1. /\ Len(s_authChannel) \in Nat /\ Len(s_authChannel') = Len(s_authChannel) + 1
        /\ \A i \in 1 .. Len(s_authChannel) : s_authChannel'[i] = s_authChannel[i]
        /\ s_authChannel'[Len(s_authChannel) + 1].upd = u
    BY <1>1 DEF cb_nodeUpdate
  <2>2. QED
    BY <1>1, <2>1 DEF cb_nodeUpdate
<1>2. CASE cb_join
  BY <1>2 DEF cb_join
<1>3. CASE start_game_host
  BY <1>3 DEF start_game_host
<1>4. ASSUME NEW u \in HookUpdates, cb_netmsg(u)
      PROVE  MessageInv'
  BY <1>4 DEF cb_netmsg
<1>5. CASE Disconnect
  BY <1>5 DEF Disconnect
<1>6. CASE start_game_host_upgrade
  BY <1>6 DEF start_game_host_upgrade
<1>7. CASE start_game_host_register
  BY <1>7 DEF start_game_host_register
<1>8. CASE dm_game_join
  BY <1>8 DEF dm_game_join
<1>9. CASE dm_game_join_reply
  BY <1>9 DEF dm_game_join_reply
<1>10. CASE dm_read_sdl
  BY <1>10 DEF dm_read_sdl
<1>11. CASE dm_read_sdl_reply
  BY <1>11 DEF dm_read_sdl_reply
<1>12. CASE dm_local_sdl_update
  BY <1>12 DEF dm_local_sdl_update
<1>13. CASE dm_local_sdl_update_refused
  BY <1>13 DEF dm_local_sdl_update_refused
<1>14. CASE SaveReply
  BY <1>14 DEF SaveReply
<1>15. CASE dm_game_disconnect
  BY <1>15 DEF dm_game_disconnect
<1>16. CASE dm_game_disconnect_reply
  BY <1>16 DEF dm_game_disconnect_reply
<1>17. CASE dm_game_shutdown
  BY <1>17 DEF dm_game_shutdown
<1>18. CASE dm_game_shutdown_delete
  BY <1>18 DEF dm_game_shutdown_delete
<1>19. CASE GameServer_UpdateVaultSDL
  BY <1>19 DEF GameServer_UpdateVaultSDL
<1>20. CASE GameServer_UpdateVaultSDL_reply
  BY <1>20 DEF GameServer_UpdateVaultSDL_reply
<1>21. CASE v_update_node
  BY <1>21 DEF v_update_node
<1>22. CASE v_update_node_internal
  BY <1>22 DEF v_update_node_internal
<1>23. CASE dm_auth_fetchSDL
  BY <1>23 DEF dm_auth_fetchSDL
<1>24. CASE dm_auth_fetchSDL_null
  BY <1>24 DEF dm_auth_fetchSDL_null
<1>24a. CASE start_game_host_unparsed
  BY <1>24a DEF start_game_host_unparsed
<1>25. CASE dm_auth_updateAgeSrv
  BY <1>25 DEF dm_auth_updateAgeSrv
<1>26. CASE UNCHANGED vars
  BY <1>26 DEF vars
<1>27. QED
  BY <1>1, <1>2, <1>3, <1>4, <1>5, <1>6, <1>7, <1>8, <1>9, <1>10, <1>11, <1>12, <1>13,
     <1>14, <1>15, <1>16, <1>17, <1>18, <1>19, <1>20, <1>21, <1>22, <1>23, <1>24, <1>24a, <1>25,
     <1>26
     DEF Next, dm_gameHost, dm_authDaemon

\* The registry and the phase agree: the mutex that the waiting daemon holds keeps
\* the host registered (GameHost.cpp:84-92).
LEMMA RegistryStep == IInv /\ [Next]_vars => RegistryInv'
<1> SUFFICES ASSUME IInv, [Next]_vars
             PROVE  RegistryInv'
  OBVIOUS
<1> USE DEF IInv, TypeOK, RegistryInv, HostWaits, HostKinds, Alone, Phases, Ask, Send,
        Request, Hosting, Awaited, Serving, MutexFree
<1>1. ASSUME NEW u \in VaultUpdates, cb_nodeUpdate(u)
      PROVE  RegistryInv'
  BY <1>1 DEF cb_nodeUpdate
<1>2. CASE cb_join
  BY <1>2 DEF cb_join
<1>3. CASE start_game_host
  BY <1>3 DEF start_game_host
<1>4. ASSUME NEW u \in HookUpdates, cb_netmsg(u)
      PROVE  RegistryInv'
  BY <1>4 DEF cb_netmsg
<1>5. CASE Disconnect
  BY <1>5 DEF Disconnect
<1>6. CASE start_game_host_upgrade
  BY <1>6 DEF start_game_host_upgrade
<1>7. CASE start_game_host_register
  BY <1>7 DEF start_game_host_register
<1>8. CASE dm_game_join
  BY <1>8 DEF dm_game_join
<1>9. CASE dm_game_join_reply
  BY <1>9 DEF dm_game_join_reply
<1>10. CASE dm_read_sdl
  BY <1>10 DEF dm_read_sdl
<1>11. CASE dm_read_sdl_reply
  BY <1>11 DEF dm_read_sdl_reply
<1>12. CASE dm_local_sdl_update
  BY <1>12 DEF dm_local_sdl_update
<1>13. CASE dm_local_sdl_update_refused
  BY <1>13 DEF dm_local_sdl_update_refused
<1>14. CASE SaveReply
  BY <1>14 DEF SaveReply
<1>15. CASE dm_game_disconnect
  BY <1>15 DEF dm_game_disconnect
<1>16. CASE dm_game_disconnect_reply
  BY <1>16 DEF dm_game_disconnect_reply
<1>17. CASE dm_game_shutdown
  BY <1>17 DEF dm_game_shutdown
<1>18. CASE dm_game_shutdown_delete
  BY <1>18 DEF dm_game_shutdown_delete
<1>19. CASE GameServer_UpdateVaultSDL
  BY <1>19 DEF GameServer_UpdateVaultSDL
<1>20. CASE GameServer_UpdateVaultSDL_reply
  BY <1>20 DEF GameServer_UpdateVaultSDL_reply
<1>21. CASE v_update_node
  BY <1>21 DEF v_update_node
<1>22. CASE v_update_node_internal
  BY <1>22 DEF v_update_node_internal
<1>23. CASE dm_auth_fetchSDL
  BY <1>23 DEF dm_auth_fetchSDL
<1>24. CASE dm_auth_fetchSDL_null
  BY <1>24 DEF dm_auth_fetchSDL_null
<1>24a. CASE start_game_host_unparsed
  BY <1>24a DEF start_game_host_unparsed
<1>25. CASE dm_auth_updateAgeSrv
  BY <1>25 DEF dm_auth_updateAgeSrv
<1>26. CASE UNCHANGED vars
  BY <1>26 DEF vars
<1>27. QED
  BY <1>1, <1>2, <1>3, <1>4, <1>5, <1>6, <1>7, <1>8, <1>9, <1>10, <1>11, <1>12, <1>13,
     <1>14, <1>15, <1>16, <1>17, <1>18, <1>19, <1>20, <1>21, <1>22, <1>23, <1>24, <1>24a, <1>25,
     <1>26
     DEF Next, dm_gameHost, dm_authDaemon

\* The host never has two requests with the daemon, and no reply is left over.
LEMMA HostWaitsStep == IInv /\ [Next]_vars => HostWaits'
<1> SUFFICES ASSUME IInv, [Next]_vars
             PROVE  HostWaits'
  OBVIOUS
<1> USE DEF IInv, TypeOK, HostWaits, AuthRequests, HostKinds, Waiting, Phases, Ask,
        Send, Request, Hosting, Awaited, Serving, MutexFree
<1>1. ASSUME NEW u \in VaultUpdates, cb_nodeUpdate(u)
      PROVE  HostWaits'
  <2>1. /\ Len(s_authChannel) \in Nat /\ Len(s_authChannel') = Len(s_authChannel) + 1
        /\ \A i \in 1 .. Len(s_authChannel) : s_authChannel'[i] = s_authChannel[i]
        /\ s_authChannel'[Len(s_authChannel) + 1].kind = "save"
    BY <1>1 DEF cb_nodeUpdate
  <2>2. UNCHANGED <<phase, answered>>
    BY <1>1 DEF cb_nodeUpdate
  <2>3. \A i \in 1 .. Len(s_authChannel') :
           s_authChannel'[i].kind \in HostKinds =>
               i \in 1 .. Len(s_authChannel) /\ s_authChannel'[i] = s_authChannel[i]
    BY <2>1
  <2>4. QED
    BY <2>2, <2>3
<1>2. CASE cb_join
  BY <1>2 DEF cb_join
<1>3. CASE start_game_host
  BY <1>3 DEF start_game_host
<1>4. ASSUME NEW u \in HookUpdates, cb_netmsg(u)
      PROVE  HostWaits'
  BY <1>4 DEF cb_netmsg
<1>5. CASE Disconnect
  BY <1>5 DEF Disconnect
<1>6. CASE start_game_host_upgrade
  BY <1>6 DEF start_game_host_upgrade
<1>7. CASE start_game_host_register
  BY <1>7 DEF start_game_host_register
<1>8. CASE dm_game_join
  BY <1>8 DEF dm_game_join
<1>9. CASE dm_game_join_reply
  BY <1>9 DEF dm_game_join_reply
<1>10. CASE dm_read_sdl
  BY <1>10 DEF dm_read_sdl
<1>11. CASE dm_read_sdl_reply
  BY <1>11 DEF dm_read_sdl_reply
<1>12. CASE dm_local_sdl_update
  BY <1>12 DEF dm_local_sdl_update
<1>13. CASE dm_local_sdl_update_refused
  BY <1>13 DEF dm_local_sdl_update_refused
<1>14. CASE SaveReply
  BY <1>14 DEF SaveReply
<1>15. CASE dm_game_disconnect
  BY <1>15 DEF dm_game_disconnect
<1>16. CASE dm_game_disconnect_reply
  BY <1>16 DEF dm_game_disconnect_reply
<1>17. CASE dm_game_shutdown
  BY <1>17 DEF dm_game_shutdown
<1>18. CASE dm_game_shutdown_delete
  BY <1>18 DEF dm_game_shutdown_delete
<1>19. CASE GameServer_UpdateVaultSDL
  BY <1>19 DEF GameServer_UpdateVaultSDL
<1>20. CASE GameServer_UpdateVaultSDL_reply
  BY <1>20 DEF GameServer_UpdateVaultSDL_reply
<1>21. CASE v_update_node
  BY <1>21 DEF v_update_node
<1>22. CASE v_update_node_internal
  BY <1>22 DEF v_update_node_internal
<1>23. CASE dm_auth_fetchSDL
  BY <1>23 DEF dm_auth_fetchSDL
<1>24. CASE dm_auth_fetchSDL_null
  BY <1>24 DEF dm_auth_fetchSDL_null
<1>24a. CASE start_game_host_unparsed
  BY <1>24a DEF start_game_host_unparsed
<1>25. CASE dm_auth_updateAgeSrv
  BY <1>25 DEF dm_auth_updateAgeSrv
<1>26. CASE UNCHANGED vars
  BY <1>26 DEF vars
<1>27. QED
  BY <1>1, <1>2, <1>3, <1>4, <1>5, <1>6, <1>7, <1>8, <1>9, <1>10, <1>11, <1>12, <1>13,
     <1>14, <1>15, <1>16, <1>17, <1>18, <1>19, <1>20, <1>21, <1>22, <1>23, <1>24, <1>24a, <1>25,
     <1>26
     DEF Next, dm_gameHost, dm_authDaemon

\* The game client never has two messages with the host.
LEMMA ClientWaitsStep == IInv /\ [Next]_vars => ClientWaits'
<1> SUFFICES ASSUME IInv, [Next]_vars
             PROVE  ClientWaits'
  OBVIOUS
<1> USE DEF IInv, TypeOK, HostWaits, ClientWaits, ShutdownInv, ShutdownSent,
        RegistryInv, HostKinds, ClientKinds, Waiting, Alone, Phases, Hosting, Awaited,
        Serving, MutexFree
<1>1. ASSUME NEW u \in VaultUpdates, cb_nodeUpdate(u)
      PROVE  ClientWaits'
  BY <1>1 DEF cb_nodeUpdate
<1>2. CASE cb_join
  <2>1. /\ Len(m_channel) \in Nat /\ Len(m_channel') = Len(m_channel) + 1
        /\ \A i \in 1 .. Len(m_channel) : m_channel'[i] = m_channel[i]
        /\ m_channel'[Len(m_channel) + 1].kind = "join"
    BY <1>2 DEF cb_join, Send, Request
  <2>2. \A i \in 1 .. Len(m_channel) : m_channel[i].kind \notin ClientKinds
    BY <1>2 DEF cb_join
  <2>3. \A i \in 1 .. Len(m_channel') : i \in 1 .. Len(m_channel) \/ i = Len(m_channel) + 1
    BY <2>1
  <2>4. QED
    BY <1>2, <2>1, <2>2, <2>3 DEF cb_join
<1>3. CASE start_game_host
  BY <1>3 DEF start_game_host
<1>4. ASSUME NEW u \in HookUpdates, cb_netmsg(u)
      PROVE  ClientWaits'
  <2>1. /\ Len(m_channel) \in Nat /\ Len(m_channel') = Len(m_channel) + 1
        /\ \A i \in 1 .. Len(m_channel) : m_channel'[i] = m_channel[i]
        /\ m_channel'[Len(m_channel) + 1].kind = "hook"
    BY <1>4 DEF cb_netmsg, Send, Request
  <2>2. \A i \in 1 .. Len(m_channel) : m_channel[i].kind \notin ClientKinds
    BY <1>4 DEF cb_netmsg
  <2>3. \A i \in 1 .. Len(m_channel') : i \in 1 .. Len(m_channel) \/ i = Len(m_channel) + 1
    BY <2>1
  <2>4. QED
    BY <1>4, <2>1, <2>2, <2>3 DEF cb_netmsg
<1>5. CASE Disconnect
  <2>1. /\ Len(m_channel) \in Nat /\ Len(m_channel') = Len(m_channel) + 1
        /\ \A i \in 1 .. Len(m_channel) : m_channel'[i] = m_channel[i]
        /\ m_channel'[Len(m_channel) + 1].kind = "leave"
    BY <1>5 DEF Disconnect, Send, Request
  <2>2. \A i \in 1 .. Len(m_channel) : m_channel[i].kind \notin ClientKinds
    BY <1>5 DEF Disconnect
  <2>3. \A i \in 1 .. Len(m_channel') : i \in 1 .. Len(m_channel) \/ i = Len(m_channel) + 1
    BY <2>1
  <2>4. QED
    BY <1>5, <2>1, <2>2, <2>3 DEF Disconnect
<1>6. CASE start_game_host_upgrade
  BY <1>6 DEF start_game_host_upgrade
<1>7. CASE start_game_host_register
  BY <1>7 DEF start_game_host_register, Send, Request
<1>8. CASE dm_game_join
  BY <1>8 DEF dm_game_join
<1>9. CASE dm_game_join_reply
  BY <1>9 DEF dm_game_join_reply
<1>10. CASE dm_read_sdl
  BY <1>10 DEF dm_read_sdl
<1>11. CASE dm_read_sdl_reply
  BY <1>11 DEF dm_read_sdl_reply
<1>12. CASE dm_local_sdl_update
  BY <1>12 DEF dm_local_sdl_update
<1>13. CASE dm_local_sdl_update_refused
  BY <1>13 DEF dm_local_sdl_update_refused
<1>14. CASE SaveReply
  BY <1>14 DEF SaveReply
<1>15. CASE dm_game_disconnect
  BY <1>15 DEF dm_game_disconnect
<1>16. CASE dm_game_disconnect_reply
  BY <1>16 DEF dm_game_disconnect_reply, Send, Request
<1>17. CASE dm_game_shutdown
  BY <1>17 DEF dm_game_shutdown
<1>18. CASE dm_game_shutdown_delete
  BY <1>18 DEF dm_game_shutdown_delete
<1>19. CASE GameServer_UpdateVaultSDL
  <2>1. /\ Len(m_channel) \in Nat /\ Len(m_channel') = Len(m_channel) + 1
        /\ \A i \in 1 .. Len(m_channel) : m_channel'[i] = m_channel[i]
        /\ m_channel'[Len(m_channel) + 1].kind = "localSdl"
    BY <1>19 DEF GameServer_UpdateVaultSDL, Send, Request
  <2>2. \A i \in 1 .. Len(m_channel') : i \in 1 .. Len(m_channel) \/ i = Len(m_channel) + 1
    BY <2>1
  <2>3. QED
    BY <1>19, <2>1, <2>2 DEF GameServer_UpdateVaultSDL
<1>20. CASE GameServer_UpdateVaultSDL_reply
  BY <1>20 DEF GameServer_UpdateVaultSDL_reply
<1>21. CASE v_update_node
  BY <1>21 DEF v_update_node
<1>22. CASE v_update_node_internal
  BY <1>22 DEF v_update_node_internal
<1>23. CASE dm_auth_fetchSDL
  BY <1>23 DEF dm_auth_fetchSDL
<1>24. CASE dm_auth_fetchSDL_null
  BY <1>24 DEF dm_auth_fetchSDL_null
<1>24a. CASE start_game_host_unparsed
  BY <1>24a DEF start_game_host_unparsed
<1>25. CASE dm_auth_updateAgeSrv
  BY <1>25 DEF dm_auth_updateAgeSrv
<1>26. CASE UNCHANGED vars
  BY <1>26 DEF vars
<1>27. QED
  BY <1>1, <1>2, <1>3, <1>4, <1>5, <1>6, <1>7, <1>8, <1>9, <1>10, <1>11, <1>12, <1>13,
     <1>14, <1>15, <1>16, <1>17, <1>18, <1>19, <1>20, <1>21, <1>22, <1>23, <1>24, <1>24a, <1>25,
     <1>26
     DEF Next, dm_gameHost, dm_authDaemon

\* Nobody is in the age once the host has sent itself the shutdown message.
LEMMA ShutdownStep == IInv /\ [Next]_vars => ShutdownInv'
<1> SUFFICES ASSUME IInv, [Next]_vars
             PROVE  ShutdownInv'
  OBVIOUS
<1> USE DEF IInv, TypeOK, HostRequests, ClientWaits, ShutdownInv, ShutdownSent,
        RegistryInv, ClientKinds, Alone, Phases, Ask, Send, Request, Hosting, Awaited,
        Serving, MutexFree
<1>1. ASSUME NEW u \in VaultUpdates, cb_nodeUpdate(u)
      PROVE  ShutdownInv'
  BY <1>1 DEF cb_nodeUpdate
<1>2. CASE cb_join
  BY <1>2 DEF cb_join
<1>3. CASE start_game_host
  BY <1>3 DEF start_game_host
<1>4. ASSUME NEW u \in HookUpdates, cb_netmsg(u)
      PROVE  ShutdownInv'
  BY <1>4 DEF cb_netmsg
<1>5. CASE Disconnect
  BY <1>5 DEF Disconnect
<1>6. CASE start_game_host_upgrade
  BY <1>6 DEF start_game_host_upgrade
<1>7. CASE start_game_host_register
  BY <1>7 DEF start_game_host_register
<1>8. CASE dm_game_join
  BY <1>8 DEF dm_game_join
<1>9. CASE dm_game_join_reply
  BY <1>9 DEF dm_game_join_reply
<1>10. CASE dm_read_sdl
  BY <1>10 DEF dm_read_sdl
<1>11. CASE dm_read_sdl_reply
  BY <1>11 DEF dm_read_sdl_reply
<1>12. CASE dm_local_sdl_update
  BY <1>12 DEF dm_local_sdl_update
<1>13. CASE dm_local_sdl_update_refused
  BY <1>13 DEF dm_local_sdl_update_refused
<1>14. CASE SaveReply
  BY <1>14 DEF SaveReply
<1>15. CASE dm_game_disconnect
  BY <1>15 DEF dm_game_disconnect
<1>16. CASE dm_game_disconnect_reply
  BY <1>16 DEF dm_game_disconnect_reply
<1>17. CASE dm_game_shutdown
  BY <1>17 DEF dm_game_shutdown
<1>18. CASE dm_game_shutdown_delete
  BY <1>18 DEF dm_game_shutdown_delete
<1>19. CASE GameServer_UpdateVaultSDL
  BY <1>19 DEF GameServer_UpdateVaultSDL
<1>20. CASE GameServer_UpdateVaultSDL_reply
  BY <1>20 DEF GameServer_UpdateVaultSDL_reply
<1>21. CASE v_update_node
  BY <1>21 DEF v_update_node
<1>22. CASE v_update_node_internal
  BY <1>22 DEF v_update_node_internal
<1>23. CASE dm_auth_fetchSDL
  BY <1>23 DEF dm_auth_fetchSDL, HostWaits
<1>24. CASE dm_auth_fetchSDL_null
  BY <1>24 DEF dm_auth_fetchSDL_null, HostWaits
<1>24a. CASE start_game_host_unparsed
  BY <1>24a DEF start_game_host_unparsed
<1>25. CASE dm_auth_updateAgeSrv
  BY <1>25 DEF dm_auth_updateAgeSrv
<1>26. CASE UNCHANGED vars
  BY <1>26 DEF vars
<1>27. QED
  BY <1>1, <1>2, <1>3, <1>4, <1>5, <1>6, <1>7, <1>8, <1>9, <1>10, <1>11, <1>12, <1>13,
     <1>14, <1>15, <1>16, <1>17, <1>18, <1>19, <1>20, <1>21, <1>22, <1>23, <1>24, <1>24a, <1>25,
     <1>26
     DEF Next, dm_gameHost, dm_authDaemon

\* No step lets a blob without an acknowledged update through to the vault: the
\* interesting cases are the daemon's two ways of writing (v_update_node), the last
\* save of the host (dm_game_disconnect) and the one it follows (dm_read_sdl).
LEMMA SavedStep == IInv /\ [Next]_vars => SavedInv'
<1> SUFFICES ASSUME IInv, [Next]_vars
             PROVE  SavedInv'
  OBVIOUS
<1> USE UpdatesAssumption DEF IInv, TypeOK, AuthRequests, HostRequests, RegistryInv,
        MessageInv, HostWaits, ClientWaits, ShutdownInv, SavedInv, ShutdownSent, Open,
        SaveBehind, Safe, Pending, HostKinds, ClientKinds, Alone, Waiting, Phases, Ask, Send, Request,
        Hosting, Awaited, Serving, MutexFree
<1>1. ASSUME NEW u \in VaultUpdates, cb_nodeUpdate(u)
      PROVE  SavedInv'
  BY <1>1 DEF cb_nodeUpdate
<1>2. CASE cb_join
  BY <1>2 DEF cb_join
<1>3. CASE start_game_host
  BY <1>3 DEF start_game_host
<1>4. ASSUME NEW u \in HookUpdates, cb_netmsg(u)
      PROVE  SavedInv'
  BY <1>4 DEF cb_netmsg
<1>5. CASE Disconnect
  BY <1>5 DEF Disconnect
<1>6. CASE start_game_host_upgrade
  BY <1>6 DEF start_game_host_upgrade
<1>7. CASE start_game_host_register
  BY <1>7 DEF start_game_host_register
<1>8. CASE dm_game_join
  BY <1>8 DEF dm_game_join
<1>9. CASE dm_game_join_reply
  BY <1>9 DEF dm_game_join_reply
<1>10. CASE dm_read_sdl
  <2>1. /\ Head(m_channel) = m_channel[1] /\ 1 \in 1 .. Len(m_channel)
        /\ Head(m_channel).blob = {Head(m_channel).upd}
    BY <1>10, FirstMessages DEF dm_read_sdl
  <2>2. /\ Len(m_channel') = Len(m_channel) - 1
        /\ \A i \in 1 .. Len(m_channel') : m_channel'[i] = m_channel[i + 1]
    BY <1>10, <2>1 DEF dm_read_sdl
  <2>3. ~ShutdownSent /\ ~ShutdownSent'
    BY <1>10, <2>1, <2>2 DEF dm_read_sdl
  <2>4. Open'
    BY <1>10, <2>3 DEF dm_read_sdl
  <2>5. /\ Len(s_authChannel) \in Nat /\ Len(s_authChannel') = Len(s_authChannel) + 1
        /\ \A i \in 1 .. Len(s_authChannel) : s_authChannel'[i] = s_authChannel[i]
        /\ s_authChannel'[Len(s_authChannel) + 1] = Request("internal", NoUpdate, m_localState')
    BY <1>10 DEF dm_read_sdl
  <2>6. Pending' \subseteq m_localState' /\ Safe' \subseteq m_localState'
    BY <1>10, <2>1 DEF dm_read_sdl
  <2>7. QED
    BY <1>10, <2>4, <2>5, <2>6 DEF dm_read_sdl
<1>11. CASE dm_read_sdl_reply
  BY <1>11 DEF dm_read_sdl_reply
<1>12. CASE dm_local_sdl_update
  BY <1>12 DEF dm_local_sdl_update
<1>13. CASE dm_local_sdl_update_refused
  BY <1>13 DEF dm_local_sdl_update_refused
<1>14. CASE SaveReply
  BY <1>14 DEF SaveReply
<1>15. CASE dm_game_disconnect
  BY <1>15 DEF dm_game_disconnect
<1>16. CASE dm_game_disconnect_reply
  <2>1. \A i \in 1 .. Len(s_authChannel) : ~Open /\ ~SaveBehind(i) /\ s_authChannel[i].kind # "internal"
    BY <1>16 DEF dm_game_disconnect_reply
  <2>2. \A i \in 1 .. Len(s_authChannel) :
            s_authChannel[i].kind = "save" => Safe \subseteq s_authChannel[i].blob
    BY <2>1
  <2>3. UNCHANGED <<s_authChannel, m_localState, vault, hookAcked, exposed>> /\ phase' = "idle"
    BY <1>16 DEF dm_game_disconnect_reply
  <2>4. QED
    BY <1>16, <2>1, <2>2, <2>3 DEF dm_game_disconnect_reply
<1>17. CASE dm_game_shutdown
  BY <1>17 DEF dm_game_shutdown
<1>18. CASE dm_game_shutdown_delete
  BY <1>18 DEF dm_game_shutdown_delete
<1>19. CASE GameServer_UpdateVaultSDL
  <2>1. /\ Len(s_authChannel) \in Nat /\ Len(s_authChannel') = Len(s_authChannel) - 1
        /\ \A i \in 1 .. Len(s_authChannel') :
               s_authChannel'[i] = s_authChannel[i + 1] /\ i + 1 \in 1 .. Len(s_authChannel)
    BY <1>19, ServeFacts DEF GameServer_UpdateVaultSDL
  <2>2. ShutdownSent' = ShutdownSent
    <3>1. PICK e : m_channel' = Append(m_channel, e) /\ e.kind = "localSdl"
      BY <1>19 DEF GameServer_UpdateVaultSDL
    <3>2. m_channel \in Seq(HostRequests) /\ phase' = phase
      BY <1>19 DEF GameServer_UpdateVaultSDL
    <3> HIDE DEF ShutdownSent
    <3>3. QED
      BY <3>1, <3>2, SendKeepsShutdown
  <2>3. Open' = Open /\ UNCHANGED <<phase, m_localState, vault, hookAcked, exposed, hookReply, answered>>
    BY <1>19, <2>2 DEF GameServer_UpdateVaultSDL
  <2>4. ASSUME NEW i \in 1 .. Len(s_authChannel'), SaveBehind(i + 1)
        PROVE  SaveBehind(i)'
    <3>1. PICK j \in i + 2 .. Len(s_authChannel) : s_authChannel[j].kind = "internal"
      BY <2>4
    <3>2. j - 1 \in i + 1 .. Len(s_authChannel')
      BY <2>1, <3>1
    <3>3. j - 1 \in 1 .. Len(s_authChannel') /\ (j - 1) + 1 = j
      BY <2>1, <3>1
    <3>4. s_authChannel'[j - 1].kind = "internal"
      BY <2>1, <3>1, <3>3
    <3>5. QED
      BY <2>3, <2>4, <3>2, <3>4
  <2>5. ASSUME NEW i \in 1 .. Len(s_authChannel'), s_authChannel'[i].kind = "save"
        PROVE  Safe' \subseteq s_authChannel'[i].blob \/ Open' \/ SaveBehind(i)'
    <3>1. Safe \subseteq s_authChannel[i + 1].blob \/ Open \/ SaveBehind(i + 1)
      BY <2>1, <2>5
    <3>2. QED
      BY <2>1, <2>3, <2>4, <3>1
  <2>6. ASSUME NEW i \in 1 .. Len(s_authChannel'), s_authChannel'[i].kind = "internal"
        PROVE  /\ Safe' \subseteq s_authChannel'[i].blob
               /\ phase' = "hook" => Pending' \subseteq s_authChannel'[i].blob
    <3>1. i + 1 \in 1 .. Len(s_authChannel) /\ s_authChannel[i + 1].kind = "internal"
      BY <2>1, <2>6
    <3>2. /\ Safe \subseteq s_authChannel[i + 1].blob
          /\ phase = "hook" => Pending \subseteq s_authChannel[i + 1].blob
      BY <3>1
    <3>3. QED
      BY <2>1, <2>3, <3>2
  <2>7. /\ Safe' \subseteq vault'
        /\ phase' \notin {"none", "fetch"} => Safe' \subseteq m_localState'
        /\ phase' = "hook" => Pending' \subseteq m_localState' /\ (answered' => Pending' \subseteq vault')
    BY <2>3
  <2> HIDE DEF Open, SaveBehind, ShutdownSent
  <2>8. QED
    BY <2>5, <2>6, <2>7
<1>20. CASE GameServer_UpdateVaultSDL_reply
  BY <1>20 DEF GameServer_UpdateVaultSDL_reply
<1>21. CASE v_update_node
  <2>1. /\ Len(s_authChannel) \in Nat /\ Len(s_authChannel') = Len(s_authChannel) - 1
        /\ \A i \in 1 .. Len(s_authChannel') :
               s_authChannel'[i] = s_authChannel[i + 1] /\ i + 1 \in 1 .. Len(s_authChannel)
    BY <1>21, ServeFacts DEF v_update_node
  <2>2. \A i \in 1 .. Len(s_authChannel) : ~Open /\ ~SaveBehind(i)
    BY <1>21 DEF v_update_node
  <2>3. Head(s_authChannel) = s_authChannel[1] /\ 1 \in 1 .. Len(s_authChannel)
    BY <1>21, FirstMessages DEF v_update_node
  <2>4. Safe' \subseteq vault'
    BY <1>21, <2>2, <2>3 DEF v_update_node
  <2>5. QED
    BY <1>21, <2>1, <2>2, <2>4 DEF v_update_node
<1>22. CASE v_update_node_internal
  <2>1. /\ Len(s_authChannel) \in Nat /\ Len(s_authChannel') = Len(s_authChannel) - 1
        /\ \A i \in 1 .. Len(s_authChannel') :
               s_authChannel'[i] = s_authChannel[i + 1] /\ i + 1 \in 1 .. Len(s_authChannel)
    BY <1>22, ServeFacts DEF v_update_node_internal
  <2>2. Head(s_authChannel) = s_authChannel[1] /\ 1 \in 1 .. Len(s_authChannel)
    BY <1>22, FirstMessages DEF v_update_node_internal
  <2>3. Safe' \subseteq vault' /\ (phase = "hook" => Pending' \subseteq vault')
    BY <1>22, <2>2 DEF v_update_node_internal
  <2>4. \A i \in 1 .. Len(s_authChannel') : s_authChannel'[i].kind # "internal"
    BY <1>22, <2>1, <2>2 DEF v_update_node_internal
  <2>5. Open' = Open
    BY <1>22 DEF v_update_node_internal
  <2>6. \A i \in 1 .. Len(s_authChannel') : ~SaveBehind(i + 1)
    BY <1>22, <2>1, <2>2 DEF v_update_node_internal
  <2>7. QED
    BY <1>22, <2>1, <2>3, <2>4, <2>5, <2>6 DEF v_update_node_internal
<1>23. CASE dm_auth_fetchSDL
  BY <1>23 DEF dm_auth_fetchSDL
<1>24. CASE dm_auth_fetchSDL_null
  BY <1>24 DEF dm_auth_fetchSDL_null
<1>24a. CASE start_game_host_unparsed
  BY <1>24a DEF start_game_host_unparsed
<1>25. CASE dm_auth_updateAgeSrv
  BY <1>25 DEF dm_auth_updateAgeSrv
<1>26. CASE UNCHANGED vars
  BY <1>26 DEF vars
<1>27. QED
  BY <1>1, <1>2, <1>3, <1>4, <1>5, <1>6, <1>7, <1>8, <1>9, <1>10, <1>11, <1>12, <1>13,
     <1>14, <1>15, <1>16, <1>17, <1>18, <1>19, <1>20, <1>21, <1>22, <1>23, <1>24, <1>24a, <1>25,
     <1>26
     DEF Next, dm_gameHost, dm_authDaemon

\* No host, empty queues.
LEMMA InitIInv == Init => IInv
<1> SUFFICES ASSUME Init
             PROVE  IInv
  OBVIOUS
<1> USE DEF Init
<1>1. s_authChannel \in Seq(AuthRequests) /\ m_channel \in Seq(HostRequests)
  OBVIOUS
<1>2. vpc \in [VaultUpdates -> {"new", "wait", "acked", "refused"}] /\ lives \in 0 .. MaxLives
  BY LivesAssumption
<1>3. TypeOK
  BY <1>1, <1>2 DEF TypeOK, Phases
<1>4. MessageInv /\ HostWaits /\ ClientWaits
  BY DEF MessageInv, HostWaits, ClientWaits
<1>5. RegistryInv
  BY DEF RegistryInv, Alone
<1>6. ShutdownInv /\ SavedInv
  BY DEF ShutdownInv, ShutdownSent, SavedInv, Safe
<1>7. QED
  BY <1>3, <1>4, <1>5, <1>6 DEF IInv

\* The inductive invariant holds in every reachable state, whatever the updates,
\* the faults and the number of hosts.
THEOREM InductiveInvariant == Spec => []IInv
<1>1. IInv /\ [Next]_vars => IInv'
  BY TypeStep, MessageStep, RegistryStep, HostWaitsStep, ClientWaitsStep, ShutdownStep, SavedStep
     DEF IInv
<1>2. QED
  BY InitIInv, <1>1, PTL DEF Spec

\* The queues and the members of the two threads keep their types.
THEOREM TypeCorrect == Spec => []TypeOK
<1>1. IInv => TypeOK
  BY DEF IInv
<1>2. QED
  BY <1>1, InductiveInvariant, PTL

\* An AgeSDLHook update that the host has acknowledged is in the vault and stays
\* there: no save of a client, older or newer, and no later host takes it away, but
\* for a fetch or a save of the host that itself failed
\* (GameHost.cpp:461-466, 746-784, 911-933; AuthDaemon.cpp:925-941, 1095-1113).
THEOREM AcknowledgedIsSaved == Spec => []HookAckedIsSaved
<1>1. IInv => HookAckedIsSaved
  BY DEF IInv, SavedInv, HookAckedIsSaved
<1>2. QED
  BY <1>1, InductiveInvariant, PTL
=============================================================================

--------------------------- MODULE GameHostProofs ---------------------------
(***************************************************************************)
(* Proofs about GameHost, for any number of connections, players, hosts and   *)
(* objects.                                                                    *)
(*                                                                             *)
(* BaseInv is inductive by itself.  Its core is RequestInv: a worker that      *)
(* waits has its one message in its host's queue, or with the host thread, or  *)
(* its answer in its channel.  So whoever is served is waiting, in the place   *)
(* the kind of the message says, and what it was when it sent the message it   *)
(* still is.  MemberInv and MasterInv rest on that.                            *)
(*                                                                             *)
(* The host keeps its members, its locks and its game master by player id.      *)
(* LockInv and AdmissionInv say what that means for a connection that shares    *)
(* its player with no other connection of the host, and who else is on record;  *)
(* with BaseInv they are HostInv, which holds whoever the players are.  OwnerInv *)
(* and the scene are right only when no two connections have the same player.   *)
(*                                                                             *)
(* The scene that a host shows to its members: SceneComplete and NoLeftovers,   *)
(* from SceneInv.  Before the member list is sent a client may miss what the    *)
(* others loaded, after it Propagate reaches it: AvatarsInv and ClonesInv say   *)
(* so for every member.  GoneInv covers a leaving client from the moment its    *)
(* disconnect is handled, which is before it is gone.  A client that was        *)
(* refused is in its loop and in no map: it sends what it likes, the members    *)
(* are told, and nothing is claimed of what it is told itself.                  *)
(***************************************************************************)
EXTENDS GameHost, QueueLemmas, FiniteSetTheorems, TLAPS

\* Where a worker is before it becomes a member.
Early == {"out", "starting", "found", "joining", "replied"}

\* A worker has a host pointer once find_game_host has returned one; a host that
\* does not exist yet has nothing and is known to nobody.
PointerInv ==
    /\ \A c \in Conns : wpc[c] \in {"out", "starting"} <=> m_host[c] = NoHost
    /\ \A h \in Hosts : hstate[h] = "none" =>
           /\ \A c \in Conns : m_host[c] # h
           /\ s_gameHosts # h
           /\ queue[h] = <<>> /\ hpc[h] = NoConn

\* Where the sender of a message waits for its answer.
PhaseOf(kind) ==
    CASE kind = "join" -> "joining"
      [] kind = "disconnect" -> "leaving"
      [] OTHER -> "asking"

\* The message at position i of h's queue is the one message of a worker that
\* waits for it, or the host's own.
Sound(h, i) ==
    /\ queue[h][i].kind = "shutdown" <=> queue[h][i].conn = NoConn
    /\ queue[h][i].kind # "shutdown" =>
          /\ m_host[queue[h][i].conn] = h
          /\ m_channel[queue[h][i].conn] = <<>>
          /\ hpc[h] # queue[h][i].conn
          /\ wpc[queue[h][i].conn] = PhaseOf(queue[h][i].kind)
          /\ \A j \in 1 .. Len(queue[h]) : queue[h][j].conn = queue[h][i].conn => i = j

QueueInv == \A h \in Hosts : \A i \in 1 .. Len(queue[h]) : Sound(h, i)

\* So is the disconnect that a host is handling.
DeferredInv ==
    \A h \in Hosts : hpc[h] # NoConn =>
        m_host[hpc[h]] = h /\ wpc[hpc[h]] = "leaving" /\ m_channel[hpc[h]] = <<>>

\* A worker has an answer only while it waits, and while it waits it has an answer,
\* or its message is with its host.
ReplyInv ==
    \A c \in Conns :
        /\ m_channel[c] # <<>> => Waiting(c) /\ Len(m_channel[c]) = 1
        /\ Waiting(c) =>
              \/ m_channel[c] # <<>>
              \/ hpc[m_host[c]] = c
              \/ \E i \in 1 .. Len(queue[m_host[c]]) : queue[m_host[c]][i].conn = c

RequestInv == QueueInv /\ DeferredInv /\ ReplyInv

\* The member map has a worker of the player and of the host, in its loop.
MemberInv ==
    \A h \in Hosts : \A p \in Players : m_clients[h][p] # NoConn =>
        /\ PlayerOf[m_clients[h][p]] = p
        /\ m_host[m_clients[h][p]] = h
        /\ \/ wpc[m_clients[h][p]] \in {"idle", "asking"}
           \/ wpc[m_clients[h][p]] = "undefined" /\ hstate[h] = "deleted"

\* Who was told that it owns the objects had its join answered; the game master is
\* one of them.
MasterInv ==
    /\ \A c \in owns : /\ wpc[c] \notin {"out", "starting", "found"}
                       /\ wpc[c] = "joining" => m_channel[c] # <<>>
    /\ \A h \in Hosts : m_gameMaster[h] # NoPlayer =>
           \E c \in owns : m_host[c] = h /\ PlayerOf[c] = m_gameMaster[h]

\* What the messages, the member map and the game master rest on.
BaseInv == TypeOK /\ PointerInv /\ RequestInv /\ MemberInv /\ MasterInv

\* What a client was affirmed is locked for its player, unless another connection of
\* the player can have freed it, and whoever is on record was affirmed the object.
LockInv ==
    /\ \A c \in Conns : holds[c] # {} => wpc[c] \notin Early
    /\ \A c \in Conns : Alone(c) => \A o \in holds[c] : m_locks[m_host[c]][o] = PlayerOf[c]
    /\ \A h \in Hosts : \A o \in Objects : m_locks[h][o] # NoPlayer =>
           \E c \in Conns : m_host[c] = h /\ PlayerOf[c] = m_locks[h][o] /\ o \in holds[c]

\* An admitted worker in its loop is in the member map, unless another connection of
\* its player can have taken its place; a host that left the mutex locked stays up.
AdmissionInv ==
    /\ \A c \in admitted : wpc[c] \notin Early \ {"replied"}
    /\ \A c \in admitted : (Alone(c) /\ wpc[c] \in {"idle", "asking"}) =>
           m_clients[m_host[c]][PlayerOf[c]] = c
    /\ \A h \in Hosts : jammed[h] => hstate[h] = "up"
    /\ OnlyOutsidersJam

\* What holds whoever the players are.
HostInv == BaseInv /\ LockInv /\ AdmissionInv

\* Every connection has a player of its own: the auth daemon lets a player in on
\* one connection at a time (OneSessionPerPlayer of AuthSession), and the client
\* does not come back to the same age before its old worker has ended.
OnePlayerEach == \A c, d \in Conns : PlayerOf[c] = PlayerOf[d] => c = d

\* Nobody but the game master was told that it owns the objects.
OwnerInv == \A c \in owns : m_gameMaster[m_host[c]] = PlayerOf[c]

\* What holds when every connection has a player of its own.
KeyedInv == HostInv /\ OwnerInv

\* Every queued message is one, and comes from a worker or from nobody.
LEMMA QueuedType ==
    ASSUME TypeOK, NEW h \in Hosts
    PROVE  /\ Len(queue[h]) \in Nat
           /\ \A i \in 1 .. Len(queue[h]) :
                  queue[h][i] \in Messages /\ queue[h][i].conn \in Conns \cup {NoConn}
<1>1. queue[h] \in Seq(Messages)
  BY DEF TypeOK
<1>2. \A i \in 1 .. Len(queue[h]) : queue[h][i] \in Messages
  BY <1>1
<1>3. QED
  BY <1>1, <1>2 DEF Messages

\* A worker past cb_join's lookup has a host.
LEMMA HasHost ==
    ASSUME TypeOK, PointerInv, NEW c \in Conns, wpc[c] \notin {"out", "starting"}
    PROVE  m_host[c] \in Hosts
<1>1. m_host[c] # NoHost
  BY DEF PointerInv
<1>2. m_host[c] \in Hosts \cup {NoHost}
  BY DEF TypeOK
<1>3. QED
  BY <1>1, <1>2

\* The message a host thread handles, and the worker that waits for it.
LEMMA ServingFacts ==
    ASSUME BaseInv, NEW h \in Hosts, NEW k \in Kinds, Serving(h, k)
    PROVE  /\ hstate[h] = "up" /\ hpc[h] = NoConn
           /\ Head(queue[h]) = queue[h][1] /\ 1 \in 1 .. Len(queue[h]) /\ Len(queue[h]) \in Nat
           /\ Head(queue[h]).kind = k /\ Head(queue[h]).obj \in Objects
           /\ Tail(queue[h]) \in Seq(Messages) /\ Len(Tail(queue[h])) = Len(queue[h]) - 1
           /\ \A i \in 1 .. Len(Tail(queue[h])) :
                  Tail(queue[h])[i] = queue[h][i + 1] /\ i + 1 \in 1 .. Len(queue[h])
           /\ k # "shutdown" =>
                  /\ Head(queue[h]).conn \in Conns
                  /\ m_host[Head(queue[h]).conn] = h
                  /\ m_channel[Head(queue[h]).conn] = <<>>
                  /\ wpc[Head(queue[h]).conn] = PhaseOf(k)
                  /\ \A i \in 1 .. Len(Tail(queue[h])) : Tail(queue[h])[i].conn # Head(queue[h]).conn
<1>1. queue[h] \in Seq(Messages) /\ queue[h] # <<>>
  BY DEF BaseInv, TypeOK, Serving
<1>2. /\ Head(queue[h]) = queue[h][1] /\ 1 \in 1 .. Len(queue[h]) /\ Head(queue[h]) \in Messages
      /\ Tail(queue[h]) \in Seq(Messages)
  BY <1>1, HeadFacts
<1>3. /\ Len(queue[h]) \in Nat /\ Len(Tail(queue[h])) = Len(queue[h]) - 1
      /\ \A i \in 1 .. Len(Tail(queue[h])) :
             Tail(queue[h])[i] = queue[h][i + 1] /\ i + 1 \in 1 .. Len(queue[h])
  BY <1>1
<1>4. hstate[h] = "up" /\ hpc[h] = NoConn /\ Head(queue[h]).kind = k
  BY DEF Serving
<1>5. Head(queue[h]).obj \in Objects /\ Head(queue[h]).conn \in Conns \cup {NoConn}
  BY <1>2 DEF Messages
<1>6. ASSUME k # "shutdown"
      PROVE  /\ Head(queue[h]).conn \in Conns
             /\ m_host[Head(queue[h]).conn] = h
             /\ m_channel[Head(queue[h]).conn] = <<>>
             /\ wpc[Head(queue[h]).conn] = PhaseOf(k)
             /\ \A i \in 1 .. Len(Tail(queue[h])) : Tail(queue[h])[i].conn # Head(queue[h]).conn
  <2>1. queue[h][1].kind = k /\ queue[h][1].conn # NoConn
    BY <1>2, <1>4, <1>6 DEF BaseInv, RequestInv, QueueInv, Sound
  <2>2. /\ m_host[queue[h][1].conn] = h /\ m_channel[queue[h][1].conn] = <<>>
        /\ wpc[queue[h][1].conn] = PhaseOf(k)
        /\ \A j \in 1 .. Len(queue[h]) : queue[h][j].conn = queue[h][1].conn => 1 = j
    BY <1>2, <1>6, <2>1 DEF BaseInv, RequestInv, QueueInv, Sound
  <2>3. QED
    BY <1>2, <1>3, <1>5, <2>1, <2>2
<1>7. QED
  BY <1>2, <1>3, <1>4, <1>5, <1>6

\* The messages workers and hosts send.
LEMMA MessageType ==
    ASSUME NEW k \in Kinds, NEW c \in Conns \cup {NoConn}, NEW o \in Objects
    PROVE  /\ Message(k, c, o) \in Messages
           /\ Message(k, c, o).kind = k /\ Message(k, c, o).conn = c
           /\ AnyObject \in Objects
  BY ObjectsAssumption DEF Message, Messages, AnyObject

\* What a client can be shown, and who the members are.
LEMMA ShownType ==
    /\ \A c \in Conns : Avatar(c) \in Shown /\ Sdl(c) \in Shown
    /\ \A o \in Objects : Clone(o) \in Shown
  BY DEF Shown

\* Members are connections.
LEMMA MembersType ==
    ASSUME TypeOK, NEW h \in Hosts
    PROVE  Members(h) \subseteq Conns
  BY DEF TypeOK, Members

\* Propagate keeps to what can be shown.
LEMMA PropagateType ==
    ASSUME sees \in [Conns -> SUBSET Shown], NEW h \in Hosts, NEW c \in Conns,
           NEW load \in SUBSET Shown, NEW unload, Propagate(h, c, load, unload)
    PROVE  sees' \in [Conns -> SUBSET Shown]
  BY DEF Propagate

\* Every step keeps the variables in their types.
LEMMA TypeStep ==
    ASSUME BaseInv, [Next]_vars
    PROVE  TypeOK'
<1> USE PlayerOfAssumption, NullAssumption DEF BaseInv, TypeOK, workerVars, hostVars,
        ghostVars, sceneVars, Put, HostExists, Serving, Reply, Dequeue
<1>1. ASSUME NEW c \in Conns, cb_join(c)
      PROVE  TypeOK'
  BY <1>1 DEF cb_join
<1>2. ASSUME NEW c \in Conns, start_game_host(c)
      PROVE  TypeOK'
  BY <1>2 DEF start_game_host
<1>3. ASSUME NEW c \in Conns, start_game_host_fails(c)
      PROVE  TypeOK'
  BY <1>3 DEF start_game_host_fails
<1>3a. ASSUME NEW c \in Conns, start_game_host_orphan(c)
       PROVE  TypeOK'
  BY <1>3a DEF start_game_host_orphan
<1>4. ASSUME NEW c \in Conns, PutJoin(c)
      PROVE  TypeOK'
  <2>1. Message("join", c, AnyObject) \in Messages
    BY MessageType, ObjectsAssumption DEF Kinds, AnyObject
  <2>2. queue' \in [Hosts -> Seq(Messages)]
    BY <1>4, <2>1 DEF PutJoin
  <2>3. QED
    BY <1>4, <2>2 DEF PutJoin
<1>5. ASSUME NEW c \in Conns, VaultRefuses(c)
      PROVE  TypeOK'
  BY <1>5 DEF VaultRefuses
<1>6. ASSUME NEW c \in Conns, GetJoinReply(c)
      PROVE  TypeOK'
  BY <1>6 DEF GetJoinReply
<1>7. ASSUME NEW c \in Conns, Insert(c)
      PROVE  TypeOK'
  BY <1>7 DEF Insert
<1>8. ASSUME NEW c \in Conns, GetReply(c)
      PROVE  TypeOK'
  BY <1>8 DEF GetReply
<1>9. ASSUME NEW c \in Conns, PutDisconnect(c)
      PROVE  TypeOK'
  <2>1. Message("disconnect", c, AnyObject) \in Messages
    BY MessageType, ObjectsAssumption DEF Kinds, AnyObject
  <2>2. queue' \in [Hosts -> Seq(Messages)]
    BY <1>9, <2>1 DEF PutDisconnect
  <2>3. QED
    BY <1>9, <2>2 DEF PutDisconnect
<1>10. ASSUME NEW c \in Conns, GetDisconnectReply(c)
       PROVE  TypeOK'
  BY <1>10 DEF GetDisconnectReply
<1>11. ASSUME NEW c \in Conns, UseDeletedHost(c)
       PROVE  TypeOK'
  BY <1>11 DEF UseDeletedHost
<1>12. ASSUME NEW c \in Conns, NEW k \in GameMessages, NEW o \in Objects, cb_netmsg(c, k, o)
       PROVE  TypeOK'
  <2>1. Message(k, c, o) \in Messages
    BY MessageType, ObjectsAssumption DEF Kinds, AnyObject
  <2>2. queue' \in [Hosts -> Seq(Messages)]
    BY <1>12, <2>1 DEF cb_netmsg
  <2>3. QED
    BY <1>12, <2>2 DEF cb_netmsg
<1>13. ASSUME NEW c \in Conns, Erase(c)
       PROVE  TypeOK'
  BY <1>13 DEF Erase
<1>14. ASSUME NEW h \in Hosts, dm_game_join(h)
       PROVE  TypeOK'
  <2>1. /\ Head(queue[h]).conn \in Conns /\ Head(queue[h]).obj \in Objects
        /\ Tail(queue[h]) \in Seq(Messages)
    <3>1. \E k \in Kinds : k # "shutdown" /\ Serving(h, k)
      BY <1>14 DEF dm_game_join, Kinds, GameMessages, CloneMessages
    <3>2. QED
      BY <3>1, ServingFacts
  <2>2. queue' \in [Hosts -> Seq(Messages)] /\ m_channel' \in [Conns -> Seq({"success", "failure"})]
    BY <1>14, <2>1 DEF dm_game_join
  <2>3. QED
    BY <1>14, <2>1, <2>2 DEF dm_game_join, Members
<1>15. ASSUME NEW h \in Hosts, dm_game_join_refused(h)
       PROVE  TypeOK'
  <2>1. /\ Head(queue[h]).conn \in Conns /\ Head(queue[h]).obj \in Objects
        /\ Tail(queue[h]) \in Seq(Messages)
    <3>1. \E k \in Kinds : k # "shutdown" /\ Serving(h, k)
      BY <1>15 DEF dm_game_join_refused, Kinds, GameMessages, CloneMessages
    <3>2. QED
      BY <3>1, ServingFacts
  <2>2. queue' \in [Hosts -> Seq(Messages)] /\ m_channel' \in [Conns -> Seq({"success", "failure"})]
    BY <1>15, <2>1 DEF dm_game_join_refused
  <2>3. QED
    BY <1>15, <2>1, <2>2 DEF dm_game_join_refused, Members
<1>16. ASSUME NEW h \in Hosts, dm_test_and_set_lock(h)
       PROVE  TypeOK'
  <2>1. /\ Head(queue[h]).conn \in Conns /\ Head(queue[h]).obj \in Objects
        /\ Tail(queue[h]) \in Seq(Messages)
    <3>1. \E k \in Kinds : k # "shutdown" /\ Serving(h, k)
      BY <1>16 DEF dm_test_and_set_lock, Kinds, GameMessages, CloneMessages
    <3>2. QED
      BY <3>1, ServingFacts
  <2>2. queue' \in [Hosts -> Seq(Messages)] /\ m_channel' \in [Conns -> Seq({"success", "failure"})]
    BY <1>16, <2>1 DEF dm_test_and_set_lock
  <2>3. QED
    BY <1>16, <2>1, <2>2 DEF dm_test_and_set_lock, Members
<1>17. ASSUME NEW h \in Hosts, dm_test_and_set_unlock(h)
       PROVE  TypeOK'
  <2>1. /\ Head(queue[h]).conn \in Conns /\ Head(queue[h]).obj \in Objects
        /\ Tail(queue[h]) \in Seq(Messages)
    <3>1. \E k \in Kinds : k # "shutdown" /\ Serving(h, k)
      BY <1>17 DEF dm_test_and_set_unlock, Kinds, GameMessages, CloneMessages
    <3>2. QED
      BY <3>1, ServingFacts
  <2>2. queue' \in [Hosts -> Seq(Messages)] /\ m_channel' \in [Conns -> Seq({"success", "failure"})]
    BY <1>17, <2>1 DEF dm_test_and_set_unlock
  <2>3. QED
    BY <1>17, <2>1, <2>2 DEF dm_test_and_set_unlock, Members
<1>18. ASSUME NEW h \in Hosts, dm_send_members(h)
       PROVE  TypeOK'
  <2>1. /\ Head(queue[h]).conn \in Conns /\ Head(queue[h]).obj \in Objects
        /\ Tail(queue[h]) \in Seq(Messages)
    <3>1. \E k \in Kinds : k # "shutdown" /\ Serving(h, k)
      BY <1>18 DEF dm_send_members, Kinds, GameMessages, CloneMessages
    <3>2. QED
      BY <3>1, ServingFacts
  <2>2. queue' \in [Hosts -> Seq(Messages)] /\ m_channel' \in [Conns -> Seq({"success", "failure"})]
    BY <1>18, <2>1 DEF dm_send_members
  <2>3. sees' \in [Conns -> SUBSET Shown]
    <3>1. /\ {Clone(x) : x \in m_clones[h]} \subseteq Shown
          /\ \A ds \in SUBSET Conns : {Avatar(d) : d \in ds} \subseteq Shown
      BY ShownType
    <3> HIDE DEF Avatar, Clone, Shown
    <3>2. {d \in Members(h) : PlayerOf[d] # PlayerOf[Head(queue[h]).conn] /\ avatar[d] # "null"}
             \in SUBSET Conns
      BY MembersType
    <3>3. QED
      BY <1>18, <2>1, <3>1, <3>2 DEF dm_send_members
  <2>4. QED
    BY <1>18, <2>1, <2>2, <2>3 DEF dm_send_members
<1>19. ASSUME NEW h \in Hosts, NEW load \in BOOLEAN, dm_load_clone_player(h, load)
       PROVE  TypeOK'
  <2>1. /\ Head(queue[h]).conn \in Conns /\ Head(queue[h]).obj \in Objects
        /\ Tail(queue[h]) \in Seq(Messages)
    <3>1. \E k \in Kinds : k # "shutdown" /\ Serving(h, k)
      BY <1>19 DEF dm_load_clone_player, Kinds, GameMessages, CloneMessages
    <3>2. QED
      BY <3>1, ServingFacts
  <2>2. queue' \in [Hosts -> Seq(Messages)] /\ m_channel' \in [Conns -> Seq({"success", "failure"})]
    BY <1>19, <2>1 DEF dm_load_clone_player
  <2>3. sees' \in [Conns -> SUBSET Shown]
    <3>1. {Avatar(Head(queue[h]).conn)} \in SUBSET Shown /\ {} \in SUBSET Shown
      BY <2>1, ShownType
    <3>2. \/ Propagate(h, Head(queue[h]).conn, {Avatar(Head(queue[h]).conn)}, {})
          \/ Propagate(h, Head(queue[h]).conn, {}, {Avatar(Head(queue[h]).conn), Sdl(Head(queue[h]).conn)})
      BY <1>19 DEF dm_load_clone_player
    <3>3. QED
      BY <2>1, <3>1, <3>2, PropagateType
  <2>4. QED
    BY <1>19, <2>1, <2>2, <2>3 DEF dm_load_clone_player
<1>20. ASSUME NEW h \in Hosts, NEW load \in BOOLEAN, dm_load_clone(h, load)
       PROVE  TypeOK'
  <2>1. /\ Head(queue[h]).conn \in Conns /\ Head(queue[h]).obj \in Objects
        /\ Tail(queue[h]) \in Seq(Messages)
    <3>1. \E k \in Kinds : k # "shutdown" /\ Serving(h, k)
      BY <1>20 DEF dm_load_clone, Kinds, GameMessages, CloneMessages
    <3>2. QED
      BY <3>1, ServingFacts
  <2>2. queue' \in [Hosts -> Seq(Messages)] /\ m_channel' \in [Conns -> Seq({"success", "failure"})]
    BY <1>20, <2>1 DEF dm_load_clone
  <2>3. sees' \in [Conns -> SUBSET Shown]
    <3>1. Clone(Head(queue[h]).obj) \in Shown
      BY <2>1, ShownType
    <3>2. QED
      BY <1>20, <3>1 DEF dm_load_clone
  <2>4. QED
    BY <1>20, <2>1, <2>2, <2>3 DEF dm_load_clone
<1>21. ASSUME NEW h \in Hosts, NEW bcast \in BOOLEAN, dm_read_sdl(h, bcast)
       PROVE  TypeOK'
  <2>1. /\ Head(queue[h]).conn \in Conns /\ Head(queue[h]).obj \in Objects
        /\ Tail(queue[h]) \in Seq(Messages)
    <3>1. \E k \in Kinds : k # "shutdown" /\ Serving(h, k)
      BY <1>21 DEF dm_read_sdl, Kinds, GameMessages, CloneMessages
    <3>2. QED
      BY <3>1, ServingFacts
  <2>2. queue' \in [Hosts -> Seq(Messages)] /\ m_channel' \in [Conns -> Seq({"success", "failure"})]
    BY <1>21, <2>1 DEF dm_read_sdl
  <2>3. sees' \in [Conns -> SUBSET Shown]
    <3>1. Sdl(Head(queue[h]).conn) \in Shown
      BY <2>1, ShownType
    <3>2. Propagate(h, Head(queue[h]).conn, {Sdl(Head(queue[h]).conn)}, {}) \/ UNCHANGED sees
      BY <1>21 DEF dm_read_sdl
    <3>3. QED
      BY <2>1, <3>1, <3>2, PropagateType
  <2>4. QED
    BY <1>21, <2>1, <2>2, <2>3 DEF dm_read_sdl
<1>22. ASSUME NEW h \in Hosts, dm_send_state(h)
       PROVE  TypeOK'
  <2>1. /\ Head(queue[h]).conn \in Conns /\ Head(queue[h]).obj \in Objects
        /\ Tail(queue[h]) \in Seq(Messages)
    <3>1. \E k \in Kinds : k # "shutdown" /\ Serving(h, k)
      BY <1>22 DEF dm_send_state, Kinds, GameMessages, CloneMessages
    <3>2. QED
      BY <3>1, ServingFacts
  <2>2. queue' \in [Hosts -> Seq(Messages)] /\ m_channel' \in [Conns -> Seq({"success", "failure"})]
    BY <1>22, <2>1 DEF dm_send_state
  <2>3. sees' \in [Conns -> SUBSET Shown]
    <3>1. {Sdl(d) : d \in m_states[h]} \subseteq Shown
      BY ShownType
    <3>2. QED
      BY <1>22, <2>1, <3>1 DEF dm_send_state
  <2>4. QED
    BY <1>22, <2>1, <2>2, <2>3 DEF dm_send_state
<1>23. ASSUME NEW h \in Hosts, dm_game_message(h)
       PROVE  TypeOK'
  <2>1. /\ Head(queue[h]).conn \in Conns /\ Head(queue[h]).obj \in Objects
        /\ Tail(queue[h]) \in Seq(Messages)
    <3>1. \E k \in Kinds : k # "shutdown" /\ Serving(h, k)
      BY <1>23 DEF dm_game_message, Kinds, GameMessages, CloneMessages
    <3>2. QED
      BY <3>1, ServingFacts
  <2>2. queue' \in [Hosts -> Seq(Messages)] /\ m_channel' \in [Conns -> Seq({"success", "failure"})]
    BY <1>23, <2>1 DEF dm_game_message
  <2>3. QED
    BY <1>23, <2>1, <2>2 DEF dm_game_message, Members
<1>24. ASSUME NEW h \in Hosts, dm_game_disconnect(h)
       PROVE  TypeOK'
  <2> DEFINE c == Head(queue[h]).conn
  <2>1. c \in Conns /\ Tail(queue[h]) \in Seq(Messages)
    BY <1>24, ServingFacts DEF dm_game_disconnect, Kinds
  <2>2. queue' \in [Hosts -> Seq(Messages)] /\ hpc' \in [Hosts -> Conns \cup {NoConn}]
    BY <1>24, <2>1 DEF dm_game_disconnect
  <2>3. sees' \in [Conns -> SUBSET Shown]
    <3>1. {Avatar(c), Sdl(c)} \subseteq Shown /\ {} \in SUBSET Shown
      BY <2>1, ShownType
    <3>2. UNCHANGED sees \/ Propagate(h, c, {}, {Avatar(c), Sdl(c)})
      BY <1>24 DEF dm_game_disconnect
    <3> HIDE DEF c
    <3>3. QED
      BY <2>1, <3>1, <3>2, PropagateType
  <2>4. m_states' \in [Hosts -> SUBSET Conns]
    <3>1. m_states' = m_states \/ m_states' = [m_states EXCEPT ![h] = m_states[h] \ {c}]
      BY <1>24 DEF dm_game_disconnect
    <3>2. m_states[h] \ {c} \in SUBSET Conns
      OBVIOUS
    <3> HIDE DEF c
    <3>3. QED
      BY <3>1, <3>2
  <2>5. /\ m_locks' \in [Hosts -> [Objects -> Players \cup {NoPlayer}]]
        /\ holds' \in [Conns -> SUBSET Objects]
    BY <1>24, <2>1 DEF dm_game_disconnect
  <2>6. PICK new \in IF Members(h) = {} THEN {NoConn} ELSE Members(h) :
          IF m_gameMaster[h] # PlayerOf[c]
          THEN owns' = owns \ {c} /\ UNCHANGED m_gameMaster
          ELSE /\ m_gameMaster' = [m_gameMaster EXCEPT ![h] =
                      IF new = NoConn THEN NoPlayer ELSE PlayerOf[new]]
               /\ owns' = (owns \ {c}) \cup ({new} \ {NoConn})
    BY <1>24 DEF dm_game_disconnect
  <2>7. new \in Conns \cup {NoConn}
    BY <2>6, MembersType
  <2>8. m_gameMaster' \in [Hosts -> Players \cup {NoPlayer}] /\ owns' \subseteq Conns
    <3>1. CASE m_gameMaster[h] # PlayerOf[c]
      BY <2>6, <3>1
    <3>2. CASE m_gameMaster[h] = PlayerOf[c]
      <4>1. /\ m_gameMaster' = [m_gameMaster EXCEPT ![h] =
                    IF new = NoConn THEN NoPlayer ELSE PlayerOf[new]]
            /\ owns' = (owns \ {c}) \cup ({new} \ {NoConn})
        BY <2>6, <3>2
      <4>2. (IF new = NoConn THEN NoPlayer ELSE PlayerOf[new]) \in Players \cup {NoPlayer}
        BY <2>7
      <4>3. QED
        BY <2>7, <4>1, <4>2
    <3>3. QED
      BY <3>1, <3>2
  <2>9. QED
    BY <1>24, <2>2, <2>3, <2>4, <2>5, <2>8 DEF dm_game_disconnect
<1>25. ASSUME NEW h \in Hosts, dm_game_disconnect_finish(h)
       PROVE  TypeOK'
  <2>1. Message("shutdown", NoConn, AnyObject) \in Messages
    BY MessageType, ObjectsAssumption DEF Kinds, AnyObject
  <2>2. queue' \in [Hosts -> Seq(Messages)] /\ m_channel' \in [Conns -> Seq({"success", "failure"})]
    BY <1>25, <2>1 DEF dm_game_disconnect_finish
  <2>3. QED
    BY <1>25, <2>2 DEF dm_game_disconnect_finish
<1>26. ASSUME NEW h \in Hosts, dm_game_shutdown_close(h)
       PROVE  TypeOK'
  BY <1>26 DEF dm_game_shutdown_close
<1>27. ASSUME NEW h \in Hosts, dm_game_shutdown_delete(h)
       PROVE  TypeOK'
  BY <1>27 DEF dm_game_shutdown_delete
<1>28. CASE GameServer_Shutdown
  <2>1. Message("shutdown", NoConn, AnyObject) \in Messages
    BY MessageType, ObjectsAssumption DEF Kinds, AnyObject
  <2>2. queue' \in [Hosts -> Seq(Messages)]
    BY <1>28, <2>1 DEF GameServer_Shutdown
  <2>3. QED
    BY <1>28, <2>2 DEF GameServer_Shutdown
<1>29. CASE UNCHANGED vars
  BY <1>29 DEF vars, workerVars, hostVars, ghostVars, sceneVars
<1> HIDE DEF BaseInv, TypeOK
<1>30. QED
  BY <1>1, <1>2, <1>3, <1>3a, <1>4, <1>5, <1>6, <1>7, <1>8, <1>9, <1>10, <1>11, <1>12, <1>13,
     <1>14, <1>15, <1>16, <1>17, <1>18, <1>19, <1>20, <1>21, <1>22, <1>23, <1>24, <1>25,
     <1>26, <1>27, <1>28, <1>29
     DEF Next, WorkerProceeds, dm_gameHost


\* A host that answers a message leaves the accounts of messages and answers sound.
LEMMA AnswerKeeps ==
    ASSUME BaseInv, NEW h \in Hosts, NEW k \in Kinds \ {"shutdown"}, Serving(h, k),
           NEW c, c = Head(queue[h]).conn, NEW code \in {"success", "failure"},
           queue' = [queue EXCEPT ![h] = Tail(queue[h])],
           m_channel' = [m_channel EXCEPT ![c] = Append(m_channel[c], code)],
           UNCHANGED <<wpc, m_host, hpc>>
    PROVE  RequestInv'
<1>1. /\ hpc[h] = NoConn /\ 1 \in 1 .. Len(queue[h]) /\ Len(queue[h]) \in Nat
      /\ c \in Conns /\ m_host[c] = h /\ m_channel[c] = <<>> /\ wpc[c] = PhaseOf(k)
      /\ Len(Tail(queue[h])) = Len(queue[h]) - 1
      /\ \A i \in 1 .. Len(Tail(queue[h])) :
             /\ Tail(queue[h])[i] = queue[h][i + 1] /\ i + 1 \in 1 .. Len(queue[h])
             /\ Tail(queue[h])[i].conn # c
  BY ServingFacts
<1>2. queue'[h] = Tail(queue[h]) /\ \A g \in Hosts : g # h => queue'[g] = queue[g]
  BY DEF BaseInv, TypeOK
<1>3. m_channel'[c] # <<>> /\ Len(m_channel'[c]) = 1 /\ \A d \in Conns : d # c => m_channel'[d] = m_channel[d]
  BY <1>1 DEF BaseInv, TypeOK
<1>4. \A g \in Hosts : \A i \in 1 .. Len(queue'[g]) :
          queue'[g][i].conn \in Conns \cup {NoConn} /\ queue'[g][i].conn # c
  <2> SUFFICES ASSUME NEW g \in Hosts, NEW i \in 1 .. Len(queue'[g])
               PROVE  queue'[g][i].conn \in Conns \cup {NoConn} /\ queue'[g][i].conn # c
    OBVIOUS
  <2>1. \A x \in Hosts : \A j \in 1 .. Len(queue[x]) : queue[x][j].conn \in Conns \cup {NoConn}
    BY QueuedType DEF BaseInv
  <2>2. CASE g = h
    <3>1. i \in 1 .. Len(Tail(queue[h])) /\ queue'[g][i] = Tail(queue[h])[i]
      BY <1>2, <2>2
    <3>2. queue'[g][i] = queue[h][i + 1] /\ i + 1 \in 1 .. Len(queue[h]) /\ queue'[g][i].conn # c
      BY <1>1, <3>1
    <3>3. QED
      BY <2>1, <3>2
  <2>3. CASE g # h
    <3>1. queue'[g] = queue[g] /\ m_host[c] # g
      BY <1>1, <1>2, <2>3
    <3>2. Sound(g, i)
      BY <3>1 DEF BaseInv, RequestInv, QueueInv
    <3>3. QED
      BY <2>1, <3>1, <3>2, <1>1, NullAssumption DEF Sound
  <2>4. QED
    BY <2>2, <2>3
<1>5. QueueInv'
  <2> SUFFICES ASSUME NEW g \in Hosts, NEW i \in 1 .. Len(queue'[g])
               PROVE  Sound(g, i)'
    BY DEF QueueInv
  <2>1. queue'[g][i].conn \in Conns \cup {NoConn} /\ queue'[g][i].conn # c
    BY <1>4
  <2>2. CASE g = h
    <3>1. queue'[g][i] = queue[h][i + 1] /\ i + 1 \in 1 .. Len(queue[h]) /\ Sound(h, i + 1)
      BY <1>1, <1>2, <2>2 DEF BaseInv, RequestInv, QueueInv
    <3>2. \A j \in 1 .. Len(queue'[g]) : queue'[g][j] = queue[h][j + 1] /\ j + 1 \in 1 .. Len(queue[h])
      BY <1>1, <1>2, <2>2
    <3>3. QED
      BY <1>3, <2>1, <2>2, <3>1, <3>2 DEF Sound
  <2>3. CASE g # h
    <3>1. queue'[g] = queue[g] /\ Sound(g, i)
      BY <1>2, <2>3 DEF BaseInv, RequestInv, QueueInv
    <3>2. QED
      BY <1>3, <2>1, <3>1 DEF Sound
  <2>4. QED
    BY <2>2, <2>3
<1>6. DeferredInv'
  BY <1>1, <1>3, NullAssumption DEF BaseInv, TypeOK, PointerInv, RequestInv, DeferredInv
<1>7. Waiting(c)'
  BY <1>1 DEF Waiting, PhaseOf
<1>8. ReplyInv'
  <2> SUFFICES ASSUME NEW d \in Conns
               PROVE  /\ m_channel'[d] # <<>> => Waiting(d)' /\ Len(m_channel'[d]) = 1
                      /\ Waiting(d)' =>
                            \/ m_channel'[d] # <<>>
                            \/ hpc'[m_host'[d]] = d
                            \/ \E i \in 1 .. Len(queue'[m_host'[d]]) : queue'[m_host'[d]][i].conn = d
    BY DEF ReplyInv
  <2>1. CASE d = c
    BY <1>3, <1>7, <2>1
  <2>2. CASE d # c
    <3>1. m_channel'[d] = m_channel[d] /\ Waiting(d)' = Waiting(d)
      BY <1>3, <2>2 DEF Waiting
    <3>2. ASSUME Waiting(d), m_channel[d] = <<>>, hpc[m_host[d]] # d
          PROVE  \E i \in 1 .. Len(queue'[m_host[d]]) : queue'[m_host[d]][i].conn = d
      <4>1. PICK i \in 1 .. Len(queue[m_host[d]]) : queue[m_host[d]][i].conn = d
        BY <3>2 DEF BaseInv, RequestInv, ReplyInv
      <4>2. m_host[d] \in Hosts
        BY <3>2, HasHost DEF Waiting, BaseInv
      <4>3. CASE m_host[d] = h
        <5>1. i # 1
          BY <2>2, <4>1, <4>3, ServingFacts
        <5>2. i - 1 \in 1 .. Len(queue'[h]) /\ queue'[h][i - 1] = queue[h][i]
          <6>1. i - 1 \in 1 .. Len(Tail(queue[h])) /\ (i - 1) + 1 = i
            BY <1>1, <4>1, <4>3, <5>1
          <6>2. Tail(queue[h])[i - 1] = queue[h][(i - 1) + 1]
            BY <1>1, <6>1
          <6>3. QED
            BY <1>2, <6>1, <6>2
        <5>3. QED
          BY <4>1, <4>3, <5>2
      <4>4. CASE m_host[d] # h
        BY <1>2, <4>1, <4>2, <4>4
      <4>5. QED
        BY <4>3, <4>4
    <3>3. QED
      BY <3>1, <3>2 DEF BaseInv, RequestInv, ReplyInv
  <2>3. QED
    BY <2>1, <2>2
<1>9. QED
  BY <1>5, <1>6, <1>8 DEF RequestInv


\* What a queue holds after a message is put into it.
LEMMA PutFacts ==
    ASSUME TypeOK, NEW h \in Hosts, NEW m \in Messages,
           queue' = [queue EXCEPT ![h] = Append(queue[h], m)]
    PROVE  /\ Len(queue[h]) \in Nat /\ Len(queue'[h]) = Len(queue[h]) + 1
           /\ \A i \in 1 .. Len(queue[h]) : queue'[h][i] = queue[h][i]
           /\ queue'[h][Len(queue[h]) + 1] = m
           /\ \A i \in 1 .. Len(queue'[h]) : i \in 1 .. Len(queue[h]) \/ i = Len(queue[h]) + 1
           /\ \A g \in Hosts : g # h => queue'[g] = queue[g]
<1>1. queue[h] \in Seq(Messages) /\ queue'[h] = Append(queue[h], m)
  BY DEF TypeOK
<1>2. \A g \in Hosts : g # h => queue'[g] = queue[g]
  BY DEF TypeOK
<1>3. QED
  BY <1>1, <1>2, AppendFacts

\* So does a worker that sends its message and waits ...
LEMMA SendKeeps ==
    ASSUME BaseInv, NEW c \in Conns, ~Waiting(c), m_host[c] \in Hosts,
           NEW k \in Kinds \ {"shutdown"}, NEW o \in Objects,
           queue' = [queue EXCEPT ![m_host[c]] = Append(queue[m_host[c]], Message(k, c, o))],
           wpc' = [wpc EXCEPT ![c] = PhaseOf(k)],
           UNCHANGED <<m_host, m_channel, hpc>>
    PROVE  RequestInv'
<1> DEFINE h == m_host[c]
           n == Len(queue[h]) + 1
<1>1. /\ Message(k, c, o) \in Messages
      /\ Message(k, c, o).kind = k /\ Message(k, c, o).conn = c
  BY MessageType
<1>2. /\ Len(queue[h]) \in Nat /\ Len(queue'[h]) = n
      /\ \A i \in 1 .. Len(queue[h]) : queue'[h][i] = queue[h][i]
      /\ queue'[h][n] = Message(k, c, o)
      /\ \A i \in 1 .. Len(queue'[h]) : i \in 1 .. Len(queue[h]) \/ i = n
      /\ \A g \in Hosts : g # h => queue'[g] = queue[g]
  BY <1>1, PutFacts DEF BaseInv
<1>3. wpc'[c] = PhaseOf(k) /\ \A d \in Conns : d # c => wpc'[d] = wpc[d]
  BY DEF BaseInv, TypeOK
<1>4. /\ m_channel[c] = <<>>
      /\ \A g \in Hosts : hpc[g] # c
      /\ \A g \in Hosts : \A i \in 1 .. Len(queue[g]) : queue[g][i].conn # c
  <2>1. m_channel[c] = <<>> /\ \A g \in Hosts : hpc[g] # c
    BY NullAssumption DEF BaseInv, RequestInv, ReplyInv, DeferredInv, Waiting
  <2>2. ASSUME NEW g \in Hosts, NEW i \in 1 .. Len(queue[g]), queue[g][i].conn = c
        PROVE  FALSE
    <3>1. queue[g][i].kind # "shutdown" /\ wpc[c] = PhaseOf(queue[g][i].kind)
      BY <2>2, NullAssumption DEF BaseInv, RequestInv, QueueInv, Sound
    <3>2. QED
      BY <3>1 DEF PhaseOf, Waiting
  <2>3. QED
    BY <2>1, <2>2
<1> HIDE DEF h, n
<1>5. QueueInv'
  <2> SUFFICES ASSUME NEW g \in Hosts, NEW i \in 1 .. Len(queue'[g])
               PROVE  Sound(g, i)'
    BY DEF QueueInv
  <2>1. CASE g # h
    <3>1. queue'[g] = queue[g] /\ Sound(g, i) /\ queue[g][i].conn # c
      BY <1>2, <1>4, <2>1 DEF BaseInv, RequestInv, QueueInv
    <3>2. queue[g][i].conn \in Conns \cup {NoConn}
      BY <3>1, QueuedType DEF BaseInv
    <3>3. QED
      BY <1>3, <3>1, <3>2 DEF Sound
  <2>2. CASE g = h /\ i \in 1 .. Len(queue[h])
    <3>1. queue'[h][i] = queue[h][i] /\ Sound(h, i) /\ queue[h][i].conn # c
      BY <1>2, <1>4, <2>2 DEF BaseInv, RequestInv, QueueInv
    <3>2. queue[h][i].conn \in Conns \cup {NoConn}
      BY <2>2, QueuedType DEF BaseInv
    <3>3. \A j \in 1 .. Len(queue'[h]) : queue'[h][j].conn = queue[h][i].conn => j \in 1 .. Len(queue[h])
      BY <1>1, <1>2, <3>1
    <3>4. QED
      BY <1>2, <1>3, <2>2, <3>1, <3>2, <3>3 DEF Sound
  <2>3. CASE g = h /\ i = n
    <3>1. queue'[h][n].kind = k /\ queue'[h][n].conn = c
      BY <1>1, <1>2
    <3>2. \A j \in 1 .. Len(queue'[h]) : queue'[h][j].conn = c => j = n
      BY <1>2, <1>4, <2>3
    <3>3. m_host[c] = h
      BY DEF h
    <3>4. QED
      BY <1>3, <1>4, <2>3, <3>1, <3>2, <3>3, NullAssumption DEF Sound
  <2>4. QED
    BY <1>2, <2>1, <2>2, <2>3
<1>6. DeferredInv'
  BY <1>3, <1>4 DEF BaseInv, TypeOK, RequestInv, DeferredInv
<1>7. ReplyInv'
  <2> SUFFICES ASSUME NEW d \in Conns
               PROVE  /\ m_channel[d] # <<>> => Waiting(d)' /\ Len(m_channel[d]) = 1
                      /\ Waiting(d)' =>
                            \/ m_channel[d] # <<>>
                            \/ hpc[m_host[d]] = d
                            \/ \E i \in 1 .. Len(queue'[m_host[d]]) : queue'[m_host[d]][i].conn = d
    BY DEF ReplyInv
  <2>1. CASE d = c
    <3>1. n \in 1 .. Len(queue'[h]) /\ queue'[h][n].conn = c /\ m_host[c] = h
      <4>1. n \in 1 .. Len(queue'[h])
        BY <1>2 DEF n
      <4>2. QED
        BY <1>1, <1>2, <4>1 DEF h
    <3>2. QED
      BY <1>4, <2>1, <3>1
  <2>2. CASE d # c
    <3>1. Waiting(d)' = Waiting(d)
      BY <1>3, <2>2 DEF Waiting
    <3>2. ASSUME Waiting(d)
          PROVE  m_host[d] \in Hosts
      BY <3>2, HasHost DEF BaseInv, Waiting
    <3>3. ASSUME Waiting(d), NEW i \in 1 .. Len(queue[m_host[d]])
          PROVE  i \in 1 .. Len(queue'[m_host[d]]) /\ queue'[m_host[d]][i] = queue[m_host[d]][i]
      BY <1>2, <3>2, <3>3
    <3>4. QED
      BY <3>1, <3>3 DEF BaseInv, RequestInv, ReplyInv
  <2>3. QED
    BY <2>1, <2>2
<1>8. QED
  BY <1>5, <1>6, <1>7 DEF RequestInv

\* ... and a worker that reads its answer ...
LEMMA ReadKeeps ==
    ASSUME BaseInv, NEW c \in Conns, m_channel[c] # <<>>,
           NEW pc \in {"replied", "idle", "gone"},
           m_channel' = [m_channel EXCEPT ![c] = Tail(m_channel[c])],
           wpc' = [wpc EXCEPT ![c] = pc],
           UNCHANGED <<m_host, queue, hpc>>
    PROVE  RequestInv'
<1>1. Waiting(c) /\ Len(m_channel[c]) = 1
  BY DEF BaseInv, RequestInv, ReplyInv
<1>2. m_channel'[c] = <<>> /\ \A d \in Conns : d # c => m_channel'[d] = m_channel[d]
  <2>1. Tail(m_channel[c]) = <<>>
    BY <1>1, LastTaken DEF BaseInv, TypeOK
  <2>2. QED
    BY <2>1 DEF BaseInv, TypeOK
<1>3. wpc'[c] = pc /\ \A d \in Conns : d # c => wpc'[d] = wpc[d]
  BY DEF BaseInv, TypeOK
<1>4. /\ \A g \in Hosts : hpc[g] # c
      /\ \A g \in Hosts : \A i \in 1 .. Len(queue[g]) : queue[g][i].conn # c
  <2>1. \A g \in Hosts : hpc[g] # c
    BY NullAssumption DEF BaseInv, RequestInv, DeferredInv
  <2>2. \A g \in Hosts : \A i \in 1 .. Len(queue[g]) : queue[g][i].conn # c
    BY NullAssumption DEF BaseInv, RequestInv, QueueInv, Sound
  <2>3. QED
    BY <2>1, <2>2
<1>5. QueueInv'
  <2> SUFFICES ASSUME NEW g \in Hosts, NEW i \in 1 .. Len(queue[g])
               PROVE  Sound(g, i)'
    BY DEF QueueInv
  <2>1. Sound(g, i) /\ queue[g][i].conn # c /\ queue[g][i].conn \in Conns \cup {NoConn}
    BY <1>4, QueuedType DEF BaseInv, RequestInv, QueueInv
  <2>2. QED
    BY <1>2, <1>3, <2>1 DEF Sound
<1>6. DeferredInv'
  BY <1>2, <1>3, <1>4 DEF BaseInv, TypeOK, RequestInv, DeferredInv
<1>7. ReplyInv'
  BY <1>2, <1>3 DEF BaseInv, RequestInv, ReplyInv, Waiting
<1>8. QED
  BY <1>5, <1>6, <1>7 DEF RequestInv

\* ... and a worker that moves on without a message.
LEMMA MoveKeeps ==
    ASSUME BaseInv, NEW c \in Conns, ~Waiting(c),
           NEW pc \in {"out", "starting", "found", "idle", "erased", "undefined"},
           wpc' = [wpc EXCEPT ![c] = pc],
           \A d \in Conns : d # c => m_host'[d] = m_host[d],
           UNCHANGED <<m_channel, queue, hpc>>
    PROVE  RequestInv'
<1>1. wpc'[c] = pc /\ \A d \in Conns : d # c => wpc'[d] = wpc[d]
  BY DEF BaseInv, TypeOK
<1>2. \A g \in Hosts : hpc[g] # c
  BY NullAssumption DEF BaseInv, RequestInv, DeferredInv, Waiting
<1>3. ASSUME NEW g \in Hosts, NEW i \in 1 .. Len(queue[g]), queue[g][i].conn = c
      PROVE  FALSE
  <2>1. queue[g][i].kind # "shutdown" /\ wpc[c] = PhaseOf(queue[g][i].kind)
    BY <1>3, NullAssumption DEF BaseInv, RequestInv, QueueInv, Sound
  <2>2. QED
    BY <2>1 DEF PhaseOf, Waiting
<1>4. QueueInv'
  <2> SUFFICES ASSUME NEW g \in Hosts, NEW i \in 1 .. Len(queue[g])
               PROVE  Sound(g, i)'
    BY DEF QueueInv
  <2>1. Sound(g, i) /\ queue[g][i].conn # c /\ queue[g][i].conn \in Conns \cup {NoConn}
    BY <1>3, QueuedType DEF BaseInv, RequestInv, QueueInv
  <2>2. QED
    BY <1>1, <2>1 DEF Sound
<1>5. DeferredInv'
  BY <1>1, <1>2 DEF BaseInv, TypeOK, RequestInv, DeferredInv
<1>6. ReplyInv'
  BY <1>1 DEF BaseInv, RequestInv, ReplyInv, Waiting
<1>7. QED
  BY <1>4, <1>5, <1>6 DEF RequestInv

\* The host that handles a disconnect keeps the worker in mind ...
LEMMA DeferKeeps ==
    ASSUME BaseInv, NEW h \in Hosts, Serving(h, "disconnect"),
           queue' = [queue EXCEPT ![h] = Tail(queue[h])],
           hpc' = [hpc EXCEPT ![h] = Head(queue[h]).conn],
           UNCHANGED <<wpc, m_host, m_channel>>
    PROVE  RequestInv'
<1> DEFINE c == Head(queue[h]).conn
<1>1. /\ hpc[h] = NoConn /\ 1 \in 1 .. Len(queue[h]) /\ Len(queue[h]) \in Nat
      /\ c \in Conns /\ m_host[c] = h /\ m_channel[c] = <<>> /\ wpc[c] = "leaving"
      /\ Len(Tail(queue[h])) = Len(queue[h]) - 1
      /\ \A i \in 1 .. Len(Tail(queue[h])) :
             /\ Tail(queue[h])[i] = queue[h][i + 1] /\ i + 1 \in 1 .. Len(queue[h])
             /\ Tail(queue[h])[i].conn # c
  BY ServingFacts DEF Kinds, PhaseOf
<1>2. queue'[h] = Tail(queue[h]) /\ \A g \in Hosts : g # h => queue'[g] = queue[g]
  BY DEF BaseInv, TypeOK
<1>3. hpc'[h] = c /\ \A g \in Hosts : g # h => hpc'[g] = hpc[g]
  BY DEF BaseInv, TypeOK
<1>4. queue[h][1].conn = c
  BY ServingFacts DEF Kinds
<1> HIDE DEF c
<1>5. QueueInv'
  <2> SUFFICES ASSUME NEW g \in Hosts, NEW i \in 1 .. Len(queue'[g])
               PROVE  Sound(g, i)'
    BY DEF QueueInv
  <2>1. CASE g = h
    <3>1. \A j \in 1 .. Len(queue'[g]) : /\ queue'[g][j] = queue[h][j + 1]
                                         /\ j + 1 \in 1 .. Len(queue[h])
                                         /\ queue'[g][j].conn # c
      BY <1>1, <1>2, <2>1
    <3>2. queue'[g][i] = queue[h][i + 1] /\ queue'[g][i].conn # c /\ Sound(h, i + 1)
      BY <3>1 DEF BaseInv, RequestInv, QueueInv
    <3>3. QED
      BY <1>3, <2>1, <3>1, <3>2 DEF Sound
  <2>2. CASE g # h
    <3>1. queue'[g] = queue[g] /\ Sound(g, i) /\ hpc'[g] = hpc[g]
      BY <1>2, <1>3, <2>2 DEF BaseInv, RequestInv, QueueInv
    <3>2. QED
      BY <3>1 DEF Sound
  <2>3. QED
    BY <2>1, <2>2
<1>6. DeferredInv'
  <2> SUFFICES ASSUME NEW g \in Hosts, hpc'[g] # NoConn
               PROVE  m_host[hpc'[g]] = g /\ wpc[hpc'[g]] = "leaving" /\ m_channel[hpc'[g]] = <<>>
    BY DEF DeferredInv
  <2>1. CASE g = h
    BY <1>1, <1>3, <2>1
  <2>2. CASE g # h
    BY <1>3, <2>2 DEF BaseInv, RequestInv, DeferredInv
  <2>3. QED
    BY <2>1, <2>2
<1>7. ReplyInv'
  <2> SUFFICES ASSUME NEW d \in Conns, Waiting(d), m_channel[d] = <<>>, hpc'[m_host[d]] # d
               PROVE  \E i \in 1 .. Len(queue'[m_host[d]]) : queue'[m_host[d]][i].conn = d
    BY DEF BaseInv, RequestInv, ReplyInv, Waiting
  <2>1. m_host[d] \in Hosts
    BY HasHost DEF BaseInv, Waiting
  <2>2. d # c
    BY <1>1, <1>3
  <2>3. hpc[m_host[d]] # d
    BY <1>1, <1>3, <2>1, NullAssumption
  <2>4. PICK i \in 1 .. Len(queue[m_host[d]]) : queue[m_host[d]][i].conn = d
    BY <2>3 DEF BaseInv, RequestInv, ReplyInv
  <2>5. CASE m_host[d] = h
    <3>1. i # 1
      BY <1>4, <2>2, <2>4, <2>5
    <3>2. i - 1 \in 1 .. Len(Tail(queue[h])) /\ (i - 1) + 1 = i
      BY <1>1, <2>4, <2>5, <3>1
    <3>3. Tail(queue[h])[i - 1] = queue[h][(i - 1) + 1]
      BY <1>1, <3>2
    <3>4. i - 1 \in 1 .. Len(queue'[h]) /\ queue'[h][i - 1].conn = d
      BY <1>2, <2>4, <2>5, <3>2, <3>3
    <3>5. QED
      BY <2>5, <3>4
  <2>6. CASE m_host[d] # h
    BY <1>2, <2>1, <2>4, <2>6
  <2>7. QED
    BY <2>5, <2>6
<1>8. QED
  BY <1>5, <1>6, <1>7 DEF RequestInv

\* ... until it answers, whether or not it sends itself the shutdown message ...
LEMMA FinishKeeps ==
    ASSUME BaseInv, NEW h \in Hosts, hpc[h] # NoConn,
           \/ UNCHANGED queue
           \/ queue' = [queue EXCEPT ![h] = Append(queue[h], Message("shutdown", NoConn, AnyObject))],
           m_channel' = [m_channel EXCEPT ![hpc[h]] = Append(m_channel[hpc[h]], "success")],
           hpc' = [hpc EXCEPT ![h] = NoConn],
           UNCHANGED <<wpc, m_host>>
    PROVE  RequestInv'
<1> DEFINE c == hpc[h]
           m == Message("shutdown", NoConn, AnyObject)
<1>1. c \in Conns /\ m_host[c] = h /\ wpc[c] = "leaving" /\ m_channel[c] = <<>>
  BY DEF BaseInv, TypeOK, RequestInv, DeferredInv
<1>2. m \in Messages /\ m.kind = "shutdown" /\ m.conn = NoConn
  <2>1. AnyObject \in Objects /\ "shutdown" \in Kinds
    BY ObjectsAssumption DEF Kinds, AnyObject
  <2>2. QED
    BY <2>1, MessageType
<1>3. m_channel'[c] # <<>> /\ Len(m_channel'[c]) = 1 /\ \A d \in Conns : d # c => m_channel'[d] = m_channel[d]
  BY <1>1 DEF BaseInv, TypeOK
<1>4. hpc'[h] = NoConn /\ \A g \in Hosts : g # h => hpc'[g] = hpc[g]
  BY DEF BaseInv, TypeOK
<1>5. /\ \A g \in Hosts : Len(queue[g]) \in Nat
      /\ \A g \in Hosts : \A i \in 1 .. Len(queue[g]) :
             i \in 1 .. Len(queue'[g]) /\ queue'[g][i] = queue[g][i]
      /\ \A g \in Hosts : \A i \in 1 .. Len(queue'[g]) :
             i \in 1 .. Len(queue[g]) \/ queue'[g][i] = m
  <2>1. \A g \in Hosts : Len(queue[g]) \in Nat
    BY QueuedType DEF BaseInv
  <2>2. CASE UNCHANGED queue
    BY <2>1, <2>2
  <2>3. CASE queue' = [queue EXCEPT ![h] = Append(queue[h], m)]
    <3>1. /\ Len(queue'[h]) = Len(queue[h]) + 1
          /\ \A i \in 1 .. Len(queue[h]) : queue'[h][i] = queue[h][i]
          /\ queue'[h][Len(queue[h]) + 1] = m
          /\ \A i \in 1 .. Len(queue'[h]) : i \in 1 .. Len(queue[h]) \/ i = Len(queue[h]) + 1
          /\ \A g \in Hosts : g # h => queue'[g] = queue[g]
      BY <1>2, <2>3, PutFacts DEF BaseInv
    <3> HIDE DEF m
    <3>2. QED
      BY <2>1, <3>1
  <2>4. QED
    BY <2>2, <2>3
<1>6. \A g \in Hosts : \A i \in 1 .. Len(queue[g]) : queue[g][i].conn # c
  BY <1>1, NullAssumption DEF BaseInv, RequestInv, QueueInv, Sound
<1> HIDE DEF c, m
<1>7. QueueInv'
  <2> SUFFICES ASSUME NEW g \in Hosts, NEW i \in 1 .. Len(queue'[g])
               PROVE  Sound(g, i)'
    BY DEF QueueInv
  <2>1. CASE i \in 1 .. Len(queue[g])
    <3>1. queue'[g][i] = queue[g][i] /\ Sound(g, i) /\ queue[g][i].conn # c
      BY <1>5, <1>6, <2>1 DEF BaseInv, RequestInv, QueueInv
    <3>2. queue[g][i].conn \in Conns \cup {NoConn}
      BY <2>1, QueuedType DEF BaseInv
    <3>3. \A j \in 1 .. Len(queue'[g]) : (queue'[g][j].conn = queue[g][i].conn /\ queue[g][i].conn # NoConn)
              => j \in 1 .. Len(queue[g]) /\ queue[g][j].conn = queue[g][i].conn
      BY <1>2, <1>5
    <3>4. hpc'[g] = hpc[g] \/ hpc'[g] = NoConn
      BY <1>4
    <3>5. QED
      BY <1>3, <2>1, <3>1, <3>2, <3>3, <3>4 DEF Sound
  <2>2. CASE i \notin 1 .. Len(queue[g])
    BY <1>2, <1>5, <2>2 DEF Sound
  <2>3. QED
    BY <2>1, <2>2
<1>8. DeferredInv'
  <2> SUFFICES ASSUME NEW g \in Hosts, hpc'[g] # NoConn
               PROVE  m_host[hpc'[g]] = g /\ wpc[hpc'[g]] = "leaving" /\ m_channel'[hpc'[g]] = <<>>
    BY DEF DeferredInv
  <2>1. g # h /\ hpc'[g] = hpc[g]
    BY <1>4
  <2>2. m_host[hpc[g]] = g /\ wpc[hpc[g]] = "leaving" /\ m_channel[hpc[g]] = <<>>
    BY <2>1 DEF BaseInv, RequestInv, DeferredInv
  <2>3. hpc[g] # c /\ hpc[g] \in Conns
    BY <1>1, <2>1, <2>2 DEF BaseInv, TypeOK
  <2>4. QED
    BY <1>3, <2>1, <2>2, <2>3
<1>9. ReplyInv'
  <2> SUFFICES ASSUME NEW d \in Conns
               PROVE  /\ m_channel'[d] # <<>> => Waiting(d) /\ Len(m_channel'[d]) = 1
                      /\ Waiting(d) =>
                            \/ m_channel'[d] # <<>>
                            \/ hpc'[m_host[d]] = d
                            \/ \E i \in 1 .. Len(queue'[m_host[d]]) : queue'[m_host[d]][i].conn = d
    BY DEF ReplyInv, Waiting
  <2>1. CASE d = c
    BY <1>1, <1>3, <2>1 DEF Waiting
  <2>2. CASE d # c
    <3>1. m_channel'[d] = m_channel[d]
      BY <1>3, <2>2
    <3>2. ASSUME Waiting(d), m_channel[d] = <<>>
          PROVE  \/ hpc'[m_host[d]] = d
                 \/ \E i \in 1 .. Len(queue'[m_host[d]]) : queue'[m_host[d]][i].conn = d
      <4>1. m_host[d] \in Hosts
        BY <3>2, HasHost DEF BaseInv, Waiting
      <4>2. CASE hpc[m_host[d]] = d
        BY <1>4, <2>2, <4>1, <4>2 DEF c
      <4>3. CASE \E i \in 1 .. Len(queue[m_host[d]]) : queue[m_host[d]][i].conn = d
        BY <1>5, <4>1, <4>3
      <4>4. QED
        BY <3>2, <4>2, <4>3 DEF BaseInv, RequestInv, ReplyInv
    <3>3. QED
      BY <3>1, <3>2 DEF BaseInv, RequestInv, ReplyInv
  <2>3. QED
    BY <2>1, <2>2
<1>10. QED
  BY <1>7, <1>8, <1>9 DEF RequestInv

\* ... and GameServer_Shutdown, whose message nobody waits for ...
LEMMA NoticeKeeps ==
    ASSUME BaseInv, NEW h \in Hosts,
           queue' = [queue EXCEPT ![h] = Append(queue[h], Message("shutdown", NoConn, AnyObject))],
           UNCHANGED <<wpc, m_host, m_channel, hpc>>
    PROVE  RequestInv'
<1> DEFINE m == Message("shutdown", NoConn, AnyObject)
<1>1. m \in Messages /\ m.kind = "shutdown" /\ m.conn = NoConn
  <2>1. AnyObject \in Objects /\ "shutdown" \in Kinds
    BY ObjectsAssumption DEF Kinds, AnyObject
  <2>2. QED
    BY <2>1, MessageType
<1>2. /\ Len(queue[h]) \in Nat /\ Len(queue'[h]) = Len(queue[h]) + 1
      /\ \A i \in 1 .. Len(queue[h]) : queue'[h][i] = queue[h][i]
      /\ queue'[h][Len(queue[h]) + 1] = m
      /\ \A i \in 1 .. Len(queue'[h]) : i \in 1 .. Len(queue[h]) \/ i = Len(queue[h]) + 1
      /\ \A g \in Hosts : g # h => queue'[g] = queue[g]
  BY <1>1, PutFacts DEF BaseInv
<1> HIDE DEF m
<1>3. QueueInv'
  <2> SUFFICES ASSUME NEW g \in Hosts, NEW i \in 1 .. Len(queue'[g])
               PROVE  Sound(g, i)'
    BY DEF QueueInv
  <2>1. CASE g # h
    <3>1. queue'[g] = queue[g] /\ Sound(g, i)
      BY <1>2, <2>1 DEF BaseInv, RequestInv, QueueInv
    <3>2. QED
      BY <3>1 DEF Sound
  <2>2. CASE g = h /\ i \in 1 .. Len(queue[h])
    <3>1. queue'[h][i] = queue[h][i] /\ Sound(h, i)
      BY <1>2, <2>2 DEF BaseInv, RequestInv, QueueInv
    <3>2. \A j \in 1 .. Len(queue'[h]) : (queue'[h][j].conn = queue[h][i].conn /\ queue[h][i].conn # NoConn)
              => j \in 1 .. Len(queue[h]) /\ queue[h][j].conn = queue[h][i].conn
      BY <1>1, <1>2
    <3>3. ASSUME queue'[h][i].kind # "shutdown", NEW j \in 1 .. Len(queue'[h]),
                 queue'[h][j].conn = queue'[h][i].conn
          PROVE  i = j
      BY <3>1, <3>2, <3>3 DEF Sound
    <3>4. queue'[h][i].kind = "shutdown" <=> queue'[h][i].conn = NoConn
      BY <3>1 DEF Sound
    <3>5. queue'[h][i].kind # "shutdown" =>
             /\ m_host'[queue'[h][i].conn] = h
             /\ m_channel'[queue'[h][i].conn] = <<>>
             /\ hpc'[h] # queue'[h][i].conn
             /\ wpc'[queue'[h][i].conn] = PhaseOf(queue'[h][i].kind)
      BY <3>1 DEF Sound
    <3>6. QED
      BY <2>2, <3>3, <3>4, <3>5 DEF Sound
  <2>3. CASE g = h /\ i = Len(queue[h]) + 1
    BY <1>1, <1>2, <2>3 DEF Sound
  <2>4. QED
    BY <1>2, <2>1, <2>2, <2>3
<1>4. DeferredInv'
  BY DEF BaseInv, RequestInv, DeferredInv
<1>5. ReplyInv'
  <2> SUFFICES ASSUME NEW d \in Conns, Waiting(d), m_channel[d] = <<>>, hpc[m_host[d]] # d
               PROVE  \E i \in 1 .. Len(queue'[m_host[d]]) : queue'[m_host[d]][i].conn = d
    BY DEF BaseInv, RequestInv, ReplyInv, Waiting
  <2>1. PICK i \in 1 .. Len(queue[m_host[d]]) : queue[m_host[d]][i].conn = d
    BY DEF BaseInv, RequestInv, ReplyInv
  <2>2. m_host[d] \in Hosts
    BY HasHost DEF BaseInv, Waiting
  <2>3. i \in 1 .. Len(queue'[m_host[d]]) /\ queue'[m_host[d]][i] = queue[m_host[d]][i]
    BY <1>2, <2>1, <2>2
  <2>4. QED
    BY <2>1, <2>3
<1>6. QED
  BY <1>3, <1>4, <1>5 DEF RequestInv

\* ... and the host that takes it.
LEMMA CloseKeeps ==
    ASSUME BaseInv, NEW h \in Hosts, Serving(h, "shutdown"),
           queue' = [queue EXCEPT ![h] = Tail(queue[h])],
           UNCHANGED <<wpc, m_host, m_channel, hpc>>
    PROVE  RequestInv'
<1>1. /\ 1 \in 1 .. Len(queue[h]) /\ Len(queue[h]) \in Nat
      /\ Len(Tail(queue[h])) = Len(queue[h]) - 1
      /\ \A i \in 1 .. Len(Tail(queue[h])) :
             Tail(queue[h])[i] = queue[h][i + 1] /\ i + 1 \in 1 .. Len(queue[h])
      /\ queue[h][1].kind = "shutdown"
  BY ServingFacts DEF Kinds
<1>2. queue'[h] = Tail(queue[h]) /\ \A g \in Hosts : g # h => queue'[g] = queue[g]
  BY DEF BaseInv, TypeOK
<1>3. QueueInv'
  <2> SUFFICES ASSUME NEW g \in Hosts, NEW i \in 1 .. Len(queue'[g])
               PROVE  Sound(g, i)'
    BY DEF QueueInv
  <2>1. CASE g = h
    <3>1. \A j \in 1 .. Len(queue'[g]) : queue'[g][j] = queue[h][j + 1] /\ j + 1 \in 1 .. Len(queue[h])
      BY <1>1, <1>2, <2>1
    <3>2. queue'[g][i] = queue[h][i + 1] /\ Sound(h, i + 1)
      BY <3>1 DEF BaseInv, RequestInv, QueueInv
    <3>3. ASSUME queue'[g][i].kind # "shutdown", NEW j \in 1 .. Len(queue'[g]),
                 queue'[g][j].conn = queue'[g][i].conn
          PROVE  i = j
      <4>1. queue'[g][j] = queue[h][j + 1] /\ j + 1 \in 1 .. Len(queue[h])
        BY <3>1
      <4>2. i + 1 = j + 1
        BY <3>2, <3>3, <4>1 DEF Sound
      <4>3. QED
        BY <4>2
    <3>4. queue'[g][i].kind = "shutdown" <=> queue'[g][i].conn = NoConn
      BY <3>2 DEF Sound
    <3>5. queue'[g][i].kind # "shutdown" =>
             /\ m_host'[queue'[g][i].conn] = g
             /\ m_channel'[queue'[g][i].conn] = <<>>
             /\ hpc'[g] # queue'[g][i].conn
             /\ wpc'[queue'[g][i].conn] = PhaseOf(queue'[g][i].kind)
      BY <2>1, <3>2 DEF Sound
    <3>6. QED
      BY <3>3, <3>4, <3>5 DEF Sound
  <2>2. CASE g # h
    <3>1. queue'[g] = queue[g] /\ Sound(g, i)
      BY <1>2, <2>2 DEF BaseInv, RequestInv, QueueInv
    <3>2. QED
      BY <3>1 DEF Sound
  <2>3. QED
    BY <2>1, <2>2
<1>4. DeferredInv'
  BY DEF BaseInv, RequestInv, DeferredInv
<1>5. ReplyInv'
  <2> SUFFICES ASSUME NEW d \in Conns, Waiting(d), m_channel[d] = <<>>, hpc[m_host[d]] # d
               PROVE  \E i \in 1 .. Len(queue'[m_host[d]]) : queue'[m_host[d]][i].conn = d
    BY DEF BaseInv, RequestInv, ReplyInv, Waiting
  <2>1. PICK i \in 1 .. Len(queue[m_host[d]]) : queue[m_host[d]][i].conn = d
    BY DEF BaseInv, RequestInv, ReplyInv
  <2>2. m_host[d] \in Hosts
    BY HasHost DEF BaseInv, Waiting
  <2>3. CASE m_host[d] = h
    <3>1. i # 1
      <4>1. Sound(h, 1)
        BY <1>1 DEF BaseInv, RequestInv, QueueInv
      <4>2. QED
        BY <1>1, <2>1, <2>3, <4>1, NullAssumption DEF Sound
    <3>2. i - 1 \in 1 .. Len(Tail(queue[h])) /\ (i - 1) + 1 = i
      BY <1>1, <2>1, <2>3, <3>1
    <3>3. Tail(queue[h])[i - 1] = queue[h][(i - 1) + 1]
      BY <1>1, <3>2
    <3>4. i - 1 \in 1 .. Len(queue'[h]) /\ queue'[h][i - 1].conn = d
      BY <1>2, <2>1, <2>3, <3>2, <3>3
    <3>5. QED
      BY <2>3, <3>4
  <2>4. CASE m_host[d] # h
    BY <1>2, <2>1, <2>2, <2>4
  <2>5. QED
    BY <2>3, <2>4
<1>6. QED
  BY <1>3, <1>4, <1>5 DEF RequestInv

\* Every step keeps the accounts of messages and answers.
LEMMA RequestStep ==
    ASSUME BaseInv, [Next]_vars
    PROVE  RequestInv'
<1>1. ASSUME NEW c \in Conns, cb_join(c)
      PROVE  RequestInv'
  <2>1. /\ ~Waiting(c) /\ UNCHANGED <<m_channel, queue, hpc>>
        /\ \A d \in Conns : d # c => m_host'[d] = m_host[d]
        /\ \E pc \in {"starting", "found"} : wpc' = [wpc EXCEPT ![c] = pc]
    BY <1>1 DEF cb_join, Waiting, BaseInv, TypeOK, hostVars
  <2>2. QED
    BY <2>1, MoveKeeps
<1>2. ASSUME NEW c \in Conns, start_game_host(c)
      PROVE  RequestInv'
  <2>1. /\ ~Waiting(c) /\ UNCHANGED <<m_channel, queue, hpc>>
        /\ \A d \in Conns : d # c => m_host'[d] = m_host[d]
        /\ \E pc \in {"starting", "found"} : wpc' = [wpc EXCEPT ![c] = pc]
    BY <1>2 DEF start_game_host, Waiting, BaseInv, TypeOK, hostVars
  <2>2. QED
    BY <2>1, MoveKeeps
<1>3. ASSUME NEW c \in Conns, start_game_host_fails(c)
      PROVE  RequestInv'
  BY <1>3, MoveKeeps
     DEF start_game_host_fails, HostExists, Waiting, vars, workerVars, hostVars,
         ghostVars, sceneVars
<1>3a. ASSUME NEW c \in Conns, start_game_host_orphan(c)
      PROVE  RequestInv'
  BY <1>3a, MoveKeeps
     DEF start_game_host_orphan, HostExists, Waiting, vars, workerVars, hostVars,
         ghostVars, sceneVars
<1>4. ASSUME NEW c \in Conns, PutJoin(c)
      PROVE  RequestInv'
  <2>1. /\ ~Waiting(c) /\ m_host[c] \in Hosts /\ "join" \in Kinds \ {"shutdown"} /\ AnyObject \in Objects
        /\ queue' = [queue EXCEPT ![m_host[c]] = Append(queue[m_host[c]], Message("join", c, AnyObject))]
        /\ wpc' = [wpc EXCEPT ![c] = PhaseOf("join")]
        /\ UNCHANGED <<m_host, m_channel, hpc>>
    BY <1>4, HasHost, ObjectsAssumption
       DEF PutJoin, Put, HostExists, Waiting, BaseInv, AnyObject, PhaseOf, Kinds,
           GameMessages, CloneMessages
  <2>2. QED
    BY <2>1, SendKeeps
<1>5. ASSUME NEW c \in Conns, VaultRefuses(c)
      PROVE  RequestInv'
  BY <1>5, MoveKeeps
     DEF VaultRefuses, HostExists, Waiting, vars, workerVars, hostVars, ghostVars,
         sceneVars
<1>6. ASSUME NEW c \in Conns, GetJoinReply(c)
      PROVE  RequestInv'
  BY <1>6, ReadKeeps DEF GetJoinReply, hostVars
<1>7. ASSUME NEW c \in Conns, Insert(c)
      PROVE  RequestInv'
  BY <1>7, MoveKeeps
     DEF Insert, HostExists, Waiting, vars, workerVars, hostVars, ghostVars, sceneVars
<1>8. ASSUME NEW c \in Conns, GetReply(c)
      PROVE  RequestInv'
  BY <1>8, ReadKeeps DEF GetReply, hostVars
<1>9. ASSUME NEW c \in Conns, PutDisconnect(c)
      PROVE  RequestInv'
  <2>1. /\ ~Waiting(c) /\ m_host[c] \in Hosts /\ "disconnect" \in Kinds \ {"shutdown"} /\ AnyObject \in Objects
        /\ queue' = [queue EXCEPT ![m_host[c]] = Append(queue[m_host[c]], Message("disconnect", c, AnyObject))]
        /\ wpc' = [wpc EXCEPT ![c] = PhaseOf("disconnect")]
        /\ UNCHANGED <<m_host, m_channel, hpc>>
    BY <1>9, HasHost, ObjectsAssumption
       DEF PutDisconnect, Put, HostExists, Waiting, BaseInv, AnyObject, PhaseOf, Kinds,
           GameMessages, CloneMessages
  <2>2. QED
    BY <2>1, SendKeeps
<1>10. ASSUME NEW c \in Conns, GetDisconnectReply(c)
       PROVE  RequestInv'
  BY <1>10, ReadKeeps DEF GetDisconnectReply, hostVars
<1>11. ASSUME NEW c \in Conns, UseDeletedHost(c)
       PROVE  RequestInv'
  BY <1>11, MoveKeeps
     DEF UseDeletedHost, HostExists, Waiting, vars, workerVars, hostVars, ghostVars,
         sceneVars
<1>12. ASSUME NEW c \in Conns, NEW k \in GameMessages, NEW o \in Objects, cb_netmsg(c, k, o)
       PROVE  RequestInv'
  <2>1. /\ ~Waiting(c) /\ m_host[c] \in Hosts /\ k \in Kinds \ {"shutdown"} /\ o \in Objects
        /\ queue' = [queue EXCEPT ![m_host[c]] = Append(queue[m_host[c]], Message(k, c, o))]
        /\ wpc' = [wpc EXCEPT ![c] = PhaseOf(k)]
        /\ UNCHANGED <<m_host, m_channel, hpc>>
    BY <1>12, HasHost, ObjectsAssumption
       DEF cb_netmsg, Put, HostExists, Waiting, BaseInv, AnyObject, PhaseOf, Kinds,
           GameMessages, CloneMessages
  <2>2. QED
    BY <2>1, SendKeeps
<1>13. ASSUME NEW c \in Conns, Erase(c)
       PROVE  RequestInv'
  BY <1>13, MoveKeeps
     DEF Erase, HostExists, Waiting, vars, workerVars, hostVars, ghostVars, sceneVars
<1>14. ASSUME NEW h \in Hosts, dm_game_join(h)
       PROVE  RequestInv'
  <2>1. /\ \E k \in Kinds \ {"shutdown"} : Serving(h, k)
        /\ queue' = [queue EXCEPT ![h] = Tail(queue[h])]
        /\ \E code \in {"success", "failure"} :
               m_channel' = [m_channel EXCEPT ![Head(queue[h]).conn] =
                                 Append(m_channel[Head(queue[h]).conn], code)]
        /\ UNCHANGED <<wpc, m_host, hpc>>
    BY <1>14 DEF dm_game_join, Dequeue, Reply, Kinds, GameMessages, CloneMessages
  <2>2. QED
    BY <2>1, AnswerKeeps
<1>15. ASSUME NEW h \in Hosts, dm_game_join_refused(h)
       PROVE  RequestInv'
  <2>1. /\ \E k \in Kinds \ {"shutdown"} : Serving(h, k)
        /\ queue' = [queue EXCEPT ![h] = Tail(queue[h])]
        /\ \E code \in {"success", "failure"} :
               m_channel' = [m_channel EXCEPT ![Head(queue[h]).conn] =
                                 Append(m_channel[Head(queue[h]).conn], code)]
        /\ UNCHANGED <<wpc, m_host, hpc>>
    BY <1>15 DEF dm_game_join_refused, Dequeue, Reply, Kinds, GameMessages, CloneMessages
  <2>2. QED
    BY <2>1, AnswerKeeps
<1>16. ASSUME NEW h \in Hosts, dm_test_and_set_lock(h)
       PROVE  RequestInv'
  <2>1. /\ \E k \in Kinds \ {"shutdown"} : Serving(h, k)
        /\ queue' = [queue EXCEPT ![h] = Tail(queue[h])]
        /\ \E code \in {"success", "failure"} :
               m_channel' = [m_channel EXCEPT ![Head(queue[h]).conn] =
                                 Append(m_channel[Head(queue[h]).conn], code)]
        /\ UNCHANGED <<wpc, m_host, hpc>>
    BY <1>16 DEF dm_test_and_set_lock, Dequeue, Reply, Kinds, GameMessages, CloneMessages
  <2>2. QED
    BY <2>1, AnswerKeeps
<1>17. ASSUME NEW h \in Hosts, dm_test_and_set_unlock(h)
       PROVE  RequestInv'
  <2>1. /\ \E k \in Kinds \ {"shutdown"} : Serving(h, k)
        /\ queue' = [queue EXCEPT ![h] = Tail(queue[h])]
        /\ \E code \in {"success", "failure"} :
               m_channel' = [m_channel EXCEPT ![Head(queue[h]).conn] =
                                 Append(m_channel[Head(queue[h]).conn], code)]
        /\ UNCHANGED <<wpc, m_host, hpc>>
    BY <1>17 DEF dm_test_and_set_unlock, Dequeue, Reply, Kinds, GameMessages, CloneMessages
  <2>2. QED
    BY <2>1, AnswerKeeps
<1>18. ASSUME NEW h \in Hosts, dm_send_members(h)
       PROVE  RequestInv'
  <2>1. /\ \E k \in Kinds \ {"shutdown"} : Serving(h, k)
        /\ queue' = [queue EXCEPT ![h] = Tail(queue[h])]
        /\ \E code \in {"success", "failure"} :
               m_channel' = [m_channel EXCEPT ![Head(queue[h]).conn] =
                                 Append(m_channel[Head(queue[h]).conn], code)]
        /\ UNCHANGED <<wpc, m_host, hpc>>
    BY <1>18 DEF dm_send_members, Dequeue, Reply, Kinds, GameMessages, CloneMessages
  <2>2. QED
    BY <2>1, AnswerKeeps
<1>19. ASSUME NEW h \in Hosts, NEW load \in BOOLEAN, dm_load_clone_player(h, load)
       PROVE  RequestInv'
  <2>1. /\ \E k \in Kinds \ {"shutdown"} : Serving(h, k)
        /\ queue' = [queue EXCEPT ![h] = Tail(queue[h])]
        /\ \E code \in {"success", "failure"} :
               m_channel' = [m_channel EXCEPT ![Head(queue[h]).conn] =
                                 Append(m_channel[Head(queue[h]).conn], code)]
        /\ UNCHANGED <<wpc, m_host, hpc>>
    BY <1>19 DEF dm_load_clone_player, Dequeue, Reply, Kinds, GameMessages, CloneMessages
  <2>2. QED
    BY <2>1, AnswerKeeps
<1>20. ASSUME NEW h \in Hosts, NEW load \in BOOLEAN, dm_load_clone(h, load)
       PROVE  RequestInv'
  <2>1. /\ \E k \in Kinds \ {"shutdown"} : Serving(h, k)
        /\ queue' = [queue EXCEPT ![h] = Tail(queue[h])]
        /\ \E code \in {"success", "failure"} :
               m_channel' = [m_channel EXCEPT ![Head(queue[h]).conn] =
                                 Append(m_channel[Head(queue[h]).conn], code)]
        /\ UNCHANGED <<wpc, m_host, hpc>>
    BY <1>20 DEF dm_load_clone, Dequeue, Reply, Kinds, GameMessages, CloneMessages
  <2>2. QED
    BY <2>1, AnswerKeeps
<1>21. ASSUME NEW h \in Hosts, NEW bcast \in BOOLEAN, dm_read_sdl(h, bcast)
       PROVE  RequestInv'
  <2>1. /\ \E k \in Kinds \ {"shutdown"} : Serving(h, k)
        /\ queue' = [queue EXCEPT ![h] = Tail(queue[h])]
        /\ \E code \in {"success", "failure"} :
               m_channel' = [m_channel EXCEPT ![Head(queue[h]).conn] =
                                 Append(m_channel[Head(queue[h]).conn], code)]
        /\ UNCHANGED <<wpc, m_host, hpc>>
    BY <1>21 DEF dm_read_sdl, Dequeue, Reply, Kinds, GameMessages, CloneMessages
  <2>2. QED
    BY <2>1, AnswerKeeps
<1>22. ASSUME NEW h \in Hosts, dm_send_state(h)
       PROVE  RequestInv'
  <2>1. /\ \E k \in Kinds \ {"shutdown"} : Serving(h, k)
        /\ queue' = [queue EXCEPT ![h] = Tail(queue[h])]
        /\ \E code \in {"success", "failure"} :
               m_channel' = [m_channel EXCEPT ![Head(queue[h]).conn] =
                                 Append(m_channel[Head(queue[h]).conn], code)]
        /\ UNCHANGED <<wpc, m_host, hpc>>
    BY <1>22 DEF dm_send_state, Dequeue, Reply, Kinds, GameMessages, CloneMessages
  <2>2. QED
    BY <2>1, AnswerKeeps
<1>23. ASSUME NEW h \in Hosts, dm_game_message(h)
       PROVE  RequestInv'
  <2>1. /\ \E k \in Kinds \ {"shutdown"} : Serving(h, k)
        /\ queue' = [queue EXCEPT ![h] = Tail(queue[h])]
        /\ \E code \in {"success", "failure"} :
               m_channel' = [m_channel EXCEPT ![Head(queue[h]).conn] =
                                 Append(m_channel[Head(queue[h]).conn], code)]
        /\ UNCHANGED <<wpc, m_host, hpc>>
    BY <1>23 DEF dm_game_message, Dequeue, Reply, Kinds, GameMessages, CloneMessages
  <2>2. QED
    BY <2>1, AnswerKeeps
<1>24. ASSUME NEW h \in Hosts, dm_game_disconnect(h)
       PROVE  RequestInv'
  BY <1>24, DeferKeeps DEF dm_game_disconnect, Dequeue, workerVars
<1>25. ASSUME NEW h \in Hosts, dm_game_disconnect_finish(h)
       PROVE  RequestInv'
  <2>1. \/ UNCHANGED queue
        \/ queue' = [queue EXCEPT ![h] = Append(queue[h], Message("shutdown", NoConn, AnyObject))]
    BY <1>25 DEF dm_game_disconnect_finish, BaseInv, TypeOK
  <2>2. QED
    BY <1>25, <2>1, FinishKeeps DEF dm_game_disconnect_finish, Reply
<1>26. ASSUME NEW h \in Hosts, dm_game_shutdown_close(h)
       PROVE  RequestInv'
  BY <1>26, CloseKeeps DEF dm_game_shutdown_close, Dequeue, workerVars
<1>27. ASSUME NEW h \in Hosts, dm_game_shutdown_delete(h)
       PROVE  RequestInv'
  BY <1>27
     DEF dm_game_shutdown_delete, workerVars, BaseInv, RequestInv, QueueInv, Sound,
         DeferredInv, ReplyInv, Waiting
<1>28. CASE GameServer_Shutdown
  <2>1. CASE s_gameHosts = NoHost
    BY <1>28, <2>1
       DEF GameServer_Shutdown, workerVars, BaseInv, RequestInv, QueueInv, Sound,
                      DeferredInv, ReplyInv, Waiting
  <2>2. CASE s_gameHosts # NoHost
    BY <1>28, <2>2, NoticeKeeps DEF GameServer_Shutdown, workerVars, BaseInv, TypeOK
  <2>3. QED
    BY <2>1, <2>2
<1>29. CASE UNCHANGED vars
  BY <1>29
     DEF BaseInv, RequestInv, QueueInv, Sound, DeferredInv, ReplyInv, Waiting, vars,
         workerVars, hostVars, ghostVars, sceneVars
<1>30. QED
  BY <1>1, <1>2, <1>3, <1>3a, <1>4, <1>5, <1>6, <1>7, <1>8, <1>9, <1>10, <1>11, <1>12, <1>13,
     <1>14, <1>15, <1>16, <1>17, <1>18, <1>19, <1>20, <1>21, <1>22, <1>23, <1>24, <1>25,
     <1>26, <1>27, <1>28, <1>29
     DEF Next, WorkerProceeds, dm_gameHost

\* SEND_REPLY leaves no worker without the answer it has.
LEMMA ReplyGrows ==
    ASSUME BaseInv, NEW c \in Conns, \E code \in {"success", "failure"} : Reply(c, code)
    PROVE  m_channel'[c] # <<>> /\ \A d \in Conns : m_channel[d] # <<>> => m_channel'[d] # <<>>
<1>1. PICK code \in {"success", "failure"} :
         m_channel' = [m_channel EXCEPT ![c] = Append(m_channel[c], code)]
  BY DEF Reply
<1>2. m_channel \in [Conns -> Seq({"success", "failure"})]
  BY DEF BaseInv, TypeOK
<1>3. Append(m_channel[c], code) # <<>>
  BY <1>2
<1>4. QED
  BY <1>1, <1>2, <1>3

\* A member of a running host is in its loop.
LEMMA MemberFacts ==
    ASSUME BaseInv, NEW h \in Hosts, hstate[h] # "deleted", NEW d \in Members(h)
    PROVE  /\ d \in Conns /\ d # NoConn /\ m_host[d] = h /\ wpc[d] \in {"idle", "asking"}
           /\ m_clients[h][PlayerOf[d]] = d
  BY NullAssumption DEF BaseInv, TypeOK, MemberInv, Members

\* Every step keeps the pointers to hosts right.
LEMMA PointerStep ==
    ASSUME BaseInv, [Next]_vars
    PROVE  PointerInv'
<1> USE PlayerOfAssumption, NullAssumption DEF BaseInv, TypeOK, PointerInv, workerVars,
        hostVars, ghostVars, sceneVars, Put, HostExists, Serving, Reply, Dequeue,
        Message
<1>1. ASSUME NEW c \in Conns, cb_join(c)
      PROVE  PointerInv'
  BY <1>1 DEF cb_join
<1>2. ASSUME NEW c \in Conns, start_game_host(c)
      PROVE  PointerInv'
  BY <1>2 DEF start_game_host
<1>3. ASSUME NEW c \in Conns, start_game_host_fails(c)
      PROVE  PointerInv'
  BY <1>3 DEF start_game_host_fails
<1>3a. ASSUME NEW c \in Conns, start_game_host_orphan(c)
       PROVE  PointerInv'
  BY <1>3a DEF start_game_host_orphan
<1>4. ASSUME NEW c \in Conns, PutJoin(c)
      PROVE  PointerInv'
  BY <1>4 DEF PutJoin
<1>5. ASSUME NEW c \in Conns, VaultRefuses(c)
      PROVE  PointerInv'
  BY <1>5 DEF VaultRefuses
<1>6. ASSUME NEW c \in Conns, GetJoinReply(c)
      PROVE  PointerInv'
  BY <1>6 DEF GetJoinReply
<1>7. ASSUME NEW c \in Conns, Insert(c)
      PROVE  PointerInv'
  BY <1>7 DEF Insert
<1>8. ASSUME NEW c \in Conns, GetReply(c)
      PROVE  PointerInv'
  BY <1>8 DEF GetReply
<1>9. ASSUME NEW c \in Conns, PutDisconnect(c)
      PROVE  PointerInv'
  BY <1>9 DEF PutDisconnect
<1>10. ASSUME NEW c \in Conns, GetDisconnectReply(c)
       PROVE  PointerInv'
  BY <1>10 DEF GetDisconnectReply
<1>11. ASSUME NEW c \in Conns, UseDeletedHost(c)
       PROVE  PointerInv'
  BY <1>11 DEF UseDeletedHost
<1>12. ASSUME NEW c \in Conns, NEW k \in GameMessages, NEW o \in Objects, cb_netmsg(c, k, o)
       PROVE  PointerInv'
  BY <1>12 DEF cb_netmsg
<1>13. ASSUME NEW c \in Conns, Erase(c)
       PROVE  PointerInv'
  BY <1>13 DEF Erase
<1>14. ASSUME NEW h \in Hosts, dm_game_join(h)
       PROVE  PointerInv'
  BY <1>14 DEF dm_game_join
<1>15. ASSUME NEW h \in Hosts, dm_game_join_refused(h)
       PROVE  PointerInv'
  BY <1>15 DEF dm_game_join_refused
<1>16. ASSUME NEW h \in Hosts, dm_test_and_set_lock(h)
       PROVE  PointerInv'
  BY <1>16 DEF dm_test_and_set_lock
<1>17. ASSUME NEW h \in Hosts, dm_test_and_set_unlock(h)
       PROVE  PointerInv'
  BY <1>17 DEF dm_test_and_set_unlock
<1>18. ASSUME NEW h \in Hosts, dm_send_members(h)
       PROVE  PointerInv'
  BY <1>18 DEF dm_send_members
<1>19. ASSUME NEW h \in Hosts, NEW load \in BOOLEAN, dm_load_clone_player(h, load)
       PROVE  PointerInv'
  BY <1>19 DEF dm_load_clone_player
<1>20. ASSUME NEW h \in Hosts, NEW load \in BOOLEAN, dm_load_clone(h, load)
       PROVE  PointerInv'
  BY <1>20 DEF dm_load_clone
<1>21. ASSUME NEW h \in Hosts, NEW bcast \in BOOLEAN, dm_read_sdl(h, bcast)
       PROVE  PointerInv'
  BY <1>21 DEF dm_read_sdl
<1>22. ASSUME NEW h \in Hosts, dm_send_state(h)
       PROVE  PointerInv'
  BY <1>22 DEF dm_send_state
<1>23. ASSUME NEW h \in Hosts, dm_game_message(h)
       PROVE  PointerInv'
  BY <1>23 DEF dm_game_message
<1>24. ASSUME NEW h \in Hosts, dm_game_disconnect(h)
       PROVE  PointerInv'
  BY <1>24 DEF dm_game_disconnect
<1>25. ASSUME NEW h \in Hosts, dm_game_disconnect_finish(h)
       PROVE  PointerInv'
  BY <1>25 DEF dm_game_disconnect_finish
<1>26. ASSUME NEW h \in Hosts, dm_game_shutdown_close(h)
       PROVE  PointerInv'
  BY <1>26 DEF dm_game_shutdown_close
<1>27. ASSUME NEW h \in Hosts, dm_game_shutdown_delete(h)
       PROVE  PointerInv'
  BY <1>27 DEF dm_game_shutdown_delete
<1>28. CASE GameServer_Shutdown
  BY <1>28 DEF GameServer_Shutdown
<1>29. CASE UNCHANGED vars
  BY <1>29 DEF vars, workerVars, hostVars, ghostVars, sceneVars
<1>30. QED
  BY <1>1, <1>2, <1>3, <1>3a, <1>4, <1>5, <1>6, <1>7, <1>8, <1>9, <1>10, <1>11, <1>12, <1>13,
     <1>14, <1>15, <1>16, <1>17, <1>18, <1>19, <1>20, <1>21, <1>22, <1>23, <1>24, <1>25,
     <1>26, <1>27, <1>28, <1>29
     DEF Next, WorkerProceeds, dm_gameHost

\* Every step keeps the member map right.
LEMMA MemberStep ==
    ASSUME BaseInv, [Next]_vars
    PROVE  MemberInv'
<1> USE PlayerOfAssumption, NullAssumption DEF BaseInv, TypeOK, PointerInv, RequestInv,
        MemberInv, workerVars, hostVars, ghostVars, sceneVars, Put, HostExists, Serving,
        Reply, Dequeue, Message
<1>1. ASSUME NEW c \in Conns, cb_join(c)
      PROVE  MemberInv'
  BY <1>1 DEF cb_join
<1>2. ASSUME NEW c \in Conns, start_game_host(c)
      PROVE  MemberInv'
  BY <1>2 DEF start_game_host
<1>3. ASSUME NEW c \in Conns, start_game_host_fails(c)
      PROVE  MemberInv'
  BY <1>3 DEF start_game_host_fails
<1>3a. ASSUME NEW c \in Conns, start_game_host_orphan(c)
       PROVE  MemberInv'
  BY <1>3a DEF start_game_host_orphan
<1>4. ASSUME NEW c \in Conns, PutJoin(c)
      PROVE  MemberInv'
  BY <1>4 DEF PutJoin
<1>5. ASSUME NEW c \in Conns, VaultRefuses(c)
      PROVE  MemberInv'
  BY <1>5 DEF VaultRefuses
<1>6. ASSUME NEW c \in Conns, GetJoinReply(c)
      PROVE  MemberInv'
  BY <1>6 DEF GetJoinReply
<1>7. ASSUME NEW c \in Conns, Insert(c)
      PROVE  MemberInv'
  BY <1>7 DEF Insert
<1>8. ASSUME NEW c \in Conns, GetReply(c)
      PROVE  MemberInv'
  BY <1>8 DEF GetReply
<1>9. ASSUME NEW c \in Conns, PutDisconnect(c)
      PROVE  MemberInv'
  BY <1>9 DEF PutDisconnect
<1>10. ASSUME NEW c \in Conns, GetDisconnectReply(c)
       PROVE  MemberInv'
  BY <1>10 DEF GetDisconnectReply
<1>11. ASSUME NEW c \in Conns, UseDeletedHost(c)
       PROVE  MemberInv'
  BY <1>11 DEF UseDeletedHost
<1>12. ASSUME NEW c \in Conns, NEW k \in GameMessages, NEW o \in Objects, cb_netmsg(c, k, o)
       PROVE  MemberInv'
  BY <1>12 DEF cb_netmsg
<1>13. ASSUME NEW c \in Conns, Erase(c)
       PROVE  MemberInv'
  BY <1>13 DEF Erase
<1>14. ASSUME NEW h \in Hosts, dm_game_join(h)
       PROVE  MemberInv'
  BY <1>14 DEF dm_game_join
<1>15. ASSUME NEW h \in Hosts, dm_game_join_refused(h)
       PROVE  MemberInv'
  BY <1>15 DEF dm_game_join_refused
<1>16. ASSUME NEW h \in Hosts, dm_test_and_set_lock(h)
       PROVE  MemberInv'
  BY <1>16 DEF dm_test_and_set_lock
<1>17. ASSUME NEW h \in Hosts, dm_test_and_set_unlock(h)
       PROVE  MemberInv'
  BY <1>17 DEF dm_test_and_set_unlock
<1>18. ASSUME NEW h \in Hosts, dm_send_members(h)
       PROVE  MemberInv'
  BY <1>18 DEF dm_send_members
<1>19. ASSUME NEW h \in Hosts, NEW load \in BOOLEAN, dm_load_clone_player(h, load)
       PROVE  MemberInv'
  BY <1>19 DEF dm_load_clone_player
<1>20. ASSUME NEW h \in Hosts, NEW load \in BOOLEAN, dm_load_clone(h, load)
       PROVE  MemberInv'
  BY <1>20 DEF dm_load_clone
<1>21. ASSUME NEW h \in Hosts, NEW bcast \in BOOLEAN, dm_read_sdl(h, bcast)
       PROVE  MemberInv'
  BY <1>21 DEF dm_read_sdl
<1>22. ASSUME NEW h \in Hosts, dm_send_state(h)
       PROVE  MemberInv'
  BY <1>22 DEF dm_send_state
<1>23. ASSUME NEW h \in Hosts, dm_game_message(h)
       PROVE  MemberInv'
  BY <1>23 DEF dm_game_message
<1>24. ASSUME NEW h \in Hosts, dm_game_disconnect(h)
       PROVE  MemberInv'
  BY <1>24 DEF dm_game_disconnect
<1>25. ASSUME NEW h \in Hosts, dm_game_disconnect_finish(h)
       PROVE  MemberInv'
  BY <1>25 DEF dm_game_disconnect_finish
<1>26. ASSUME NEW h \in Hosts, dm_game_shutdown_close(h)
       PROVE  MemberInv'
  BY <1>26 DEF dm_game_shutdown_close
<1>27. ASSUME NEW h \in Hosts, dm_game_shutdown_delete(h)
       PROVE  MemberInv'
  BY <1>27 DEF dm_game_shutdown_delete
<1>28. CASE GameServer_Shutdown
  BY <1>28 DEF GameServer_Shutdown
<1>29. CASE UNCHANGED vars
  BY <1>29 DEF vars, workerVars, hostVars, ghostVars, sceneVars
<1> HIDE DEF BaseInv, TypeOK, PointerInv, RequestInv, MemberInv, workerVars, hostVars,
    ghostVars, sceneVars, Put, HostExists, Serving, Reply, Dequeue, Message
<1>30. QED
  BY <1>1, <1>2, <1>3, <1>3a, <1>4, <1>5, <1>6, <1>7, <1>8, <1>9, <1>10, <1>11, <1>12, <1>13,
     <1>14, <1>15, <1>16, <1>17, <1>18, <1>19, <1>20, <1>21, <1>22, <1>23, <1>24, <1>25,
     <1>26, <1>27, <1>28, <1>29
     DEF Next, WorkerProceeds, dm_gameHost

\* A game master is chosen among the members, who have been told, and is replaced
\* when his disconnect is handled.
LEMMA MasterStep ==
    ASSUME BaseInv, [Next]_vars
    PROVE  MasterInv'
<1>1. ASSUME NEW c \in Conns, cb_join(c)
      PROVE  MasterInv'
  BY <1>1 DEF cb_join, hostVars, ghostVars, sceneVars, BaseInv, MasterInv
<1>2. ASSUME NEW c \in Conns, start_game_host(c)
      PROVE  MasterInv'
  BY <1>2 DEF start_game_host, ghostVars, sceneVars, BaseInv, MasterInv
<1>3. ASSUME NEW c \in Conns, start_game_host_fails(c)
      PROVE  MasterInv'
  BY <1>3 DEF start_game_host_fails, hostVars, ghostVars, sceneVars, BaseInv, MasterInv
<1>3a. ASSUME NEW c \in Conns, start_game_host_orphan(c)
       PROVE  MasterInv'
  BY <1>3a DEF start_game_host_orphan, ghostVars, sceneVars, BaseInv, MasterInv
<1>4. ASSUME NEW c \in Conns, PutJoin(c)
      PROVE  MasterInv'
  BY <1>4 DEF PutJoin, Put, HostExists, ghostVars, sceneVars, BaseInv, MasterInv
<1>5. ASSUME NEW c \in Conns, VaultRefuses(c)
      PROVE  MasterInv'
  BY <1>5 DEF VaultRefuses, hostVars, ghostVars, sceneVars, BaseInv, MasterInv
<1>6. ASSUME NEW c \in Conns, GetJoinReply(c)
      PROVE  MasterInv'
  BY <1>6 DEF GetJoinReply, hostVars, sceneVars, BaseInv, TypeOK, MasterInv
<1>7. ASSUME NEW c \in Conns, Insert(c)
      PROVE  MasterInv'
  BY <1>7 DEF Insert, HostExists, ghostVars, sceneVars, BaseInv, MasterInv
<1>8. ASSUME NEW c \in Conns, GetReply(c)
      PROVE  MasterInv'
  BY <1>8 DEF GetReply, hostVars, ghostVars, sceneVars, BaseInv, MasterInv
<1>9. ASSUME NEW c \in Conns, PutDisconnect(c)
      PROVE  MasterInv'
  BY <1>9 DEF PutDisconnect, Put, HostExists, ghostVars, sceneVars, BaseInv, MasterInv
<1>10. ASSUME NEW c \in Conns, GetDisconnectReply(c)
       PROVE  MasterInv'
  BY <1>10 DEF GetDisconnectReply, hostVars, ghostVars, sceneVars, BaseInv, MasterInv
<1>11. ASSUME NEW c \in Conns, UseDeletedHost(c)
       PROVE  MasterInv'
  BY <1>11 DEF UseDeletedHost, hostVars, ghostVars, sceneVars, BaseInv, MasterInv
<1>12. ASSUME NEW c \in Conns, NEW k \in GameMessages, NEW o \in Objects, cb_netmsg(c, k, o)
       PROVE  MasterInv'
  BY <1>12 DEF cb_netmsg, Put, HostExists, ghostVars, sceneVars, BaseInv, MasterInv
<1>13. ASSUME NEW c \in Conns, Erase(c)
       PROVE  MasterInv'
  BY <1>13 DEF Erase, HostExists, ghostVars, sceneVars, BaseInv, MasterInv
<1>14. ASSUME NEW h \in Hosts, dm_game_join(h)
       PROVE  MasterInv'
  <2> DEFINE c == Head(queue[h]).conn
  <2>1. c \in Conns /\ m_host[c] = h /\ wpc[c] = "joining" /\ m_channel[c] = <<>>
    BY <1>14, ServingFacts DEF dm_game_join, Kinds, PhaseOf
  <2>2. m_channel'[c] # <<>> /\ \A d \in Conns : m_channel[d] # <<>> => m_channel'[d] # <<>>
    BY <1>14, <2>1, ReplyGrows DEF dm_game_join, Reply, BaseInv
  <2>3. c \notin owns
    BY <2>1 DEF BaseInv, MasterInv
  <2>4. CASE m_gameMaster[h] = NoPlayer
    <3>1. /\ m_gameMaster' = [m_gameMaster EXCEPT ![h] = PlayerOf[c]] /\ owns' = owns \cup {c}
          /\ UNCHANGED <<wpc, m_host>>
      BY <1>14, <2>4 DEF dm_game_join
    <3>2. QED
      BY <2>1, <2>2, <3>1 DEF BaseInv, TypeOK, MasterInv
  <2>5. CASE m_gameMaster[h] # NoPlayer
    <3>1. UNCHANGED <<m_gameMaster, owns, wpc, m_host>>
      BY <1>14, <2>3, <2>5 DEF dm_game_join, BaseInv, TypeOK
    <3>2. QED
      BY <2>2, <3>1 DEF BaseInv, TypeOK, MasterInv
  <2>6. QED
    BY <2>4, <2>5
<1>15. ASSUME NEW h \in Hosts, dm_game_join_refused(h)
       PROVE  MasterInv'
  <2>1. Head(queue[h]).conn \in Conns
    <3>1. \E k \in Kinds : k # "shutdown" /\ Serving(h, k)
      BY <1>15 DEF dm_game_join_refused, Kinds, GameMessages, CloneMessages
    <3>2. QED
      BY <3>1, ServingFacts
  <2>2. \A d \in Conns : m_channel[d] # <<>> => m_channel'[d] # <<>>
    <3>1. \E code \in {"success", "failure"} : Reply(Head(queue[h]).conn, code)
      BY <1>15 DEF dm_game_join_refused
    <3>2. QED
      BY <2>1, <3>1, ReplyGrows
  <2>3. UNCHANGED <<wpc, m_host, m_gameMaster, owns>>
    BY <1>15 DEF dm_game_join_refused, ghostVars
  <2>4. QED
    BY <2>2, <2>3 DEF BaseInv, TypeOK, MasterInv
<1>16. ASSUME NEW h \in Hosts, dm_test_and_set_lock(h)
       PROVE  MasterInv'
  <2>1. Head(queue[h]).conn \in Conns
    <3>1. \E k \in Kinds : k # "shutdown" /\ Serving(h, k)
      BY <1>16 DEF dm_test_and_set_lock, Kinds, GameMessages, CloneMessages
    <3>2. QED
      BY <3>1, ServingFacts
  <2>2. \A d \in Conns : m_channel[d] # <<>> => m_channel'[d] # <<>>
    <3>1. \E code \in {"success", "failure"} : Reply(Head(queue[h]).conn, code)
      BY <1>16 DEF dm_test_and_set_lock
    <3>2. QED
      BY <2>1, <3>1, ReplyGrows
  <2>3. UNCHANGED <<wpc, m_host, m_gameMaster, owns>>
    BY <1>16 DEF dm_test_and_set_lock, ghostVars
  <2>4. QED
    BY <2>2, <2>3 DEF BaseInv, TypeOK, MasterInv
<1>17. ASSUME NEW h \in Hosts, dm_test_and_set_unlock(h)
       PROVE  MasterInv'
  <2>1. Head(queue[h]).conn \in Conns
    <3>1. \E k \in Kinds : k # "shutdown" /\ Serving(h, k)
      BY <1>17 DEF dm_test_and_set_unlock, Kinds, GameMessages, CloneMessages
    <3>2. QED
      BY <3>1, ServingFacts
  <2>2. \A d \in Conns : m_channel[d] # <<>> => m_channel'[d] # <<>>
    <3>1. \E code \in {"success", "failure"} : Reply(Head(queue[h]).conn, code)
      BY <1>17 DEF dm_test_and_set_unlock
    <3>2. QED
      BY <2>1, <3>1, ReplyGrows
  <2>3. UNCHANGED <<wpc, m_host, m_gameMaster, owns>>
    BY <1>17 DEF dm_test_and_set_unlock, ghostVars
  <2>4. QED
    BY <2>2, <2>3 DEF BaseInv, TypeOK, MasterInv
<1>18. ASSUME NEW h \in Hosts, dm_send_members(h)
       PROVE  MasterInv'
  <2>1. Head(queue[h]).conn \in Conns
    <3>1. \E k \in Kinds : k # "shutdown" /\ Serving(h, k)
      BY <1>18 DEF dm_send_members, Kinds, GameMessages, CloneMessages
    <3>2. QED
      BY <3>1, ServingFacts
  <2>2. \A d \in Conns : m_channel[d] # <<>> => m_channel'[d] # <<>>
    <3>1. \E code \in {"success", "failure"} : Reply(Head(queue[h]).conn, code)
      BY <1>18 DEF dm_send_members
    <3>2. QED
      BY <2>1, <3>1, ReplyGrows
  <2>3. UNCHANGED <<wpc, m_host, m_gameMaster, owns>>
    BY <1>18 DEF dm_send_members, ghostVars
  <2>4. QED
    BY <2>2, <2>3 DEF BaseInv, TypeOK, MasterInv
<1>19. ASSUME NEW h \in Hosts, NEW load \in BOOLEAN, dm_load_clone_player(h, load)
       PROVE  MasterInv'
  <2>1. Head(queue[h]).conn \in Conns
    <3>1. \E k \in Kinds : k # "shutdown" /\ Serving(h, k)
      BY <1>19 DEF dm_load_clone_player, Kinds, GameMessages, CloneMessages
    <3>2. QED
      BY <3>1, ServingFacts
  <2>2. \A d \in Conns : m_channel[d] # <<>> => m_channel'[d] # <<>>
    <3>1. \E code \in {"success", "failure"} : Reply(Head(queue[h]).conn, code)
      BY <1>19 DEF dm_load_clone_player
    <3>2. QED
      BY <2>1, <3>1, ReplyGrows
  <2>3. UNCHANGED <<wpc, m_host, m_gameMaster, owns>>
    BY <1>19 DEF dm_load_clone_player, ghostVars
  <2>4. QED
    BY <2>2, <2>3 DEF BaseInv, TypeOK, MasterInv
<1>20. ASSUME NEW h \in Hosts, NEW load \in BOOLEAN, dm_load_clone(h, load)
       PROVE  MasterInv'
  <2>1. Head(queue[h]).conn \in Conns
    <3>1. \E k \in Kinds : k # "shutdown" /\ Serving(h, k)
      BY <1>20 DEF dm_load_clone, Kinds, GameMessages, CloneMessages
    <3>2. QED
      BY <3>1, ServingFacts
  <2>2. \A d \in Conns : m_channel[d] # <<>> => m_channel'[d] # <<>>
    <3>1. \E code \in {"success", "failure"} : Reply(Head(queue[h]).conn, code)
      BY <1>20 DEF dm_load_clone
    <3>2. QED
      BY <2>1, <3>1, ReplyGrows
  <2>3. UNCHANGED <<wpc, m_host, m_gameMaster, owns>>
    BY <1>20 DEF dm_load_clone, ghostVars
  <2>4. QED
    BY <2>2, <2>3 DEF BaseInv, TypeOK, MasterInv
<1>21. ASSUME NEW h \in Hosts, NEW bcast \in BOOLEAN, dm_read_sdl(h, bcast)
       PROVE  MasterInv'
  <2>1. Head(queue[h]).conn \in Conns
    <3>1. \E k \in Kinds : k # "shutdown" /\ Serving(h, k)
      BY <1>21 DEF dm_read_sdl, Kinds, GameMessages, CloneMessages
    <3>2. QED
      BY <3>1, ServingFacts
  <2>2. \A d \in Conns : m_channel[d] # <<>> => m_channel'[d] # <<>>
    <3>1. \E code \in {"success", "failure"} : Reply(Head(queue[h]).conn, code)
      BY <1>21 DEF dm_read_sdl
    <3>2. QED
      BY <2>1, <3>1, ReplyGrows
  <2>3. UNCHANGED <<wpc, m_host, m_gameMaster, owns>>
    BY <1>21 DEF dm_read_sdl, ghostVars
  <2>4. QED
    BY <2>2, <2>3 DEF BaseInv, TypeOK, MasterInv
<1>22. ASSUME NEW h \in Hosts, dm_send_state(h)
       PROVE  MasterInv'
  <2>1. Head(queue[h]).conn \in Conns
    <3>1. \E k \in Kinds : k # "shutdown" /\ Serving(h, k)
      BY <1>22 DEF dm_send_state, Kinds, GameMessages, CloneMessages
    <3>2. QED
      BY <3>1, ServingFacts
  <2>2. \A d \in Conns : m_channel[d] # <<>> => m_channel'[d] # <<>>
    <3>1. \E code \in {"success", "failure"} : Reply(Head(queue[h]).conn, code)
      BY <1>22 DEF dm_send_state
    <3>2. QED
      BY <2>1, <3>1, ReplyGrows
  <2>3. UNCHANGED <<wpc, m_host, m_gameMaster, owns>>
    BY <1>22 DEF dm_send_state, ghostVars
  <2>4. QED
    BY <2>2, <2>3 DEF BaseInv, TypeOK, MasterInv
<1>23. ASSUME NEW h \in Hosts, dm_game_message(h)
       PROVE  MasterInv'
  <2>1. Head(queue[h]).conn \in Conns
    <3>1. \E k \in Kinds : k # "shutdown" /\ Serving(h, k)
      BY <1>23 DEF dm_game_message, Kinds, GameMessages, CloneMessages
    <3>2. QED
      BY <3>1, ServingFacts
  <2>2. \A d \in Conns : m_channel[d] # <<>> => m_channel'[d] # <<>>
    <3>1. \E code \in {"success", "failure"} : Reply(Head(queue[h]).conn, code)
      BY <1>23 DEF dm_game_message
    <3>2. QED
      BY <2>1, <3>1, ReplyGrows
  <2>3. UNCHANGED <<wpc, m_host, m_gameMaster, owns>>
    BY <1>23 DEF dm_game_message, ghostVars
  <2>4. QED
    BY <2>2, <2>3 DEF BaseInv, TypeOK, MasterInv
<1>24. ASSUME NEW h \in Hosts, dm_game_disconnect(h)
       PROVE  MasterInv'
  <2> DEFINE c == Head(queue[h]).conn
  <2>1. c \in Conns /\ m_host[c] = h
    BY <1>24, ServingFacts DEF dm_game_disconnect, Kinds
  <2>2. PICK new \in IF Members(h) = {} THEN {NoConn} ELSE Members(h) :
          IF m_gameMaster[h] # PlayerOf[c]
          THEN owns' = owns \ {c} /\ UNCHANGED m_gameMaster
          ELSE /\ m_gameMaster' = [m_gameMaster EXCEPT ![h] =
                      IF new = NoConn THEN NoPlayer ELSE PlayerOf[new]]
               /\ owns' = (owns \ {c}) \cup ({new} \ {NoConn})
    BY <1>24 DEF dm_game_disconnect
  <2>3. UNCHANGED <<wpc, m_host, m_channel>> /\ hstate[h] = "up"
    BY <1>24 DEF dm_game_disconnect, workerVars, Serving
  <2>4. new = NoConn \/ (/\ new \in Conns /\ new # NoConn /\ m_host[new] = h
                         /\ wpc[new] \in {"idle", "asking"})
    BY <2>2, <2>3, MemberFacts
  <2> HIDE DEF c
  <2>5. CASE m_gameMaster[h] # PlayerOf[c]
    <3>1. owns' = owns \ {c} /\ UNCHANGED m_gameMaster
      BY <2>2, <2>5
    <3>2. QED
      BY <2>1, <2>3, <2>5, <3>1 DEF BaseInv, TypeOK, MasterInv
  <2>6. CASE m_gameMaster[h] = PlayerOf[c]
    <3>1. /\ m_gameMaster' = [m_gameMaster EXCEPT ![h] =
                  IF new = NoConn THEN NoPlayer ELSE PlayerOf[new]]
          /\ owns' = (owns \ {c}) \cup ({new} \ {NoConn})
      BY <2>2, <2>6
    <3>2. /\ m_gameMaster'[h] = IF new = NoConn THEN NoPlayer ELSE PlayerOf[new]
          /\ \A g \in Hosts : g # h => m_gameMaster'[g] = m_gameMaster[g]
      BY <3>1 DEF BaseInv, TypeOK
    <3>3. \A d \in owns' : d \in owns \/ (d = new /\ new # NoConn)
      BY <3>1
    <3>4. ASSUME NEW g \in Hosts, m_gameMaster'[g] # NoPlayer
          PROVE  \E d \in owns' : m_host[d] = g /\ PlayerOf[d] = m_gameMaster'[g]
      <4>1. CASE g = h
        BY <2>4, <3>1, <3>2, <3>4, <4>1
      <4>2. CASE g # h
        <5>1. PICK d \in owns : m_host[d] = g /\ PlayerOf[d] = m_gameMaster[g]
          BY <3>2, <3>4, <4>2 DEF BaseInv, MasterInv
        <5>2. d \in owns'
          BY <2>1, <3>1, <4>2, <5>1
        <5>3. QED
          BY <3>2, <4>2, <5>1, <5>2
      <4>3. QED
        BY <4>1, <4>2
    <3>5. \A d \in owns' : /\ wpc[d] \notin {"out", "starting", "found"}
                           /\ wpc[d] = "joining" => m_channel[d] # <<>>
      BY <2>4, <3>3 DEF BaseInv, MasterInv
    <3>6. QED
      BY <2>3, <3>4, <3>5 DEF MasterInv
  <2>7. QED
    BY <2>5, <2>6
<1>25. ASSUME NEW h \in Hosts, dm_game_disconnect_finish(h)
       PROVE  MasterInv'
  <2>1. hpc[h] \in Conns
    BY <1>25 DEF dm_game_disconnect_finish, BaseInv, TypeOK
  <2>2. \A d \in Conns : m_channel[d] # <<>> => m_channel'[d] # <<>>
    BY <1>25, <2>1, ReplyGrows DEF dm_game_disconnect_finish, Reply, BaseInv
  <2>3. UNCHANGED <<wpc, m_host, m_gameMaster, owns>>
    BY <1>25 DEF dm_game_disconnect_finish, ghostVars
  <2>4. QED
    BY <2>2, <2>3 DEF BaseInv, TypeOK, MasterInv
<1>26. ASSUME NEW h \in Hosts, dm_game_shutdown_close(h)
       PROVE  MasterInv'
  BY <1>26 DEF dm_game_shutdown_close, workerVars, ghostVars, BaseInv, MasterInv
<1>27. ASSUME NEW h \in Hosts, dm_game_shutdown_delete(h)
       PROVE  MasterInv'
  BY <1>27 DEF dm_game_shutdown_delete, workerVars, ghostVars, sceneVars, BaseInv, MasterInv
<1>28. CASE GameServer_Shutdown
  BY <1>28 DEF GameServer_Shutdown, workerVars, ghostVars, sceneVars, BaseInv, MasterInv
<1>29. CASE UNCHANGED vars
  BY <1>29 DEF BaseInv, MasterInv, vars, workerVars, hostVars, ghostVars, sceneVars
<1>30. QED
  BY <1>1, <1>2, <1>3, <1>3a, <1>4, <1>5, <1>6, <1>7, <1>8, <1>9, <1>10, <1>11, <1>12, <1>13,
     <1>14, <1>15, <1>16, <1>17, <1>18, <1>19, <1>20, <1>21, <1>22, <1>23, <1>24, <1>25,
     <1>26, <1>27, <1>28, <1>29
     DEF Next, WorkerProceeds, dm_gameHost

\* Only the game master has been told that he owns the objects.
LEMMA OwnerStep ==
    ASSUME OnePlayerEach, BaseInv, OwnerInv, [Next]_vars
    PROVE  OwnerInv'
<1>1. ASSUME NEW c \in Conns, cb_join(c)
      PROVE  OwnerInv'
  BY <1>1
     DEF cb_join, workerVars, hostVars, ghostVars, sceneVars, BaseInv, TypeOK, MasterInv,
         OwnerInv
<1>2. ASSUME NEW c \in Conns, start_game_host(c)
      PROVE  OwnerInv'
  BY <1>2
     DEF start_game_host, workerVars, hostVars, ghostVars, sceneVars, BaseInv, TypeOK,
         MasterInv, OwnerInv
<1>3. ASSUME NEW c \in Conns, start_game_host_fails(c)
      PROVE  OwnerInv'
  BY <1>3 DEF start_game_host_fails, hostVars, ghostVars, sceneVars, OwnerInv
<1>3a. ASSUME NEW c \in Conns, start_game_host_orphan(c)
       PROVE  OwnerInv'
  BY <1>3a
     DEF start_game_host_orphan, ghostVars, sceneVars, OwnerInv, workerVars, BaseInv,
         TypeOK, MasterInv
<1>4. ASSUME NEW c \in Conns, PutJoin(c)
      PROVE  OwnerInv'
  BY <1>4 DEF PutJoin, Put, HostExists, ghostVars, sceneVars, OwnerInv
<1>5. ASSUME NEW c \in Conns, VaultRefuses(c)
      PROVE  OwnerInv'
  BY <1>5 DEF VaultRefuses, hostVars, ghostVars, sceneVars, OwnerInv
<1>6. ASSUME NEW c \in Conns, GetJoinReply(c)
      PROVE  OwnerInv'
  BY <1>6 DEF GetJoinReply, hostVars, sceneVars, OwnerInv
<1>7. ASSUME NEW c \in Conns, Insert(c)
      PROVE  OwnerInv'
  BY <1>7 DEF Insert, HostExists, ghostVars, sceneVars, OwnerInv
<1>8. ASSUME NEW c \in Conns, GetReply(c)
      PROVE  OwnerInv'
  BY <1>8 DEF GetReply, hostVars, ghostVars, sceneVars, OwnerInv
<1>9. ASSUME NEW c \in Conns, PutDisconnect(c)
      PROVE  OwnerInv'
  BY <1>9 DEF PutDisconnect, Put, HostExists, ghostVars, sceneVars, OwnerInv
<1>10. ASSUME NEW c \in Conns, GetDisconnectReply(c)
       PROVE  OwnerInv'
  BY <1>10 DEF GetDisconnectReply, hostVars, ghostVars, sceneVars, OwnerInv
<1>11. ASSUME NEW c \in Conns, UseDeletedHost(c)
       PROVE  OwnerInv'
  BY <1>11 DEF UseDeletedHost, hostVars, ghostVars, sceneVars, OwnerInv
<1>12. ASSUME NEW c \in Conns, NEW k \in GameMessages, NEW o \in Objects, cb_netmsg(c, k, o)
       PROVE  OwnerInv'
  BY <1>12 DEF cb_netmsg, Put, HostExists, ghostVars, sceneVars, OwnerInv
<1>13. ASSUME NEW c \in Conns, Erase(c)
       PROVE  OwnerInv'
  BY <1>13 DEF Erase, HostExists, ghostVars, sceneVars, OwnerInv
<1>14. ASSUME NEW h \in Hosts, dm_game_join(h)
       PROVE  OwnerInv'
  <2> DEFINE c == Head(queue[h]).conn
  <2>1. c \in Conns /\ m_host[c] = h /\ c \notin owns
    BY <1>14, ServingFacts DEF dm_game_join, Kinds, PhaseOf, BaseInv, MasterInv
  <2>2. CASE m_gameMaster[h] = NoPlayer
    <3>1. /\ m_gameMaster' = [m_gameMaster EXCEPT ![h] = PlayerOf[c]] /\ owns' = owns \cup {c}
          /\ UNCHANGED m_host
      BY <1>14, <2>2 DEF dm_game_join
    <3>2. \A d \in owns : m_host[d] # h
      BY <2>2, PlayerOfAssumption, NullAssumption DEF BaseInv, TypeOK, OwnerInv
    <3>3. QED
      BY <2>1, <3>1, <3>2 DEF BaseInv, TypeOK, OwnerInv
  <2>3. CASE m_gameMaster[h] # NoPlayer
    BY <1>14, <2>1, <2>3 DEF dm_game_join, BaseInv, TypeOK, OwnerInv
  <2>4. QED
    BY <2>2, <2>3
<1>15. ASSUME NEW h \in Hosts, dm_game_join_refused(h)
       PROVE  OwnerInv'
  BY <1>15 DEF dm_game_join_refused, Reply, ghostVars, sceneVars, OwnerInv
<1>16. ASSUME NEW h \in Hosts, dm_test_and_set_lock(h)
       PROVE  OwnerInv'
  BY <1>16 DEF dm_test_and_set_lock, Reply, sceneVars, OwnerInv
<1>17. ASSUME NEW h \in Hosts, dm_test_and_set_unlock(h)
       PROVE  OwnerInv'
  BY <1>17 DEF dm_test_and_set_unlock, Reply, sceneVars, OwnerInv
<1>18. ASSUME NEW h \in Hosts, dm_send_members(h)
       PROVE  OwnerInv'
  BY <1>18 DEF dm_send_members, Reply, ghostVars, OwnerInv
<1>19. ASSUME NEW h \in Hosts, NEW load \in BOOLEAN, dm_load_clone_player(h, load)
       PROVE  OwnerInv'
  BY <1>19 DEF dm_load_clone_player, Reply, ghostVars, OwnerInv
<1>20. ASSUME NEW h \in Hosts, NEW load \in BOOLEAN, dm_load_clone(h, load)
       PROVE  OwnerInv'
  BY <1>20 DEF dm_load_clone, Reply, ghostVars, OwnerInv
<1>21. ASSUME NEW h \in Hosts, NEW bcast \in BOOLEAN, dm_read_sdl(h, bcast)
       PROVE  OwnerInv'
  BY <1>21 DEF dm_read_sdl, Reply, ghostVars, OwnerInv
<1>22. ASSUME NEW h \in Hosts, dm_send_state(h)
       PROVE  OwnerInv'
  BY <1>22 DEF dm_send_state, Reply, ghostVars, OwnerInv
<1>23. ASSUME NEW h \in Hosts, dm_game_message(h)
       PROVE  OwnerInv'
  BY <1>23 DEF dm_game_message, Reply, ghostVars, sceneVars, OwnerInv
<1>24. ASSUME NEW h \in Hosts, dm_game_disconnect(h)
       PROVE  OwnerInv'
  <2> DEFINE c == Head(queue[h]).conn
  <2>1. c \in Conns /\ m_host[c] = h
    BY <1>24, ServingFacts DEF dm_game_disconnect, Kinds
  <2>2. PICK new \in IF Members(h) = {} THEN {NoConn} ELSE Members(h) :
          IF m_gameMaster[h] # PlayerOf[c]
          THEN owns' = owns \ {c} /\ UNCHANGED m_gameMaster
          ELSE /\ m_gameMaster' = [m_gameMaster EXCEPT ![h] =
                      IF new = NoConn THEN NoPlayer ELSE PlayerOf[new]]
               /\ owns' = (owns \ {c}) \cup ({new} \ {NoConn})
    BY <1>24 DEF dm_game_disconnect
  <2>3. UNCHANGED <<wpc, m_host, m_channel>> /\ hstate[h] = "up"
    BY <1>24 DEF dm_game_disconnect, workerVars, Serving
  <2>4. new = NoConn \/ (/\ new \in Conns /\ new # NoConn /\ m_host[new] = h
                         /\ wpc[new] \in {"idle", "asking"})
    BY <2>2, <2>3, MemberFacts
  <2> HIDE DEF c
  <2>5. CASE m_gameMaster[h] # PlayerOf[c]
    BY <2>2, <2>3, <2>5 DEF OwnerInv
  <2>6. CASE m_gameMaster[h] = PlayerOf[c]
    <3>1. /\ m_gameMaster' = [m_gameMaster EXCEPT ![h] =
                  IF new = NoConn THEN NoPlayer ELSE PlayerOf[new]]
          /\ owns' = (owns \ {c}) \cup ({new} \ {NoConn})
      BY <2>2, <2>6
    <3>2. /\ m_gameMaster'[h] = IF new = NoConn THEN NoPlayer ELSE PlayerOf[new]
          /\ \A g \in Hosts : g # h => m_gameMaster'[g] = m_gameMaster[g]
      BY <3>1 DEF BaseInv, TypeOK
    <3>3. ASSUME NEW d \in owns'
          PROVE  m_gameMaster'[m_host[d]] = PlayerOf[d]
      <4>1. CASE d = new /\ new # NoConn
        BY <2>4, <3>2, <4>1
      <4>2. CASE d \in owns /\ d # c
        <5>1. d \in Conns /\ m_gameMaster[m_host[d]] = PlayerOf[d]
          BY <4>2 DEF BaseInv, TypeOK, OwnerInv
        <5>2. m_host[d] # h
          BY <2>1, <2>6, <4>2, <5>1 DEF OnePlayerEach
        <5>3. m_host[d] \in Hosts
          BY <4>2, <5>1, HasHost DEF BaseInv, MasterInv
        <5>4. QED
          BY <3>2, <5>1, <5>2, <5>3
      <4>3. QED
        BY <3>1, <4>1, <4>2
    <3>4. QED
      BY <2>3, <3>3 DEF OwnerInv
  <2>7. QED
    BY <2>5, <2>6
<1>25. ASSUME NEW h \in Hosts, dm_game_disconnect_finish(h)
       PROVE  OwnerInv'
  BY <1>25 DEF dm_game_disconnect_finish, Reply, ghostVars, sceneVars, OwnerInv
<1>26. ASSUME NEW h \in Hosts, dm_game_shutdown_close(h)
       PROVE  OwnerInv'
  BY <1>26 DEF dm_game_shutdown_close, workerVars, ghostVars, OwnerInv
<1>27. ASSUME NEW h \in Hosts, dm_game_shutdown_delete(h)
       PROVE  OwnerInv'
  BY <1>27 DEF dm_game_shutdown_delete, workerVars, ghostVars, sceneVars, OwnerInv
<1>28. CASE GameServer_Shutdown
  BY <1>28 DEF GameServer_Shutdown, workerVars, ghostVars, sceneVars, OwnerInv
<1>29. CASE UNCHANGED vars
  BY <1>29 DEF OwnerInv, vars, workerVars, hostVars, ghostVars, sceneVars
<1>30. QED
  BY <1>1, <1>2, <1>3, <1>3a, <1>4, <1>5, <1>6, <1>7, <1>8, <1>9, <1>10, <1>11, <1>12, <1>13,
     <1>14, <1>15, <1>16, <1>17, <1>18, <1>19, <1>20, <1>21, <1>22, <1>23, <1>24, <1>25,
     <1>26, <1>27, <1>28, <1>29
     DEF Next, WorkerProceeds, dm_gameHost

\* An affirmed object has its holder on record until he releases it or leaves.
LEMMA LockStep ==
    ASSUME BaseInv, LockInv, [Next]_vars
    PROVE  LockInv'
<1>1. ASSUME NEW c \in Conns, cb_join(c)
      PROVE  LockInv'
  <2>1. wpc[c] \in {"out", "starting"} /\ m_host[c] = NoHost
    BY <1>1 DEF cb_join, BaseInv, PointerInv
  <2>2. /\ \A d \in Conns : d # c => m_host'[d] = m_host[d] /\ wpc'[d] = wpc[d]
        /\ UNCHANGED <<m_locks, holds>>
    BY <1>1 DEF cb_join, hostVars, ghostVars, BaseInv, TypeOK
  <2>3. holds[c] = {}
    BY <2>1 DEF LockInv, Early
  <2>4. ASSUME NEW d \in Conns, holds[d] # {}
        PROVE  d # c /\ m_host[d] \in Hosts /\ m_host[d] # NoHost /\ wpc[d] \notin Early
    BY <2>3, <2>4, HasHost, NullAssumption DEF LockInv, Early, BaseInv
  <2>5. \A d \in Conns : (holds[d] # {} /\ Alone(d)') => Alone(d)
    BY <2>1, <2>2, <2>4 DEF Alone
  <2>6. QED
    BY <2>2, <2>4, <2>5, NullAssumption DEF LockInv
<1>2. ASSUME NEW c \in Conns, start_game_host(c)
      PROVE  LockInv'
  <2>1. wpc[c] \in {"out", "starting"} /\ m_host[c] = NoHost
    BY <1>2 DEF start_game_host, BaseInv, PointerInv
  <2>2. /\ \A d \in Conns : d # c => m_host'[d] = m_host[d] /\ wpc'[d] = wpc[d]
        /\ UNCHANGED <<m_locks, holds>>
    BY <1>2 DEF start_game_host, hostVars, ghostVars, BaseInv, TypeOK
  <2>3. holds[c] = {}
    BY <2>1 DEF LockInv, Early
  <2>4. ASSUME NEW d \in Conns, holds[d] # {}
        PROVE  d # c /\ m_host[d] \in Hosts /\ m_host[d] # NoHost /\ wpc[d] \notin Early
    BY <2>3, <2>4, HasHost, NullAssumption DEF LockInv, Early, BaseInv
  <2>5. \A d \in Conns : (holds[d] # {} /\ Alone(d)') => Alone(d)
    BY <2>1, <2>2, <2>4 DEF Alone
  <2>6. QED
    BY <2>2, <2>4, <2>5, NullAssumption DEF LockInv
<1>3. ASSUME NEW c \in Conns, start_game_host_fails(c)
      PROVE  LockInv'
  BY <1>3 DEF start_game_host_fails, hostVars, ghostVars, sceneVars, LockInv, Early, Alone
<1>3a. ASSUME NEW c \in Conns, start_game_host_orphan(c)
       PROVE  LockInv'
  BY <1>3a DEF start_game_host_orphan, ghostVars, sceneVars, LockInv, Early, Alone
<1>4. ASSUME NEW c \in Conns, PutJoin(c)
      PROVE  LockInv'
  BY <1>4 DEF PutJoin, Put, HostExists, ghostVars, sceneVars, LockInv, Early, Alone
<1>5. ASSUME NEW c \in Conns, VaultRefuses(c)
      PROVE  LockInv'
  BY <1>5 DEF VaultRefuses, hostVars, ghostVars, sceneVars, LockInv, Early, Alone
<1>6. ASSUME NEW c \in Conns, GetJoinReply(c)
      PROVE  LockInv'
  BY <1>6 DEF GetJoinReply, hostVars, sceneVars, LockInv, Early, Alone
<1>7. ASSUME NEW c \in Conns, Insert(c)
      PROVE  LockInv'
  BY <1>7 DEF Insert, HostExists, ghostVars, sceneVars, LockInv, Early, Alone
<1>8. ASSUME NEW c \in Conns, GetReply(c)
      PROVE  LockInv'
  BY <1>8 DEF GetReply, hostVars, ghostVars, sceneVars, LockInv, Early, Alone
<1>9. ASSUME NEW c \in Conns, PutDisconnect(c)
      PROVE  LockInv'
  BY <1>9 DEF PutDisconnect, Put, HostExists, ghostVars, sceneVars, LockInv, Early, Alone
<1>10. ASSUME NEW c \in Conns, GetDisconnectReply(c)
       PROVE  LockInv'
  BY <1>10 DEF GetDisconnectReply, hostVars, ghostVars, sceneVars, LockInv, Early, Alone
<1>11. ASSUME NEW c \in Conns, UseDeletedHost(c)
       PROVE  LockInv'
  BY <1>11 DEF UseDeletedHost, hostVars, ghostVars, sceneVars, LockInv, Early, Alone
<1>12. ASSUME NEW c \in Conns, NEW k \in GameMessages, NEW o \in Objects, cb_netmsg(c, k, o)
       PROVE  LockInv'
  BY <1>12 DEF cb_netmsg, Put, HostExists, ghostVars, sceneVars, LockInv, Early, Alone
<1>13. ASSUME NEW c \in Conns, Erase(c)
       PROVE  LockInv'
  BY <1>13 DEF Erase, HostExists, ghostVars, sceneVars, LockInv, Early, Alone
<1>14. ASSUME NEW h \in Hosts, dm_game_join(h)
       PROVE  LockInv'
  BY <1>14 DEF dm_game_join, Reply, sceneVars, LockInv, Early, Alone
<1>15. ASSUME NEW h \in Hosts, dm_game_join_refused(h)
       PROVE  LockInv'
  BY <1>15 DEF dm_game_join_refused, Reply, ghostVars, sceneVars, LockInv, Early, Alone
<1>16. ASSUME NEW h \in Hosts, dm_test_and_set_lock(h)
       PROVE  LockInv'
  <2> DEFINE c == Head(queue[h]).conn
             x == Head(queue[h]).obj
  <2>1. c \in Conns /\ m_host[c] = h /\ wpc[c] = "asking" /\ x \in Objects
    BY <1>16, ServingFacts DEF dm_test_and_set_lock, Kinds, GameMessages, PhaseOf
  <2>2. UNCHANGED <<wpc, m_host>>
    BY <1>16 DEF dm_test_and_set_lock
  <2>3. CASE m_locks[h][x] = NoPlayer
    <3>1. /\ m_locks' = [m_locks EXCEPT ![h][x] = PlayerOf[c]]
          /\ holds' = [holds EXCEPT ![c] = holds[c] \cup {x}]
      BY <1>16, <2>3 DEF dm_test_and_set_lock
    <3>2. \A d \in Conns : (m_host[d] = h /\ Alone(d)) => x \notin holds[d]
      BY <2>3, PlayerOfAssumption, NullAssumption DEF LockInv
    <3> HIDE DEF c, x
    <3>3. /\ \A d \in Conns : d # c => holds'[d] = holds[d]
          /\ holds'[c] = holds[c] \cup {x}
          /\ m_locks'[h][x] = PlayerOf[c]
          /\ \A g \in Hosts : \A o \in Objects : (g # h \/ o # x) => m_locks'[g][o] = m_locks[g][o]
      BY <2>1, <3>1 DEF BaseInv, TypeOK
    <3>4. \A d \in Conns : Alone(d)' <=> Alone(d)
      BY <2>2 DEF Alone
    <3>5. ASSUME NEW d \in Conns, Alone(d), NEW y \in holds'[d]
          PROVE  m_locks'[m_host[d]][y] = PlayerOf[d]
      <4>1. CASE d = c /\ y = x
        BY <2>1, <3>3, <4>1
      <4>2. CASE ~(d = c /\ y = x)
        <5>1. y \in holds[d]
          BY <3>3, <3>5, <4>2
        <5>2. m_locks[m_host[d]][y] = PlayerOf[d] /\ y \in Objects /\ m_host[d] \in Hosts
          BY <3>5, <5>1, HasHost DEF BaseInv, TypeOK, LockInv, Early
        <5>3. m_host[d] # h \/ y # x
          BY <3>2, <3>5, <5>1
        <5>4. QED
          BY <3>3, <5>2, <5>3
      <4>3. QED
        BY <4>1, <4>2
    <3>6. ASSUME NEW g \in Hosts, NEW o \in Objects, m_locks'[g][o] # NoPlayer
          PROVE  \E d \in Conns : m_host[d] = g /\ PlayerOf[d] = m_locks'[g][o] /\ o \in holds'[d]
      <4>1. CASE g = h /\ o = x
        BY <2>1, <3>3, <4>1
      <4>2. CASE ~(g = h /\ o = x)
        BY <3>3, <3>6, <4>2 DEF LockInv
      <4>3. QED
        BY <4>1, <4>2
    <3>7. \A d \in Conns : holds'[d] # {} => wpc[d] \notin Early
      BY <2>1, <3>3 DEF LockInv, Early
    <3>8. QED
      BY <2>2, <3>4, <3>5, <3>6, <3>7 DEF LockInv
  <2>4. CASE m_locks[h][x] # NoPlayer
    <3>1. UNCHANGED <<m_locks, holds>>
      BY <1>16, <2>1, <2>4 DEF dm_test_and_set_lock, BaseInv, TypeOK
    <3>2. QED
      BY <2>2, <3>1 DEF LockInv, Alone
  <2>5. QED
    BY <2>3, <2>4
<1>17. ASSUME NEW h \in Hosts, dm_test_and_set_unlock(h)
       PROVE  LockInv'
  <2> DEFINE c == Head(queue[h]).conn
             x == Head(queue[h]).obj
  <2>1. c \in Conns /\ m_host[c] = h /\ x \in Objects
    BY <1>17, ServingFacts DEF dm_test_and_set_unlock, Kinds, GameMessages
  <2>2. /\ m_locks' = [m_locks EXCEPT ![h][x] =
                          IF m_locks[h][x] = PlayerOf[c] THEN NoPlayer ELSE m_locks[h][x]]
        /\ holds' = [holds EXCEPT ![c] = holds[c] \ {x}]
        /\ UNCHANGED <<wpc, m_host>>
    BY <1>17 DEF dm_test_and_set_unlock
  <2> HIDE DEF c, x
  <2>3. /\ \A d \in Conns : d # c => holds'[d] = holds[d]
        /\ holds'[c] = holds[c] \ {x}
        /\ m_locks'[h][x] = IF m_locks[h][x] = PlayerOf[c] THEN NoPlayer ELSE m_locks[h][x]
        /\ \A g \in Hosts : \A o \in Objects : (g # h \/ o # x) => m_locks'[g][o] = m_locks[g][o]
    BY <2>1, <2>2 DEF BaseInv, TypeOK
  <2>4. ASSUME NEW d \in Conns, Alone(d), NEW y \in holds'[d]
        PROVE  m_locks'[m_host[d]][y] = PlayerOf[d]
    <3>1. y \in holds[d] /\ (d = c => y # x)
      BY <2>3, <2>4
    <3>2. m_locks[m_host[d]][y] = PlayerOf[d] /\ y \in Objects /\ m_host[d] \in Hosts
      BY <2>4, <3>1, HasHost DEF BaseInv, TypeOK, LockInv, Early
    <3>3. CASE m_host[d] = h /\ y = x
      <4>1. PlayerOf[c] # PlayerOf[d]
        BY <2>1, <2>4, <3>1, <3>3 DEF Alone
      <4>2. QED
        BY <2>3, <3>2, <3>3, <4>1
    <3>4. CASE ~(m_host[d] = h /\ y = x)
      BY <2>3, <3>2, <3>4
    <3>5. QED
      BY <3>3, <3>4
  <2>5. ASSUME NEW g \in Hosts, NEW o \in Objects, m_locks'[g][o] # NoPlayer
        PROVE  \E d \in Conns : m_host[d] = g /\ PlayerOf[d] = m_locks'[g][o] /\ o \in holds'[d]
    <3>1. m_locks'[g][o] = m_locks[g][o] /\ ((g = h /\ o = x) => m_locks[g][o] # PlayerOf[c])
      BY <2>3, <2>5
    <3>2. PICK d \in Conns : m_host[d] = g /\ PlayerOf[d] = m_locks[g][o] /\ o \in holds[d]
      BY <2>5, <3>1 DEF LockInv
    <3>3. o \in holds'[d]
      BY <2>1, <2>3, <3>1, <3>2
    <3>4. QED
      BY <3>1, <3>2, <3>3
  <2>6. \A d \in Conns : holds'[d] # {} => wpc[d] \notin Early
    BY <2>3 DEF LockInv
  <2>7. \A d \in Conns : Alone(d)' <=> Alone(d)
    BY <2>2 DEF Alone
  <2>8. QED
    BY <2>2, <2>4, <2>5, <2>6, <2>7 DEF LockInv
<1>18. ASSUME NEW h \in Hosts, dm_send_members(h)
       PROVE  LockInv'
  BY <1>18 DEF dm_send_members, Reply, ghostVars, LockInv, Early, Alone
<1>19. ASSUME NEW h \in Hosts, NEW load \in BOOLEAN, dm_load_clone_player(h, load)
       PROVE  LockInv'
  BY <1>19 DEF dm_load_clone_player, Reply, ghostVars, LockInv, Early, Alone
<1>20. ASSUME NEW h \in Hosts, NEW load \in BOOLEAN, dm_load_clone(h, load)
       PROVE  LockInv'
  BY <1>20 DEF dm_load_clone, Reply, ghostVars, LockInv, Early, Alone
<1>21. ASSUME NEW h \in Hosts, NEW bcast \in BOOLEAN, dm_read_sdl(h, bcast)
       PROVE  LockInv'
  BY <1>21 DEF dm_read_sdl, Reply, ghostVars, LockInv, Early, Alone
<1>22. ASSUME NEW h \in Hosts, dm_send_state(h)
       PROVE  LockInv'
  BY <1>22 DEF dm_send_state, Reply, ghostVars, LockInv, Early, Alone
<1>23. ASSUME NEW h \in Hosts, dm_game_message(h)
       PROVE  LockInv'
  BY <1>23 DEF dm_game_message, Reply, ghostVars, sceneVars, LockInv, Early, Alone
<1>24. ASSUME NEW h \in Hosts, dm_game_disconnect(h)
       PROVE  LockInv'
  <2> DEFINE c == Head(queue[h]).conn
  <2>1. c \in Conns /\ m_host[c] = h
    BY <1>24, ServingFacts DEF dm_game_disconnect, Kinds
  <2>2. /\ m_locks' = [m_locks EXCEPT ![h] =
                          [x \in Objects |-> IF m_locks[h][x] = PlayerOf[c] THEN NoPlayer ELSE m_locks[h][x]]]
        /\ holds' = [holds EXCEPT ![c] = {}]
        /\ UNCHANGED <<wpc, m_host>>
    BY <1>24 DEF dm_game_disconnect, workerVars
  <2> HIDE DEF c
  <2>3. /\ \A d \in Conns : d # c => holds'[d] = holds[d]
        /\ holds'[c] = {}
        /\ \A o \in Objects :
               m_locks'[h][o] = IF m_locks[h][o] = PlayerOf[c] THEN NoPlayer ELSE m_locks[h][o]
        /\ \A g \in Hosts : g # h => m_locks'[g] = m_locks[g]
    BY <2>1, <2>2 DEF BaseInv, TypeOK
  <2>4. ASSUME NEW d \in Conns, Alone(d), NEW y \in holds'[d]
        PROVE  m_locks'[m_host[d]][y] = PlayerOf[d]
    <3>1. y \in holds[d] /\ d # c
      BY <2>3, <2>4
    <3>2. m_locks[m_host[d]][y] = PlayerOf[d] /\ y \in Objects /\ m_host[d] \in Hosts
      BY <2>4, <3>1, HasHost DEF BaseInv, TypeOK, LockInv, Early
    <3>3. m_host[d] = h => PlayerOf[c] # PlayerOf[d]
      BY <2>1, <2>4, <3>1 DEF Alone
    <3>4. QED
      BY <2>3, <3>2, <3>3
  <2>5. ASSUME NEW g \in Hosts, NEW o \in Objects, m_locks'[g][o] # NoPlayer
        PROVE  \E d \in Conns : m_host[d] = g /\ PlayerOf[d] = m_locks'[g][o] /\ o \in holds'[d]
    <3>1. m_locks'[g][o] = m_locks[g][o] /\ (g = h => m_locks[g][o] # PlayerOf[c])
      BY <2>3, <2>5
    <3>2. PICK d \in Conns : m_host[d] = g /\ PlayerOf[d] = m_locks[g][o] /\ o \in holds[d]
      BY <2>5, <3>1 DEF LockInv
    <3>3. d # c
      BY <2>1, <3>1, <3>2
    <3>4. QED
      BY <2>3, <3>1, <3>2, <3>3
  <2>6. \A d \in Conns : holds'[d] # {} => wpc[d] \notin Early
    BY <2>3 DEF LockInv
  <2>7. \A d \in Conns : Alone(d)' <=> Alone(d)
    BY <2>2 DEF Alone
  <2>8. QED
    BY <2>2, <2>4, <2>5, <2>6, <2>7 DEF LockInv
<1>25. ASSUME NEW h \in Hosts, dm_game_disconnect_finish(h)
       PROVE  LockInv'
  BY <1>25 DEF dm_game_disconnect_finish, Reply, ghostVars, sceneVars, LockInv, Early, Alone
<1>26. ASSUME NEW h \in Hosts, dm_game_shutdown_close(h)
       PROVE  LockInv'
  BY <1>26 DEF dm_game_shutdown_close, workerVars, ghostVars, LockInv, Early, Alone
<1>27. ASSUME NEW h \in Hosts, dm_game_shutdown_delete(h)
       PROVE  LockInv'
  BY <1>27 DEF dm_game_shutdown_delete, workerVars, ghostVars, sceneVars, LockInv, Early, Alone
<1>28. CASE GameServer_Shutdown
  BY <1>28 DEF GameServer_Shutdown, workerVars, ghostVars, sceneVars, LockInv, Early, Alone
<1>29. CASE UNCHANGED vars
  BY <1>29 DEF LockInv, Alone, vars, workerVars, hostVars, ghostVars, sceneVars
<1>30. QED
  BY <1>1, <1>2, <1>3, <1>3a, <1>4, <1>5, <1>6, <1>7, <1>8, <1>9, <1>10, <1>11, <1>12, <1>13,
     <1>14, <1>15, <1>16, <1>17, <1>18, <1>19, <1>20, <1>21, <1>22, <1>23, <1>24, <1>25,
     <1>26, <1>27, <1>28, <1>29
     DEF Next, WorkerProceeds, dm_gameHost

\* An admitted client with a player of its own that asks is in the member map, so the
\* map is not empty when dm_send_members computes size() - 1; and who is not in the map
\* while the mutex is left locked cannot come into it.
LEMMA AdmissionStep ==
    ASSUME BaseInv, AdmissionInv, [Next]_vars
    PROVE  AdmissionInv'
<1>1. ASSUME NEW c \in Conns, cb_join(c)
      PROVE  AdmissionInv'
  <2>1. wpc[c] \in {"out", "starting"} /\ m_host[c] = NoHost /\ c \notin admitted
    BY <1>1 DEF cb_join, BaseInv, PointerInv, AdmissionInv, Early
  <2>2. /\ \A d \in Conns : d # c => m_host'[d] = m_host[d] /\ wpc'[d] = wpc[d]
        /\ UNCHANGED <<m_clients, admitted, jammed>>
        /\ \A h \in Hosts : hstate[h] = "up" => hstate'[h] = "up"
    BY <1>1 DEF cb_join, hostVars, ghostVars, BaseInv, TypeOK
  <2>3. \A d \in Conns : (m_host[d] \in Hosts /\ Alone(d)') => Alone(d)
    BY <2>1, <2>2, NullAssumption DEF Alone
  <2>4. ASSUME NEW d \in Conns, NEW h \in Hosts, m_host[d] = h, ~Alone(d)
        PROVE  ~Alone(d)'
    BY <2>1, <2>2, <2>4, NullAssumption DEF Alone
  <2>5. ASSUME NEW d \in admitted, Alone(d)', wpc'[d] \in {"idle", "asking"}
        PROVE  m_clients'[m_host'[d]][PlayerOf[d]] = d
    <3>1. d \in Conns /\ d # c
      BY <2>1 DEF BaseInv, TypeOK
    <3>2. m_host[d] \in Hosts
      BY <2>2, <2>5, <3>1, HasHost DEF BaseInv
    <3>3. QED
      BY <2>2, <2>3, <2>5, <3>1, <3>2 DEF AdmissionInv
  <2>6. ASSUME NEW h \in Hosts, jammed'[h]
        PROVE  \E d \in Conns : Outsider(h, d)' /\ (d \notin admitted' \/ ~Alone(d)')
    <3>1. PICK d \in Conns : Outsider(h, d) /\ (d \notin admitted \/ ~Alone(d))
      BY <2>2, <2>6 DEF AdmissionInv, OnlyOutsidersJam
    <3>2. Outsider(h, d)'
      BY <2>1, <2>2, <3>1, NullAssumption DEF Outsider, Members
    <3>3. ~Alone(d) => ~Alone(d)'
      BY <2>4, <3>1 DEF Outsider
    <3>4. QED
      BY <2>2, <3>1, <3>2, <3>3
  <2>7. \A d \in admitted : wpc'[d] \notin Early \ {"replied"}
    BY <2>1, <2>2 DEF AdmissionInv, BaseInv, TypeOK
  <2>8. QED
    BY <2>2, <2>5, <2>6, <2>7 DEF AdmissionInv, OnlyOutsidersJam
<1>2. ASSUME NEW c \in Conns, start_game_host(c)
      PROVE  AdmissionInv'
  <2>1. wpc[c] \in {"out", "starting"} /\ m_host[c] = NoHost /\ c \notin admitted
    BY <1>2 DEF start_game_host, BaseInv, PointerInv, AdmissionInv, Early
  <2>2. /\ \A d \in Conns : d # c => m_host'[d] = m_host[d] /\ wpc'[d] = wpc[d]
        /\ UNCHANGED <<m_clients, admitted, jammed>>
        /\ \A h \in Hosts : hstate[h] = "up" => hstate'[h] = "up"
    BY <1>2 DEF start_game_host, hostVars, ghostVars, BaseInv, TypeOK
  <2>3. \A d \in Conns : (m_host[d] \in Hosts /\ Alone(d)') => Alone(d)
    BY <2>1, <2>2, NullAssumption DEF Alone
  <2>4. ASSUME NEW d \in Conns, NEW h \in Hosts, m_host[d] = h, ~Alone(d)
        PROVE  ~Alone(d)'
    BY <2>1, <2>2, <2>4, NullAssumption DEF Alone
  <2>5. ASSUME NEW d \in admitted, Alone(d)', wpc'[d] \in {"idle", "asking"}
        PROVE  m_clients'[m_host'[d]][PlayerOf[d]] = d
    <3>1. d \in Conns /\ d # c
      BY <2>1 DEF BaseInv, TypeOK
    <3>2. m_host[d] \in Hosts
      BY <2>2, <2>5, <3>1, HasHost DEF BaseInv
    <3>3. QED
      BY <2>2, <2>3, <2>5, <3>1, <3>2 DEF AdmissionInv
  <2>6. ASSUME NEW h \in Hosts, jammed'[h]
        PROVE  \E d \in Conns : Outsider(h, d)' /\ (d \notin admitted' \/ ~Alone(d)')
    <3>1. PICK d \in Conns : Outsider(h, d) /\ (d \notin admitted \/ ~Alone(d))
      BY <2>2, <2>6 DEF AdmissionInv, OnlyOutsidersJam
    <3>2. Outsider(h, d)'
      BY <2>1, <2>2, <3>1, NullAssumption DEF Outsider, Members
    <3>3. ~Alone(d) => ~Alone(d)'
      BY <2>4, <3>1 DEF Outsider
    <3>4. QED
      BY <2>2, <3>1, <3>2, <3>3
  <2>7. \A d \in admitted : wpc'[d] \notin Early \ {"replied"}
    BY <2>1, <2>2 DEF AdmissionInv, BaseInv, TypeOK
  <2>8. QED
    BY <2>2, <2>5, <2>6, <2>7 DEF AdmissionInv, OnlyOutsidersJam
<1>3. ASSUME NEW c \in Conns, start_game_host_fails(c)
      PROVE  AdmissionInv'
  BY <1>3
     DEF start_game_host_fails, hostVars, ghostVars, sceneVars, AdmissionInv,
         OnlyOutsidersJam, Outsider, Members, Alone, Early
<1>3a. ASSUME NEW c \in Conns, start_game_host_orphan(c)
       PROVE  AdmissionInv'
  BY <1>3a
     DEF start_game_host_orphan, ghostVars, sceneVars, AdmissionInv, OnlyOutsidersJam,
         Outsider, Members, Alone, Early
<1>4. ASSUME NEW c \in Conns, PutJoin(c)
      PROVE  AdmissionInv'
  BY <1>4
     DEF PutJoin, Put, HostExists, ghostVars, sceneVars, AdmissionInv, OnlyOutsidersJam,
         Outsider, Members, Alone, Early
<1>5. ASSUME NEW c \in Conns, VaultRefuses(c)
      PROVE  AdmissionInv'
  BY <1>5
     DEF VaultRefuses, hostVars, ghostVars, sceneVars, AdmissionInv, OnlyOutsidersJam,
         Outsider, Members, Alone, Early
<1>6. ASSUME NEW c \in Conns, GetJoinReply(c)
      PROVE  AdmissionInv'
  <2>1. /\ wpc[c] = "joining" /\ wpc'[c] = "replied"
        /\ \A d \in Conns : d # c => wpc'[d] = wpc[d]
        /\ admitted' \subseteq admitted \cup {c} /\ admitted' \subseteq Conns
        /\ UNCHANGED <<m_host, m_clients, hstate, jammed>>
    BY <1>6 DEF GetJoinReply, hostVars, BaseInv, TypeOK
  <2>2. /\ \A d \in Conns : Alone(d)' <=> Alone(d)
        /\ \A h \in Hosts, d \in Conns : Outsider(h, d) => d # c /\ Outsider(h, d)'
    BY <2>1 DEF Alone, Outsider, Members
  <2>3. OnlyOutsidersJam'
    BY <2>1, <2>2 DEF AdmissionInv, OnlyOutsidersJam
  <2>4. QED
    BY <2>1, <2>2, <2>3 DEF AdmissionInv, Early
<1>7. ASSUME NEW c \in Conns, Insert(c)
      PROVE  AdmissionInv'
  <2>1. /\ m_host[c] \in Hosts /\ PlayerOf[c] \in Players /\ ~jammed[m_host[c]]
        /\ wpc[c] \in {"replied", "idle"}
    BY <1>7, HasHost, PlayerOfAssumption DEF Insert, BaseInv
  <2>2. /\ m_clients' = [m_clients EXCEPT ![m_host[c]][PlayerOf[c]] = c]
        /\ wpc' = [wpc EXCEPT ![c] = "idle"]
        /\ UNCHANGED <<m_host, admitted, jammed, hstate>>
    BY <1>7 DEF Insert, ghostVars
  <2>3. /\ \A d \in Conns : d # c => wpc'[d] = wpc[d]
        /\ wpc'[c] = "idle"
        /\ m_clients'[m_host[c]][PlayerOf[c]] = c
        /\ \A h \in Hosts, p \in Players :
               h # m_host[c] \/ p # PlayerOf[c] => m_clients'[h][p] = m_clients[h][p]
    BY <2>1, <2>2 DEF BaseInv, TypeOK
  <2>4. \A d \in Conns : Alone(d)' <=> Alone(d)
    BY <2>2 DEF Alone
  <2>5. ASSUME NEW d \in admitted, Alone(d), wpc'[d] \in {"idle", "asking"}
        PROVE  m_clients'[m_host[d]][PlayerOf[d]] = d
    <3>1. CASE d = c
      BY <2>3, <2>5, <3>1
    <3>2. CASE d # c
      <4>1. d \in Conns /\ wpc[d] \in {"idle", "asking"}
        BY <2>3, <2>5, <3>2 DEF BaseInv, TypeOK
      <4>2. m_host[d] \in Hosts /\ PlayerOf[d] \in Players
        BY <4>1, HasHost, PlayerOfAssumption DEF BaseInv
      <4>3. m_host[d] # m_host[c] \/ PlayerOf[d] # PlayerOf[c]
        BY <2>5, <3>2 DEF Alone
      <4>4. QED
        BY <2>3, <2>5, <4>1, <4>2, <4>3 DEF AdmissionInv
    <3>3. QED
      BY <3>1, <3>2
  <2>6. ASSUME NEW h \in Hosts, jammed'[h]
        PROVE  \E d \in Conns : Outsider(h, d)' /\ (d \notin admitted' \/ ~Alone(d)')
    <3>1. PICK d \in Conns : Outsider(h, d) /\ (d \notin admitted \/ ~Alone(d))
      BY <2>2, <2>6 DEF AdmissionInv, OnlyOutsidersJam
    <3>2. h # m_host[c]
      BY <2>1, <2>2, <2>6
    <3>3. d # c /\ Members(h)' = Members(h)
      BY <2>3, <3>1, <3>2 DEF Outsider, Members
    <3>4. Outsider(h, d)'
      BY <2>2, <2>3, <3>1, <3>3 DEF Outsider
    <3>5. QED
      BY <2>2, <2>4, <3>1, <3>4
  <2>7. \A d \in admitted : wpc'[d] \notin Early \ {"replied"}
    BY <2>3 DEF AdmissionInv, BaseInv, TypeOK, Early
  <2>8. QED
    BY <2>2, <2>4, <2>5, <2>6, <2>7 DEF AdmissionInv, OnlyOutsidersJam, BaseInv, TypeOK
<1>8. ASSUME NEW c \in Conns, GetReply(c)
      PROVE  AdmissionInv'
  BY <1>8
     DEF GetReply, hostVars, ghostVars, sceneVars, AdmissionInv, OnlyOutsidersJam,
         Outsider, Members, Alone, Early
<1>9. ASSUME NEW c \in Conns, PutDisconnect(c)
      PROVE  AdmissionInv'
  BY <1>9
     DEF PutDisconnect, Put, HostExists, ghostVars, sceneVars, AdmissionInv,
         OnlyOutsidersJam, Outsider, Members, Alone, Early
<1>10. ASSUME NEW c \in Conns, GetDisconnectReply(c)
       PROVE  AdmissionInv'
  BY <1>10
     DEF GetDisconnectReply, hostVars, ghostVars, sceneVars, AdmissionInv,
         OnlyOutsidersJam, Outsider, Members, Alone, Early
<1>11. ASSUME NEW c \in Conns, UseDeletedHost(c)
       PROVE  AdmissionInv'
  <2>1. hstate[m_host[c]] = "deleted" /\ m_host[c] \in Hosts
    BY <1>11, HasHost DEF UseDeletedHost, BaseInv
  <2>2. /\ wpc' = [wpc EXCEPT ![c] = "undefined"]
        /\ UNCHANGED <<m_host, m_clients, hstate, jammed, admitted>>
    BY <1>11 DEF UseDeletedHost, hostVars, ghostVars
  <2>3. \A h \in Hosts : jammed[h] => h # m_host[c]
    BY <2>1 DEF AdmissionInv
  <2>4. \A h \in Hosts, d \in Conns : (jammed[h] /\ Outsider(h, d)) => Outsider(h, d)'
    BY <2>2, <2>3 DEF Outsider, Members, BaseInv, TypeOK
  <2>5. \A d \in Conns : Alone(d)' <=> Alone(d)
    BY <2>2 DEF Alone
  <2>6. OnlyOutsidersJam'
    BY <2>2, <2>4, <2>5 DEF AdmissionInv, OnlyOutsidersJam
  <2>7. QED
    BY <2>2, <2>5, <2>6 DEF AdmissionInv, BaseInv, TypeOK, Early
<1>12. ASSUME NEW c \in Conns, NEW k \in GameMessages, NEW o \in Objects, cb_netmsg(c, k, o)
       PROVE  AdmissionInv'
  BY <1>12
     DEF cb_netmsg, Put, HostExists, ghostVars, sceneVars, AdmissionInv,
         OnlyOutsidersJam, Outsider, Members, Alone, Early
<1>13. ASSUME NEW c \in Conns, Erase(c)
      PROVE  AdmissionInv'
  <2>1. /\ m_host[c] \in Hosts /\ PlayerOf[c] \in Players /\ ~jammed[m_host[c]]
        /\ wpc[c] \in {"replied", "idle"}
    BY <1>13, HasHost, PlayerOfAssumption DEF Erase, BaseInv
  <2>2. /\ m_clients' = [m_clients EXCEPT ![m_host[c]][PlayerOf[c]] = NoConn]
        /\ wpc' = [wpc EXCEPT ![c] = "erased"]
        /\ UNCHANGED <<m_host, admitted, jammed, hstate>>
    BY <1>13 DEF Erase, ghostVars
  <2>3. /\ \A d \in Conns : d # c => wpc'[d] = wpc[d]
        /\ wpc'[c] = "erased"
        /\ m_clients'[m_host[c]][PlayerOf[c]] = NoConn
        /\ \A h \in Hosts, p \in Players :
               h # m_host[c] \/ p # PlayerOf[c] => m_clients'[h][p] = m_clients[h][p]
    BY <2>1, <2>2 DEF BaseInv, TypeOK
  <2>4. \A d \in Conns : Alone(d)' <=> Alone(d)
    BY <2>2 DEF Alone
  <2>5. ASSUME NEW d \in admitted, Alone(d), wpc'[d] \in {"idle", "asking"}
        PROVE  m_clients'[m_host[d]][PlayerOf[d]] = d
    <3>1. CASE d = c
      BY <2>3, <2>5, <3>1
    <3>2. CASE d # c
      <4>1. d \in Conns /\ wpc[d] \in {"idle", "asking"}
        BY <2>3, <2>5, <3>2 DEF BaseInv, TypeOK
      <4>2. m_host[d] \in Hosts /\ PlayerOf[d] \in Players
        BY <4>1, HasHost, PlayerOfAssumption DEF BaseInv
      <4>3. m_host[d] # m_host[c] \/ PlayerOf[d] # PlayerOf[c]
        BY <2>5, <3>2 DEF Alone
      <4>4. QED
        BY <2>3, <2>5, <4>1, <4>2, <4>3 DEF AdmissionInv
    <3>3. QED
      BY <3>1, <3>2
  <2>6. ASSUME NEW h \in Hosts, jammed'[h]
        PROVE  \E d \in Conns : Outsider(h, d)' /\ (d \notin admitted' \/ ~Alone(d)')
    <3>1. PICK d \in Conns : Outsider(h, d) /\ (d \notin admitted \/ ~Alone(d))
      BY <2>2, <2>6 DEF AdmissionInv, OnlyOutsidersJam
    <3>2. h # m_host[c]
      BY <2>1, <2>2, <2>6
    <3>3. d # c /\ Members(h)' = Members(h)
      BY <2>3, <3>1, <3>2 DEF Outsider, Members
    <3>4. Outsider(h, d)'
      BY <2>2, <2>3, <3>1, <3>3 DEF Outsider
    <3>5. QED
      BY <2>2, <2>4, <3>1, <3>4
  <2>7. \A d \in admitted : wpc'[d] \notin Early \ {"replied"}
    BY <2>3 DEF AdmissionInv, BaseInv, TypeOK, Early
  <2>8. QED
    BY <2>2, <2>4, <2>5, <2>6, <2>7 DEF AdmissionInv, OnlyOutsidersJam, BaseInv, TypeOK
<1>14. ASSUME NEW h \in Hosts, dm_game_join(h)
       PROVE  AdmissionInv'
  BY <1>14
     DEF dm_game_join, Reply, sceneVars, AdmissionInv, OnlyOutsidersJam, Outsider,
         Members, Alone, Early
<1>15. ASSUME NEW h \in Hosts, dm_game_join_refused(h)
       PROVE  AdmissionInv'
  BY <1>15
     DEF dm_game_join_refused, Reply, ghostVars, sceneVars, AdmissionInv,
         OnlyOutsidersJam, Outsider, Members, Alone, Early
<1>16. ASSUME NEW h \in Hosts, dm_test_and_set_lock(h)
       PROVE  AdmissionInv'
  BY <1>16
     DEF dm_test_and_set_lock, Reply, sceneVars, AdmissionInv, OnlyOutsidersJam,
         Outsider, Members, Alone, Early
<1>17. ASSUME NEW h \in Hosts, dm_test_and_set_unlock(h)
       PROVE  AdmissionInv'
  BY <1>17
     DEF dm_test_and_set_unlock, Reply, sceneVars, AdmissionInv, OnlyOutsidersJam,
         Outsider, Members, Alone, Early
<1>18. ASSUME NEW h \in Hosts, dm_send_members(h)
       PROVE  AdmissionInv'
  <2> DEFINE c == Head(queue[h]).conn
  <2>1. c \in Conns /\ m_host[c] = h /\ wpc[c] = "asking" /\ hstate[h] = "up"
    BY <1>18, ServingFacts DEF dm_send_members, Kinds, GameMessages, PhaseOf
  <2>2. /\ jammed' = [jammed EXCEPT ![h] = (Members(h) = {})]
        /\ UNCHANGED <<wpc, m_host, m_clients, admitted, hstate>>
    BY <1>18 DEF dm_send_members, ghostVars
  <2> HIDE DEF c
  <2>3. \A d \in Conns : Alone(d)' <=> Alone(d)
    BY <2>2 DEF Alone
  <2>4. \A g \in Hosts, d \in Conns : Outsider(g, d)' <=> Outsider(g, d)
    BY <2>2 DEF Outsider, Members
  <2>5. Members(h) = {} => Outsider(h, c) /\ (c \notin admitted \/ ~Alone(c))
    <3>1. ASSUME c \in admitted, Alone(c)
          PROVE  Members(h) # {}
      <4>1. m_clients[h][PlayerOf[c]] = c
        BY <2>1, <3>1 DEF AdmissionInv
      <4>2. QED
        BY <2>1, <4>1, PlayerOfAssumption, NullAssumption DEF Members
    <3>2. QED
      BY <2>1, <3>1 DEF Outsider
  <2>6. \A g \in Hosts : jammed'[g] => IF g = h THEN Members(h) = {} ELSE jammed[g]
    BY <2>2 DEF BaseInv, TypeOK
  <2>7. OnlyOutsidersJam'
    BY <2>1, <2>2, <2>3, <2>4, <2>5, <2>6 DEF AdmissionInv, OnlyOutsidersJam
  <2>8. QED
    BY <2>1, <2>2, <2>3, <2>6, <2>7 DEF AdmissionInv, BaseInv, TypeOK
<1>19. ASSUME NEW h \in Hosts, NEW load \in BOOLEAN, dm_load_clone_player(h, load)
       PROVE  AdmissionInv'
  BY <1>19
     DEF dm_load_clone_player, Reply, ghostVars, AdmissionInv, OnlyOutsidersJam,
         Outsider, Members, Alone, Early
<1>20. ASSUME NEW h \in Hosts, NEW load \in BOOLEAN, dm_load_clone(h, load)
       PROVE  AdmissionInv'
  BY <1>20
     DEF dm_load_clone, Reply, ghostVars, AdmissionInv, OnlyOutsidersJam, Outsider,
         Members, Alone, Early
<1>21. ASSUME NEW h \in Hosts, NEW bcast \in BOOLEAN, dm_read_sdl(h, bcast)
       PROVE  AdmissionInv'
  BY <1>21
     DEF dm_read_sdl, Reply, ghostVars, AdmissionInv, OnlyOutsidersJam, Outsider,
         Members, Alone, Early
<1>22. ASSUME NEW h \in Hosts, dm_send_state(h)
       PROVE  AdmissionInv'
  BY <1>22
     DEF dm_send_state, Reply, ghostVars, AdmissionInv, OnlyOutsidersJam, Outsider,
         Members, Alone, Early
<1>23. ASSUME NEW h \in Hosts, dm_game_message(h)
       PROVE  AdmissionInv'
  BY <1>23
     DEF dm_game_message, Reply, ghostVars, sceneVars, AdmissionInv, OnlyOutsidersJam,
         Outsider, Members, Alone, Early
<1>24. ASSUME NEW h \in Hosts, dm_game_disconnect(h)
       PROVE  AdmissionInv'
  BY <1>24
     DEF dm_game_disconnect, workerVars, AdmissionInv, OnlyOutsidersJam, Outsider,
         Members, Alone, Early
<1>25. ASSUME NEW h \in Hosts, dm_game_disconnect_finish(h)
       PROVE  AdmissionInv'
  BY <1>25
     DEF dm_game_disconnect_finish, Reply, ghostVars, sceneVars, AdmissionInv,
         OnlyOutsidersJam, Outsider, Members, Alone, Early
<1>26. ASSUME NEW h \in Hosts, dm_game_shutdown_close(h)
       PROVE  AdmissionInv'
  BY <1>26
     DEF dm_game_shutdown_close, workerVars, ghostVars, AdmissionInv, OnlyOutsidersJam,
         Outsider, Members, Alone, Early
<1>27. ASSUME NEW h \in Hosts, dm_game_shutdown_delete(h)
       PROVE  AdmissionInv'
  BY <1>27
     DEF dm_game_shutdown_delete, workerVars, ghostVars, sceneVars, AdmissionInv,
         OnlyOutsidersJam, Outsider, Members, Alone, Early
<1>28. CASE GameServer_Shutdown
  BY <1>28
     DEF GameServer_Shutdown, workerVars, ghostVars, sceneVars, AdmissionInv,
         OnlyOutsidersJam, Outsider, Members, Alone, Early
<1>29. CASE UNCHANGED vars
  BY <1>29
     DEF AdmissionInv, OnlyOutsidersJam, Outsider, Members, Alone, vars, workerVars,
         hostVars, ghostVars, sceneVars
<1>30. QED
  BY <1>1, <1>2, <1>3, <1>3a, <1>4, <1>5, <1>6, <1>7, <1>8, <1>9, <1>10, <1>11, <1>12, <1>13,
     <1>14, <1>15, <1>16, <1>17, <1>18, <1>19, <1>20, <1>21, <1>22, <1>23, <1>24, <1>25,
     <1>26, <1>27, <1>28, <1>29
     DEF Next, WorkerProceeds, dm_gameHost

\* Nobody is connected and no host exists.
LEMMA InitKeyed == Init => KeyedInv
<1> SUFFICES ASSUME Init
             PROVE  KeyedInv
  OBVIOUS
<1> USE PlayerOfAssumption, NullAssumption DEF Init
<1>1. /\ m_channel \in [Conns -> Seq({"success", "failure"})]
      /\ queue \in [Hosts -> Seq(Messages)]
  OBVIOUS
<1>2. TypeOK
  BY <1>1 DEF TypeOK
<1>3. PointerInv
  BY DEF PointerInv
<1>4. RequestInv
  BY DEF RequestInv, QueueInv, DeferredInv, ReplyInv, Waiting
<1>5. MemberInv /\ MasterInv
  BY DEF MemberInv, MasterInv
<1>6. OwnerInv /\ LockInv /\ AdmissionInv
  BY DEF OwnerInv, LockInv, AdmissionInv, OnlyOutsidersJam
<1>7. QED
  BY <1>2, <1>3, <1>4, <1>5, <1>6 DEF KeyedInv, HostInv, BaseInv

\* The steps above that need nothing of the players, together.
LEMMA HostStep ==
    ASSUME HostInv, [Next]_vars
    PROVE  HostInv'
<1>1. BaseInv /\ LockInv /\ AdmissionInv
  BY DEF HostInv
<1>2. TypeOK' /\ PointerInv' /\ RequestInv' /\ MemberInv' /\ MasterInv'
  BY <1>1, TypeStep, PointerStep, RequestStep, MemberStep, MasterStep
<1>3. LockInv' /\ AdmissionInv'
  BY <1>1, LockStep, AdmissionStep
<1>4. QED
  BY <1>2, <1>3 DEF HostInv, BaseInv

\* The part of the invariant that needs nothing of the players.
THEOREM HostInductive == Spec => []HostInv
<1>1. Init => HostInv
  BY InitKeyed DEF KeyedInv
<1>2. HostInv /\ [Next]_vars => HostInv'
  BY HostStep
<1>3. QED
  BY <1>1, <1>2, PTL DEF Spec

\* With the owner of the objects.
LEMMA KeyedStep ==
    ASSUME OnePlayerEach, KeyedInv, [Next]_vars
    PROVE  KeyedInv'
<1>1. HostInv /\ BaseInv /\ OwnerInv
  BY DEF KeyedInv, HostInv
<1>2. QED
  BY <1>1, HostStep, OwnerStep DEF KeyedInv

\* The invariant of the host, when every connection has a player of its own.
THEOREM KeyedInductive ==
    ASSUME OnePlayerEach
    PROVE  Spec => []KeyedInv
<1>1. KeyedInv /\ [Next]_vars => KeyedInv'
  BY KeyedStep
<1>2. QED
  BY InitKeyed, <1>1, PTL DEF Spec

\* The host object, its queue and the workers' channels keep their types.
THEOREM TypeCorrect == Spec => []TypeOK
<1>1. HostInv => TypeOK
  BY DEF HostInv, BaseInv
<1>2. QED
  BY <1>1, HostInductive, PTL

\* What the host thread dereferences is a worker in its loop (GameServer.cpp:159-161,
\* 287-290).
THEOREM NoDangling == Spec => []NoDanglingClient
<1>1. HostInv => NoDanglingClient
  <2> SUFFICES ASSUME HostInv, NEW h \in Hosts, Alive(h), NEW c \in Members(h)
               PROVE  m_host[c] = h /\ wpc[c] \in {"idle", "asking"}
    BY DEF NoDanglingClient
  <2>1. QED
    BY MemberFacts DEF Alive, HostInv
<1>2. QED
  BY <1>1, HostInductive, PTL

\* The game master is a client that was told so and that has not left
\* (GameHost.cpp:223-249).
THEOREM MasterLive == Spec => []MasterIsLive
<1>1. HostInv => MasterIsLive
  BY DEF HostInv, BaseInv, MasterInv, MasterIsLive
<1>2. QED
  BY <1>1, HostInductive, PTL

\* A message is in one place only.
LEMMA OutstandingFacts ==
    ASSUME BaseInv, NEW c \in Conns
    PROVE  Outstanding(c) = IF Waiting(c) THEN 1 ELSE 0
<1>1. m_channel[c] \in Seq({"success", "failure"}) /\ Len(m_channel[c]) \in Nat
  BY DEF BaseInv, TypeOK
<1>2. m_channel[c] = <<>> => Len(m_channel[c]) = 0
  OBVIOUS
<1>3. m_channel[c] # <<>> => Waiting(c) /\ Len(m_channel[c]) = 1
  BY DEF BaseInv, RequestInv, ReplyInv
<1>4. CASE m_host[c] = NoHost
  <2>1. ~Waiting(c)
    BY <1>4 DEF BaseInv, PointerInv, Waiting
  <2>2. QED
    BY <1>2, <1>3, <1>4, <2>1 DEF Outstanding
<1>5. CASE m_host[c] # NoHost
  <2> DEFINE h == m_host[c]
             I == {i \in DOMAIN queue[h] : queue[h][i].conn = c}
             here == IF hpc[h] = c THEN 1 ELSE 0
  <2>1. h \in Hosts
    BY <1>5 DEF BaseInv, TypeOK
  <2>2. DOMAIN queue[h] = 1 .. Len(queue[h])
    BY <2>1 DEF BaseInv, TypeOK
  <2>3. \A i \in I : /\ Waiting(c) /\ m_channel[c] = <<>> /\ hpc[h] # c
                     /\ \A j \in I : i = j
    BY <2>1, <2>2, NullAssumption
       DEF BaseInv, RequestInv, QueueInv, Sound, PhaseOf, Waiting
  <2>4. hpc[h] = c => Waiting(c) /\ m_channel[c] = <<>>
    BY <2>1, NullAssumption DEF BaseInv, RequestInv, DeferredInv, Waiting
  <2>5. Waiting(c) => m_channel[c] # <<>> \/ hpc[h] = c \/ I # {}
    BY <2>2 DEF BaseInv, RequestInv, ReplyInv
  <2>6. CASE I = {}
    <3>1. Cardinality(I) = 0
      BY <2>6, FS_EmptySet
    <3>2. here + Len(m_channel[c]) = IF Waiting(c) THEN 1 ELSE 0
      <4>1. CASE hpc[h] = c
        BY <1>2, <2>4, <4>1
      <4>2. CASE hpc[h] # c
        <5>1. here = 0 /\ (Waiting(c) <=> m_channel[c] # <<>>)
          BY <1>3, <2>5, <2>6, <4>2
        <5> HIDE DEF here
        <5>2. CASE Waiting(c)
          <6>1. here = 0 /\ Len(m_channel[c]) = 1
            BY <1>3, <5>1, <5>2
          <6>2. QED
            BY <5>2, <6>1
        <5>3. CASE ~Waiting(c)
          <6>1. here = 0 /\ Len(m_channel[c]) = 0
            BY <1>2, <5>1, <5>3
          <6>2. QED
            BY <5>3, <6>1
        <5>4. QED
          BY <5>2, <5>3
      <4>3. QED
        BY <4>1, <4>2
    <3>3. Outstanding(c) = 0 + here + Len(m_channel[c])
      BY <1>5, <3>1 DEF Outstanding
    <3>4. here \in Nat
      OBVIOUS
    <3> HIDE DEF I, h, here
    <3>5. QED
      BY <1>1, <3>2, <3>3, <3>4
  <2>7. CASE I # {}
    <3>1. PICK i \in I : TRUE
      BY <2>7
    <3>2. I = {i}
      BY <2>3, <3>1
    <3>3. Cardinality(I) = 1
      BY <3>2, FS_Singleton
    <3>4. Waiting(c) /\ Len(m_channel[c]) = 0 /\ here = 0
      BY <1>2, <2>3, <3>1
    <3>5. Outstanding(c) = 1 + here + Len(m_channel[c])
      BY <1>5, <3>3 DEF Outstanding
    <3> HIDE DEF I, h
    <3>6. QED
      BY <3>4, <3>5
  <2>8. QED
    BY <2>6, <2>7
<1>6. QED
  BY <1>4, <1>5

\* Every message is answered once, and no answer is left over (GameServer.cpp:146-150,
\* 172-174, 291-298).
THEOREM OneReply == Spec => []OneReplyPerMessage
<1>1. HostInv => OneReplyPerMessage
  BY OutstandingFacts DEF OneReplyPerMessage, HostInv
<1>2. QED
  BY <1>1, HostInductive, PTL

\* Two clients are never both told that they own the objects (GameHost.cpp:283-299,
\* 223-249).
THEOREM OwnerUnique ==
    ASSUME OnePlayerEach
    PROVE  Spec => []OneOwner
<1>1. KeyedInv => OneOwner
  BY DEF KeyedInv, HostInv, BaseInv, TypeOK, OwnerInv, OneOwner, OnePlayerEach
<1>2. QED
  BY <1>1, KeyedInductive, PTL

\* An affirmed object is not affirmed again before it is released, and who is on record
\* as its holder was affirmed it and has not left, whoever the other connections are
\* (GameHost.cpp:492-524, 213-221).
THEOREM LocksExclude == Spec => []LockExclusive
<1>1. HostInv => LockExclusive
  <2> SUFFICES ASSUME HostInv
               PROVE  LockExclusive
    OBVIOUS
  <2>1. LockInv
    BY DEF HostInv
  <2>2. ASSUME NEW c \in Conns, NEW d \in Conns, c # d, m_host[c] = m_host[d], Alone(c), Alone(d)
        PROVE  holds[c] \cap holds[d] = {}
    <3>1. PlayerOf[d] # PlayerOf[c]
      BY <2>2 DEF Alone
    <3>2. QED
      BY <2>1, <2>2, <3>1 DEF LockInv
  <2>3. QED
    BY <2>1, <2>2 DEF LockInv, LockExclusive
<1>2. QED
  BY <1>1, HostInductive, PTL

\* The member map's mutex is left locked only by a client that was refused, or that
\* another connection of its player took out of the map (GameHost.cpp:536-547).
THEOREM OutsidersJam == Spec => []OnlyOutsidersJam
<1>1. HostInv => OnlyOutsidersJam
  BY DEF HostInv, AdmissionInv
<1>2. QED
  BY <1>1, HostInductive, PTL

-----------------------------------------------------------------------------

\* A worker that is in its loop, and a member.
InLoop(c) == wpc[c] \in {"idle", "asking"}
Inside(c) == InLoop(c) /\ m_clients[m_host[c]][PlayerOf[c]] = c

\* Before it can become a member nothing is shown of a client or to it.
BlankInv ==
    \A c \in Conns : wpc[c] \in Early =>
        avatar[c] = "null" /\ sees[c] = {} /\ c \notin listed

\* A client is shown what is in its age, and a host keeps the states of its own.
SameHostInv ==
    /\ \A c, d \in Conns : (Avatar(d) \in sees[c] \/ Sdl(d) \in sees[c]) => m_host[d] = m_host[c]
    /\ \A h \in Hosts : \A d \in Conns : d \in m_states[h] => m_host[d] = h /\ wpc[d] \notin Early

\* A listed member has the avatars of the others.
AvatarsInv ==
    \A c, d \in Conns :
        (/\ Inside(c) /\ c \in listed /\ c # d
         /\ Inside(d) /\ m_host[d] = m_host[c] /\ avatar[d] = "loaded")
            => Avatar(d) \in sees[c]

\* A member has no clone its host has dropped, a listed one has them all.
ClonesInv ==
    \A c \in Conns : \A o \in Objects :
        (Inside(c) /\ hstate[m_host[c]] = "up") =>
            /\ Clone(o) \in sees[c] => o \in m_clones[m_host[c]]
            /\ (c \in listed /\ o \in m_clones[m_host[c]]) => Clone(o) \in sees[c]

\* The disconnect of d was handled.
Handled(d) ==
    \/ wpc[d] = "gone"
    \/ wpc[d] = "leaving" /\ (m_channel[d] # <<>> \/ hpc[m_host[d]] = d)

\* Nothing is left of a loaded avatar whose disconnect was handled.
GoneInv ==
    \A d \in Conns : (Handled(d) /\ avatar[d] = "loaded") =>
        /\ \A h \in Hosts : d \notin m_states[h]
        /\ \A c \in Conns : Inside(c) => Avatar(d) \notin sees[c] /\ Sdl(d) \notin sees[c]

\* What holds of the scene.
SceneInv == BlankInv /\ SameHostInv /\ AvatarsInv /\ ClonesInv /\ GoneInv

\* The inductive invariant.
IInv == KeyedInv /\ SceneInv

\* What can be shown is told apart.
LEMMA ShownApart ==
    /\ \A c, d \in Conns : Avatar(c) = Avatar(d) => c = d
    /\ \A c, d \in Conns : Sdl(c) = Sdl(d) => c = d
    /\ \A o, x \in Objects : Clone(o) = Clone(x) => o = x
    /\ \A c, d \in Conns : Avatar(c) # Sdl(d)
    /\ \A c \in Conns : \A o \in Objects : Avatar(c) # Clone(o) /\ Sdl(c) # Clone(o)
  BY DEF Avatar, Sdl, Clone

\* What a handler for the sender c of host h changes in the scene, entry by entry.
Acting(h, c) ==
    /\ m_host[c] = h /\ wpc[c] = "asking" /\ hstate[h] = "up"
    /\ UNCHANGED <<wpc, m_host, m_clients, hstate>>

InMap(h, d) == m_clients[h][PlayerOf[d]] = d

ShowsMembers(h, c) ==
    /\ Acting(h, c) /\ UNCHANGED <<avatar, m_clones, m_states>>
    /\ \/ UNCHANGED <<sees, listed>> /\ \A d \in Conns : ~InMap(h, d)
       \/ /\ \A a \in Conns : a # c => sees'[a] = sees[a] /\ (a \in listed' <=> a \in listed)
          /\ c \in listed' <=> avatar[c] # "null" \/ c \in listed
          /\ \A d \in Conns : Sdl(d) \in sees'[c] <=> Sdl(d) \in sees[c]
          /\ \A d \in Conns : Avatar(d) \in sees'[c] <=>
                 \/ Avatar(d) \in sees[c]
                 \/ avatar[c] # "null" /\ InMap(h, d) /\ d # c /\ avatar[d] # "null"
          /\ \A o \in Objects : Clone(o) \in sees'[c] <=> Clone(o) \in sees[c] \/ o \in m_clones[h]

ShowsAvatar(h, load, c) ==
    /\ Acting(h, c) /\ UNCHANGED <<listed, m_clones, m_states>>
    /\ \A d \in Conns : d # c => avatar'[d] = avatar[d]
    /\ avatar'[c] = IF load THEN "loaded" ELSE "unloaded"
    /\ \A a \in Conns : ~InMap(h, a) \/ a = c => sees'[a] = sees[a]
    /\ \A a \in Conns : InMap(h, a) /\ a # c =>
           /\ \A d \in Conns : d # c => (Avatar(d) \in sees'[a] <=> Avatar(d) \in sees[a])
           /\ Avatar(c) \in sees'[a] <=> load
           /\ \A d \in Conns : Sdl(d) \in sees'[a] => Sdl(d) \in sees[a]
           /\ \A o \in Objects : Clone(o) \in sees'[a] <=> Clone(o) \in sees[a]

ShowsClone(h, load, c, x) ==
    /\ Acting(h, c) /\ UNCHANGED <<listed, avatar, m_states>>
    /\ \A g \in Hosts : g # h => m_clones'[g] = m_clones[g]
    /\ \A o \in Objects : o \in m_clones'[h] <=> IF o = x THEN load ELSE o \in m_clones[h]
    /\ \A a \in Conns : ~InMap(h, a) /\ a # c => sees'[a] = sees[a]
    /\ \A a \in Conns : InMap(h, a) \/ a = c =>
           \A o \in Objects : Clone(o) \in sees'[a] <=> IF o = x THEN load ELSE Clone(o) \in sees[a]
    /\ \A a, d \in Conns : /\ Avatar(d) \in sees'[a] <=> Avatar(d) \in sees[a]
                           /\ Sdl(d) \in sees'[a] <=> Sdl(d) \in sees[a]

KeepsState(h, c) ==
    /\ Acting(h, c) /\ UNCHANGED <<listed, avatar, m_clones>>
    /\ \A g \in Hosts : g # h => m_states'[g] = m_states[g]
    /\ \A d \in Conns : d \in m_states'[h] <=> d = c \/ d \in m_states[h]
    /\ \A a \in Conns : ~InMap(h, a) => sees'[a] = sees[a]
    /\ \A a, d \in Conns : /\ Avatar(d) \in sees'[a] <=> Avatar(d) \in sees[a]
                           /\ d # c => (Sdl(d) \in sees'[a] <=> Sdl(d) \in sees[a])
    /\ \A a \in Conns, o \in Objects : Clone(o) \in sees'[a] <=> Clone(o) \in sees[a]

ShowsStates(h, c) ==
    /\ Acting(h, c) /\ UNCHANGED <<listed, avatar, m_clones, m_states>>
    /\ \A a \in Conns : a # c => sees'[a] = sees[a]
    /\ \A d \in Conns : Sdl(d) \in sees'[c] <=> Sdl(d) \in sees[c] \/ d \in m_states[h]
    /\ \A d \in Conns : Avatar(d) \in sees'[c] <=> Avatar(d) \in sees[c]
    /\ \A o \in Objects : Clone(o) \in sees'[c] <=> Clone(o) \in sees[c]

HidesAvatar(h, c) ==
    /\ m_host[c] = h /\ wpc[c] = "leaving" /\ hstate[h] = "up"
    /\ hpc' = [hpc EXCEPT ![h] = c]
    /\ UNCHANGED <<wpc, m_host, m_channel, m_clients, hstate, listed, avatar, m_clones>>
    /\ \A g \in Hosts : g # h => m_states'[g] = m_states[g]
    /\ \A d \in Conns : d \in m_states'[h] <=> d \in m_states[h] /\ (avatar[c] = "loaded" => d # c)
    /\ \A a \in Conns : ~InMap(h, a) \/ a = c => sees'[a] = sees[a]
    /\ \A a \in Conns : InMap(h, a) /\ a # c =>
           /\ \A d \in Conns : Avatar(d) \in sees'[a] <=>
                  Avatar(d) \in sees[a] /\ (avatar[c] = "loaded" => d # c)
           /\ \A d \in Conns : Sdl(d) \in sees'[a] <=>
                  Sdl(d) \in sees[a] /\ (avatar[c] = "loaded" => d # c)
           /\ \A o \in Objects : Clone(o) \in sees'[a] <=> Clone(o) \in sees[a]

\* Membership, by player.
LEMMA MemberIff ==
    ASSUME BaseInv, NEW h \in Hosts, hstate[h] # "deleted", NEW d \in Conns
    PROVE  d \in Members(h) <=> m_clients[h][PlayerOf[d]] = d
<1>1. ASSUME d \in Members(h)
      PROVE  m_clients[h][PlayerOf[d]] = d
  BY <1>1, MemberFacts
<1>2. ASSUME m_clients[h][PlayerOf[d]] = d
      PROVE  d \in Members(h)
  BY <1>2, PlayerOfAssumption, NullAssumption DEF Members
<1>3. QED
  BY <1>1, <1>2

\* A member belongs to the host and is in its loop.
LEMMA InMapFacts ==
    ASSUME BaseInv, NEW h \in Hosts, hstate[h] # "deleted", NEW d \in Conns, InMap(h, d)
    PROVE  m_host[d] = h /\ InLoop(d)
  BY MemberIff, MemberFacts DEF InMap, InLoop

\* Who sends a game message is in its loop.
LEMMA SenderFacts ==
    ASSUME BaseInv, NEW h \in Hosts, NEW k \in GameMessages, Serving(h, k)
    PROVE  /\ Head(queue[h]).conn \in Conns /\ Head(queue[h]).obj \in Objects
           /\ m_host[Head(queue[h]).conn] = h
           /\ wpc[Head(queue[h]).conn] = "asking"
           /\ hstate[h] = "up"
<1>1. k \in Kinds /\ k # "shutdown" /\ PhaseOf(k) = "asking"
  BY DEF Kinds, GameMessages, CloneMessages, PhaseOf
<1>2. QED
  BY <1>1, ServingFacts

\* An inserted worker becomes a member, and nobody else does in any step.
LEMMA InsideKept ==
    ASSUME BaseInv, NEW c \in Conns, Insert(c) \/ Erase(c), NEW d \in Conns, Inside(d)'
    PROVE  (Inside(d) \/ (d = c /\ wpc[c] = "replied")) /\ m_host'[d] = m_host[d]
<1>1. /\ wpc[c] \in {"replied", "idle"} /\ m_host[c] \in Hosts /\ m_host' = m_host
      /\ \/ /\ wpc[c] = "replied" /\ wpc' = [wpc EXCEPT ![c] = "idle"]
            /\ m_clients' = [m_clients EXCEPT ![m_host[c]][PlayerOf[c]] = c]
         \/ /\ wpc' = [wpc EXCEPT ![c] = "erased"]
            /\ m_clients' = [m_clients EXCEPT ![m_host[c]][PlayerOf[c]] = NoConn]
  BY HasHost DEF Insert, Erase, BaseInv
<1>2. CASE d = c
  BY <1>1, <1>2 DEF Inside, InLoop, BaseInv, TypeOK
<1>3. CASE d # c
  <2>1. wpc'[d] = wpc[d] /\ m_clients'[m_host[d]][PlayerOf[d]] = d /\ wpc[d] \in {"idle", "asking"}
    BY <1>1, <1>3 DEF Inside, InLoop, BaseInv, TypeOK
  <2>2. m_host[d] \in Hosts /\ PlayerOf[d] \in Players /\ PlayerOf[c] \in Players
    BY <2>1, HasHost, PlayerOfAssumption DEF BaseInv
  <2>3. \A x : m_clients' = [m_clients EXCEPT ![m_host[c]][PlayerOf[c]] = x] =>
            m_clients'[m_host[d]][PlayerOf[d]] = x \/ m_clients'[m_host[d]][PlayerOf[d]] = m_clients[m_host[d]][PlayerOf[d]]
    BY <1>1, <2>2 DEF BaseInv, TypeOK
  <2>4. m_clients[m_host[d]][PlayerOf[d]] = d
    BY <1>1, <1>3, <2>1, <2>3, NullAssumption
  <2>5. QED
    BY <1>1, <2>1, <2>4 DEF Inside, InLoop
<1>4. QED
  BY <1>2, <1>3

\* dm_send_members shows the clones and the avatars to the sender.
LEMMA MembersEffect ==
    ASSUME OnePlayerEach, BaseInv, NEW h \in Hosts, dm_send_members(h)
    PROVE  \E c \in Conns : ShowsMembers(h, c)
<1> DEFINE c == Head(queue[h]).conn
<1>1. c \in Conns /\ m_host[c] = h /\ wpc[c] = "asking" /\ hstate[h] = "up"
  BY SenderFacts DEF dm_send_members, GameMessages
<1>2. CASE Members(h) = {}
  <2>1. /\ UNCHANGED <<wpc, m_host, m_clients, avatar, m_clones, m_states, hstate, listed>>
        /\ sees' = [sees EXCEPT ![c] = sees[c]]
    BY <1>2 DEF dm_send_members
  <2>2. sees' = sees
    BY <2>1 DEF BaseInv, TypeOK
  <2>3. \A d \in Conns : ~InMap(h, d)
    BY <1>1, <1>2, MemberIff DEF InMap
  <2>4. ShowsMembers(h, c)
    BY <1>1, <2>1, <2>2, <2>3 DEF ShowsMembers, Acting
  <2>5. QED
    BY <1>1, <2>4
<1>3. SUFFICES ASSUME Members(h) # {}
                PROVE  \E a \in Conns : ShowsMembers(h, a)
  BY <1>2
<1>4. {d \in Members(h) : PlayerOf[d] # PlayerOf[c] /\ avatar[d] # "null"}
        = {d \in Members(h) : d # c /\ avatar[d] # "null"}
  BY <1>1, MembersType DEF BaseInv, OnePlayerEach
<1>5. /\ sees' = [sees EXCEPT ![c] = sees[c] \cup {Clone(o) : o \in m_clones[h]}
                     \cup (IF avatar[c] # "null"
                           THEN {Avatar(d) : d \in {d \in Members(h) :
                                     PlayerOf[d] # PlayerOf[c] /\ avatar[d] # "null"}} ELSE {})]
      /\ listed' = IF avatar[c] # "null" THEN listed \cup {c} ELSE listed
      /\ UNCHANGED <<wpc, m_host, m_clients, avatar, m_clones, m_states, hstate>>
  BY <1>3 DEF dm_send_members
<1>6. \A d \in Conns : d \in {e \in Members(h) : e # c /\ avatar[e] # "null"}
        <=> InMap(h, d) /\ d # c /\ avatar[d] # "null"
  BY <1>1, MemberIff DEF InMap
<1>7. Members(h) \subseteq Conns
  BY MembersType DEF BaseInv
<1> HIDE DEF c
<1>8. sees'[c] = sees[c] \cup {Clone(o) : o \in m_clones[h]}
         \cup (IF avatar[c] # "null"
               THEN {Avatar(d) : d \in {d \in Members(h) : d # c /\ avatar[d] # "null"}} ELSE {})
  BY <1>1, <1>4, <1>5 DEF BaseInv, TypeOK
<1>9. m_clones[h] \subseteq Objects
  BY DEF BaseInv, TypeOK
<1>10. \A d \in Conns : Sdl(d) \in sees'[c] <=> Sdl(d) \in sees[c]
  BY <1>7, <1>8, <1>9, ShownApart
<1>11. \A d \in Conns : Avatar(d) \in sees'[c] <=>
           \/ Avatar(d) \in sees[c]
           \/ avatar[c] # "null" /\ InMap(h, d) /\ d # c /\ avatar[d] # "null"
  BY <1>6, <1>7, <1>8, <1>9, ShownApart
<1>12. \A o \in Objects : Clone(o) \in sees'[c] <=> Clone(o) \in sees[c] \/ o \in m_clones[h]
  BY <1>7, <1>8, <1>9, ShownApart
<1>13. \A a \in Conns : a # c => sees'[a] = sees[a] /\ (a \in listed' <=> a \in listed)
  BY <1>1, <1>5 DEF BaseInv, TypeOK
<1>14. ShowsMembers(h, c)
  BY <1>1, <1>5, <1>10, <1>11, <1>12, <1>13 DEF ShowsMembers, Acting
<1>15. QED
  BY <1>1, <1>14

\* dm_load_clone of an avatar shows or hides it for the other members.
LEMMA PlayerEffect ==
    ASSUME OnePlayerEach, BaseInv, NEW h \in Hosts, NEW load \in BOOLEAN,
           dm_load_clone_player(h, load)
    PROVE  \E c \in Conns : ShowsAvatar(h, load, c)
<1> DEFINE c == Head(queue[h]).conn
<1>1. c \in Conns /\ m_host[c] = h /\ wpc[c] = "asking" /\ hstate[h] = "up"
  BY SenderFacts DEF dm_load_clone_player, GameMessages, CloneMessages
<1>2. /\ avatar' = [avatar EXCEPT ![c] = IF load THEN "loaded" ELSE "unloaded"]
      /\ UNCHANGED <<wpc, m_host, m_clients, listed, m_clones, m_states, hstate>>
  BY DEF dm_load_clone_player
<1>3. CASE load
  <2>1. Propagate(h, c, {Avatar(c)}, {})
    BY <1>3 DEF dm_load_clone_player
  <2>2. \A d \in Conns : sees'[d] = IF m_clients[h][PlayerOf[d]] = d /\ d # c
                                    THEN (sees[d] \ {}) \cup {Avatar(c)} ELSE sees[d]
    BY <1>1, <2>1, MemberIff DEF Propagate, OnePlayerEach
  <2> HIDE DEF c
  <2>3. \A a \in Conns : ~InMap(h, a) \/ a = c => sees'[a] = sees[a]
    BY <2>2 DEF InMap
  <2>4. ASSUME NEW a \in Conns, InMap(h, a), a # c
        PROVE  /\ \A d \in Conns : d # c => (Avatar(d) \in sees'[a] <=> Avatar(d) \in sees[a])
               /\ Avatar(c) \in sees'[a] <=> load
               /\ \A d \in Conns : Sdl(d) \in sees'[a] => Sdl(d) \in sees[a]
               /\ \A o \in Objects : Clone(o) \in sees'[a] <=> Clone(o) \in sees[a]
    <3>1. sees'[a] = (sees[a] \ {}) \cup {Avatar(c)}
      BY <2>2, <2>4 DEF InMap
    <3>2. QED
      BY <1>1, <1>3, <3>1, ShownApart
  <2>5. /\ \A d \in Conns : d # c => avatar'[d] = avatar[d]
        /\ avatar'[c] = IF load THEN "loaded" ELSE "unloaded"
    BY <1>1, <1>2 DEF BaseInv, TypeOK
  <2>6. ShowsAvatar(h, load, c)
    BY <1>1, <1>2, <2>3, <2>4, <2>5 DEF ShowsAvatar, Acting
  <2>7. QED
    BY <1>1, <2>6
<1>4. CASE ~load
  <2>1. Propagate(h, c, {}, {Avatar(c), Sdl(c)})
    BY <1>4 DEF dm_load_clone_player
  <2>2. \A d \in Conns : sees'[d] = IF m_clients[h][PlayerOf[d]] = d /\ d # c
                                    THEN (sees[d] \ {Avatar(c), Sdl(c)}) \cup {} ELSE sees[d]
    BY <1>1, <2>1, MemberIff DEF Propagate, OnePlayerEach
  <2> HIDE DEF c
  <2>3. \A a \in Conns : ~InMap(h, a) \/ a = c => sees'[a] = sees[a]
    BY <2>2 DEF InMap
  <2>4. ASSUME NEW a \in Conns, InMap(h, a), a # c
        PROVE  /\ \A d \in Conns : d # c => (Avatar(d) \in sees'[a] <=> Avatar(d) \in sees[a])
               /\ Avatar(c) \in sees'[a] <=> load
               /\ \A d \in Conns : Sdl(d) \in sees'[a] => Sdl(d) \in sees[a]
               /\ \A o \in Objects : Clone(o) \in sees'[a] <=> Clone(o) \in sees[a]
    <3>1. sees'[a] = (sees[a] \ {Avatar(c), Sdl(c)}) \cup {}
      BY <2>2, <2>4 DEF InMap
    <3>2. QED
      BY <1>1, <1>4, <3>1, ShownApart
  <2>5. /\ \A d \in Conns : d # c => avatar'[d] = avatar[d]
        /\ avatar'[c] = IF load THEN "loaded" ELSE "unloaded"
    BY <1>1, <1>2 DEF BaseInv, TypeOK
  <2>6. ShowsAvatar(h, load, c)
    BY <1>1, <1>2, <2>3, <2>4, <2>5 DEF ShowsAvatar, Acting
  <2>7. QED
    BY <1>1, <2>6
<1>5. QED
  BY <1>3, <1>4

\* dm_load_clone of another object reaches the members and the sender.
LEMMA CloneEffect ==
    ASSUME OnePlayerEach, BaseInv, NEW h \in Hosts, NEW load \in BOOLEAN, dm_load_clone(h, load)
    PROVE  \E c \in Conns, x \in Objects : ShowsClone(h, load, c, x)
<1> DEFINE c == Head(queue[h]).conn
           x == Head(queue[h]).obj
           told == {d \in Members(h) : PlayerOf[d] # PlayerOf[c]} \cup {c}
<1>1. c \in Conns /\ m_host[c] = h /\ wpc[c] = "asking" /\ x \in Objects /\ hstate[h] = "up"
  BY SenderFacts DEF dm_load_clone, GameMessages, CloneMessages
<1>2. /\ m_clones' = [m_clones EXCEPT ![h] = IF load THEN m_clones[h] \cup {x} ELSE m_clones[h] \ {x}]
      /\ sees' = [d \in Conns |-> IF d \notin told THEN sees[d]
                     ELSE IF load THEN sees[d] \cup {Clone(x)} ELSE sees[d] \ {Clone(x)}]
      /\ UNCHANGED <<wpc, m_host, m_clients, listed, avatar, m_states, hstate>>
  BY DEF dm_load_clone
<1>3. \A d \in Conns : d \in told <=> InMap(h, d) \/ d = c
  BY <1>1, MemberIff DEF InMap, OnePlayerEach
<1> HIDE DEF c, x, told
<1>4. ShowsClone(h, load, c, x)
  BY <1>1, <1>2, <1>3, ShownApart DEF BaseInv, TypeOK, ShowsClone, Acting
<1>5. QED
  BY <1>1, <1>4

\* dm_read_sdl keeps the state, and shows it to members at most.
LEMMA SdlEffect ==
    ASSUME OnePlayerEach, BaseInv, NEW h \in Hosts, NEW bcast \in BOOLEAN,
           dm_read_sdl(h, bcast)
    PROVE  \E c \in Conns : KeepsState(h, c)
<1> DEFINE c == Head(queue[h]).conn
<1>1. c \in Conns /\ m_host[c] = h /\ wpc[c] = "asking" /\ hstate[h] = "up"
  BY SenderFacts DEF dm_read_sdl, GameMessages
<1>2. /\ m_states' = [m_states EXCEPT ![h] = m_states[h] \cup {c}]
      /\ UNCHANGED <<wpc, m_host, m_clients, listed, avatar, m_clones, hstate>>
  BY DEF dm_read_sdl
<1>3. Propagate(h, c, {Sdl(c)}, {}) \/ UNCHANGED sees
  BY DEF dm_read_sdl
<1>4. \A d \in Conns : \/ sees'[d] = sees[d]
                       \/ m_clients[h][PlayerOf[d]] = d /\ sees'[d] = (sees[d] \ {}) \cup {Sdl(c)}
  BY <1>1, <1>3, MemberIff DEF Propagate, OnePlayerEach
<1> HIDE DEF c
<1>5. /\ \A a, d \in Conns : /\ Avatar(d) \in sees'[a] <=> Avatar(d) \in sees[a]
                             /\ d # c => (Sdl(d) \in sees'[a] <=> Sdl(d) \in sees[a])
      /\ \A a \in Conns, o \in Objects : Clone(o) \in sees'[a] <=> Clone(o) \in sees[a]
  BY <1>1, <1>4, ShownApart
<1>6. /\ \A g \in Hosts : g # h => m_states'[g] = m_states[g]
      /\ \A d \in Conns : d \in m_states'[h] <=> d = c \/ d \in m_states[h]
  BY <1>1, <1>2 DEF BaseInv, TypeOK
<1>7. KeepsState(h, c)
  BY <1>1, <1>2, <1>4, <1>5, <1>6 DEF KeepsState, Acting, InMap
<1>8. QED
  BY <1>1, <1>7

\* dm_send_state shows the kept states to the sender.
LEMMA StateEffect ==
    ASSUME BaseInv, NEW h \in Hosts, dm_send_state(h)
    PROVE  \E c \in Conns : ShowsStates(h, c)
<1> DEFINE c == Head(queue[h]).conn
<1>1. c \in Conns /\ m_host[c] = h /\ wpc[c] = "asking" /\ hstate[h] = "up"
  BY SenderFacts DEF dm_send_state, GameMessages
<1>2. /\ sees' = [sees EXCEPT ![c] = sees[c] \cup {Sdl(d) : d \in m_states[h]}]
      /\ UNCHANGED <<wpc, m_host, m_clients, listed, avatar, m_clones, m_states, hstate>>
  BY DEF dm_send_state
<1>3. ShowsStates(h, c)
  BY <1>1, <1>2, ShownApart, MemberIff, MembersType
     DEF BaseInv, TypeOK, ShowsStates, Acting, InMap
<1>4. QED
  BY <1>1, <1>3

\* dm_game_disconnect hides a loaded avatar from the other members.
LEMMA LeaveEffect ==
    ASSUME OnePlayerEach, BaseInv, NEW h \in Hosts, dm_game_disconnect(h)
    PROVE  \E c \in Conns : HidesAvatar(h, c)
<1> DEFINE c == Head(queue[h]).conn
<1>1. c \in Conns /\ m_host[c] = h /\ wpc[c] = "leaving" /\ hstate[h] = "up"
  BY ServingFacts DEF dm_game_disconnect, Kinds, PhaseOf
<1>2. /\ hpc' = [hpc EXCEPT ![h] = c]
      /\ UNCHANGED <<wpc, m_host, m_channel, m_clients, hstate, listed, avatar, m_clones>>
  BY DEF dm_game_disconnect, workerVars
<1>3. CASE avatar[c] = "loaded"
  <2>1. Propagate(h, c, {}, {Avatar(c), Sdl(c)}) /\ m_states' = [m_states EXCEPT ![h] = m_states[h] \ {c}]
    BY <1>3 DEF dm_game_disconnect
  <2>2. \A d \in Conns : sees'[d] = IF m_clients[h][PlayerOf[d]] = d /\ d # c
                                    THEN (sees[d] \ {Avatar(c), Sdl(c)}) \cup {} ELSE sees[d]
    BY <1>1, <2>1, MemberIff DEF Propagate, OnePlayerEach
  <2> HIDE DEF c
  <2>3. \A a \in Conns : ~InMap(h, a) \/ a = c => sees'[a] = sees[a]
    BY <2>2 DEF InMap
  <2>4. ASSUME NEW a \in Conns, InMap(h, a), a # c
        PROVE  /\ \A d \in Conns : Avatar(d) \in sees'[a] <=> Avatar(d) \in sees[a] /\ d # c
               /\ \A d \in Conns : Sdl(d) \in sees'[a] <=> Sdl(d) \in sees[a] /\ d # c
               /\ \A o \in Objects : Clone(o) \in sees'[a] <=> Clone(o) \in sees[a]
    <3>1. sees'[a] = sees[a] \ {Avatar(c), Sdl(c)}
      BY <2>2, <2>4 DEF InMap
    <3>2. QED
      BY <1>1, <3>1, ShownApart
  <2>5. /\ \A g \in Hosts : g # h => m_states'[g] = m_states[g]
        /\ \A d \in Conns : d \in m_states'[h] <=> d \in m_states[h] /\ d # c
    BY <2>1 DEF BaseInv, TypeOK
  <2>6. HidesAvatar(h, c)
    BY <1>1, <1>2, <1>3, <2>3, <2>4, <2>5 DEF HidesAvatar
  <2>7. QED
    BY <1>1, <2>6
<1>4. CASE avatar[c] # "loaded"
  BY <1>1, <1>2, <1>4, ShownApart, MemberIff, MembersType
     DEF dm_game_disconnect, HidesAvatar, Acting, InMap
<1>5. QED
  BY <1>3, <1>4

\* An answer to a worker that does not leave handles no disconnect.
LEMMA HandledKept ==
    ASSUME BaseInv, NEW h \in Hosts, NEW k \in Kinds \ {"disconnect", "shutdown"}, Serving(h, k),
           UNCHANGED <<wpc, m_host, hpc>>, NEW code,
           m_channel' = [m_channel EXCEPT ![Head(queue[h]).conn] = Append(@, code)]
    PROVE  \A d \in Conns : Handled(d)' <=> Handled(d)
<1>1. Head(queue[h]).conn \in Conns /\ wpc[Head(queue[h]).conn] # "leaving"
  BY ServingFacts DEF Kinds, GameMessages, CloneMessages, PhaseOf
<1>2. QED
  BY <1>1 DEF Handled, BaseInv, TypeOK

\* The six handlers that touch the scene reach their sender and members only.
LEMMA BlankStep ==
    ASSUME OnePlayerEach, BaseInv, SceneInv, [Next]_vars
    PROVE  BlankInv'
<1>1. ASSUME NEW c \in Conns, cb_join(c)
      PROVE  BlankInv'
  BY <1>1
     DEF cb_join, hostVars, ghostVars, sceneVars, BaseInv, TypeOK, PointerInv,
         OnePlayerEach, SceneInv, Early, InLoop, Inside, BlankInv
<1>2. ASSUME NEW c \in Conns, start_game_host(c)
      PROVE  BlankInv'
  BY <1>2
     DEF start_game_host, ghostVars, sceneVars, BaseInv, TypeOK, PointerInv,
         OnePlayerEach, SceneInv, Early, InLoop, Inside, BlankInv
<1>3. ASSUME NEW c \in Conns, start_game_host_fails(c)
      PROVE  BlankInv'
  BY <1>3
     DEF start_game_host_fails, hostVars, ghostVars, sceneVars, BaseInv, TypeOK,
         PointerInv, OnePlayerEach, SceneInv, Early, InLoop, Inside, BlankInv
<1>3a. ASSUME NEW c \in Conns, start_game_host_orphan(c)
       PROVE  BlankInv'
  BY <1>3a
     DEF start_game_host_orphan, ghostVars, sceneVars, BaseInv, TypeOK, PointerInv,
         OnePlayerEach, SceneInv, Early, InLoop, Inside, BlankInv
<1>4. ASSUME NEW c \in Conns, PutJoin(c)
      PROVE  BlankInv'
  BY <1>4
     DEF PutJoin, Put, HostExists, ghostVars, sceneVars, BaseInv, TypeOK, PointerInv,
         OnePlayerEach, SceneInv, Early, InLoop, Inside, BlankInv
<1>5. ASSUME NEW c \in Conns, VaultRefuses(c)
      PROVE  BlankInv'
  BY <1>5
     DEF VaultRefuses, hostVars, ghostVars, sceneVars, BaseInv, TypeOK, PointerInv,
         OnePlayerEach, SceneInv, Early, InLoop, Inside, BlankInv
<1>6. ASSUME NEW c \in Conns, GetJoinReply(c)
      PROVE  BlankInv'
  BY <1>6
     DEF GetJoinReply, hostVars, sceneVars, BaseInv, TypeOK, PointerInv, OnePlayerEach,
         SceneInv, Early, InLoop, Inside, BlankInv
<1>7. ASSUME NEW c \in Conns, Insert(c)
      PROVE  BlankInv'
  BY <1>7
     DEF Insert, HostExists, ghostVars, sceneVars, BaseInv, TypeOK, PointerInv,
         OnePlayerEach, SceneInv, Early, InLoop, Inside, BlankInv
<1>8. ASSUME NEW c \in Conns, GetReply(c)
      PROVE  BlankInv'
  BY <1>8
     DEF GetReply, hostVars, ghostVars, sceneVars, BaseInv, TypeOK, PointerInv,
         OnePlayerEach, SceneInv, Early, InLoop, Inside, BlankInv
<1>9. ASSUME NEW c \in Conns, PutDisconnect(c)
      PROVE  BlankInv'
  BY <1>9
     DEF PutDisconnect, Put, HostExists, ghostVars, sceneVars, BaseInv, TypeOK,
         PointerInv, OnePlayerEach, SceneInv, Early, InLoop, Inside, BlankInv
<1>10. ASSUME NEW c \in Conns, GetDisconnectReply(c)
       PROVE  BlankInv'
  BY <1>10
     DEF GetDisconnectReply, hostVars, ghostVars, sceneVars, BaseInv, TypeOK, PointerInv,
         OnePlayerEach, SceneInv, Early, InLoop, Inside, BlankInv
<1>11. ASSUME NEW c \in Conns, UseDeletedHost(c)
       PROVE  BlankInv'
  BY <1>11
     DEF UseDeletedHost, hostVars, ghostVars, sceneVars, BaseInv, TypeOK, PointerInv,
         OnePlayerEach, SceneInv, Early, InLoop, Inside, BlankInv
<1>12. ASSUME NEW c \in Conns, NEW k \in GameMessages, NEW o \in Objects, cb_netmsg(c, k, o)
       PROVE  BlankInv'
  BY <1>12
     DEF cb_netmsg, Put, HostExists, ghostVars, sceneVars, BaseInv, TypeOK, PointerInv,
         OnePlayerEach, SceneInv, Early, InLoop, Inside, BlankInv
<1>13. ASSUME NEW c \in Conns, Erase(c)
       PROVE  BlankInv'
  BY <1>13
     DEF Erase, HostExists, ghostVars, sceneVars, BaseInv, TypeOK, PointerInv,
         OnePlayerEach, SceneInv, Early, InLoop, Inside, BlankInv
<1>14. ASSUME NEW h \in Hosts, dm_game_join(h)
       PROVE  BlankInv'
  BY <1>14 DEF dm_game_join, Reply, sceneVars, SceneInv, BlankInv, InLoop, Inside
<1>15. ASSUME NEW h \in Hosts, dm_game_join_refused(h)
       PROVE  BlankInv'
  BY <1>15 DEF dm_game_join_refused, Reply, ghostVars, sceneVars, SceneInv, BlankInv, InLoop, Inside
<1>16. ASSUME NEW h \in Hosts, dm_test_and_set_lock(h)
       PROVE  BlankInv'
  BY <1>16 DEF dm_test_and_set_lock, Reply, sceneVars, SceneInv, BlankInv, InLoop, Inside
<1>17. ASSUME NEW h \in Hosts, dm_test_and_set_unlock(h)
       PROVE  BlankInv'
  BY <1>17 DEF dm_test_and_set_unlock, Reply, sceneVars, SceneInv, BlankInv, InLoop, Inside
<1>18. ASSUME NEW h \in Hosts, dm_send_members(h)
       PROVE  BlankInv'
  <2>1. PICK c \in Conns : ShowsMembers(h, c)
    BY <1>18, MembersEffect
  <2>2. QED
    BY <2>1, InMapFacts, HasHost
       DEF ShowsMembers, Acting, InMap, BaseInv, BlankInv, SceneInv, Early, InLoop, Inside
<1>19. ASSUME NEW h \in Hosts, NEW load \in BOOLEAN, dm_load_clone_player(h, load)
       PROVE  BlankInv'
  <2>1. PICK c \in Conns : ShowsAvatar(h, load, c)
    BY <1>19, PlayerEffect
  <2>2. QED
    BY <2>1, InMapFacts, HasHost
       DEF ShowsAvatar, Acting, InMap, BaseInv, BlankInv, SceneInv, Early, InLoop, Inside
<1>20. ASSUME NEW h \in Hosts, NEW load \in BOOLEAN, dm_load_clone(h, load)
       PROVE  BlankInv'
  <2>1. PICK c \in Conns, x \in Objects : ShowsClone(h, load, c, x)
    BY <1>20, CloneEffect
  <2>2. QED
    BY <2>1, InMapFacts, HasHost
       DEF ShowsClone, Acting, InMap, BaseInv, BlankInv, SceneInv, Early, InLoop, Inside
<1>21. ASSUME NEW h \in Hosts, NEW bcast \in BOOLEAN, dm_read_sdl(h, bcast)
       PROVE  BlankInv'
  <2>1. PICK c \in Conns : KeepsState(h, c)
    BY <1>21, SdlEffect
  <2>2. QED
    BY <2>1, InMapFacts, HasHost
       DEF KeepsState, Acting, InMap, BaseInv, BlankInv, SceneInv, Early, InLoop, Inside
<1>22. ASSUME NEW h \in Hosts, dm_send_state(h)
       PROVE  BlankInv'
  <2>1. PICK c \in Conns : ShowsStates(h, c)
    BY <1>22, StateEffect
  <2>2. QED
    BY <2>1, InMapFacts, HasHost
       DEF ShowsStates, Acting, InMap, BaseInv, BlankInv, SceneInv, Early, InLoop, Inside
<1>23. ASSUME NEW h \in Hosts, dm_game_message(h)
       PROVE  BlankInv'
  BY <1>23 DEF dm_game_message, Reply, ghostVars, sceneVars, SceneInv, BlankInv, InLoop, Inside
<1>24. ASSUME NEW h \in Hosts, dm_game_disconnect(h)
       PROVE  BlankInv'
  <2>1. PICK c \in Conns : HidesAvatar(h, c)
    BY <1>24, LeaveEffect
  <2>2. QED
    BY <2>1, InMapFacts, HasHost
       DEF HidesAvatar, Acting, InMap, BaseInv, BlankInv, SceneInv, Early, InLoop, Inside
<1>25. ASSUME NEW h \in Hosts, dm_game_disconnect_finish(h)
       PROVE  BlankInv'
  BY <1>25
     DEF dm_game_disconnect_finish, Reply, ghostVars, sceneVars, SceneInv, BlankInv,
         InLoop, Inside
<1>26. ASSUME NEW h \in Hosts, dm_game_shutdown_close(h)
       PROVE  BlankInv'
  BY <1>26 DEF dm_game_shutdown_close, workerVars, ghostVars, SceneInv, BlankInv, InLoop, Inside
<1>27. ASSUME NEW h \in Hosts, dm_game_shutdown_delete(h)
       PROVE  BlankInv'
  BY <1>27
     DEF dm_game_shutdown_delete, workerVars, ghostVars, sceneVars, SceneInv, BlankInv,
         InLoop, Inside
<1>28. CASE GameServer_Shutdown
  BY <1>28
     DEF GameServer_Shutdown, workerVars, ghostVars, sceneVars, SceneInv, BlankInv, InLoop, Inside
<1>29. CASE UNCHANGED vars
  BY <1>29 DEF BlankInv, SceneInv, InLoop, Inside, vars, workerVars, hostVars, ghostVars, sceneVars
<1>30. QED
  BY <1>1, <1>2, <1>3, <1>3a, <1>4, <1>5, <1>6, <1>7, <1>8, <1>9, <1>10, <1>11, <1>12, <1>13,
     <1>14, <1>15, <1>16, <1>17, <1>18, <1>19, <1>20, <1>21, <1>22, <1>23, <1>24, <1>25,
     <1>26, <1>27, <1>28, <1>29
     DEF Next, WorkerProceeds, dm_gameHost

\* Nothing is shown across hosts, and cb_join finds a blank client.
LEMMA SameHostStep ==
    ASSUME OnePlayerEach, BaseInv, SceneInv, [Next]_vars
    PROVE  SameHostInv'
<1>1. ASSUME NEW c \in Conns, cb_join(c)
      PROVE  SameHostInv'
  <2>1. wpc[c] \in {"out", "starting"} /\ m_host[c] = NoHost
    BY <1>1 DEF cb_join, BaseInv, PointerInv
  <2>2. /\ \A d \in Conns : d # c => m_host'[d] = m_host[d] /\ wpc'[d] = wpc[d]
        /\ UNCHANGED <<sees, m_states>>
    BY <1>1 DEF cb_join, sceneVars, BaseInv, TypeOK
  <2>3. \A d \in Conns : m_host[d] = NoHost => sees[d] = {}
    BY DEF BaseInv, PointerInv, SceneInv, BlankInv, Early
  <2>4. \A a, d \in Conns : (Avatar(d) \in sees[a] \/ Sdl(d) \in sees[a]) => a # c /\ d # c
    BY <2>1, <2>3 DEF SceneInv, SameHostInv
  <2>5. \A g \in Hosts : c \notin m_states[g]
    BY <2>1 DEF SceneInv, SameHostInv, Early
  <2>6. QED
    BY <2>2, <2>4, <2>5 DEF SceneInv, SameHostInv
<1>2. ASSUME NEW c \in Conns, start_game_host(c)
      PROVE  SameHostInv'
  <2>1. wpc[c] \in {"out", "starting"} /\ m_host[c] = NoHost
    BY <1>2 DEF start_game_host, BaseInv, PointerInv
  <2>2. /\ \A d \in Conns : d # c => m_host'[d] = m_host[d] /\ wpc'[d] = wpc[d]
        /\ UNCHANGED <<sees, m_states>>
    BY <1>2 DEF start_game_host, sceneVars, BaseInv, TypeOK
  <2>3. \A d \in Conns : m_host[d] = NoHost => sees[d] = {}
    BY DEF BaseInv, PointerInv, SceneInv, BlankInv, Early
  <2>4. \A a, d \in Conns : (Avatar(d) \in sees[a] \/ Sdl(d) \in sees[a]) => a # c /\ d # c
    BY <2>1, <2>3 DEF SceneInv, SameHostInv
  <2>5. \A g \in Hosts : c \notin m_states[g]
    BY <2>1 DEF SceneInv, SameHostInv, Early
  <2>6. QED
    BY <2>2, <2>4, <2>5 DEF SceneInv, SameHostInv
<1>3. ASSUME NEW c \in Conns, start_game_host_fails(c)
      PROVE  SameHostInv'
  BY <1>3
     DEF start_game_host_fails, hostVars, ghostVars, sceneVars, BaseInv, TypeOK, SceneInv,
         Early, SameHostInv
<1>3a. ASSUME NEW c \in Conns, start_game_host_orphan(c)
       PROVE  SameHostInv'
  BY <1>3a
     DEF start_game_host_orphan, ghostVars, sceneVars, BaseInv, TypeOK, SceneInv, Early,
         SameHostInv
<1>4. ASSUME NEW c \in Conns, PutJoin(c)
      PROVE  SameHostInv'
  BY <1>4
     DEF PutJoin, Put, HostExists, ghostVars, sceneVars, BaseInv, TypeOK, SceneInv, Early,
         SameHostInv
<1>5. ASSUME NEW c \in Conns, VaultRefuses(c)
      PROVE  SameHostInv'
  BY <1>5
     DEF VaultRefuses, hostVars, ghostVars, sceneVars, BaseInv, TypeOK, SceneInv, Early,
         SameHostInv
<1>6. ASSUME NEW c \in Conns, GetJoinReply(c)
      PROVE  SameHostInv'
  BY <1>6
     DEF GetJoinReply, hostVars, sceneVars, BaseInv, TypeOK, SceneInv, Early, SameHostInv
<1>7. ASSUME NEW c \in Conns, Insert(c)
      PROVE  SameHostInv'
  BY <1>7
     DEF Insert, HostExists, ghostVars, sceneVars, BaseInv, TypeOK, SceneInv, Early,
         SameHostInv
<1>8. ASSUME NEW c \in Conns, GetReply(c)
      PROVE  SameHostInv'
  BY <1>8
     DEF GetReply, hostVars, ghostVars, sceneVars, BaseInv, TypeOK, SceneInv, Early,
         SameHostInv
<1>9. ASSUME NEW c \in Conns, PutDisconnect(c)
      PROVE  SameHostInv'
  BY <1>9
     DEF PutDisconnect, Put, HostExists, ghostVars, sceneVars, BaseInv, TypeOK, SceneInv,
         Early, SameHostInv
<1>10. ASSUME NEW c \in Conns, GetDisconnectReply(c)
       PROVE  SameHostInv'
  BY <1>10
     DEF GetDisconnectReply, hostVars, ghostVars, sceneVars, BaseInv, TypeOK, SceneInv,
         Early, SameHostInv
<1>11. ASSUME NEW c \in Conns, UseDeletedHost(c)
       PROVE  SameHostInv'
  BY <1>11
     DEF UseDeletedHost, hostVars, ghostVars, sceneVars, BaseInv, TypeOK, SceneInv, Early,
         SameHostInv
<1>12. ASSUME NEW c \in Conns, NEW k \in GameMessages, NEW o \in Objects, cb_netmsg(c, k, o)
       PROVE  SameHostInv'
  BY <1>12
     DEF cb_netmsg, Put, HostExists, ghostVars, sceneVars, BaseInv, TypeOK, SceneInv,
         Early, SameHostInv
<1>13. ASSUME NEW c \in Conns, Erase(c)
       PROVE  SameHostInv'
  BY <1>13
     DEF Erase, HostExists, ghostVars, sceneVars, BaseInv, TypeOK, SceneInv, Early,
         SameHostInv
<1>14. ASSUME NEW h \in Hosts, dm_game_join(h)
       PROVE  SameHostInv'
  BY <1>14 DEF dm_game_join, Reply, sceneVars, SceneInv, SameHostInv
<1>15. ASSUME NEW h \in Hosts, dm_game_join_refused(h)
       PROVE  SameHostInv'
  BY <1>15 DEF dm_game_join_refused, Reply, ghostVars, sceneVars, SceneInv, SameHostInv
<1>16. ASSUME NEW h \in Hosts, dm_test_and_set_lock(h)
       PROVE  SameHostInv'
  BY <1>16 DEF dm_test_and_set_lock, Reply, sceneVars, SceneInv, SameHostInv
<1>17. ASSUME NEW h \in Hosts, dm_test_and_set_unlock(h)
       PROVE  SameHostInv'
  BY <1>17 DEF dm_test_and_set_unlock, Reply, sceneVars, SceneInv, SameHostInv
<1>18. ASSUME NEW h \in Hosts, dm_send_members(h)
       PROVE  SameHostInv'
  <2>1. PICK c \in Conns : ShowsMembers(h, c)
    BY <1>18, MembersEffect
  <2>2. \A a, d \in Conns : (Avatar(d) \in sees'[a] \/ Sdl(d) \in sees'[a]) => m_host[d] = m_host[a]
    BY <2>1, InMapFacts DEF ShowsMembers, Acting, SameHostInv, SceneInv
  <2>3. \A g \in Hosts, d \in Conns : d \in m_states'[g] => m_host[d] = g /\ wpc[d] \notin Early
    BY <2>1 DEF ShowsMembers, Acting, SameHostInv, SceneInv, Early
  <2>4. QED
    BY <2>1, <2>2, <2>3 DEF ShowsMembers, Acting, SameHostInv
<1>19. ASSUME NEW h \in Hosts, NEW load \in BOOLEAN, dm_load_clone_player(h, load)
       PROVE  SameHostInv'
  <2>1. PICK c \in Conns : ShowsAvatar(h, load, c)
    BY <1>19, PlayerEffect
  <2>2. \A a, d \in Conns : (Avatar(d) \in sees'[a] \/ Sdl(d) \in sees'[a]) => m_host[d] = m_host[a]
    BY <2>1, InMapFacts DEF ShowsAvatar, Acting, SameHostInv, SceneInv
  <2>3. \A g \in Hosts, d \in Conns : d \in m_states'[g] => m_host[d] = g /\ wpc[d] \notin Early
    BY <2>1 DEF ShowsAvatar, Acting, SameHostInv, SceneInv, Early
  <2>4. QED
    BY <2>1, <2>2, <2>3 DEF ShowsAvatar, Acting, SameHostInv
<1>20. ASSUME NEW h \in Hosts, NEW load \in BOOLEAN, dm_load_clone(h, load)
       PROVE  SameHostInv'
  <2>1. PICK c \in Conns, x \in Objects : ShowsClone(h, load, c, x)
    BY <1>20, CloneEffect
  <2>2. \A a, d \in Conns : (Avatar(d) \in sees'[a] \/ Sdl(d) \in sees'[a]) => m_host[d] = m_host[a]
    BY <2>1, InMapFacts DEF ShowsClone, Acting, SameHostInv, SceneInv
  <2>3. \A g \in Hosts, d \in Conns : d \in m_states'[g] => m_host[d] = g /\ wpc[d] \notin Early
    BY <2>1 DEF ShowsClone, Acting, SameHostInv, SceneInv, Early
  <2>4. QED
    BY <2>1, <2>2, <2>3 DEF ShowsClone, Acting, SameHostInv
<1>21. ASSUME NEW h \in Hosts, NEW bcast \in BOOLEAN, dm_read_sdl(h, bcast)
       PROVE  SameHostInv'
  <2>1. PICK c \in Conns : KeepsState(h, c)
    BY <1>21, SdlEffect
  <2>2. \A a, d \in Conns : (Avatar(d) \in sees'[a] \/ Sdl(d) \in sees'[a]) => m_host[d] = m_host[a]
    BY <2>1, InMapFacts DEF KeepsState, Acting, SameHostInv, SceneInv
  <2>3. \A g \in Hosts, d \in Conns : d \in m_states'[g] => m_host[d] = g /\ wpc[d] \notin Early
    BY <2>1 DEF KeepsState, Acting, SameHostInv, SceneInv, Early
  <2>4. QED
    BY <2>1, <2>2, <2>3 DEF KeepsState, Acting, SameHostInv
<1>22. ASSUME NEW h \in Hosts, dm_send_state(h)
       PROVE  SameHostInv'
  <2>1. PICK c \in Conns : ShowsStates(h, c)
    BY <1>22, StateEffect
  <2>2. \A a, d \in Conns : (Avatar(d) \in sees'[a] \/ Sdl(d) \in sees'[a]) => m_host[d] = m_host[a]
    BY <2>1, InMapFacts DEF ShowsStates, Acting, SameHostInv, SceneInv
  <2>3. \A g \in Hosts, d \in Conns : d \in m_states'[g] => m_host[d] = g /\ wpc[d] \notin Early
    BY <2>1 DEF ShowsStates, Acting, SameHostInv, SceneInv, Early
  <2>4. QED
    BY <2>1, <2>2, <2>3 DEF ShowsStates, Acting, SameHostInv
<1>23. ASSUME NEW h \in Hosts, dm_game_message(h)
       PROVE  SameHostInv'
  BY <1>23 DEF dm_game_message, Reply, ghostVars, sceneVars, SceneInv, SameHostInv
<1>24. ASSUME NEW h \in Hosts, dm_game_disconnect(h)
       PROVE  SameHostInv'
  <2>1. PICK c \in Conns : HidesAvatar(h, c)
    BY <1>24, LeaveEffect
  <2>2. \A a, d \in Conns : (Avatar(d) \in sees'[a] \/ Sdl(d) \in sees'[a]) => m_host[d] = m_host[a]
    BY <2>1, InMapFacts DEF HidesAvatar, Acting, SameHostInv, SceneInv
  <2>3. \A g \in Hosts, d \in Conns : d \in m_states'[g] => m_host[d] = g /\ wpc[d] \notin Early
    BY <2>1 DEF HidesAvatar, Acting, SameHostInv, SceneInv, Early
  <2>4. QED
    BY <2>1, <2>2, <2>3 DEF HidesAvatar, Acting, SameHostInv
<1>25. ASSUME NEW h \in Hosts, dm_game_disconnect_finish(h)
       PROVE  SameHostInv'
  BY <1>25 DEF dm_game_disconnect_finish, Reply, ghostVars, sceneVars, SceneInv, SameHostInv
<1>26. ASSUME NEW h \in Hosts, dm_game_shutdown_close(h)
       PROVE  SameHostInv'
  BY <1>26 DEF dm_game_shutdown_close, workerVars, ghostVars, SceneInv, SameHostInv
<1>27. ASSUME NEW h \in Hosts, dm_game_shutdown_delete(h)
       PROVE  SameHostInv'
  BY <1>27
     DEF dm_game_shutdown_delete, workerVars, ghostVars, sceneVars, SceneInv, SameHostInv
<1>28. CASE GameServer_Shutdown
  BY <1>28 DEF GameServer_Shutdown, workerVars, ghostVars, sceneVars, SceneInv, SameHostInv
<1>29. CASE UNCHANGED vars
  BY <1>29
     DEF SameHostInv, SceneInv, InLoop, Inside, vars, workerVars, hostVars, ghostVars, sceneVars
<1>30. QED
  BY <1>1, <1>2, <1>3, <1>3a, <1>4, <1>5, <1>6, <1>7, <1>8, <1>9, <1>10, <1>11, <1>12, <1>13,
     <1>14, <1>15, <1>16, <1>17, <1>18, <1>19, <1>20, <1>21, <1>22, <1>23, <1>24, <1>25,
     <1>26, <1>27, <1>28, <1>29
     DEF Next, WorkerProceeds, dm_gameHost

\* Whoever loads an avatar after the list was sent reaches the listed through
\* Propagate, whoever did before was on the list.
LEMMA AvatarsStep ==
    ASSUME OnePlayerEach, BaseInv, SceneInv, [Next]_vars
    PROVE  AvatarsInv'
<1>1. ASSUME NEW c \in Conns, cb_join(c)
      PROVE  AvatarsInv'
  BY <1>1 DEF cb_join, hostVars, ghostVars, sceneVars, SceneInv, AvatarsInv, InLoop, Inside
<1>2. ASSUME NEW c \in Conns, start_game_host(c)
      PROVE  AvatarsInv'
  BY <1>2 DEF start_game_host, ghostVars, sceneVars, SceneInv, AvatarsInv, InLoop, Inside
<1>3. ASSUME NEW c \in Conns, start_game_host_fails(c)
      PROVE  AvatarsInv'
  BY <1>3
     DEF start_game_host_fails, hostVars, ghostVars, sceneVars, SceneInv, AvatarsInv,
         InLoop, Inside
<1>3a. ASSUME NEW c \in Conns, start_game_host_orphan(c)
       PROVE  AvatarsInv'
  BY <1>3a
     DEF start_game_host_orphan, ghostVars, sceneVars, SceneInv, AvatarsInv, InLoop, Inside
<1>4. ASSUME NEW c \in Conns, PutJoin(c)
      PROVE  AvatarsInv'
  BY <1>4 DEF PutJoin, Put, HostExists, ghostVars, sceneVars, SceneInv, AvatarsInv, InLoop, Inside
<1>5. ASSUME NEW c \in Conns, VaultRefuses(c)
      PROVE  AvatarsInv'
  BY <1>5
     DEF VaultRefuses, hostVars, ghostVars, sceneVars, BaseInv, TypeOK, PointerInv,
         SceneInv, Early, InLoop, Inside, AvatarsInv, BlankInv
<1>6. ASSUME NEW c \in Conns, GetJoinReply(c)
      PROVE  AvatarsInv'
  BY <1>6 DEF GetJoinReply, hostVars, sceneVars, SceneInv, AvatarsInv, InLoop, Inside
<1>7. ASSUME NEW c \in Conns, Insert(c)
      PROVE  AvatarsInv'
  <2>1. \A d \in Conns : Inside(d)' =>
            (Inside(d) \/ (d = c /\ wpc[c] = "replied")) /\ m_host'[d] = m_host[d]
    BY <1>7, InsideKept
  <2>2. wpc[c] = "replied" => avatar[c] = "null" /\ sees[c] = {} /\ c \notin listed
    BY DEF SceneInv, BlankInv, Early
  <2>3. UNCHANGED <<sees, listed, avatar, m_clones, hstate>>
    BY <1>7 DEF Insert, sceneVars
  <2>4. QED
    BY <2>1, <2>2, <2>3 DEF SceneInv, AvatarsInv
<1>8. ASSUME NEW c \in Conns, GetReply(c)
      PROVE  AvatarsInv'
  BY <1>8 DEF GetReply, hostVars, ghostVars, sceneVars, SceneInv, AvatarsInv, InLoop, Inside
<1>9. ASSUME NEW c \in Conns, PutDisconnect(c)
      PROVE  AvatarsInv'
  BY <1>9
     DEF PutDisconnect, Put, HostExists, ghostVars, sceneVars, SceneInv, AvatarsInv,
         InLoop, Inside
<1>10. ASSUME NEW c \in Conns, GetDisconnectReply(c)
       PROVE  AvatarsInv'
  BY <1>10
     DEF GetDisconnectReply, hostVars, ghostVars, sceneVars, SceneInv, AvatarsInv, InLoop, Inside
<1>11. ASSUME NEW c \in Conns, UseDeletedHost(c)
       PROVE  AvatarsInv'
  BY <1>11 DEF UseDeletedHost, hostVars, ghostVars, sceneVars, SceneInv, AvatarsInv, InLoop, Inside
<1>12. ASSUME NEW c \in Conns, NEW k \in GameMessages, NEW o \in Objects, cb_netmsg(c, k, o)
       PROVE  AvatarsInv'
  BY <1>12
     DEF cb_netmsg, Put, HostExists, ghostVars, sceneVars, SceneInv, AvatarsInv, InLoop, Inside
<1>13. ASSUME NEW c \in Conns, Erase(c)
       PROVE  AvatarsInv'
  <2>1. \A d \in Conns : Inside(d)' =>
            (Inside(d) \/ (d = c /\ wpc[c] = "replied")) /\ m_host'[d] = m_host[d]
    BY <1>13, InsideKept
  <2>2. wpc[c] = "replied" => avatar[c] = "null" /\ sees[c] = {} /\ c \notin listed
    BY DEF SceneInv, BlankInv, Early
  <2>3. UNCHANGED <<sees, listed, avatar, m_clones, hstate>>
    BY <1>13 DEF Erase, sceneVars
  <2>4. QED
    BY <2>1, <2>2, <2>3 DEF SceneInv, AvatarsInv
<1>14. ASSUME NEW h \in Hosts, dm_game_join(h)
       PROVE  AvatarsInv'
  BY <1>14 DEF dm_game_join, Reply, sceneVars, SceneInv, AvatarsInv, InLoop, Inside
<1>15. ASSUME NEW h \in Hosts, dm_game_join_refused(h)
       PROVE  AvatarsInv'
  BY <1>15
     DEF dm_game_join_refused, Reply, ghostVars, sceneVars, SceneInv, AvatarsInv, InLoop, Inside
<1>16. ASSUME NEW h \in Hosts, dm_test_and_set_lock(h)
       PROVE  AvatarsInv'
  BY <1>16 DEF dm_test_and_set_lock, Reply, sceneVars, SceneInv, AvatarsInv, InLoop, Inside
<1>17. ASSUME NEW h \in Hosts, dm_test_and_set_unlock(h)
       PROVE  AvatarsInv'
  BY <1>17 DEF dm_test_and_set_unlock, Reply, sceneVars, SceneInv, AvatarsInv, InLoop, Inside
<1>18. ASSUME NEW h \in Hosts, dm_send_members(h)
       PROVE  AvatarsInv'
  <2>1. PICK c \in Conns : ShowsMembers(h, c)
    BY <1>18, MembersEffect
  <2>2. QED
    BY <2>1, InMapFacts, HasHost
       DEF ShowsMembers, Acting, AvatarsInv, BlankInv, SceneInv, InLoop, Inside, InMap, BaseInv
<1>19. ASSUME NEW h \in Hosts, NEW load \in BOOLEAN, dm_load_clone_player(h, load)
       PROVE  AvatarsInv'
  <2>1. PICK c \in Conns : ShowsAvatar(h, load, c)
    BY <1>19, PlayerEffect
  <2>2. QED
    BY <2>1, InMapFacts, HasHost
       DEF ShowsAvatar, Acting, AvatarsInv, BlankInv, SceneInv, InLoop, Inside, InMap, BaseInv
<1>20. ASSUME NEW h \in Hosts, NEW load \in BOOLEAN, dm_load_clone(h, load)
       PROVE  AvatarsInv'
  <2>1. PICK c \in Conns, x \in Objects : ShowsClone(h, load, c, x)
    BY <1>20, CloneEffect
  <2>2. QED
    BY <2>1, InMapFacts, HasHost
       DEF ShowsClone, Acting, AvatarsInv, BlankInv, SceneInv, InLoop, Inside, InMap, BaseInv
<1>21. ASSUME NEW h \in Hosts, NEW bcast \in BOOLEAN, dm_read_sdl(h, bcast)
       PROVE  AvatarsInv'
  <2>1. PICK c \in Conns : KeepsState(h, c)
    BY <1>21, SdlEffect
  <2>2. QED
    BY <2>1, InMapFacts, HasHost
       DEF KeepsState, Acting, AvatarsInv, BlankInv, SceneInv, InLoop, Inside, InMap, BaseInv
<1>22. ASSUME NEW h \in Hosts, dm_send_state(h)
       PROVE  AvatarsInv'
  <2>1. PICK c \in Conns : ShowsStates(h, c)
    BY <1>22, StateEffect
  <2>2. QED
    BY <2>1, InMapFacts, HasHost
       DEF ShowsStates, Acting, AvatarsInv, BlankInv, SceneInv, InLoop, Inside, InMap, BaseInv
<1>23. ASSUME NEW h \in Hosts, dm_game_message(h)
       PROVE  AvatarsInv'
  BY <1>23 DEF dm_game_message, Reply, ghostVars, sceneVars, SceneInv, AvatarsInv, InLoop, Inside
<1>24. ASSUME NEW h \in Hosts, dm_game_disconnect(h)
       PROVE  AvatarsInv'
  <2>1. PICK c \in Conns : HidesAvatar(h, c)
    BY <1>24, LeaveEffect
  <2>2. QED
    BY <2>1, InMapFacts, HasHost
       DEF HidesAvatar, Acting, AvatarsInv, BlankInv, SceneInv, InLoop, Inside, InMap, BaseInv
<1>25. ASSUME NEW h \in Hosts, dm_game_disconnect_finish(h)
       PROVE  AvatarsInv'
  BY <1>25
     DEF dm_game_disconnect_finish, Reply, ghostVars, sceneVars, SceneInv, AvatarsInv,
         InLoop, Inside
<1>26. ASSUME NEW h \in Hosts, dm_game_shutdown_close(h)
       PROVE  AvatarsInv'
  BY <1>26 DEF dm_game_shutdown_close, workerVars, ghostVars, SceneInv, AvatarsInv, InLoop, Inside
<1>27. ASSUME NEW h \in Hosts, dm_game_shutdown_delete(h)
       PROVE  AvatarsInv'
  BY <1>27
     DEF dm_game_shutdown_delete, workerVars, ghostVars, sceneVars, SceneInv, AvatarsInv,
         InLoop, Inside
<1>28. CASE GameServer_Shutdown
  BY <1>28
     DEF GameServer_Shutdown, workerVars, ghostVars, sceneVars, SceneInv, AvatarsInv,
         InLoop, Inside
<1>29. CASE UNCHANGED vars
  BY <1>29
     DEF AvatarsInv, SceneInv, InLoop, Inside, vars, workerVars, hostVars, ghostVars, sceneVars
<1>30. QED
  BY <1>1, <1>2, <1>3, <1>3a, <1>4, <1>5, <1>6, <1>7, <1>8, <1>9, <1>10, <1>11, <1>12, <1>13,
     <1>14, <1>15, <1>16, <1>17, <1>18, <1>19, <1>20, <1>21, <1>22, <1>23, <1>24, <1>25,
     <1>26, <1>27, <1>28, <1>29
     DEF Next, WorkerProceeds, dm_gameHost

\* A clone is added or dropped for the host and its members in one step.
LEMMA ClonesStep ==
    ASSUME OnePlayerEach, BaseInv, SceneInv, [Next]_vars
    PROVE  ClonesInv'
<1>1. ASSUME NEW c \in Conns, cb_join(c)
      PROVE  ClonesInv'
  BY <1>1 DEF cb_join, hostVars, ghostVars, sceneVars, SceneInv, ClonesInv, InLoop, Inside
<1>2. ASSUME NEW c \in Conns, start_game_host(c)
      PROVE  ClonesInv'
  BY <1>2
     DEF start_game_host, ghostVars, sceneVars, BaseInv, TypeOK, PointerInv, SceneInv,
         Early, InLoop, Inside, ClonesInv, BlankInv
<1>3. ASSUME NEW c \in Conns, start_game_host_fails(c)
      PROVE  ClonesInv'
  BY <1>3
     DEF start_game_host_fails, hostVars, ghostVars, sceneVars, SceneInv, ClonesInv,
         InLoop, Inside
<1>3a. ASSUME NEW c \in Conns, start_game_host_orphan(c)
       PROVE  ClonesInv'
  BY <1>3a
     DEF start_game_host_orphan, ghostVars, sceneVars, SceneInv, ClonesInv, InLoop, Inside,
         BaseInv, TypeOK, PointerInv, Early, BlankInv
<1>4. ASSUME NEW c \in Conns, PutJoin(c)
      PROVE  ClonesInv'
  BY <1>4 DEF PutJoin, Put, HostExists, ghostVars, sceneVars, SceneInv, ClonesInv, InLoop, Inside
<1>5. ASSUME NEW c \in Conns, VaultRefuses(c)
      PROVE  ClonesInv'
  BY <1>5
     DEF VaultRefuses, hostVars, ghostVars, sceneVars, BaseInv, TypeOK, PointerInv,
         SceneInv, Early, InLoop, Inside, ClonesInv, BlankInv
<1>6. ASSUME NEW c \in Conns, GetJoinReply(c)
      PROVE  ClonesInv'
  BY <1>6 DEF GetJoinReply, hostVars, sceneVars, SceneInv, ClonesInv, InLoop, Inside
<1>7. ASSUME NEW c \in Conns, Insert(c)
      PROVE  ClonesInv'
  <2>1. \A d \in Conns : Inside(d)' =>
            (Inside(d) \/ (d = c /\ wpc[c] = "replied")) /\ m_host'[d] = m_host[d]
    BY <1>7, InsideKept
  <2>2. wpc[c] = "replied" => avatar[c] = "null" /\ sees[c] = {} /\ c \notin listed
    BY DEF SceneInv, BlankInv, Early
  <2>3. UNCHANGED <<sees, listed, avatar, m_clones, hstate>>
    BY <1>7 DEF Insert, sceneVars
  <2>4. QED
    BY <2>1, <2>2, <2>3 DEF SceneInv, ClonesInv
<1>8. ASSUME NEW c \in Conns, GetReply(c)
      PROVE  ClonesInv'
  BY <1>8 DEF GetReply, hostVars, ghostVars, sceneVars, SceneInv, ClonesInv, InLoop, Inside
<1>9. ASSUME NEW c \in Conns, PutDisconnect(c)
      PROVE  ClonesInv'
  BY <1>9
     DEF PutDisconnect, Put, HostExists, ghostVars, sceneVars, SceneInv, ClonesInv, InLoop, Inside
<1>10. ASSUME NEW c \in Conns, GetDisconnectReply(c)
       PROVE  ClonesInv'
  BY <1>10
     DEF GetDisconnectReply, hostVars, ghostVars, sceneVars, SceneInv, ClonesInv, InLoop, Inside
<1>11. ASSUME NEW c \in Conns, UseDeletedHost(c)
       PROVE  ClonesInv'
  BY <1>11 DEF UseDeletedHost, hostVars, ghostVars, sceneVars, SceneInv, ClonesInv, InLoop, Inside
<1>12. ASSUME NEW c \in Conns, NEW k \in GameMessages, NEW o \in Objects, cb_netmsg(c, k, o)
       PROVE  ClonesInv'
  BY <1>12 DEF cb_netmsg, Put, HostExists, ghostVars, sceneVars, SceneInv, ClonesInv, InLoop, Inside
<1>13. ASSUME NEW c \in Conns, Erase(c)
       PROVE  ClonesInv'
  <2>1. \A d \in Conns : Inside(d)' =>
            (Inside(d) \/ (d = c /\ wpc[c] = "replied")) /\ m_host'[d] = m_host[d]
    BY <1>13, InsideKept
  <2>2. wpc[c] = "replied" => avatar[c] = "null" /\ sees[c] = {} /\ c \notin listed
    BY DEF SceneInv, BlankInv, Early
  <2>3. UNCHANGED <<sees, listed, avatar, m_clones, hstate>>
    BY <1>13 DEF Erase, sceneVars
  <2>4. QED
    BY <2>1, <2>2, <2>3 DEF SceneInv, ClonesInv
<1>14. ASSUME NEW h \in Hosts, dm_game_join(h)
       PROVE  ClonesInv'
  BY <1>14 DEF dm_game_join, Reply, sceneVars, SceneInv, ClonesInv, InLoop, Inside
<1>15. ASSUME NEW h \in Hosts, dm_game_join_refused(h)
       PROVE  ClonesInv'
  BY <1>15
     DEF dm_game_join_refused, Reply, ghostVars, sceneVars, SceneInv, ClonesInv, InLoop, Inside
<1>16. ASSUME NEW h \in Hosts, dm_test_and_set_lock(h)
       PROVE  ClonesInv'
  BY <1>16 DEF dm_test_and_set_lock, Reply, sceneVars, SceneInv, ClonesInv, InLoop, Inside
<1>17. ASSUME NEW h \in Hosts, dm_test_and_set_unlock(h)
       PROVE  ClonesInv'
  BY <1>17 DEF dm_test_and_set_unlock, Reply, sceneVars, SceneInv, ClonesInv, InLoop, Inside
<1>18. ASSUME NEW h \in Hosts, dm_send_members(h)
       PROVE  ClonesInv'
  <2>1. PICK c \in Conns : ShowsMembers(h, c)
    BY <1>18, MembersEffect
  <2>2. QED
    BY <2>1, InMapFacts, HasHost
       DEF ShowsMembers, Acting, ClonesInv, BlankInv, SceneInv, InLoop, Inside, InMap, BaseInv
<1>19. ASSUME NEW h \in Hosts, NEW load \in BOOLEAN, dm_load_clone_player(h, load)
       PROVE  ClonesInv'
  <2>1. PICK c \in Conns : ShowsAvatar(h, load, c)
    BY <1>19, PlayerEffect
  <2>2. QED
    BY <2>1, InMapFacts, HasHost
       DEF ShowsAvatar, Acting, ClonesInv, BlankInv, SceneInv, InLoop, Inside, InMap, BaseInv
<1>20. ASSUME NEW h \in Hosts, NEW load \in BOOLEAN, dm_load_clone(h, load)
       PROVE  ClonesInv'
  <2>1. PICK c \in Conns, x \in Objects : ShowsClone(h, load, c, x)
    BY <1>20, CloneEffect
  <2>2. QED
    BY <2>1, InMapFacts, HasHost
       DEF ShowsClone, Acting, ClonesInv, BlankInv, SceneInv, InLoop, Inside, InMap, BaseInv
<1>21. ASSUME NEW h \in Hosts, NEW bcast \in BOOLEAN, dm_read_sdl(h, bcast)
       PROVE  ClonesInv'
  <2>1. PICK c \in Conns : KeepsState(h, c)
    BY <1>21, SdlEffect
  <2>2. QED
    BY <2>1, InMapFacts, HasHost
       DEF KeepsState, Acting, ClonesInv, BlankInv, SceneInv, InLoop, Inside, InMap, BaseInv
<1>22. ASSUME NEW h \in Hosts, dm_send_state(h)
       PROVE  ClonesInv'
  <2>1. PICK c \in Conns : ShowsStates(h, c)
    BY <1>22, StateEffect
  <2>2. QED
    BY <2>1, InMapFacts, HasHost
       DEF ShowsStates, Acting, ClonesInv, BlankInv, SceneInv, InLoop, Inside, InMap, BaseInv
<1>23. ASSUME NEW h \in Hosts, dm_game_message(h)
       PROVE  ClonesInv'
  BY <1>23 DEF dm_game_message, Reply, ghostVars, sceneVars, SceneInv, ClonesInv, InLoop, Inside
<1>24. ASSUME NEW h \in Hosts, dm_game_disconnect(h)
       PROVE  ClonesInv'
  <2>1. PICK c \in Conns : HidesAvatar(h, c)
    BY <1>24, LeaveEffect
  <2>2. QED
    BY <2>1, InMapFacts, HasHost
       DEF HidesAvatar, Acting, ClonesInv, BlankInv, SceneInv, InLoop, Inside, InMap, BaseInv
<1>25. ASSUME NEW h \in Hosts, dm_game_disconnect_finish(h)
       PROVE  ClonesInv'
  BY <1>25
     DEF dm_game_disconnect_finish, Reply, ghostVars, sceneVars, SceneInv, ClonesInv,
         InLoop, Inside
<1>26. ASSUME NEW h \in Hosts, dm_game_shutdown_close(h)
       PROVE  ClonesInv'
  BY <1>26
     DEF dm_game_shutdown_close, workerVars, ghostVars, BaseInv, TypeOK, PointerInv,
         SceneInv, Early, InLoop, Inside, ClonesInv, BlankInv
<1>27. ASSUME NEW h \in Hosts, dm_game_shutdown_delete(h)
       PROVE  ClonesInv'
  BY <1>27
     DEF dm_game_shutdown_delete, workerVars, ghostVars, sceneVars, SceneInv, ClonesInv,
         InLoop, Inside
<1>28. CASE GameServer_Shutdown
  BY <1>28
     DEF GameServer_Shutdown, workerVars, ghostVars, sceneVars, SceneInv, ClonesInv,
         InLoop, Inside
<1>29. CASE UNCHANGED vars
  BY <1>29 DEF ClonesInv, SceneInv, InLoop, Inside, vars, workerVars, hostVars, ghostVars, sceneVars
<1>30. QED
  BY <1>1, <1>2, <1>3, <1>3a, <1>4, <1>5, <1>6, <1>7, <1>8, <1>9, <1>10, <1>11, <1>12, <1>13,
     <1>14, <1>15, <1>16, <1>17, <1>18, <1>19, <1>20, <1>21, <1>22, <1>23, <1>24, <1>25,
     <1>26, <1>27, <1>28, <1>29
     DEF Next, WorkerProceeds, dm_gameHost

\* dm_game_disconnect takes a loaded avatar from the host and from all members,
\* and nobody shows it afterwards.
LEMMA GoneStep ==
    ASSUME OnePlayerEach, BaseInv, SceneInv, [Next]_vars
    PROVE  GoneInv'
<1>1. ASSUME NEW c \in Conns, cb_join(c)
      PROVE  GoneInv'
  BY <1>1 DEF cb_join, hostVars, ghostVars, sceneVars, SceneInv, GoneInv, InLoop, Inside, Handled
<1>2. ASSUME NEW c \in Conns, start_game_host(c)
      PROVE  GoneInv'
  BY <1>2 DEF start_game_host, ghostVars, sceneVars, SceneInv, GoneInv, InLoop, Inside, Handled
<1>3. ASSUME NEW c \in Conns, start_game_host_fails(c)
      PROVE  GoneInv'
  BY <1>3
     DEF start_game_host_fails, hostVars, ghostVars, sceneVars, SceneInv, GoneInv, InLoop, Inside,
         Handled
<1>3a. ASSUME NEW c \in Conns, start_game_host_orphan(c)
       PROVE  GoneInv'
  BY <1>3a
     DEF start_game_host_orphan, ghostVars, sceneVars, SceneInv, GoneInv, InLoop, Inside,
         Handled
<1>4. ASSUME NEW c \in Conns, PutJoin(c)
      PROVE  GoneInv'
  BY <1>4
     DEF PutJoin, Put, HostExists, ghostVars, sceneVars, SceneInv, GoneInv, InLoop, Inside,
         Handled
<1>5. ASSUME NEW c \in Conns, VaultRefuses(c)
      PROVE  GoneInv'
  BY <1>5
     DEF VaultRefuses, hostVars, ghostVars, sceneVars, BaseInv, TypeOK, PointerInv,
         SceneInv, Early, InLoop, Inside, GoneInv, BlankInv, Handled, Waiting, RequestInv,
         DeferredInv, ReplyInv
<1>6. ASSUME NEW c \in Conns, GetJoinReply(c)
      PROVE  GoneInv'
  BY <1>6 DEF GetJoinReply, hostVars, sceneVars, SceneInv, GoneInv, InLoop, Inside, Handled
<1>7. ASSUME NEW c \in Conns, Insert(c)
      PROVE  GoneInv'
  <2>1. \A d \in Conns : Inside(d)' =>
            (Inside(d) \/ (d = c /\ wpc[c] = "replied")) /\ m_host'[d] = m_host[d]
    BY <1>7, InsideKept
  <2>2. wpc[c] = "replied" => avatar[c] = "null" /\ sees[c] = {} /\ c \notin listed
    BY DEF SceneInv, BlankInv, Early
  <2>3. UNCHANGED <<sees, m_states, avatar>>
    BY <1>7 DEF Insert, sceneVars
  <2>4. \A d \in Conns : Handled(d)' => Handled(d)
    BY <1>7 DEF Insert, Handled, BaseInv, TypeOK
  <2>5. QED
    BY <2>1, <2>2, <2>3, <2>4 DEF SceneInv, GoneInv
<1>8. ASSUME NEW c \in Conns, GetReply(c)
      PROVE  GoneInv'
  BY <1>8 DEF GetReply, hostVars, ghostVars, sceneVars, SceneInv, GoneInv, InLoop, Inside, Handled
<1>9. ASSUME NEW c \in Conns, PutDisconnect(c)
      PROVE  GoneInv'
  <2>1. m_channel[c] = <<>> /\ hpc[m_host[c]] # c
    BY <1>9, HasHost, NullAssumption
       DEF PutDisconnect, BaseInv, RequestInv, DeferredInv, ReplyInv, Waiting
  <2>2. \A d \in Conns : Handled(d)' => Handled(d)
    BY <1>9, <2>1 DEF PutDisconnect, Put, Handled, BaseInv, TypeOK
  <2>3. QED
    BY <1>9, <2>2
       DEF PutDisconnect, Put, sceneVars, GoneInv, SceneInv, InLoop, Inside, BaseInv, TypeOK
<1>10. ASSUME NEW c \in Conns, GetDisconnectReply(c)
       PROVE  GoneInv'
  BY <1>10
     DEF GetDisconnectReply, hostVars, ghostVars, sceneVars, SceneInv, GoneInv, InLoop, Inside,
         Handled
<1>11. ASSUME NEW c \in Conns, UseDeletedHost(c)
       PROVE  GoneInv'
  BY <1>11
     DEF UseDeletedHost, hostVars, ghostVars, sceneVars, SceneInv, GoneInv, InLoop, Inside,
         Handled
<1>12. ASSUME NEW c \in Conns, NEW k \in GameMessages, NEW o \in Objects, cb_netmsg(c, k, o)
       PROVE  GoneInv'
  BY <1>12
     DEF cb_netmsg, Put, HostExists, ghostVars, sceneVars, SceneInv, GoneInv, InLoop, Inside,
         Handled
<1>13. ASSUME NEW c \in Conns, Erase(c)
       PROVE  GoneInv'
  <2>1. \A d \in Conns : Inside(d)' =>
            (Inside(d) \/ (d = c /\ wpc[c] = "replied")) /\ m_host'[d] = m_host[d]
    BY <1>13, InsideKept
  <2>2. wpc[c] = "replied" => avatar[c] = "null" /\ sees[c] = {} /\ c \notin listed
    BY DEF SceneInv, BlankInv, Early
  <2>3. UNCHANGED <<sees, m_states, avatar>>
    BY <1>13 DEF Erase, sceneVars
  <2>4. \A d \in Conns : Handled(d)' => Handled(d)
    BY <1>13 DEF Erase, Handled, BaseInv, TypeOK
  <2>5. QED
    BY <2>1, <2>2, <2>3, <2>4 DEF SceneInv, GoneInv
<1>14. ASSUME NEW h \in Hosts, dm_game_join(h)
       PROVE  GoneInv'
  <2>1. \A d \in Conns : Handled(d)' <=> Handled(d)
    BY <1>14, HandledKept DEF dm_game_join, Reply, Kinds, GameMessages
  <2>2. UNCHANGED <<wpc, m_host, m_clients, avatar, m_states, sees>>
    BY <1>14 DEF dm_game_join, sceneVars
  <2>3. QED
    BY <2>1, <2>2 DEF GoneInv, SceneInv, InLoop, Inside
<1>15. ASSUME NEW h \in Hosts, dm_game_join_refused(h)
       PROVE  GoneInv'
  <2>1. \A d \in Conns : Handled(d)' <=> Handled(d)
    BY <1>15, HandledKept DEF dm_game_join_refused, Reply, Kinds, GameMessages
  <2>2. UNCHANGED <<wpc, m_host, m_clients, avatar, m_states, sees>>
    BY <1>15 DEF dm_game_join_refused, sceneVars
  <2>3. QED
    BY <2>1, <2>2 DEF GoneInv, SceneInv, InLoop, Inside
<1>16. ASSUME NEW h \in Hosts, dm_test_and_set_lock(h)
       PROVE  GoneInv'
  <2>1. \A d \in Conns : Handled(d)' <=> Handled(d)
    BY <1>16, HandledKept DEF dm_test_and_set_lock, Reply, Kinds, GameMessages
  <2>2. UNCHANGED <<wpc, m_host, m_clients, avatar, m_states, sees>>
    BY <1>16 DEF dm_test_and_set_lock, sceneVars
  <2>3. QED
    BY <2>1, <2>2 DEF GoneInv, SceneInv, InLoop, Inside
<1>17. ASSUME NEW h \in Hosts, dm_test_and_set_unlock(h)
       PROVE  GoneInv'
  <2>1. \A d \in Conns : Handled(d)' <=> Handled(d)
    BY <1>17, HandledKept DEF dm_test_and_set_unlock, Reply, Kinds, GameMessages
  <2>2. UNCHANGED <<wpc, m_host, m_clients, avatar, m_states, sees>>
    BY <1>17 DEF dm_test_and_set_unlock, sceneVars
  <2>3. QED
    BY <2>1, <2>2 DEF GoneInv, SceneInv, InLoop, Inside
<1>18. ASSUME NEW h \in Hosts, dm_send_members(h)
       PROVE  GoneInv'
  <2>1. PICK c \in Conns : ShowsMembers(h, c)
    BY <1>18, MembersEffect
  <2>2. \A d \in Conns : Handled(d)' <=> Handled(d)
    BY <1>18, HandledKept DEF dm_send_members, Reply, Kinds, GameMessages, CloneMessages
  <2>3. \A d \in Conns : Handled(d) => wpc[d] \in {"leaving", "gone"}
    BY DEF Handled
  <2>4. \A d \in Conns, g \in Hosts : Handled(d) => ~InMap(g, d) /\ (d \in m_states'[g] => d \in m_states[g])
    BY <2>1, <2>3, PlayerOfAssumption, NullAssumption
       DEF ShowsMembers, Acting, BaseInv, MemberInv, InMap
  <2>5. QED
    BY <2>1, <2>2, <2>3, <2>4 DEF ShowsMembers, Acting, GoneInv, SceneInv, InLoop, Inside
<1>19. ASSUME NEW h \in Hosts, NEW load \in BOOLEAN, dm_load_clone_player(h, load)
       PROVE  GoneInv'
  <2>1. PICK c \in Conns : ShowsAvatar(h, load, c)
    BY <1>19, PlayerEffect
  <2>2. \A d \in Conns : Handled(d)' <=> Handled(d)
    BY <1>19, HandledKept
       DEF dm_load_clone_player, Reply, Kinds, GameMessages, CloneMessages
  <2>3. \A d \in Conns : Handled(d) => wpc[d] \in {"leaving", "gone"}
    BY DEF Handled
  <2>4. \A d \in Conns, g \in Hosts : Handled(d) => ~InMap(g, d) /\ (d \in m_states'[g] => d \in m_states[g])
    BY <2>1, <2>3, PlayerOfAssumption, NullAssumption
       DEF ShowsAvatar, Acting, BaseInv, MemberInv, InMap
  <2>5. QED
    BY <2>1, <2>2, <2>3, <2>4 DEF ShowsAvatar, Acting, GoneInv, SceneInv, InLoop, Inside
<1>20. ASSUME NEW h \in Hosts, NEW load \in BOOLEAN, dm_load_clone(h, load)
       PROVE  GoneInv'
  <2>1. PICK c \in Conns, x \in Objects : ShowsClone(h, load, c, x)
    BY <1>20, CloneEffect
  <2>2. \A d \in Conns : Handled(d)' <=> Handled(d)
    BY <1>20, HandledKept DEF dm_load_clone, Reply, Kinds, GameMessages, CloneMessages
  <2>3. \A d \in Conns : Handled(d) => wpc[d] \in {"leaving", "gone"}
    BY DEF Handled
  <2>4. \A d \in Conns, g \in Hosts : Handled(d) => ~InMap(g, d) /\ (d \in m_states'[g] => d \in m_states[g])
    BY <2>1, <2>3, PlayerOfAssumption, NullAssumption
       DEF ShowsClone, Acting, BaseInv, MemberInv, InMap
  <2>5. QED
    BY <2>1, <2>2, <2>3, <2>4 DEF ShowsClone, Acting, GoneInv, SceneInv, InLoop, Inside
<1>21. ASSUME NEW h \in Hosts, NEW bcast \in BOOLEAN, dm_read_sdl(h, bcast)
       PROVE  GoneInv'
  <2>1. PICK c \in Conns : KeepsState(h, c)
    BY <1>21, SdlEffect
  <2>2. \A d \in Conns : Handled(d)' <=> Handled(d)
    BY <1>21, HandledKept DEF dm_read_sdl, Reply, Kinds, GameMessages, CloneMessages
  <2>3. \A d \in Conns : Handled(d) => wpc[d] \in {"leaving", "gone"}
    BY DEF Handled
  <2>4. \A d \in Conns, g \in Hosts : Handled(d) => ~InMap(g, d) /\ (d \in m_states'[g] => d \in m_states[g])
    BY <2>1, <2>3, PlayerOfAssumption, NullAssumption
       DEF KeepsState, Acting, BaseInv, MemberInv, InMap
  <2>5. QED
    BY <2>1, <2>2, <2>3, <2>4 DEF KeepsState, Acting, GoneInv, SceneInv, InLoop, Inside
<1>22. ASSUME NEW h \in Hosts, dm_send_state(h)
       PROVE  GoneInv'
  <2>1. PICK c \in Conns : ShowsStates(h, c)
    BY <1>22, StateEffect
  <2>2. \A d \in Conns : Handled(d)' <=> Handled(d)
    BY <1>22, HandledKept DEF dm_send_state, Reply, Kinds, GameMessages, CloneMessages
  <2>3. \A d \in Conns : Handled(d) => wpc[d] \in {"leaving", "gone"}
    BY DEF Handled
  <2>4. \A d \in Conns, g \in Hosts : Handled(d) => ~InMap(g, d) /\ (d \in m_states'[g] => d \in m_states[g])
    BY <2>1, <2>3, PlayerOfAssumption, NullAssumption
       DEF ShowsStates, Acting, BaseInv, MemberInv, InMap
  <2>5. QED
    BY <2>1, <2>2, <2>3, <2>4 DEF ShowsStates, Acting, GoneInv, SceneInv, InLoop, Inside
<1>23. ASSUME NEW h \in Hosts, dm_game_message(h)
       PROVE  GoneInv'
  <2>1. \A d \in Conns : Handled(d)' <=> Handled(d)
    BY <1>23, HandledKept DEF dm_game_message, Reply, Kinds, GameMessages
  <2>2. UNCHANGED <<wpc, m_host, m_clients, avatar, m_states, sees>>
    BY <1>23 DEF dm_game_message, sceneVars
  <2>3. QED
    BY <2>1, <2>2 DEF GoneInv, SceneInv, InLoop, Inside
<1>24. ASSUME NEW h \in Hosts, dm_game_disconnect(h)
       PROVE  GoneInv'
  <2>1. PICK c \in Conns : HidesAvatar(h, c)
    BY <1>24, LeaveEffect
  <2>2. \A d \in Conns : d # c /\ Handled(d)' => Handled(d)
    BY <2>1, HasHost DEF HidesAvatar, Handled, BaseInv, TypeOK
  <2>3. \A g \in Hosts : avatar[c] = "loaded" => c \notin m_states'[g]
    BY <2>1 DEF HidesAvatar, SceneInv, SameHostInv
  <2>4. \A a \in Conns : Inside(a) /\ avatar[c] = "loaded" =>
            Avatar(c) \notin sees'[a] /\ Sdl(c) \notin sees'[a]
    BY <2>1 DEF HidesAvatar, SceneInv, BlankInv, SameHostInv, InLoop, Inside, InMap
  <2>5. \A d \in Conns : /\ \A g \in Hosts : d \in m_states'[g] => d \in m_states[g]
                         /\ \A a \in Conns : /\ Avatar(d) \in sees'[a] => Avatar(d) \in sees[a]
                                             /\ Sdl(d) \in sees'[a] => Sdl(d) \in sees[a]
    BY <2>1 DEF HidesAvatar
  <2>6. UNCHANGED <<wpc, m_host, m_clients, avatar>>
    BY <2>1 DEF HidesAvatar
  <2>7. QED
    BY <2>2, <2>3, <2>4, <2>5, <2>6 DEF GoneInv, SceneInv, InLoop, Inside
<1>25. ASSUME NEW h \in Hosts, dm_game_disconnect_finish(h)
       PROVE  GoneInv'
  BY <1>25, PlayerOfAssumption, NullAssumption, HasHost
     DEF dm_game_disconnect_finish, Reply, ghostVars, sceneVars, BaseInv, TypeOK,
         PointerInv, SceneInv, Early, InLoop, Inside, GoneInv, BlankInv, Handled, Waiting,
         RequestInv, DeferredInv, ReplyInv
<1>26. ASSUME NEW h \in Hosts, dm_game_shutdown_close(h)
       PROVE  GoneInv'
  BY <1>26
     DEF dm_game_shutdown_close, workerVars, ghostVars, SceneInv, GoneInv, InLoop, Inside, Handled
<1>27. ASSUME NEW h \in Hosts, dm_game_shutdown_delete(h)
       PROVE  GoneInv'
  BY <1>27
     DEF dm_game_shutdown_delete, workerVars, ghostVars, sceneVars, SceneInv, GoneInv,
         InLoop, Inside, Handled
<1>28. CASE GameServer_Shutdown
  BY <1>28
     DEF GameServer_Shutdown, workerVars, ghostVars, sceneVars, SceneInv, GoneInv, InLoop, Inside,
         Handled
<1>29. CASE UNCHANGED vars
  BY <1>29
     DEF GoneInv, SceneInv, InLoop, Inside, Handled, vars, workerVars, hostVars, ghostVars,
         sceneVars
<1>30. QED
  BY <1>1, <1>2, <1>3, <1>3a, <1>4, <1>5, <1>6, <1>7, <1>8, <1>9, <1>10, <1>11, <1>12, <1>13,
     <1>14, <1>15, <1>16, <1>17, <1>18, <1>19, <1>20, <1>21, <1>22, <1>23, <1>24, <1>25,
     <1>26, <1>27, <1>28, <1>29
     DEF Next, WorkerProceeds, dm_gameHost

\* Nobody is shown anything.
LEMMA InitScene == Init => SceneInv
<1> SUFFICES ASSUME Init
             PROVE  SceneInv
  OBVIOUS
<1>1. BlankInv /\ SameHostInv
  BY DEF Init, BlankInv, SameHostInv
<1>2. AvatarsInv /\ ClonesInv /\ GoneInv
  BY DEF Init, AvatarsInv, ClonesInv, GoneInv, Inside, InLoop, Handled
<1>3. QED
  BY <1>1, <1>2 DEF SceneInv

\* All of the invariant, when every connection has a player of its own.
THEOREM InductiveInvariant ==
    ASSUME OnePlayerEach
    PROVE  Spec => []IInv
<1>1. Init => IInv
  BY InitKeyed, InitScene DEF IInv
<1>2. IInv /\ [Next]_vars => IInv'
  <2> SUFFICES ASSUME IInv, [Next]_vars
               PROVE  IInv'
    OBVIOUS
  <2>1. KeyedInv /\ BaseInv /\ SceneInv
    BY DEF IInv, KeyedInv, HostInv
  <2>2. KeyedInv'
    BY <2>1, KeyedStep
  <2>3. SceneInv'
    BY <2>1, BlankStep, SameHostStep, AvatarsStep, ClonesStep, GoneStep DEF SceneInv
  <2>4. QED
    BY <2>2, <2>3 DEF IInv
<1>3. QED
  BY <1>1, <1>2, PTL DEF Spec

\* A listed member has what the host has (GameHost.cpp:555-588, 591-621).
THEOREM SceneAgrees ==
    ASSUME OnePlayerEach
    PROVE  Spec => []SceneComplete
<1>1. IInv => SceneComplete
  <2> SUFFICES ASSUME IInv, NEW h \in Hosts, hstate[h] = "up", NEW c \in Members(h) \cap listed
               PROVE  /\ \A d \in Members(h) \ {c} : avatar[d] = "loaded" => Avatar(d) \in sees[c]
                      /\ \A o \in Objects : Clone(o) \in sees[c] <=> o \in m_clones[h]
    BY DEF SceneComplete
  <2>1. \A d \in Members(h) : d \in Conns /\ m_host[d] = h /\ Inside(d)
    BY MemberFacts DEF IInv, KeyedInv, HostInv, Inside, InLoop
  <2>2. QED
    BY <2>1 DEF IInv, SceneInv, AvatarsInv, ClonesInv
<1>2. QED
  BY <1>1, InductiveInvariant, PTL

\* Nothing is left of a loaded avatar whose player is gone (GameHost.cpp:172-198).
THEOREM NothingLeft ==
    ASSUME OnePlayerEach
    PROVE  Spec => []NoLeftovers
<1>1. IInv => NoLeftovers
  <2> SUFFICES ASSUME IInv, NEW d \in Conns, wpc[d] = "gone", avatar[d] = "loaded"
               PROVE  /\ \A h \in Hosts : d \notin m_states[h]
                      /\ \A h \in Hosts : \A c \in (IF hstate[h] = "up" THEN Members(h) ELSE {}) :
                            sees[c] \cap {Avatar(d), Sdl(d)} = {}
    BY DEF NoLeftovers
  <2>1. /\ \A h \in Hosts : d \notin m_states[h]
        /\ \A c \in Conns : Inside(c) => Avatar(d) \notin sees[c] /\ Sdl(d) \notin sees[c]
    BY DEF IInv, SceneInv, GoneInv, Handled
  <2>2. \A h \in Hosts : hstate[h] = "up" => \A c \in Members(h) : c \in Conns /\ Inside(c)
    BY MemberFacts DEF IInv, KeyedInv, HostInv, Inside, InLoop
  <2>3. QED
    BY <2>1, <2>2
<1>2. QED
  BY <1>1, InductiveInvariant, PTL
=============================================================================

-------------------------- MODULE ConnectionsProofs --------------------------
(***************************************************************************)
(* Proofs about Connections, for any number of connections, descriptors,   *)
(* downloads and restarts: every open descriptor has an owner; as long as  *)
(* no handle was closed before it was freed every number means what it was *)
(* stored for; and a download delivers its file chunk by chunk, as         *)
(* FileTransfer promises.                                                  *)
(*                                                                         *)
(* A number is stored in a listening thread, in a connection's handle and  *)
(* in its downloads. ListenInv, HandleInv and FileInv say that an entry of *)
(* the table is found from one of these; OwnInv says that, while nothing   *)
(* was closed early, the number in each of these leads to its entry. A     *)
(* connection has no handle until it is accepted (QueueInv): that is why   *)
(* accept cannot give a second number to one.                              *)
(***************************************************************************)
EXTENDS Connections, QueueLemmas, FiniteSetTheorems, WellFoundedInduction, TLAPS

\* The listening thread has its socket.
Listening == {"loop", "accept", "header"}

\* The worker has its handle.
Active == {"spawned", "serve", "send", "asks", "failed", "refused", "answered", "erased"}

\* A listening socket belongs to its thread, and a thread in accept has one, maybe
\* the other's.
ListenInv ==
    /\ \A l \in Listeners, n \in Fds :
          table[n] = Listen(l) => thread[l].fd = n /\ thread[l].pc \in Listening
    /\ \A l \in Listeners :
          thread[l].pc = "accept" => \E m \in Listeners : table[thread[l].fd] = Listen(m)

\* A connection waits once, and nothing of it exists but the client's end.
QueueInv ==
    /\ \A l \in Listeners : \A i \in 1 .. Len(queue[l]) :
          /\ sock[queue[l][i]] = 0 /\ pc[queue[l][i]] = "none"
          /\ peer[queue[l][i]] # "idle"
    /\ \A l, m \in Listeners : \A i \in 1 .. Len(queue[l]), j \in 1 .. Len(queue[m]) :
          queue[l][i] = queue[m][j] => l = m /\ i = j

\* A connection has a handle from accept to FreeSock, first in a listening thread,
\* then in its worker, and a socket of its own is where the handle says.
HandleInv ==
    /\ \A c \in Conns : peer[c] = "idle" => sock[c] = 0 /\ pc[c] = "none"
    /\ \A l \in Listeners : thread[l].pc = "header" =>
          thread[l].conn \in Conns /\ sock[thread[l].conn] # 0 /\ pc[thread[l].conn] = "none"
    /\ \A l, m \in Listeners :
          (thread[l].pc = "header" /\ thread[m].pc = "header" /\ thread[l].conn = thread[m].conn)
              => l = m
    /\ \A c \in Conns : pc[c] \in Active => sock[c] # 0
    /\ \A c \in Conns, n \in Fds : table[n] = Sock(c) => sock[c] = n

\* A worker of the file server has one download, and only while it sends it; an open
\* file belongs to a download, and the client has what was sent of it.
FileOf(c) ==
    /\ pc[c] \in {"none", "ended"} => \A t \in Trans : files[c][t] = NoFile
    /\ pc[c] = "send" => kind[c] = "file"
    /\ kind[c] = "file" =>
          \A t \in Trans : files[c][t] = NoFile \/ (t = AnyTrans /\ pc[c] = "send")
    /\ \A t \in Trans : (files[c][t] # NoFile /\ peer[c] = "open") =>
          /\ got[c][t].size = files[c][t].size
          /\ Len(got[c][t].chunks) = files[c][t].pos
    /\ \A n \in Fds : table[n] = File(c) => \E t \in Trans : files[c][t].fd = n
FileInv == \A c \in Conns : FileOf(c)

\* A failed worker has leaked one file at most.
Lost == {n \in Fds : table[n] = Leaked}
Broken == {c \in Conns : pc[c] \in Over}
LeakInv == Cardinality(Lost) <= Cardinality(Broken)

\* The lobby is stopped early, if at all.
MainInv ==
    /\ thread["lobby"].pc # "none"
    /\ ~early =>
          /\ main.pc # "exit"
          /\ main.pc \in {"restart", "quit"} => main.at = "status"

\* While nothing was closed early every stored number leads to its own entry.
OwnInv ==
    ~early =>
        /\ ~mixed
        /\ \A l \in Listeners :
              thread[l].pc # "none" =>
                 thread[l].pc \in Listening /\ table[thread[l].fd] = Listen(l)
        /\ \A c \in Conns :
              /\ sock[c] # 0 => table[sock[c]] = Sock(c)
              /\ \A t \in Trans : files[c][t].fd # 0 => table[files[c][t].fd] = File(c)
              /\ \A t, u \in Trans :
                    (t # u /\ files[c][t].fd # 0) => files[c][t].fd # files[c][u].fd

\* The inductive invariant.
IInv ==
    /\ TypeOK /\ ListenInv /\ QueueInv /\ HandleInv /\ FileInv /\ LeakInv
    /\ MainInv /\ OwnInv

-----------------------------------------------------------------------------
\* The entries of the table are told apart by what they are and whose they are.
LEMMA EntriesApart ==
    /\ Free # Leaked
    /\ \A l \in Listeners : Listen(l) # Free /\ Listen(l) # Leaked
    /\ \A c \in Conns : /\ Sock(c) # Free /\ Sock(c) # Leaked
                        /\ File(c) # Free /\ File(c) # Leaked
    /\ \A l \in Listeners, c \in Conns : Listen(l) # Sock(c) /\ Listen(l) # File(c)
    /\ \A c, d \in Conns : /\ Sock(c) # File(d)
                           /\ Sock(c) = Sock(d) => c = d
                           /\ File(c) = File(d) => c = d
    /\ \A l, m \in Listeners : Listen(l) = Listen(m) => l = m
    /\ \A l \in Listeners : Listen(l).kind = "listen" /\ Listen(l).of = l
    /\ \A c \in Conns : Sock(c).kind = "sock" /\ File(c).kind = "file"
    /\ Free.kind = "free" /\ Leaked.kind = "file"
BY ConnectionsAssumption DEF Free, Leaked, Listen, Sock, File

\* What kind of entry a number has says whose it can be.
LEMMA KindFacts ==
    ASSUME NEW e \in Entries
    PROVE  /\ e.kind = "listen" => \E l \in Listeners : e = Listen(l)
           /\ e.kind = "sock" => \E c \in Conns : e = Sock(c)
<1>1. e \in {Free, Leaked} \/ (\E l \in Listeners : e = Listen(l))
        \/ (\E c \in Conns : e = Sock(c)) \/ (\E c \in Conns : e = File(c))
  BY DEF Entries
<1>2. QED
  BY <1>1, EntriesApart

\* The bounds of a behaviour.
LEMMA BoundsFacts ==
    ASSUME bounds \in Bounds
    PROVE  /\ bounds.fds \in Nat /\ \A n \in 1 .. bounds.fds : n \in Fds
           /\ bounds.trans \in Nat /\ \A t \in 1 .. bounds.trans : t \in Trans
           /\ AnyTrans \in Trans
           /\ bounds.size \in Nat /\ bounds.restarts \in Nat
           /\ bounds.status \in BOOLEAN
BY ConnectionsAssumption DEF Fds, Trans, AnyTrans

\* The kernel gives out a free number.
LEMMA LowestFree ==
    ASSUME bounds \in Bounds, FreeFds # {}
    PROVE  Min(FreeFds) \in Fds /\ table[Min(FreeFds)] = Free
<1>1. FreeFds \subseteq Nat /\ FreeFds \subseteq Fds
  BY BoundsFacts DEF FreeFds, Fds
<1>2. PICK x \in FreeFds : \A y \in FreeFds : ~(<<y, x>> \in OpToRel(<, Nat))
  BY <1>1, NatLessThanWellFounded, WFMin
<1>3. \A y \in FreeFds : x <= y
  <2>1. ASSUME NEW y \in FreeFds PROVE ~(y < x)
    <3>1. y \in Nat /\ x \in Nat
      BY <1>1
    <3>2. ~(<<y, x>> \in {p \in Nat \X Nat : p[1] < p[2]})
      BY <1>2 DEF OpToRel
    <3>3. QED
      BY <3>1, <3>2
  <2>2. QED
    BY <1>1, <2>1
<1>4. Min(FreeFds) \in FreeFds
  BY <1>2, <1>3 DEF Min
<1>5. QED
  BY <1>1, <1>4 DEF FreeFds

\* What CloseSock does, entry by entry.
LEMMA CloseEffects ==
    ASSUME NEW ns, NEW th, CloseSock(ns, th)
    PROVE  /\ \A n \in Fds : table'[n] = IF n \in ns THEN Free ELSE table[n]
           /\ \A c \in Conns : peer'[c] = peer[c] \/ peer'[c] = "gone"
           /\ \A l \in Listeners : queue'[l] = queue[l] \/ queue'[l] = <<>>
           /\ \A l \in Listeners :
                 thread'[l] = IF th[l].pc = "accept" /\ th[l].fd \in ns
                              THEN [th[l] EXCEPT !.pc = "left"] ELSE th[l]
BY DEF CloseSock

\* CloseSock keeps the types.
LEMMA CloseTypes ==
    ASSUME TypeOK, NEW ns, NEW th \in [Listeners -> Threads], CloseSock(ns, th)
    PROVE  /\ table' \in [Fds -> Entries]
           /\ peer' \in [Conns -> {"idle", "pending", "open", "talks", "gone"}]
           /\ queue' \in [Listeners -> Seq(Conns)]
           /\ thread' \in [Listeners -> Threads]
<1>1. table' \in [Fds -> Entries]
  BY DEF CloseSock, TypeOK, Entries
<1>2. peer' \in [Conns -> {"idle", "pending", "open", "talks", "gone"}]
  BY DEF CloseSock, TypeOK
<1>3. queue' \in [Listeners -> Seq(Conns)]
  BY DEF CloseSock, TypeOK
<1>4. thread' \in [Listeners -> Threads]
  <2>1. ASSUME NEW t \in Threads PROVE [t EXCEPT !.pc = "left"] \in Threads
    BY DEF Threads
  <2>2. \A l \in Listeners : th[l] \in Threads /\ [th[l] EXCEPT !.pc = "left"] \in Threads
    BY <2>1
  <2>3. QED
    BY <2>2 DEF CloseSock
<1>5. QED
  BY <1>1, <1>2, <1>3, <1>4

\* A listening thread that goes elsewhere.
LEMMA ThreadMoves ==
    ASSUME thread \in [Listeners -> Threads], NEW l \in Listeners,
           NEW p \in {"none", "off", "loop", "accept", "header", "left"}
    PROVE  /\ [thread EXCEPT ![l].pc = p] \in [Listeners -> Threads]
           /\ [thread EXCEPT ![l].pc = p][l].pc = p
           /\ [thread EXCEPT ![l].pc = p][l].fd = thread[l].fd
           /\ [thread EXCEPT ![l].pc = p][l].conn = thread[l].conn
           /\ \A m \in Listeners : m # l => [thread EXCEPT ![l].pc = p][m] = thread[m]
<1>1. ASSUME NEW t \in Threads
      PROVE  /\ [t EXCEPT !.pc = p] \in Threads /\ [t EXCEPT !.pc = p].pc = p
             /\ [t EXCEPT !.pc = p].fd = t.fd /\ [t EXCEPT !.pc = p].conn = t.conn
  BY DEF Threads
<1> DEFINE one == [thread EXCEPT ![l].pc = p]
<1>2. one \in [Listeners -> Threads] /\ one[l] = [thread[l] EXCEPT !.pc = p]
      /\ \A m \in Listeners : m # l => one[m] = thread[m]
  BY <1>1
<1> HIDE DEF one
<1>3. one[l].pc = p /\ one[l].fd = thread[l].fd /\ one[l].conn = thread[l].conn
  BY <1>1, <1>2
<1>4. QED
  BY <1>2, <1>3 DEF one

\* A listening thread that takes or drops a connection.
LEMMA ThreadTakes ==
    ASSUME NEW t \in Threads, NEW c \in Conns \cup {"nobody"},
           NEW p \in {"none", "off", "loop", "accept", "header", "left"}
    PROVE  [pc |-> p, fd |-> t.fd, conn |-> c] \in Threads
BY DEF Threads

\* A listening thread goes back to its loop.
LEMMA LoopFacts ==
    ASSUME TypeOK, NEW l \in Listeners
    PROVE  /\ Loops(l) \in [Listeners -> Threads]
           /\ Loops(l)[l].pc = "loop" /\ Loops(l)[l].fd = thread[l].fd
           /\ \A m \in Listeners : m # l => Loops(l)[m] = thread[m]
<1>1. thread \in [Listeners -> Threads] /\ "nobody" \in Conns \cup {"nobody"}
  BY DEF TypeOK
<1> DEFINE r == [pc |-> "loop", fd |-> thread[l].fd, conn |-> "nobody"]
<1>2. r \in Threads /\ r.pc = "loop" /\ r.fd = thread[l].fd
  BY <1>1, ThreadTakes
<1>3. Loops(l) = [thread EXCEPT ![l] = r]
  BY DEF Loops
<1> HIDE DEF r
<1>4. QED
  BY <1>1, <1>2, <1>3

\* 0 is no descriptor, but the value of a handle that has none.
LEMMA NoNumber == 0 \in 0 .. MaxFd /\ 0 \notin Fds /\ \A n \in Fds : n \in 0 .. MaxFd /\ n # 0
BY ConnectionsAssumption DEF Fds

\* The order of shutdown: the status server, if it runs, and the lobby come first.
LEMMA ShutdownFacts ==
    ASSUME bounds \in Bounds
    PROVE  /\ DOMAIN Shutdown = 1 .. Len(Shutdown) /\ Len(Shutdown) \in {4, 5}
           /\ \A i \in 1 .. Len(Shutdown) : Shutdown[i] \in Listeners \cup Workers
           /\ Shutdown[1] \in Listeners
           /\ \A i \in 2 .. Len(Shutdown) :
                 Shutdown[i - 1] = "status" => Shutdown[i] = "lobby"
           /\ Shutdown[Len(Shutdown)] = "file"
<1>1. CASE bounds.status
  <2>1. Shutdown = <<"status", "lobby", "gate", "auth", "file">>
    BY <1>1 DEF Shutdown
  <2>2. QED
    BY <2>1 DEF Listeners, Workers
<1>2. CASE ~bounds.status
  <2>1. Shutdown = <<"lobby", "gate", "auth", "file">>
    BY <1>2 DEF Shutdown
  <2>2. QED
    BY <2>1 DEF Listeners, Workers
<1>3. QED
  BY <1>1, <1>2

\* The types of a download and of what its client has after one more chunk.
TurnTypes(next, some) ==
    /\ next \in Downloads /\ some \in Received
    /\ next = NoFile \/ next.pos < next.size
    /\ next.size <= bounds.size

\* A turn of a download keeps them.
LEMMA TurnFacts ==
    ASSUME TypeOK, NEW c \in Conns, NEW t \in Trans, files[c][t] # NoFile
    PROVE  TurnTypes(IF files[c][t].pos + 1 = files[c][t].size THEN NoFile
                     ELSE [files[c][t] EXCEPT !.pos = @ + 1],
                     [size |-> files[c][t].size,
                      chunks |-> Append(got[c][t].chunks, files[c][t].pos)])
<1> DEFINE file == files[c][t]
           some == got[c][t]
<1>1. /\ file \in Downloads /\ file.pos < file.size /\ file.size <= bounds.size
      /\ some \in Received /\ bounds.size \in Nat
  BY BoundsFacts DEF TypeOK
<1> HIDE DEF file, some
<1>2. [size |-> file.size, chunks |-> Append(some.chunks, file.pos)] \in Received
  <2>1. file.pos \in Nat /\ file.size \in Nat /\ some.chunks \in Seq(Nat)
    BY <1>1 DEF Downloads, Received
  <2>2. Append(some.chunks, file.pos) \in Seq(Nat)
    BY <2>1, AppendFacts
  <2>3. QED
    BY <2>1, <2>2 DEF Received
<1>3. /\ [file EXCEPT !.pos = @ + 1] \in Downloads
      /\ [file EXCEPT !.pos = @ + 1].pos = file.pos + 1
      /\ [file EXCEPT !.pos = @ + 1].size = file.size
  BY <1>1 DEF Downloads
<1>4. NoFile \in Downloads /\ NoFile.size <= bounds.size
  BY <1>1, ConnectionsAssumption DEF NoFile, Downloads
<1>5. file.pos + 1 # file.size => file.pos + 1 < file.size
  BY <1>1 DEF Downloads
<1>6. TurnTypes(IF file.pos + 1 = file.size THEN NoFile ELSE [file EXCEPT !.pos = @ + 1],
                [size |-> file.size, chunks |-> Append(some.chunks, file.pos)])
  BY <1>1, <1>2, <1>3, <1>4, <1>5 DEF TurnTypes
<1>7. QED
  BY <1>6 DEF file, some

\* The types of what main changes when it stops a service.
StopTypes ==
    /\ table' \in [Fds -> Entries]
    /\ peer' \in [Conns -> {"idle", "pending", "open", "talks", "gone"}]
    /\ queue' \in [Listeners -> Seq(Conns)] /\ thread' \in [Listeners -> Threads]
    /\ early' \in BOOLEAN

\* Stopping a listening service keeps them.
LEMMA StopListenerTypes ==
    ASSUME TypeOK, NEW l \in Listeners, StopListener(l)
    PROVE  StopTypes
<1>1. ASSUME NEW ns, CloseSock(ns, thread), early' = TRUE
      PROVE  StopTypes
  BY <1>1, CloseTypes DEF StopTypes, TypeOK
<1>2. CASE UNCHANGED <<table, peer, queue, thread, early>>
  BY <1>2 DEF StopTypes, TypeOK
<1>3. QED
  BY <1>1, <1>2 DEF StopListener

\* What main changes when it stops a service of the workers: it closes their sockets,
\* or does nothing, because the auth daemon does not answer.
ClientsClosed(k) ==
    /\ CloseSock({sock[c] : c \in Registered(k)}, thread)
    /\ early' = (early \/ Registered(k) # {})

LEMMA ClientsFacts ==
    ASSUME NEW k, CloseClients(k)
    PROVE  ClientsClosed(k) \/ UNCHANGED <<table, peer, queue, thread, early>>
BY DEF CloseClients, ClientsClosed

\* The auth daemon ends at most.
LEMMA DaemonFacts ==
    ASSUME NEW k, CloseClients(k)
    PROVE  daemon' = daemon \/ daemon' = "ended"
BY DEF CloseClients

\* Every step keeps the types.
LEMMA TypeStep ==
    ASSUME TypeOK, ListenInv, [Next]_vars
    PROVE  TypeOK'
<1>1. ASSUME NEW c \in Conns, NEW l \in Listeners, Connect(c, l)
      PROVE  TypeOK'
  <2>1. Append(queue[l], c) \in Seq(Conns)
    BY AppendFacts DEF TypeOK
  <2>2. queue' \in [Listeners -> Seq(Conns)]
    BY <1>1, <2>1 DEF TypeOK, Connect
  <2>3. QED
    BY <1>1, <2>2 DEF TypeOK, Connect, workerVars
<1>2. ASSUME NEW c \in Conns, PeerCloses(c)
      PROVE  TypeOK'
  <2>1. Forgotten \in [Trans -> Received]
    BY DEF Forgotten, NoChunks, Received
  <2>2. QED
    BY <1>2, <2>1 DEF TypeOK, PeerCloses
<1>2a. ASSUME NEW c \in Conns, KeepsTalking(c)
      PROVE  TypeOK'
  BY <1>2a DEF TypeOK, KeepsTalking, workerVars
<1>3. ASSUME NEW l \in Listeners, AcceptSock_call(l)
      PROVE  TypeOK'
  <2>3. PICK p \in {"accept", "left"} : thread' = [thread EXCEPT ![l].pc = p]
    BY <1>3 DEF AcceptSock_call
  <2>4. thread \in [Listeners -> Threads]
    BY DEF TypeOK
  <2>5. [thread EXCEPT ![l].pc = p] \in [Listeners -> Threads]
    BY <2>4, ThreadMoves
  <2>1. thread' \in [Listeners -> Threads]
    BY <2>3, <2>5
  <2>2. QED
    BY <1>3, <2>1 DEF TypeOK, AcceptSock_call, workerVars
<1>3a. ASSUME NEW l \in Listeners, AcceptSock_full(l)
      PROVE  TypeOK'
  <2>1. thread' \in [Listeners -> Threads]
    BY <1>3a, ThreadMoves DEF TypeOK, AcceptSock_full
  <2>2. QED
    BY <1>3a, <2>1 DEF TypeOK, AcceptSock_full, workerVars
<1>4. ASSUME NEW l \in Listeners, AcceptSock(l)
      PROVE  TypeOK'
  <2>1. PICK from \in Listeners : table[thread[l].fd] = Listen(from)
    BY <1>4 DEF AcceptSock, ListenInv
  <2> DEFINE c == Head(queue[from])
             n == Min(FreeFds)
  <2>9. table[thread[l].fd].of = from
    BY <2>1, EntriesApart
  <2>2. /\ queue[from] # <<>> /\ queue' = [queue EXCEPT ![from] = Tail(@)]
        /\ table' = [table EXCEPT ![n] = Sock(c)] /\ sock' = [sock EXCEPT ![c] = n]
        /\ peer' = [peer EXCEPT ![c] = IF @ = "pending" THEN "open" ELSE @]
        /\ thread' = [thread EXCEPT ![l] = [pc |-> "header", fd |-> @.fd, conn |-> c]]
    BY <1>4, <2>9 DEF AcceptSock
  <2>3. c \in Conns /\ Tail(queue[from]) \in Seq(Conns)
    BY <2>2, HeadFacts, TailFacts DEF TypeOK
  <2>4. n \in Fds
    BY <1>4, LowestFree DEF AcceptSock, TypeOK
  <2> HIDE DEF c, n
  <2>10. Sock(c) \in Entries
    BY <2>3 DEF Entries
  <2>5. table' \in [Fds -> Entries] /\ sock' \in [Conns -> 0 .. MaxFd]
    <3>1. table' \in [Fds -> Entries]
      BY <2>2, <2>10, <2>4 DEF TypeOK
    <3>2. n \in 0 .. MaxFd
      BY <2>4, ConnectionsAssumption DEF Fds
    <3>3. QED
      BY <2>2, <3>1, <3>2 DEF TypeOK
  <2>11. thread \in [Listeners -> Threads]
    BY DEF TypeOK
  <2>6. thread' \in [Listeners -> Threads]
    <3> DEFINE r == [pc |-> "header", fd |-> thread[l].fd, conn |-> c]
    <3>1. r \in Threads
      BY <2>3, <2>11, ThreadTakes
    <3>2. thread' = [thread EXCEPT ![l] = r]
      BY <2>2
    <3> HIDE DEF r
    <3>3. QED
      BY <2>11, <3>1, <3>2
  <2>7. peer' \in [Conns -> {"idle", "pending", "open", "talks", "gone"}]
        /\ queue' \in [Listeners -> Seq(Conns)]
    BY <2>2, <2>3 DEF TypeOK
  <2>8. QED
    BY <1>4, <2>5, <2>6, <2>7 DEF TypeOK, AcceptSock
<1>5. ASSUME NEW c \in Conns, NEW k \in Workers, dm_lobby(c, k)
      PROVE  TypeOK'
  <2>3. thread' = Loops("lobby") /\ "lobby" \in Listeners
    BY <1>5 DEF dm_lobby, Listeners
  <2>1. thread' \in [Listeners -> Threads]
    BY <2>3, LoopFacts
  <2>2. QED
    BY <1>5, <2>1 DEF TypeOK, dm_lobby
<1>6. ASSUME NEW l \in Listeners, NEW c \in Conns, FreeClient(l, c)
      PROVE  TypeOK'
  <2>1. Loops(l) \in [Listeners -> Threads]
    BY LoopFacts DEF TypeOK
  <2>2. /\ table' \in [Fds -> Entries]
        /\ peer' \in [Conns -> {"idle", "pending", "open", "talks", "gone"}]
        /\ queue' \in [Listeners -> Seq(Conns)] /\ thread' \in [Listeners -> Threads]
    BY <1>6, <2>1, CloseTypes DEF FreeClient
  <2>3. QED
    BY <1>6, <2>2, NoNumber DEF TypeOK, FreeClient
<1>7. ASSUME NEW l \in Listeners, Leave(l)
      PROVE  TypeOK'
  <2>1. [thread EXCEPT ![l].pc = "off"] \in [Listeners -> Threads]
    BY ThreadMoves DEF TypeOK
  <2>2. /\ table' \in [Fds -> Entries]
        /\ peer' \in [Conns -> {"idle", "pending", "open", "talks", "gone"}]
        /\ queue' \in [Listeners -> Seq(Conns)] /\ thread' \in [Listeners -> Threads]
    BY <1>7, <2>1, CloseTypes DEF Leave
  <2>3. QED
    BY <1>7, <2>2, NoNumber DEF TypeOK, Leave, workerVars
<1>8. ASSUME NEW c \in Conns, Register(c)
      PROVE  TypeOK'
  BY <1>8 DEF TypeOK, Register
<1>9. ASSUME NEW c \in Conns, auth_init_fails(c)
      PROVE  TypeOK'
  BY <1>9 DEF TypeOK, auth_init_fails, Over
<1>10. ASSUME NEW c \in Conns, gate_answer(c) \/ file_answer(c) \/ auth_answer(c)
      PROVE  TypeOK'
  BY <1>10 DEF TypeOK, gate_answer, file_answer, auth_answer, Answer, Asked
<1>11. ASSUME NEW c \in Conns, WrongBuild(c)
      PROVE  TypeOK'
  <2>1. thread \in [Listeners -> Threads]
    BY CloseTypes DEF TypeOK
  <2>2. /\ table' \in [Fds -> Entries]
        /\ peer' \in [Conns -> {"idle", "pending", "open", "talks", "gone"}]
        /\ queue' \in [Listeners -> Seq(Conns)] /\ thread' \in [Listeners -> Threads]
    BY <1>11, <2>1, CloseTypes DEF WrongBuild
  <2>3. QED
    BY <1>11, <2>2, NoNumber DEF TypeOK, WrongBuild, Asked
<1>12. ASSUME NEW c \in Conns, UnknownMessage(c)
      PROVE  TypeOK'
  <2>1. thread \in [Listeners -> Threads]
    BY CloseTypes DEF TypeOK
  <2>2. /\ table' \in [Fds -> Entries]
        /\ peer' \in [Conns -> {"idle", "pending", "open", "talks", "gone"}]
        /\ queue' \in [Listeners -> Seq(Conns)] /\ thread' \in [Listeners -> Threads]
    BY <1>12, <2>1, CloseTypes DEF UnknownMessage
  <2>3. QED
    BY <1>12, <2>2, NoNumber DEF TypeOK, UnknownMessage, Asked, Over
<1>13. ASSUME NEW c \in Conns, NEW t \in Trans, NEW size \in 0 .. bounds.size,
             file_downloadStart(c, t, size)
      PROVE  TypeOK'
  <2>1. CASE size = 0
    BY <1>13, <2>1 DEF TypeOK, file_downloadStart, Asked
  <2>2. CASE size # 0
    <3> DEFINE n == Min(FreeFds)
               file == [size |-> size, pos |-> 0, fd |-> n]
               some == [size |-> size, chunks |-> <<>>]
    <3>1. n \in Fds /\ size \in Nat /\ size <= bounds.size
      BY <1>13, LowestFree, BoundsFacts DEF file_downloadStart, TypeOK
    <3>2. /\ table' = [table EXCEPT ![n] = File(c)]
          /\ files' = [files EXCEPT ![c][t] = file] /\ got' = [got EXCEPT ![c][t] = some]
          /\ pc' = [pc EXCEPT ![c] = "send"]
      BY <1>13, <2>2 DEF file_downloadStart, Receives
    <3>3. /\ file \in Downloads /\ file.pos < file.size /\ file.size <= bounds.size
          /\ some \in Received
      BY <2>2, <3>1 DEF Downloads, Received, Fds
    <3> HIDE DEF n, file, some
    <3>4. table' \in [Fds -> Entries]
      BY <3>1, <3>2 DEF TypeOK, Entries
    <3>5. files' \in [Conns -> [Trans -> Downloads]] /\ got' \in [Conns -> [Trans -> Received]]
      BY <3>2, <3>3 DEF TypeOK
    <3>6. \A d \in Conns, u \in Trans :
             /\ files'[d][u] = NoFile \/ files'[d][u].pos < files'[d][u].size
             /\ files'[d][u].size <= bounds.size
      BY <3>2, <3>3 DEF TypeOK
    <3>7. QED
      BY <1>13, <3>2, <3>4, <3>5, <3>6 DEF TypeOK, file_downloadStart, Asked
  <2>3. QED
    BY <2>1, <2>2
<1>14. ASSUME NEW c \in Conns, NEW t \in Trans, NEW size \in 0 .. bounds.size,
             NEW e \in BOOLEAN, auth_downloadStart(c, t, size, e)
      PROVE  TypeOK'
  <2> DEFINE n == IF e THEN Min(FreeFds) ELSE 0
             file == [size |-> size, pos |-> 1, fd |-> n]
             some == [size |-> size, chunks |-> <<0>>]
  <2>1. n \in 0 .. MaxFd /\ size \in Nat /\ size <= bounds.size
    BY <1>14, LowestFree, BoundsFacts, ConnectionsAssumption DEF auth_downloadStart, TypeOK, Fds
  <2>2. /\ size > 1 => /\ files' = [files EXCEPT ![c][t] = file]
                       /\ table' = [m \in Fds |-> IF m = n THEN File(c) ELSE table[m]]
        /\ ~(size > 1) => UNCHANGED <<files, table>>
        /\ got' = got \/ got' = [got EXCEPT ![c][t] = some]
    BY <1>14 DEF auth_downloadStart, Receives
  <2>3. size > 1 => file \in Downloads /\ file.pos < file.size /\ file.size <= bounds.size
    BY <2>1 DEF Downloads
  <2>4. some \in Received
    BY <2>1 DEF Received
  <2> HIDE DEF n, file, some
  <2>9. File(c) \in Entries
    BY DEF Entries
  <2>5. table' \in [Fds -> Entries]
    <3>1. CASE size > 1
      BY <2>2, <2>9, <3>1 DEF TypeOK
    <3>2. CASE ~(size > 1)
      BY <2>2, <3>2 DEF TypeOK
    <3>3. QED
      BY <3>1, <3>2
  <2>6. files' \in [Conns -> [Trans -> Downloads]] /\ got' \in [Conns -> [Trans -> Received]]
    <3>1. files' \in [Conns -> [Trans -> Downloads]]
      <4>1. CASE size > 1
        <5>1. files' = [files EXCEPT ![c][t] = file] /\ file \in Downloads
          BY <2>2, <2>3, <4>1
        <5>2. QED
          BY <5>1 DEF TypeOK
      <4>2. CASE ~(size > 1)
        BY <2>2, <4>2 DEF TypeOK
      <4>3. QED
        BY <4>1, <4>2
    <3>2. got' \in [Conns -> [Trans -> Received]]
      <4>1. CASE got' = got
        BY <4>1 DEF TypeOK
      <4>2. CASE got' = [got EXCEPT ![c][t] = some]
        BY <2>4, <4>2 DEF TypeOK
      <4>3. QED
        BY <2>2, <4>1, <4>2
    <3>3. QED
      BY <3>1, <3>2
  <2>7. \A d \in Conns, u \in Trans :
           /\ files'[d][u] = NoFile \/ files'[d][u].pos < files'[d][u].size
           /\ files'[d][u].size <= bounds.size
    <3>1. CASE size > 1
      <4>1. /\ files' = [files EXCEPT ![c][t] = file]
            /\ file.pos < file.size /\ file.size <= bounds.size
        BY <2>2, <2>3, <3>1
      <4>2. QED
        BY <4>1 DEF TypeOK
    <3>2. CASE ~(size > 1)
      BY <2>2, <3>2 DEF TypeOK
    <3>3. QED
      BY <3>1, <3>2
  <2>8. QED
    BY <1>14, <2>5, <2>6, <2>7 DEF TypeOK, auth_downloadStart, Asked
<1>15. ASSUME NEW c \in Conns, NEW t \in Trans, auth_downloadNext(c, t)
      PROVE  TypeOK'
  <2>1. CASE files[c][t] = NoFile
    BY <1>15, <2>1 DEF TypeOK, auth_downloadNext, NextTurn, Asked
  <2>2. CASE files[c][t] # NoFile
    <3> DEFINE file == files[c][t]
               next == IF file.pos + 1 = file.size THEN NoFile ELSE [file EXCEPT !.pos = @ + 1]
               some == [size |-> file.size, chunks |-> Append(got[c][t].chunks, file.pos)]
    <3>1. /\ files' = [files EXCEPT ![c][t] = next] /\ got' = [got EXCEPT ![c][t] = some]
          /\ CloseSock(IF next = NoFile THEN {file.fd} ELSE {}, thread)
      BY <1>15, <2>2 DEF auth_downloadNext, NextTurn, Receives
    <3>2. TurnTypes(next, some)
      BY <2>2, TurnFacts
    <3> HIDE DEF file, next, some
    <3>3. /\ table' \in [Fds -> Entries]
          /\ peer' \in [Conns -> {"idle", "pending", "open", "talks", "gone"}]
          /\ queue' \in [Listeners -> Seq(Conns)] /\ thread' \in [Listeners -> Threads]
      BY <3>1, CloseTypes DEF TypeOK
    <3>4. files' \in [Conns -> [Trans -> Downloads]] /\ got' \in [Conns -> [Trans -> Received]]
      BY <3>1, <3>2 DEF TypeOK, TurnTypes
    <3>5. \A d \in Conns, u \in Trans :
             /\ files'[d][u] = NoFile \/ files'[d][u].pos < files'[d][u].size
             /\ files'[d][u].size <= bounds.size
      BY <3>1, <3>2 DEF TypeOK, TurnTypes
    <3>6. QED
      BY <1>15, <3>3, <3>4, <3>5 DEF TypeOK, auth_downloadNext, NextTurn, Asked
  <2>3. QED
    BY <2>1, <2>2
<1>16. ASSUME NEW c \in Conns, NEW t \in Trans, SendFile(c, t)
      PROVE  TypeOK'
  <2> DEFINE file == files[c][t]
             done == file.pos + 1 = file.size
             next == IF done THEN NoFile ELSE [file EXCEPT !.pos = @ + 1]
             some == [size |-> file.size, chunks |-> Append(got[c][t].chunks, file.pos)]
  <2>9. SendTurn(c, t, done, {file.fd})
    BY <1>16 DEF SendFile
  <2>10. files' = [files EXCEPT ![c][t] = next]
    BY <2>9, Zenon DEF SendTurn
  <2>1. /\ files' = [files EXCEPT ![c][t] = next] /\ got' = [got EXCEPT ![c][t] = some]
        /\ CloseSock(IF done THEN {file.fd} ELSE {}, thread) /\ file.size > 0
        /\ pc' = [pc EXCEPT ![c] = IF done THEN "serve" ELSE "send"]
    BY <2>9, <2>10, Zenon DEF SendTurn, Receives
  <2>2. file # NoFile
    BY <2>1 DEF NoFile
  <2>3. TurnTypes(next, some)
    BY <2>2, TurnFacts
  <2> HIDE DEF file, done, next, some
  <2>4. /\ table' \in [Fds -> Entries]
        /\ peer' \in [Conns -> {"idle", "pending", "open", "talks", "gone"}]
        /\ queue' \in [Listeners -> Seq(Conns)] /\ thread' \in [Listeners -> Threads]
    BY <2>1, CloseTypes DEF TypeOK
  <2>5. files' \in [Conns -> [Trans -> Downloads]] /\ got' \in [Conns -> [Trans -> Received]]
    BY <2>1, <2>3 DEF TypeOK, TurnTypes
  <2>6. \A d \in Conns, u \in Trans :
           /\ files'[d][u] = NoFile \/ files'[d][u].pos < files'[d][u].size
           /\ files'[d][u].size <= bounds.size
    BY <2>1, <2>3 DEF TypeOK, TurnTypes
  <2>7. pc' \in [Conns -> {"none", "spawned", "serve", "send", "asks"} \cup Over]
    BY <2>1 DEF TypeOK
  <2>8. QED
    BY <1>16, <2>4, <2>5, <2>6, <2>7 DEF TypeOK, SendFile, SendTurn
<1>17. ASSUME NEW c \in Conns, NEW t \in Trans, SendFile_fails(c, t)
      PROVE  TypeOK'
  <2>1. table' \in [Fds -> Entries]
    BY <1>17 DEF TypeOK, SendFile_fails, Entries
  <2>2. NoFile \in Downloads /\ NoFile.size <= bounds.size
    BY BoundsFacts, ConnectionsAssumption DEF NoFile, Downloads, TypeOK
  <2>3. files' \in [Conns -> [Trans -> Downloads]]
    BY <1>17, <2>2 DEF TypeOK, SendFile_fails
  <2>4. \A d \in Conns, u \in Trans :
           /\ files'[d][u] = NoFile \/ files'[d][u].pos < files'[d][u].size
           /\ files'[d][u].size <= bounds.size
    BY <1>17, <2>2 DEF TypeOK, SendFile_fails
  <2>5. QED
    BY <1>17, <2>1, <2>3, <2>4 DEF TypeOK, SendFile_fails, Over
<1>18. ASSUME NEW c \in Conns, UseForeign(c)
      PROVE  TypeOK'
  BY <1>18 DEF TypeOK, UseForeign, workerVars
<1>19. ASSUME NEW c \in Conns, SockHup(c)
      PROVE  TypeOK'
  BY <1>19 DEF TypeOK, SockHup, Over
<1>19a. ASSUME NEW c \in Conns, auth_asksDaemon(c)
      PROVE  TypeOK'
  BY <1>19a DEF TypeOK, auth_asksDaemon, Asked, Over
<1>19b. ASSUME NEW c \in Conns, dm_auth_answers(c)
      PROVE  TypeOK'
  <2>1. pc' \in [Conns -> {"none", "spawned", "serve", "send", "asks"} \cup Over]
    BY <1>19b DEF TypeOK, dm_auth_answers, Over
  <2>2. QED
    BY <1>19b, <2>1 DEF TypeOK, dm_auth_answers
<1>20. ASSUME NEW c \in Conns, Erase(c)
      PROVE  TypeOK'
  BY <1>20 DEF TypeOK, Erase, Over
<1>21. ASSUME NEW c \in Conns, FreeSock(c)
      PROVE  TypeOK'
  <2>1. /\ table' \in [Fds -> Entries]
        /\ peer' \in [Conns -> {"idle", "pending", "open", "talks", "gone"}]
        /\ queue' \in [Listeners -> Seq(Conns)] /\ thread' \in [Listeners -> Threads]
    BY <1>21, CloseTypes DEF FreeSock, TypeOK
  <2>2. NoFile \in Downloads /\ NoFile.size <= bounds.size
    BY BoundsFacts, ConnectionsAssumption DEF NoFile, Downloads, TypeOK
  <2>3. Forgotten \in [Trans -> Received]
    BY DEF Forgotten, NoChunks, Received
  <2>4. files' \in [Conns -> [Trans -> Downloads]] /\ got' \in [Conns -> [Trans -> Received]]
    BY <1>21, <2>2, <2>3 DEF TypeOK, FreeSock
  <2>5. \A d \in Conns, u \in Trans :
           /\ files'[d][u] = NoFile \/ files'[d][u].pos < files'[d][u].size
           /\ files'[d][u].size <= bounds.size
    BY <1>21, <2>2 DEF TypeOK, FreeSock
  <2>6. sock' \in [Conns -> 0 .. MaxFd]
    BY <1>21, ConnectionsAssumption DEF TypeOK, FreeSock
  <2>7. QED
    BY <1>21, <2>1, <2>4, <2>5, <2>6 DEF TypeOK, FreeSock, Over
<1>22. ASSUME NEW l \in Listeners, Restart(l)
      PROVE  TypeOK'
  <2>1. StopTypes
    BY <1>22, StopListenerTypes DEF Restart
  <2>2. restarts' \in 0 .. bounds.restarts
    BY <1>22, BoundsFacts DEF Restart, TypeOK
  <2>3. main' \in [pc : {"run", "restart", "quit", "exit"},
                  at : Listeners \cup Workers \cup {"none"}]
        /\ main'.at \in Listeners
    BY <1>22 DEF Restart
  <2>4. QED
    BY <1>22, <2>1, <2>2, <2>3 DEF TypeOK, Restart, StopTypes, workerVars
<1>23. ASSUME NEW i \in DOMAIN Shutdown, Stop(i)
      PROVE  TypeOK'
  <2>1. i \in 1 .. Len(Shutdown) /\ Shutdown[i] \in Listeners \cup Workers
    BY ShutdownFacts DEF TypeOK
  <2>2. StopTypes
    <3>1. CASE Shutdown[i] \in Listeners
      BY <1>23, <3>1, StopListenerTypes DEF Stop
    <3>2. CASE Shutdown[i] \notin Listeners
      <4>1. CloseClients(Shutdown[i])
        BY <1>23, <3>2 DEF Stop
      <4>2. CASE ClientsClosed(Shutdown[i])
        <5>1. early' \in BOOLEAN
          BY <4>2 DEF ClientsClosed, TypeOK
        <5>2. QED
          BY <4>2, <5>1, CloseTypes DEF ClientsClosed, StopTypes, TypeOK
      <4>3. CASE UNCHANGED <<table, peer, queue, thread, early>>
        BY <4>3 DEF StopTypes, TypeOK
      <4>4. QED
        BY <4>1, <4>2, <4>3, ClientsFacts
    <3>3. QED
      BY <3>1, <3>2
  <2>3. main' \in [pc : {"run", "restart", "quit", "exit"},
                  at : Listeners \cup Workers \cup {"none"}]
        /\ main'.pc # "restart"
    BY <1>23, <2>1 DEF Stop
  <2>4. daemon' \in {"up", "ended", "stuck"}
    BY <1>23, DaemonFacts DEF Stop, TypeOK
  <2>5. QED
    BY <1>23, <2>2, <2>3, <2>4 DEF TypeOK, Stop, StopTypes, workerVars
<1>24. ASSUME StartListener
      PROVE  TypeOK'
  <2> DEFINE n == Min(FreeFds)
             th == [pc |-> "loop", fd |-> n, conn |-> "nobody"]
  <2>1. n \in Fds /\ main.at \in Listeners
    BY <1>24, LowestFree DEF StartListener, TypeOK
  <2>2. /\ table' = [table EXCEPT ![n] = Listen(main.at)]
        /\ thread' = [thread EXCEPT ![main.at] = th]
    BY <1>24 DEF StartListener
  <2>3. th \in Threads
    BY <2>1 DEF Threads
  <2> HIDE DEF n, th
  <2>4. table' \in [Fds -> Entries]
    BY <2>1, <2>2 DEF TypeOK, Entries
  <2>5. thread' \in [Listeners -> Threads]
    BY <2>2, <2>3 DEF TypeOK
  <2>6. QED
    BY <1>24, <2>4, <2>5 DEF TypeOK, StartListener, workerVars
<1>25. ASSUME StartListener_fails
      PROVE  TypeOK'
  <2>1. CASE CloseSock(Fds, thread) /\ main' = [main EXCEPT !.pc = "exit"]
    <3>1. /\ table' \in [Fds -> Entries]
          /\ peer' \in [Conns -> {"idle", "pending", "open", "talks", "gone"}]
          /\ queue' \in [Listeners -> Seq(Conns)] /\ thread' \in [Listeners -> Threads]
      BY <2>1, CloseTypes DEF TypeOK
    <3>2. QED
      BY <1>25, <2>1, <3>1 DEF TypeOK, StartListener_fails, workerVars
  <2>2. CASE thread' = [thread EXCEPT !["status"] = NoThread] /\ UNCHANGED <<table, peer, queue>>
             /\ main' = [pc |-> "run", at |-> "none"]
    <3>1. NoThread \in Threads
      BY ConnectionsAssumption DEF NoThread, Threads, Fds
    <3>2. QED
      BY <1>25, <2>2, <3>1 DEF TypeOK, StartListener_fails, workerVars
  <2>3. QED
    BY <1>25, <2>1, <2>2 DEF StartListener_fails
<1>26. ASSUME Exit
      PROVE  TypeOK'
  <2>1. /\ table' \in [Fds -> Entries]
        /\ peer' \in [Conns -> {"idle", "pending", "open", "talks", "gone"}]
        /\ queue' \in [Listeners -> Seq(Conns)] /\ thread' \in [Listeners -> Threads]
    BY <1>26, CloseTypes DEF Exit, TypeOK
  <2>2. QED
    BY <1>26, <2>1 DEF TypeOK, Exit, workerVars
<1>27. ASSUME UNCHANGED vars
      PROVE  TypeOK'
  BY <1>27 DEF TypeOK, vars, workerVars
<1>27a. ASSUME daemon_stuck
      PROVE  TypeOK'
  BY <1>27a DEF TypeOK, daemon_stuck, workerVars
<1>28. \A t \in 1 .. bounds.trans : t \in Trans
  BY BoundsFacts DEF TypeOK
<1>29. ASSUME NEW c \in Conns, Request(c)
      PROVE  TypeOK'
  BY <1>29, <1>10, <1>11, <1>12, <1>13, <1>14, <1>15, <1>19a, <1>28 DEF Request
<1>30. ASSUME NEW c \in Conns, WorkerStep(c)
      PROVE  TypeOK'
  BY <1>30, <1>29, <1>8, <1>9, <1>19, <1>20, <1>21, <1>17 DEF WorkerStep
<1>31. ASSUME NEW l \in Listeners, ListenerStep(l)
      PROVE  TypeOK'
  BY <1>31, <1>3, <1>3a, <1>4, <1>7, <1>6 DEF ListenerStep
<1>32. QED
  BY <1>1, <1>2, <1>2a, <1>5, <1>16, <1>18, <1>19b, <1>22, <1>23, <1>24, <1>25, <1>26,
     <1>27, <1>27a, <1>30, <1>31
     DEF Next

-----------------------------------------------------------------------------
(* What the actions do, entry by entry.                                      *)

\* A listening thread leaves.
LEMMA OffFacts ==
    ASSUME TypeOK, NEW l \in Listeners
    PROVE  LET th == [thread EXCEPT ![l].pc = "off"]
           IN  /\ th \in [Listeners -> Threads] /\ th[l].pc = "off" /\ th[l].fd = thread[l].fd
               /\ \A m \in Listeners : m # l => th[m] = thread[m]
<1>1. thread \in [Listeners -> Threads]
  BY DEF TypeOK
<1>2. QED
  BY <1>1, ThreadMoves

\* accept: the first of a listener's queue gets a free number and its handle.
LEMMA AcceptEffect ==
    ASSUME TypeOK, ListenInv, NEW l \in Listeners, AcceptSock(l)
    PROVE  \E c \in Conns, n \in Fds, from \in Listeners :
             /\ table[n] = Free /\ table[thread[l].fd] = Listen(from)
             /\ thread[l].pc = "accept"
             /\ Len(queue[from]) > 0 /\ c = queue[from][1]
             /\ Len(queue'[from]) = Len(queue[from]) - 1
             /\ \A i \in 1 .. Len(queue[from]) - 1 : queue'[from][i] = queue[from][i + 1]
             /\ \A m \in Listeners : m # from => queue'[m] = queue[m]
             /\ \A m \in Fds : table'[m] = IF m = n THEN Sock(c) ELSE table[m]
             /\ \A d \in Conns : sock'[d] = IF d = c THEN n ELSE sock[d]
             /\ \A d \in Conns : d # c => peer'[d] = peer[d]
             /\ peer[c] # "idle" => peer'[c] # "idle"
             /\ thread'[l].pc = "header" /\ thread'[l].fd = thread[l].fd /\ thread'[l].conn = c
             /\ \A m \in Listeners : m # l => thread'[m] = thread[m]
<1>1. PICK from \in Listeners : table[thread[l].fd] = Listen(from)
  BY DEF AcceptSock, ListenInv
<1>2. table[thread[l].fd].of = from
  BY <1>1, EntriesApart
<1> DEFINE c == Head(queue[from])
           n == Min(FreeFds)
<1>3. /\ queue[from] # <<>> /\ queue' = [queue EXCEPT ![from] = Tail(@)]
      /\ table' = [table EXCEPT ![n] = Sock(c)] /\ sock' = [sock EXCEPT ![c] = n]
      /\ peer' = [peer EXCEPT ![c] = IF @ = "pending" THEN "open" ELSE @]
      /\ thread' = [thread EXCEPT ![l] = [pc |-> "header", fd |-> @.fd, conn |-> c]]
      /\ thread[l].pc = "accept"
  BY <1>2 DEF AcceptSock
<1>4. /\ queue[from] \in Seq(Conns) /\ c \in Conns /\ c = queue[from][1]
      /\ Len(queue[from]) > 0 /\ Len(Tail(queue[from])) = Len(queue[from]) - 1
      /\ \A i \in 1 .. Len(queue[from]) - 1 : Tail(queue[from])[i] = queue[from][i + 1]
  <2>1. queue[from] \in Seq(Conns) /\ Len(queue[from]) > 0
    BY <1>3 DEF TypeOK
  <2>2. QED
    BY <2>1, TailFacts
<1>5. n \in Fds /\ table[n] = Free
  BY LowestFree DEF AcceptSock, TypeOK
<1> HIDE DEF c, n
<1>6. /\ queue'[from] = Tail(queue[from])
      /\ \A m \in Listeners : m # from => queue'[m] = queue[m]
  BY <1>3 DEF TypeOK
<1>7. /\ \A m \in Fds : table'[m] = IF m = n THEN Sock(c) ELSE table[m]
      /\ \A d \in Conns : sock'[d] = IF d = c THEN n ELSE sock[d]
  BY <1>3 DEF TypeOK
<1>8. /\ \A d \in Conns : d # c => peer'[d] = peer[d]
      /\ peer[c] # "idle" => peer'[c] # "idle"
  BY <1>3, <1>4 DEF TypeOK
<1>9. /\ thread'[l].pc = "header" /\ thread'[l].fd = thread[l].fd /\ thread'[l].conn = c
      /\ \A m \in Listeners : m # l => thread'[m] = thread[m]
  <2> DEFINE r == [pc |-> "header", fd |-> thread[l].fd, conn |-> c]
  <2>1. r.pc = "header" /\ r.fd = thread[l].fd /\ r.conn = c
    OBVIOUS
  <2>2. thread \in [Listeners -> Threads] /\ thread' = [thread EXCEPT ![l] = r]
    BY <1>3 DEF TypeOK
  <2> HIDE DEF r
  <2>3. QED
    BY <2>1, <2>2
<1>10. /\ Len(queue'[from]) = Len(queue[from]) - 1
       /\ \A i \in 1 .. Len(queue[from]) - 1 : queue'[from][i] = queue[from][i + 1]
  BY <1>4, <1>6
<1>11. c \in Conns /\ n \in Fds /\ from \in Listeners /\ thread[l].pc = "accept"
  BY <1>3, <1>4, <1>5
<1>12. QED
  BY <1>1, <1>4, <1>5, <1>6, <1>7, <1>8, <1>9, <1>10, <1>11

\* A listening service starts again, on a free number.
LEMMA StartEffect ==
    ASSUME TypeOK, StartListener
    PROVE  \E n \in Fds :
             /\ table[n] = Free /\ main.at \in Listeners /\ main.pc = "restart"
             /\ thread[main.at].pc \in {"none", "off"}
             /\ \A m \in Fds : table'[m] = IF m = n THEN Listen(main.at) ELSE table[m]
             /\ thread'[main.at].pc = "loop" /\ thread'[main.at].fd = n
             /\ \A m \in Listeners : m # main.at => thread'[m] = thread[m]
<1> DEFINE n == Min(FreeFds)
           th == [pc |-> "loop", fd |-> n, conn |-> "nobody"]
<1>1. n \in Fds /\ table[n] = Free /\ main.at \in Listeners /\ main.pc = "restart"
  BY LowestFree DEF StartListener, TypeOK
<1>2. /\ table' = [table EXCEPT ![n] = Listen(main.at)]
      /\ thread' = [thread EXCEPT ![main.at] = th] /\ Waited(main.at)
  BY DEF StartListener
<1>3. th.pc = "loop" /\ th.fd = n
  OBVIOUS
<1>4. thread[main.at].pc \in {"none", "off"}
  BY <1>1, <1>2 DEF Waited
<1> HIDE DEF n, th
<1>5. QED
  BY <1>1, <1>2, <1>3, <1>4 DEF TypeOK

\* The file server opens a file and begins to send it.
LEMMA FileStartEffect ==
    ASSUME TypeOK, NEW c \in Conns, NEW t \in Trans, NEW size \in 0 .. bounds.size,
           file_downloadStart(c, t, size), size # 0
    PROVE  \E n \in Fds :
             /\ table[n] = Free
             /\ \A m \in Fds : table'[m] = IF m = n THEN File(c) ELSE table[m]
             /\ files'[c][t].size = size /\ files'[c][t].pos = 0 /\ files'[c][t].fd = n
             /\ got'[c][t].size = size /\ got'[c][t].chunks = <<>>
             /\ Len(got'[c][t].chunks) = 0
             /\ \A d \in Conns, u \in Trans :
                   ~(d = c /\ u = t) => files'[d][u] = files[d][u] /\ got'[d][u] = got[d][u]
             /\ \A d \in Conns : pc'[d] = IF d = c THEN "send" ELSE pc[d]
<1> DEFINE n == Min(FreeFds)
           file == [size |-> size, pos |-> 0, fd |-> n]
           some == [size |-> size, chunks |-> <<>>]
<1>1. n \in Fds /\ table[n] = Free
  BY LowestFree DEF file_downloadStart, TypeOK
<1>2. /\ table' = [table EXCEPT ![n] = File(c)]
      /\ files' = [files EXCEPT ![c][t] = file] /\ got' = [got EXCEPT ![c][t] = some]
      /\ pc' = [pc EXCEPT ![c] = "send"]
  BY DEF file_downloadStart, Receives
<1>3. /\ file.size = size /\ file.pos = 0 /\ file.fd = n
      /\ some.size = size /\ some.chunks = <<>> /\ Len(some.chunks) = 0
  OBVIOUS
<1> HIDE DEF n, file, some
<1>4. /\ \A m \in Fds : table'[m] = IF m = n THEN File(c) ELSE table[m]
      /\ \A d \in Conns : pc'[d] = IF d = c THEN "send" ELSE pc[d]
  BY <1>2 DEF TypeOK
<1>5. /\ files'[c][t] = file /\ got'[c][t] = some
      /\ \A d \in Conns, u \in Trans :
            ~(d = c /\ u = t) => files'[d][u] = files[d][u] /\ got'[d][u] = got[d][u]
  BY <1>2 DEF TypeOK
<1>6. QED
  BY <1>1, <1>3, <1>4, <1>5

\* The auth server sends the first chunk, and keeps the rest of a longer file, with
\* an open file behind it or without.
LEMMA AuthStartEffect ==
    ASSUME TypeOK, NEW c \in Conns, NEW t \in Trans, NEW size \in 0 .. bounds.size,
           NEW e \in BOOLEAN, auth_downloadStart(c, t, size, e)
    PROVE  /\ \A d \in Conns, u \in Trans : ~(d = c /\ u = t) => got'[d][u] = got[d][u]
           /\ \/ got'[c][t] = got[c][t]
              \/ size > 0 /\ got'[c][t].size = size /\ got'[c][t].chunks = <<0>>
           /\ size > 1 \/ UNCHANGED <<table, files>>
           /\ size > 1 => \E n \in 0 .. MaxFd :
                /\ n # 0 => n \in Fds /\ table[n] = Free
                /\ \A m \in Fds : table'[m] = IF m = n THEN File(c) ELSE table[m]
                /\ files'[c][t].size = size /\ files'[c][t].pos = 1 /\ files'[c][t].fd = n
                /\ got'[c][t].size = size /\ Len(got'[c][t].chunks) = 1
                /\ \A d \in Conns, u \in Trans : ~(d = c /\ u = t) => files'[d][u] = files[d][u]
<1> DEFINE n == IF e THEN Min(FreeFds) ELSE 0
           file == [size |-> size, pos |-> 1, fd |-> n]
           some == [size |-> size, chunks |-> <<0>>]
<1>1. n \in 0 .. MaxFd /\ (n # 0 => n \in Fds /\ table[n] = Free) /\ size \in Nat
  BY LowestFree, NoNumber, BoundsFacts DEF auth_downloadStart, TypeOK
<1>2. /\ size > 1 => /\ files' = [files EXCEPT ![c][t] = file]
                     /\ table' = [m \in Fds |-> IF m = n THEN File(c) ELSE table[m]]
                     /\ got' = [got EXCEPT ![c][t] = some]
      /\ ~(size > 1) => UNCHANGED <<files, table>>
      /\ got' = got \/ (size > 0 /\ got' = [got EXCEPT ![c][t] = some])
  BY <1>1 DEF auth_downloadStart, Receives
<1>3. /\ file.size = size /\ file.pos = 1 /\ file.fd = n
      /\ some.size = size /\ some.chunks = <<0>> /\ Len(some.chunks) = 1
  OBVIOUS
<1> HIDE DEF n, file, some
<1>4. /\ \A d \in Conns, u \in Trans : ~(d = c /\ u = t) => got'[d][u] = got[d][u]
      /\ \/ got'[c][t] = got[c][t]
         \/ size > 0 /\ got'[c][t].size = size /\ got'[c][t].chunks = <<0>>
  <2>1. CASE got' = got
    BY <2>1
  <2>2. CASE size > 0 /\ got' = [got EXCEPT ![c][t] = some]
    <3>1. got'[c][t] = some
      BY <2>2 DEF TypeOK
    <3>2. \A d \in Conns, u \in Trans : ~(d = c /\ u = t) => got'[d][u] = got[d][u]
      BY <2>2 DEF TypeOK
    <3>3. QED
      BY <1>3, <2>2, <3>1, <3>2
  <2>3. QED
    BY <1>2, <2>1, <2>2
<1>5. CASE size > 1
  <2>1. /\ files' = [files EXCEPT ![c][t] = file] /\ got' = [got EXCEPT ![c][t] = some]
        /\ table' = [m \in Fds |-> IF m = n THEN File(c) ELSE table[m]]
    BY <1>2, <1>5
  <2>2. /\ files'[c][t] = file /\ got'[c][t] = some
        /\ \A d \in Conns, u \in Trans : ~(d = c /\ u = t) => files'[d][u] = files[d][u]
    BY <2>1 DEF TypeOK
  <2>3. \A m \in Fds : table'[m] = IF m = n THEN File(c) ELSE table[m]
    BY <2>1
  <2>4. QED
    BY <1>1, <1>3, <1>4, <1>5, <2>2, <2>3
<1>6. CASE ~(size > 1)
  BY <1>2, <1>4, <1>6
<1>7. QED
  BY <1>5, <1>6

\* The next chunk of a download goes out.
Turn(c, t) ==
    /\ files[c][t].pos + 1 = files[c][t].size =>
          files'[c][t] = NoFile /\ CloseSock({files[c][t].fd}, thread)
    /\ files[c][t].pos + 1 # files[c][t].size =>
          /\ files'[c][t].size = files[c][t].size /\ files'[c][t].fd = files[c][t].fd
          /\ files'[c][t].pos = files[c][t].pos + 1
          /\ files'[c][t] # NoFile
          /\ CloseSock({}, thread)
    /\ got'[c][t].size = files[c][t].size
    /\ got'[c][t].chunks = Append(got[c][t].chunks, files[c][t].pos)
    /\ Len(got'[c][t].chunks) = Len(got[c][t].chunks) + 1
    /\ \A d \in Conns, u \in Trans :
          ~(d = c /\ u = t) => files'[d][u] = files[d][u] /\ got'[d][u] = got[d][u]

\* The chunk that a turn sends and what is left of the download.
LEMMA TurnEffect ==
    ASSUME TypeOK, NEW c \in Conns, NEW t \in Trans, files[c][t] # NoFile, NEW next,
           next = IF files[c][t].pos + 1 = files[c][t].size THEN NoFile
                  ELSE [files[c][t] EXCEPT !.pos = @ + 1],
           files' = [files EXCEPT ![c][t] = next],
           got' = [got EXCEPT ![c][t] =
                     [size |-> files[c][t].size,
                      chunks |-> Append(got[c][t].chunks, files[c][t].pos)]],
           CloseSock(IF files[c][t].pos + 1 = files[c][t].size THEN {files[c][t].fd} ELSE {},
                     thread)
    PROVE  Turn(c, t)
<1> DEFINE file == files[c][t]
           some == [size |-> file.size, chunks |-> Append(got[c][t].chunks, file.pos)]
<1>0. TypeOK /\ c \in Conns /\ t \in Trans
  OBVIOUS
<1>1. file \in Downloads /\ got[c][t] \in Received
  BY DEF TypeOK
<1>2. file.pos \in Nat /\ got[c][t].chunks \in Seq(Nat)
  BY <1>1 DEF Downloads, Received
<1>3. /\ some.size = file.size /\ some.chunks = Append(got[c][t].chunks, file.pos)
      /\ Len(some.chunks) = Len(got[c][t].chunks) + 1
  BY <1>2, AppendFacts
<1>4. files' = [files EXCEPT ![c][t] = next] /\ got' = [got EXCEPT ![c][t] = some]
  OBVIOUS
<1> HIDE DEF some
<1>5. /\ files'[c][t] = next /\ got'[c][t] = some
      /\ \A d \in Conns, u \in Trans :
            ~(d = c /\ u = t) => files'[d][u] = files[d][u] /\ got'[d][u] = got[d][u]
  BY ONLY <1>0, <1>4 DEF TypeOK
<1>6. CASE file.pos + 1 = file.size
  <2>1. next = NoFile /\ CloseSock({file.fd}, thread)
    BY <1>6
  <2>2. QED
    BY <1>3, <1>5, <1>6, <2>1 DEF Turn
<1>7. CASE file.pos + 1 # file.size
  <2>1. next = [file EXCEPT !.pos = @ + 1] /\ CloseSock({}, thread)
    BY <1>7
  <2>2. next.pos = file.pos + 1 /\ next.size = file.size /\ next.fd = file.fd
    BY <1>1, <2>1 DEF Downloads
  <2>3. next # NoFile
    BY <1>2, <2>2 DEF NoFile
  <2>4. QED
    BY <1>3, <1>5, <1>7, <2>1, <2>2, <2>3 DEF Turn
<1>8. QED
  BY <1>6, <1>7

\* An acknowledgement is such a turn, or finds nothing to send.
LEMMA NextEffect ==
    ASSUME TypeOK, NEW c \in Conns, NEW t \in Trans, auth_downloadNext(c, t)
    PROVE  Turn(c, t) \/ UNCHANGED <<files, got, table, peer, queue, thread>>
<1> DEFINE file == files[c][t]
           next == IF file.pos + 1 = file.size THEN NoFile ELSE [file EXCEPT !.pos = @ + 1]
<1>1. CASE file = NoFile
  BY <1>1 DEF auth_downloadNext, NextTurn
<1>2. CASE file # NoFile
  <2>1. /\ files' = [files EXCEPT ![c][t] = next]
        /\ got' = [got EXCEPT ![c][t] =
                     [size |-> file.size, chunks |-> Append(got[c][t].chunks, file.pos)]]
        /\ CloseSock(IF next = NoFile THEN {file.fd} ELSE {}, thread)
    BY <1>2 DEF auth_downloadNext, NextTurn, Receives
  <2>2. next = NoFile <=> file.pos + 1 = file.size
    <3>1. file \in Downloads
      BY DEF TypeOK
    <3>2. [file EXCEPT !.pos = @ + 1].pos = file.pos + 1 /\ file.pos \in Nat
      BY <3>1 DEF Downloads
    <3>3. [file EXCEPT !.pos = @ + 1] # NoFile
      BY <3>2 DEF NoFile
    <3>4. QED
      BY <3>3
  <2>3. CloseSock(IF file.pos + 1 = file.size THEN {file.fd} ELSE {}, thread)
    <3>1. CASE file.pos + 1 = file.size
      BY <2>1, <2>2, <3>1
    <3>2. CASE file.pos + 1 # file.size
      BY <2>1, <2>2, <3>2
    <3>3. QED
      BY <3>1, <3>2
  <2>4. QED
    BY <1>2, <2>1, <2>3, TurnEffect
<1>3. QED
  BY <1>1, <1>2

\* So is a turn of the file server's loop.
LEMMA SendEffect ==
    ASSUME TypeOK, NEW c \in Conns, NEW t \in Trans, SendFile(c, t)
    PROVE  /\ Turn(c, t) /\ pc[c] = "send" /\ files[c][t].size > 0
           /\ files[c][t] # NoFile /\ Readable(c)
           /\ \A d \in Conns : d # c => pc'[d] = pc[d]
           /\ pc'[c] = IF files[c][t].pos + 1 = files[c][t].size THEN "serve" ELSE "send"
<1> DEFINE file == files[c][t]
           done == file.pos + 1 = file.size
           next == IF done THEN NoFile ELSE [file EXCEPT !.pos = @ + 1]
           some == [size |-> file.size, chunks |-> Append(got[c][t].chunks, file.pos)]
<1>1. SendTurn(c, t, done, {file.fd})
  BY DEF SendFile
<1>2. files' = [files EXCEPT ![c][t] = next]
  BY <1>1, Zenon DEF SendTurn
<1>3. /\ got' = [got EXCEPT ![c][t] = some]
      /\ CloseSock(IF done THEN {file.fd} ELSE {}, thread) /\ file.size > 0
      /\ pc' = [pc EXCEPT ![c] = IF done THEN "serve" ELSE "send"]
      /\ pc[c] = "send" /\ Readable(c)
  BY <1>1, Zenon DEF SendTurn, Receives
<1>4. file # NoFile
  BY <1>3 DEF NoFile
<1>5. Turn(c, t)
  BY <1>2, <1>3, <1>4, TurnEffect
<1>6. /\ \A d \in Conns : d # c => pc'[d] = pc[d]
      /\ pc'[c] = IF done THEN "serve" ELSE "send"
  BY <1>3 DEF TypeOK
<1>7. QED
  BY <1>3, <1>4, <1>5, <1>6

-----------------------------------------------------------------------------
\* Closing numbers takes listening sockets away, and wakes who accepts on them.
LEMMA ListenClose ==
    ASSUME TypeOK, ListenInv, NEW ns, NEW th, CloseSock(ns, th), th \in [Listeners -> Threads],
           \A l \in Listeners :
              /\ th[l].fd = thread[l].fd
              /\ thread[l].pc \in Listening => th[l].pc \in Listening
              /\ th[l].pc = "accept" => thread[l].pc = "accept"
    PROVE  ListenInv'
<1>1. /\ \A n \in Fds : table'[n] = IF n \in ns THEN Free ELSE table[n]
      /\ \A l \in Listeners :
            thread'[l] = IF th[l].pc = "accept" /\ th[l].fd \in ns
                         THEN [th[l] EXCEPT !.pc = "left"] ELSE th[l]
  BY CloseEffects
<1>2. \A l \in Listeners : thread[l].fd \in Fds /\ thread'[l].fd = thread[l].fd
  <2>1. \A l \in Listeners : th[l] \in Threads /\ thread[l] \in Threads
    BY DEF TypeOK
  <2>2. ASSUME NEW t \in Threads PROVE t.fd \in Fds /\ [t EXCEPT !.pc = "left"].fd = t.fd
    BY DEF Threads
  <2>3. QED
    BY <1>1, <2>1, <2>2
<1>3. ASSUME NEW l \in Listeners, NEW n \in Fds, table'[n] = Listen(l)
      PROVE  thread'[l].fd = n /\ thread'[l].pc \in Listening
  <2>1. n \notin ns /\ table[n] = Listen(l)
    BY <1>1, <1>3, EntriesApart
  <2>2. thread[l].fd = n /\ thread[l].pc \in Listening
    BY <2>1 DEF ListenInv
  <2>3. QED
    BY <1>1, <1>2, <2>1, <2>2
<1>4. ASSUME NEW l \in Listeners, thread'[l].pc = "accept"
      PROVE  \E m \in Listeners : table'[thread'[l].fd] = Listen(m)
  <2>1. th[l].pc = "accept" /\ th[l].fd \notin ns
    <3>1. th[l] \in Threads
      OBVIOUS
    <3>2. [th[l] EXCEPT !.pc = "left"].pc = "left"
      BY <3>1 DEF Threads
    <3>3. QED
      BY <1>1, <1>4, <3>2
  <2>2. PICK m \in Listeners : table[thread[l].fd] = Listen(m)
    BY <2>1 DEF ListenInv
  <2>3. QED
    BY <1>1, <1>2, <2>1, <2>2
<1>5. QED
  BY <1>3, <1>4 DEF ListenInv

\* The threads as they are.
LEMMA SameThread ==
    ASSUME TypeOK, ListenInv, NEW ns, CloseSock(ns, thread)
    PROVE  ListenInv'
<1>1. thread \in [Listeners -> Threads]
  BY DEF TypeOK
<1>2. QED
  BY <1>1, ListenClose

\* A new descriptor takes a free number, so no listening socket is lost.
LEMMA ListenOpen ==
    ASSUME ListenInv, NEW n, NEW e,
           \A l \in Listeners : e # Listen(l),
           n \in Fds => table[n] = Free,
           \A m \in Fds : table'[m] = IF m = n THEN e ELSE table[m],
           thread' = thread, TypeOK
    PROVE  ListenInv'
<1>1. \A l \in Listeners : thread[l].fd \in Fds
  BY DEF TypeOK, Threads
<1>2. \A l \in Listeners, m \in Fds : table'[m] = Listen(l) <=> table[m] = Listen(l)
  BY EntriesApart
<1>3. QED
  BY <1>1, <1>2 DEF ListenInv

\* Stopping a listening service only closes.
LEMMA ListenStop ==
    ASSUME TypeOK, ListenInv, NEW l \in Listeners, StopListener(l)
    PROVE  ListenInv'
<1>1. ASSUME NEW ns, CloseSock(ns, thread)
      PROVE  ListenInv'
  BY <1>1, SameThread
<1>2. CASE UNCHANGED <<table, peer, queue, thread, early>>
  BY <1>2 DEF ListenInv
<1>3. QED
  BY <1>1, <1>2 DEF StopListener

\* A listening socket stays with its thread.
LEMMA ListenStep ==
    ASSUME TypeOK, ListenInv, [Next]_vars
    PROVE  ListenInv'
<1>1. ASSUME NEW c \in Conns, NEW l \in Listeners, Connect(c, l)
      PROVE  ListenInv'
  BY <1>1 DEF ListenInv, Connect, workerVars
<1>2. ASSUME NEW c \in Conns, PeerCloses(c)
      PROVE  ListenInv'
  BY <1>2 DEF ListenInv, PeerCloses, workerVars
<1>2a. ASSUME NEW c \in Conns, KeepsTalking(c)
      PROVE  ListenInv'
  BY <1>2a DEF ListenInv, KeepsTalking, workerVars
<1>3. ASSUME NEW l \in Listeners, AcceptSock_call(l)
      PROVE  ListenInv'
  <2>1. PICK p \in {"accept", "left"} :
          /\ thread' = [thread EXCEPT ![l].pc = p]
          /\ p = "accept" => table[thread[l].fd].kind = "listen"
          /\ p = "left" => table[thread[l].fd].kind = "sock"
    BY <1>3 DEF AcceptSock_call
  <2>2. /\ thread[l].pc = "loop" /\ table' = table /\ thread[l].fd \in Fds
        /\ table[thread[l].fd] \in Entries
    BY <1>3 DEF AcceptSock_call, TypeOK, Threads
  <2>3. /\ thread'[l].pc = p /\ thread'[l].fd = thread[l].fd
        /\ \A m \in Listeners : m # l => thread'[m] = thread[m]
    BY <2>1 DEF TypeOK, Threads
  <2>4. p = "accept" => \E m \in Listeners : table[thread[l].fd] = Listen(m)
    BY <2>1, <2>2, KindFacts
  <2>5. p = "left" => \A m \in Listeners : table[thread[l].fd] # Listen(m)
    BY <2>1, EntriesApart
  <2>6. ASSUME NEW m \in Listeners, NEW n \in Fds, table'[n] = Listen(m)
        PROVE  thread'[m].fd = n /\ thread'[m].pc \in Listening
    <3>1. thread[m].fd = n /\ thread[m].pc \in Listening
      BY <2>2, <2>6 DEF ListenInv
    <3>2. CASE m # l
      BY <2>3, <3>1, <3>2
    <3>3. CASE m = l
      BY <2>1, <2>2, <2>3, <2>5, <2>6, <3>1, <3>3 DEF Listening
    <3>4. QED
      BY <3>2, <3>3
  <2>7. ASSUME NEW m \in Listeners, thread'[m].pc = "accept"
        PROVE  \E k \in Listeners : table'[thread'[m].fd] = Listen(k)
    <3>1. CASE m # l
      BY <2>2, <2>3, <2>7, <3>1 DEF ListenInv
    <3>2. CASE m = l
      BY <2>2, <2>3, <2>4, <2>7, <3>2
    <3>3. QED
      BY <3>1, <3>2
  <2>8. QED
    BY <2>6, <2>7 DEF ListenInv
<1>3a. ASSUME NEW l \in Listeners, AcceptSock_full(l)
      PROVE  ListenInv'
  <2>1. /\ thread'[l].pc = "loop" /\ thread'[l].fd = thread[l].fd /\ thread[l].pc = "accept"
        /\ \A m \in Listeners : m # l => thread'[m] = thread[m]
    BY <1>3a DEF AcceptSock_full, TypeOK, Threads
  <2>2. table' = table
    BY <1>3a DEF AcceptSock_full
  <2>3. QED
    BY <2>1, <2>2 DEF ListenInv, Listening
<1>4. ASSUME NEW l \in Listeners, AcceptSock(l)
      PROVE  ListenInv'
  <2>1. PICK c \in Conns, n \in Fds :
          /\ table[n] = Free
          /\ \A m \in Fds : table'[m] = IF m = n THEN Sock(c) ELSE table[m]
          /\ thread'[l].pc = "header" /\ thread'[l].fd = thread[l].fd /\ thread[l].pc = "accept"
          /\ \A m \in Listeners : m # l => thread'[m] = thread[m]
    BY <1>4, AcceptEffect
  <2>2. \A m \in Listeners : thread[m].fd \in Fds
    BY DEF TypeOK, Threads
  <2>3. \A k \in Listeners, m \in Fds : table'[m] = Listen(k) <=> table[m] = Listen(k)
    BY <2>1, EntriesApart
  <2>4. QED
    BY <2>1, <2>2, <2>3 DEF ListenInv, Listening
<1>5. ASSUME NEW c \in Conns, NEW k \in Workers, dm_lobby(c, k)
      PROVE  ListenInv'
  <2>1. /\ thread'["lobby"].pc = "loop" /\ thread'["lobby"].fd = thread["lobby"].fd
        /\ \A m \in Listeners : m # "lobby" => thread'[m] = thread[m]
    BY <1>5, LoopFacts DEF dm_lobby, Listeners
  <2>2. table' = table
    BY <1>5 DEF dm_lobby
  <2>3. QED
    BY <2>1, <2>2 DEF ListenInv, Listening
<1>6. ASSUME NEW l \in Listeners, NEW c \in Conns, FreeClient(l, c)
      PROVE  ListenInv'
  <2>1. CloseSock({sock[c]}, Loops(l))
    BY <1>6 DEF FreeClient
  <2>2. \A m \in Listeners :
           /\ Loops(l)[m].fd = thread[m].fd
           /\ thread[m].pc \in Listening => Loops(l)[m].pc \in Listening
           /\ Loops(l)[m].pc = "accept" => thread[m].pc = "accept"
    BY LoopFacts DEF Listening
  <2>3. QED
    BY <2>1, <2>2, LoopFacts, ListenClose
<1>7. ASSUME NEW l \in Listeners, Leave(l)
      PROVE  ListenInv'
  <2> DEFINE th == [thread EXCEPT ![l].pc = "off"]
  <2>1. CloseSock({thread[l].fd}, th) /\ thread[l].pc = "left"
    BY <1>7 DEF Leave
  <2>2. /\ th \in [Listeners -> Threads] /\ th[l].pc = "off" /\ th[l].fd = thread[l].fd
        /\ \A m \in Listeners : m # l => th[m] = thread[m]
    BY OffFacts
  <2> HIDE DEF th
  <2>3. \A m \in Listeners :
           /\ th[m].fd = thread[m].fd
           /\ thread[m].pc \in Listening => th[m].pc \in Listening
           /\ th[m].pc = "accept" => thread[m].pc = "accept"
    BY <2>1, <2>2 DEF Listening
  <2>4. QED
    BY <2>1, <2>2, <2>3, ListenClose
<1>8. ASSUME NEW c \in Conns, Register(c)
      PROVE  ListenInv'
  BY <1>8 DEF ListenInv, Register, workerVars
<1>9. ASSUME NEW c \in Conns, auth_init_fails(c)
      PROVE  ListenInv'
  BY <1>9 DEF ListenInv, auth_init_fails, workerVars
<1>10. ASSUME NEW c \in Conns, gate_answer(c) \/ file_answer(c) \/ auth_answer(c)
      PROVE  ListenInv'
  BY <1>10 DEF ListenInv, gate_answer, file_answer, auth_answer, Answer
<1>11. ASSUME NEW c \in Conns, WrongBuild(c)
      PROVE  ListenInv'
  BY <1>11, SameThread DEF WrongBuild
<1>12. ASSUME NEW c \in Conns, UnknownMessage(c)
      PROVE  ListenInv'
  BY <1>12, SameThread DEF UnknownMessage
<1>13. ASSUME NEW c \in Conns, NEW t \in Trans, NEW size \in 0 .. bounds.size,
             file_downloadStart(c, t, size)
      PROVE  ListenInv'
  <2>1. thread' = thread
    BY <1>13 DEF file_downloadStart
  <2>2. CASE size = 0
    BY <1>13, <2>1, <2>2 DEF file_downloadStart, ListenInv
  <2>3. CASE size # 0
    <3>1. PICK n \in Fds :
            /\ table[n] = Free
            /\ \A m \in Fds : table'[m] = IF m = n THEN File(c) ELSE table[m]
      BY <1>13, <2>3, FileStartEffect
    <3>2. QED
      BY <2>1, <3>1, EntriesApart, ListenOpen
  <2>4. QED
    BY <2>2, <2>3
<1>14. ASSUME NEW c \in Conns, NEW t \in Trans, NEW size \in 0 .. bounds.size,
             NEW e \in BOOLEAN, auth_downloadStart(c, t, size, e)
      PROVE  ListenInv'
  <2>1. thread' = thread
    BY <1>14 DEF auth_downloadStart
  <2>2. CASE size > 1
    <3>1. PICK n \in 0 .. MaxFd :
            /\ n # 0 => n \in Fds /\ table[n] = Free
            /\ \A m \in Fds : table'[m] = IF m = n THEN File(c) ELSE table[m]
      BY <1>14, <2>2, AuthStartEffect
    <3>2. n \in Fds => table[n] = Free
      BY <3>1, NoNumber
    <3>3. QED
      BY <2>1, <3>1, <3>2, EntriesApart, ListenOpen
  <2>3. CASE UNCHANGED <<table, files>>
    BY <2>1, <2>3 DEF ListenInv
  <2>4. QED
    BY <1>14, <2>2, <2>3, AuthStartEffect
<1>15. ASSUME NEW c \in Conns, NEW t \in Trans, auth_downloadNext(c, t)
      PROVE  ListenInv'
  <2>1. CASE Turn(c, t)
    BY <2>1, SameThread DEF Turn
  <2>2. CASE UNCHANGED <<files, got, table, peer, queue, thread>>
    BY <2>2 DEF ListenInv
  <2>3. QED
    BY <1>15, <2>1, <2>2, NextEffect
<1>16. ASSUME NEW c \in Conns, NEW t \in Trans, SendFile(c, t)
      PROVE  ListenInv'
  BY <1>16, SendEffect, SameThread DEF Turn
<1>17. ASSUME NEW c \in Conns, NEW t \in Trans, SendFile_fails(c, t)
      PROVE  ListenInv'
  <2>1. /\ \A n \in Fds : table'[n] = IF table[n] = File(c) THEN Leaked ELSE table[n]
        /\ thread' = thread
    BY <1>17 DEF SendFile_fails
  <2>2. \A l \in Listeners, n \in Fds : table'[n] = Listen(l) <=> table[n] = Listen(l)
    BY <2>1, EntriesApart
  <2>3. \A l \in Listeners : thread[l].fd \in Fds
    BY DEF TypeOK, Threads
  <2>4. QED
    BY <2>1, <2>2, <2>3 DEF ListenInv
<1>18. ASSUME NEW c \in Conns, UseForeign(c)
      PROVE  ListenInv'
  BY <1>18 DEF ListenInv, UseForeign, workerVars
<1>19. ASSUME NEW c \in Conns, SockHup(c)
      PROVE  ListenInv'
  BY <1>19 DEF ListenInv, SockHup, workerVars
<1>19a. ASSUME NEW c \in Conns, auth_asksDaemon(c)
      PROVE  ListenInv'
  BY <1>19a DEF ListenInv, auth_asksDaemon, workerVars, Asked
<1>19b. ASSUME NEW c \in Conns, dm_auth_answers(c)
      PROVE  ListenInv'
  BY <1>19b DEF ListenInv, dm_auth_answers, workerVars
<1>20. ASSUME NEW c \in Conns, Erase(c)
      PROVE  ListenInv'
  BY <1>20 DEF ListenInv, Erase, workerVars
<1>21. ASSUME NEW c \in Conns, FreeSock(c)
      PROVE  ListenInv'
  BY <1>21, SameThread DEF FreeSock
<1>22. ASSUME NEW l \in Listeners, Restart(l)
      PROVE  ListenInv'
  BY <1>22, ListenStop DEF Restart
<1>23. ASSUME NEW i \in DOMAIN Shutdown, Stop(i)
      PROVE  ListenInv'
  <2>1. CASE Shutdown[i] \in Listeners
    BY <1>23, <2>1, ListenStop DEF Stop
  <2>2. CASE Shutdown[i] \notin Listeners
    BY <1>23, <2>2, ClientsFacts, SameThread DEF Stop, ClientsClosed, ListenInv
  <2>3. QED
    BY <2>1, <2>2
<1>24. ASSUME StartListener
      PROVE  ListenInv'
  <2>1. PICK n \in Fds :
          /\ table[n] = Free /\ main.at \in Listeners
          /\ thread[main.at].pc \in {"none", "off"}
          /\ \A m \in Fds : table'[m] = IF m = n THEN Listen(main.at) ELSE table[m]
          /\ thread'[main.at].pc = "loop" /\ thread'[main.at].fd = n
          /\ \A m \in Listeners : m # main.at => thread'[m] = thread[m]
    BY <1>24, StartEffect
  <2>2. \A m \in Listeners : thread[m].fd \in Fds
    BY DEF TypeOK, Threads
  <2>3. \A m \in Fds : table[m] # Listen(main.at)
    BY <2>1 DEF ListenInv, Listening
  <2>4. ASSUME NEW l \in Listeners, NEW m \in Fds, table'[m] = Listen(l)
        PROVE  thread'[l].fd = m /\ thread'[l].pc \in Listening
    <3>1. CASE l = main.at
      BY <2>1, <2>3, <2>4, <3>1 DEF Listening
    <3>2. CASE l # main.at
      BY <2>1, <2>4, <3>2, EntriesApart DEF ListenInv
    <3>3. QED
      BY <3>1, <3>2
  <2>5. ASSUME NEW l \in Listeners, thread'[l].pc = "accept"
        PROVE  \E m \in Listeners : table'[thread'[l].fd] = Listen(m)
    BY <2>1, <2>2, <2>5, EntriesApart DEF ListenInv
  <2>6. QED
    BY <2>4, <2>5 DEF ListenInv
<1>25. ASSUME StartListener_fails
      PROVE  ListenInv'
  <2>1. CASE CloseSock(Fds, thread)
    BY <2>1, SameThread
  <2>2. CASE thread' = [thread EXCEPT !["status"] = NoThread] /\ table' = table
             /\ main.at = "status"
    <3>1. /\ thread'["status"].pc = "none"
          /\ \A m \in Listeners : m # "status" => thread'[m] = thread[m]
      BY <2>2 DEF TypeOK, NoThread, Listeners
    <3>2. thread["status"].pc \in {"none", "off"}
      BY <1>25, <2>2 DEF StartListener_fails, Waited, Listeners
    <3>3. QED
      BY <2>2, <3>1, <3>2 DEF ListenInv, Listening
  <2>3. QED
    BY <1>25, <2>1, <2>2 DEF StartListener_fails
<1>26. ASSUME Exit
      PROVE  ListenInv'
  BY <1>26, SameThread DEF Exit
<1>27. ASSUME UNCHANGED vars
      PROVE  ListenInv'
  BY <1>27 DEF ListenInv, vars
<1>27a. ASSUME daemon_stuck
      PROVE  ListenInv'
  BY <1>27a DEF ListenInv, daemon_stuck, workerVars
<1>28. \A t \in 1 .. bounds.trans : t \in Trans
  BY BoundsFacts DEF TypeOK
<1>29. ASSUME NEW c \in Conns, Request(c)
      PROVE  ListenInv'
  BY <1>29, <1>10, <1>11, <1>12, <1>13, <1>14, <1>15, <1>19a, <1>28 DEF Request
<1>30. ASSUME NEW c \in Conns, WorkerStep(c)
      PROVE  ListenInv'
  BY <1>30, <1>29, <1>8, <1>9, <1>19, <1>20, <1>21, <1>17 DEF WorkerStep
<1>31. ASSUME NEW l \in Listeners, ListenerStep(l)
      PROVE  ListenInv'
  BY <1>31, <1>3, <1>3a, <1>4, <1>7, <1>6 DEF ListenerStep
<1>32. QED
  BY <1>1, <1>2, <1>2a, <1>5, <1>16, <1>18, <1>19b, <1>22, <1>23, <1>24, <1>25, <1>26,
     <1>27, <1>27a, <1>30, <1>31
     DEF Next

-----------------------------------------------------------------------------
\* What closing numbers leaves of the clients, the queues and the sockets.
LEMMA CloseHandles ==
    ASSUME TypeOK, NEW ns, NEW th, th \in [Listeners -> Threads], CloseSock(ns, th)
    PROVE  /\ \A c \in Conns : peer'[c] = "idle" => peer[c] = "idle"
           /\ \A l \in Listeners : queue'[l] = queue[l] \/ queue'[l] = <<>>
           /\ \A l \in Listeners :
                 thread'[l].pc = "header" => th[l].pc = "header" /\ thread'[l] = th[l]
           /\ \A c \in Conns, n \in Fds :
                 table'[n] = Sock(c) => table[n] = Sock(c) /\ n \notin ns
<1>1. /\ \A n \in Fds : table'[n] = IF n \in ns THEN Free ELSE table[n]
      /\ \A c \in Conns : peer'[c] = peer[c] \/ peer'[c] = "gone"
      /\ \A l \in Listeners : queue'[l] = queue[l] \/ queue'[l] = <<>>
      /\ \A l \in Listeners :
            thread'[l] = IF th[l].pc = "accept" /\ th[l].fd \in ns
                         THEN [th[l] EXCEPT !.pc = "left"] ELSE th[l]
  BY CloseEffects
<1>2. ASSUME NEW l \in Listeners, thread'[l].pc = "header"
      PROVE  th[l].pc = "header" /\ thread'[l] = th[l]
  <2>1. th[l] \in Threads
    OBVIOUS
  <2>2. [th[l] EXCEPT !.pc = "left"].pc = "left"
    BY <2>1 DEF Threads
  <2>3. QED
    BY <1>1, <1>2, <2>2
<1>3. QED
  BY <1>1, <1>2, EntriesApart

\* The same for a listening service that is stopped.
LEMMA StopHandles ==
    ASSUME TypeOK, NEW l \in Listeners, StopListener(l)
    PROVE  /\ \A c \in Conns : peer'[c] = "idle" => peer[c] = "idle"
           /\ \A m \in Listeners : queue'[m] = queue[m] \/ queue'[m] = <<>>
           /\ \A m \in Listeners :
                 thread'[m].pc = "header" => thread[m].pc = "header" /\ thread'[m] = thread[m]
           /\ \A c \in Conns, n \in Fds : table'[n] = Sock(c) => table[n] = Sock(c)
<1> DEFINE Goal ==
      /\ \A c \in Conns : peer'[c] = "idle" => peer[c] = "idle"
      /\ \A m \in Listeners : queue'[m] = queue[m] \/ queue'[m] = <<>>
      /\ \A m \in Listeners :
            thread'[m].pc = "header" => thread[m].pc = "header" /\ thread'[m] = thread[m]
      /\ \A c \in Conns, n \in Fds : table'[n] = Sock(c) => table[n] = Sock(c)
<1>1. ASSUME NEW ns, CloseSock(ns, thread)
      PROVE  Goal
  <2>1. thread \in [Listeners -> Threads]
    BY DEF TypeOK
  <2>2. QED
    BY <1>1, <2>1, CloseHandles
<1>2. ASSUME UNCHANGED <<table, peer, queue, thread, early>>
      PROVE  Goal
  BY <1>2
<1> HIDE DEF Goal
<1>3. Goal
  BY <1>1, <1>2 DEF StopListener
<1>4. QED
  BY <1>3 DEF Goal

\* A step that lets nobody into a queue, and gives nothing to who waits there.
LEMMA QueueKeeps ==
    ASSUME TypeOK, QueueInv,
           \A l \in Listeners : queue'[l] = queue[l] \/ queue'[l] = <<>>,
           \A c \in Conns : peer'[c] = "idle" => peer[c] = "idle",
           \A c \in Conns : (sock[c] = 0 /\ pc[c] = "none") => sock'[c] = 0 /\ pc'[c] = "none"
    PROVE  QueueInv'
<1>1. \A l \in Listeners : \A i \in 1 .. Len(queue[l]) : queue[l][i] \in Conns
  BY DEF TypeOK
<1>2. \A l \in Listeners : \A i \in 1 .. Len(queue'[l]) :
        i \in 1 .. Len(queue[l]) /\ queue'[l][i] = queue[l][i]
  BY DEF TypeOK
<1>3. QED
  BY <1>1, <1>2 DEF QueueInv

\* Who waits for accept waits once, and has nothing yet.
LEMMA QueueStep ==
    ASSUME TypeOK, ListenInv, QueueInv, HandleInv, [Next]_vars
    PROVE  QueueInv'
<1>1. ASSUME NEW c \in Conns, NEW l \in Listeners, Connect(c, l)
      PROVE  QueueInv'
  <2>1. /\ queue[l] \in Seq(Conns) /\ Len(queue[l]) \in Nat
        /\ \A m \in Listeners : queue'[m] = IF m = l THEN Append(queue[l], c) ELSE queue[m]
        /\ \A m \in Listeners : \A i \in 1 .. Len(queue[m]) : queue[m][i] \in Conns
    BY <1>1 DEF TypeOK, Connect
  <2>2. /\ Len(queue'[l]) = Len(queue[l]) + 1 /\ queue'[l][Len(queue[l]) + 1] = c
        /\ \A i \in 1 .. Len(queue[l]) : queue'[l][i] = queue[l][i]
    <3>1. queue'[l] = Append(queue[l], c)
      BY <2>1
    <3>2. QED
      BY <2>1, <3>1, AppendFacts
  <2>3. /\ peer[c] = "idle" /\ peer'[c] = "pending" /\ UNCHANGED <<pc, sock>>
        /\ \A d \in Conns : d # c => peer'[d] = peer[d]
    BY <1>1 DEF TypeOK, Connect, workerVars
  <2>4. sock[c] = 0 /\ pc[c] = "none"
    BY <2>3 DEF HandleInv
  <2>5. \A m \in Listeners : \A i \in 1 .. Len(queue[m]) : queue[m][i] # c
    BY <2>3 DEF QueueInv
  <2>6. \A m \in Listeners : \A i \in 1 .. Len(queue'[m]) :
           \/ i \in 1 .. Len(queue[m]) /\ queue'[m][i] = queue[m][i]
           \/ m = l /\ i = Len(queue[l]) + 1 /\ queue'[m][i] = c
    BY <2>1, <2>2
  <2>7. \A m \in Listeners : \A i \in 1 .. Len(queue'[m]) :
           /\ sock'[queue'[m][i]] = 0 /\ pc'[queue'[m][i]] = "none"
           /\ peer'[queue'[m][i]] # "idle"
    BY <2>1, <2>3, <2>4, <2>5, <2>6 DEF QueueInv
  <2>8. \A m, k \in Listeners : \A i \in 1 .. Len(queue'[m]), j \in 1 .. Len(queue'[k]) :
           queue'[m][i] = queue'[k][j] => m = k /\ i = j
    BY <2>5, <2>6 DEF QueueInv
  <2>9. QED
    BY <2>7, <2>8 DEF QueueInv
<1>2. ASSUME NEW c \in Conns, PeerCloses(c)
      PROVE  QueueInv'
  <2>1. \A d \in Conns : peer'[d] = "idle" => peer[d] = "idle"
    BY <1>2 DEF TypeOK, PeerCloses
  <2>2. QED
    BY <1>2, <2>1, QueueKeeps DEF PeerCloses
<1>2a. ASSUME NEW c \in Conns, KeepsTalking(c)
      PROVE  QueueInv'
  <2>1. \A d \in Conns : peer'[d] = "idle" => peer[d] = "idle"
    BY <1>2a DEF TypeOK, KeepsTalking, workerVars
  <2>2. QED
    BY <1>2a, <2>1, QueueKeeps DEF KeepsTalking, workerVars
<1>3. ASSUME NEW l \in Listeners, AcceptSock_call(l)
      PROVE  QueueInv'
  BY <1>3, QueueKeeps DEF AcceptSock_call, workerVars
<1>3a. ASSUME NEW l \in Listeners, AcceptSock_full(l)
      PROVE  QueueInv'
  BY <1>3a, QueueKeeps DEF AcceptSock_full, workerVars
<1>4. ASSUME NEW l \in Listeners, AcceptSock(l)
      PROVE  QueueInv'
  <2>1. PICK c \in Conns, n \in Fds, from \in Listeners :
          /\ Len(queue[from]) > 0 /\ c = queue[from][1]
          /\ Len(queue'[from]) = Len(queue[from]) - 1
          /\ \A i \in 1 .. Len(queue[from]) - 1 : queue'[from][i] = queue[from][i + 1]
          /\ \A m \in Listeners : m # from => queue'[m] = queue[m]
          /\ \A d \in Conns : sock'[d] = IF d = c THEN n ELSE sock[d]
          /\ \A d \in Conns : d # c => peer'[d] = peer[d]
    BY <1>4, AcceptEffect
  <2>2. pc' = pc
    BY <1>4 DEF AcceptSock
  <2>3. \A m \in Listeners :
           Len(queue[m]) \in Nat /\ \A i \in 1 .. Len(queue[m]) : queue[m][i] \in Conns
    BY DEF TypeOK
  <2> DEFINE old(m, i) == IF m = from THEN i + 1 ELSE i
  <2>4. \A m \in Listeners : \A i \in 1 .. Len(queue'[m]) :
           /\ old(m, i) \in 1 .. Len(queue[m]) /\ queue'[m][i] = queue[m][old(m, i)]
           /\ i \in Nat /\ (m = from => old(m, i) # 1)
    BY <2>1, <2>3
  <2>5. \A m \in Listeners : \A i \in 1 .. Len(queue'[m]) : queue'[m][i] # c
    <3>1. \A m \in Listeners : \A j \in 1 .. Len(queue[m]) : queue[m][j] = c => m = from /\ j = 1
      BY <2>1, <2>3 DEF QueueInv
    <3> HIDE DEF old
    <3>2. QED
      BY <2>4, <3>1
  <2>6. \A m \in Listeners : \A i \in 1 .. Len(queue'[m]) :
           /\ sock'[queue'[m][i]] = 0 /\ pc'[queue'[m][i]] = "none"
           /\ peer'[queue'[m][i]] # "idle"
    <3>1. SUFFICES ASSUME NEW m \in Listeners, NEW i \in 1 .. Len(queue'[m])
                   PROVE  /\ sock'[queue'[m][i]] = 0 /\ pc'[queue'[m][i]] = "none"
                          /\ peer'[queue'[m][i]] # "idle"
      OBVIOUS
    <3> DEFINE x == old(m, i)
               d == queue'[m][i]
    <3>2. x \in 1 .. Len(queue[m]) /\ d = queue[m][x] /\ d # c
      BY <2>4, <2>5
    <3> HIDE DEF x, d
    <3>3. d \in Conns /\ sock[d] = 0 /\ pc[d] = "none" /\ peer[d] # "idle"
      BY <2>3, <3>2 DEF QueueInv
    <3>4. sock'[d] = 0 /\ pc'[d] = "none" /\ peer'[d] # "idle"
      BY <2>1, <2>2, <3>2, <3>3
    <3>5. QED
      BY <3>4 DEF d
  <2>7. ASSUME NEW m \in Listeners, NEW k \in Listeners, NEW i \in 1 .. Len(queue'[m]),
               NEW j \in 1 .. Len(queue'[k]), queue'[m][i] = queue'[k][j]
        PROVE  m = k /\ i = j
    <3>1. m = k /\ old(m, i) = old(k, j)
      <4> DEFINE x == old(m, i)
                 y == old(k, j)
      <4>1. /\ x \in 1 .. Len(queue[m]) /\ y \in 1 .. Len(queue[k])
            /\ queue[m][x] = queue[k][y]
        BY <2>4, <2>7
      <4> HIDE DEF x, y
      <4>2. m = k /\ x = y
        BY <4>1 DEF QueueInv
      <4>3. QED
        BY <4>2 DEF x, y
    <3>2. QED
      BY <2>4, <3>1
  <2>8. QED
    BY <2>6, <2>7 DEF QueueInv
<1>5. ASSUME NEW c \in Conns, NEW k \in Workers, dm_lobby(c, k)
      PROVE  QueueInv'
  <2>1. thread["lobby"].pc = "header" /\ thread["lobby"].conn = c /\ "lobby" \in Listeners
    BY <1>5 DEF dm_lobby, Listeners
  <2>2. sock[c] # 0
    BY <2>1 DEF HandleInv
  <2>3. \A d \in Conns : (sock[d] = 0 /\ pc[d] = "none") => sock'[d] = 0 /\ pc'[d] = "none"
    BY <1>5, <2>2 DEF TypeOK, dm_lobby
  <2>4. QED
    BY <1>5, <2>3, QueueKeeps DEF dm_lobby
<1>6. ASSUME NEW l \in Listeners, NEW c \in Conns, FreeClient(l, c)
      PROVE  QueueInv'
  <2>1. \A d \in Conns : (sock[d] = 0 /\ pc[d] = "none") => sock'[d] = 0 /\ pc'[d] = "none"
    BY <1>6 DEF TypeOK, FreeClient
  <2>2. CloseSock({sock[c]}, Loops(l))
    BY <1>6 DEF FreeClient
  <2>3. QED
    BY <2>1, <2>2, LoopFacts, CloseHandles, QueueKeeps
<1>7. ASSUME NEW l \in Listeners, Leave(l)
      PROVE  QueueInv'
  <2> DEFINE th == [thread EXCEPT ![l].pc = "off"]
  <2>1. CloseSock({thread[l].fd}, th) /\ UNCHANGED <<sock, pc>>
    BY <1>7 DEF Leave, workerVars
  <2>2. th \in [Listeners -> Threads]
    BY OffFacts
  <2> HIDE DEF th
  <2>3. QED
    BY <2>1, <2>2, CloseHandles, QueueKeeps
<1>8. ASSUME NEW c \in Conns, Register(c)
      PROVE  QueueInv'
  <2>1. \A d \in Conns : (sock[d] = 0 /\ pc[d] = "none") => sock'[d] = 0 /\ pc'[d] = "none"
    BY <1>8 DEF TypeOK, Register
  <2>2. queue' = queue /\ peer' = peer
    BY <1>8 DEF Register
  <2>3. QED
    BY <2>1, <2>2, QueueKeeps
<1>9. ASSUME NEW c \in Conns, auth_init_fails(c)
      PROVE  QueueInv'
  <2>1. \A d \in Conns : (sock[d] = 0 /\ pc[d] = "none") => sock'[d] = 0 /\ pc'[d] = "none"
    BY <1>9 DEF TypeOK, auth_init_fails
  <2>2. queue' = queue /\ peer' = peer
    BY <1>9 DEF auth_init_fails
  <2>3. QED
    BY <2>1, <2>2, QueueKeeps
<1>10. ASSUME NEW c \in Conns, gate_answer(c) \/ file_answer(c) \/ auth_answer(c)
      PROVE  QueueInv'
  BY <1>10, QueueKeeps DEF gate_answer, file_answer, auth_answer, Answer, Asked
<1>11. ASSUME NEW c \in Conns, WrongBuild(c)
      PROVE  QueueInv'
  <2>1. thread \in [Listeners -> Threads]
    BY DEF TypeOK
  <2>2. \A d \in Conns : (sock[d] = 0 /\ pc[d] = "none") => sock'[d] = 0 /\ pc'[d] = "none"
    BY <1>11 DEF TypeOK, WrongBuild, Asked
  <2>3. QED
    BY <1>11, <2>1, <2>2, CloseHandles, QueueKeeps DEF WrongBuild
<1>12. ASSUME NEW c \in Conns, UnknownMessage(c)
      PROVE  QueueInv'
  <2>1. thread \in [Listeners -> Threads]
    BY DEF TypeOK
  <2>2. \A d \in Conns : (sock[d] = 0 /\ pc[d] = "none") => sock'[d] = 0 /\ pc'[d] = "none"
    BY <1>12 DEF TypeOK, UnknownMessage, Asked
  <2>3. QED
    BY <1>12, <2>1, <2>2, CloseHandles, QueueKeeps DEF UnknownMessage
<1>13. ASSUME NEW c \in Conns, NEW t \in Trans, NEW size \in 0 .. bounds.size,
             file_downloadStart(c, t, size)
      PROVE  QueueInv'
  <2>1. \A d \in Conns : (sock[d] = 0 /\ pc[d] = "none") => sock'[d] = 0 /\ pc'[d] = "none"
    BY <1>13 DEF TypeOK, file_downloadStart, Asked
  <2>2. queue' = queue /\ peer' = peer
    BY <1>13 DEF file_downloadStart
  <2>3. QED
    BY <2>1, <2>2, QueueKeeps
<1>14. ASSUME NEW c \in Conns, NEW t \in Trans, NEW size \in 0 .. bounds.size,
             NEW e \in BOOLEAN, auth_downloadStart(c, t, size, e)
      PROVE  QueueInv'
  BY <1>14, QueueKeeps DEF auth_downloadStart, Asked
<1>15. ASSUME NEW c \in Conns, NEW t \in Trans, auth_downloadNext(c, t)
      PROVE  QueueInv'
  <2>1. thread \in [Listeners -> Threads] /\ UNCHANGED <<sock, pc>>
    BY <1>15 DEF TypeOK, auth_downloadNext, NextTurn, Asked
  <2>2. CASE Turn(c, t)
    BY <2>1, <2>2, CloseHandles, QueueKeeps DEF Turn
  <2>3. CASE UNCHANGED <<files, got, table, peer, queue, thread>>
    BY <2>1, <2>3, QueueKeeps
  <2>4. QED
    BY <1>15, <2>2, <2>3, NextEffect
<1>16. ASSUME NEW c \in Conns, NEW t \in Trans, SendFile(c, t)
      PROVE  QueueInv'
  <2>1. thread \in [Listeners -> Threads] /\ sock' = sock
    BY <1>16 DEF TypeOK, SendFile, SendTurn
  <2>2. Turn(c, t) /\ pc[c] = "send" /\ \A d \in Conns : d # c => pc'[d] = pc[d]
    BY <1>16, SendEffect
  <2>3. QED
    BY <2>1, <2>2, CloseHandles, QueueKeeps DEF Turn
<1>17. ASSUME NEW c \in Conns, NEW t \in Trans, SendFile_fails(c, t)
      PROVE  QueueInv'
  <2>1. \A d \in Conns : (sock[d] = 0 /\ pc[d] = "none") => sock'[d] = 0 /\ pc'[d] = "none"
    BY <1>17 DEF TypeOK, SendFile_fails
  <2>2. queue' = queue /\ peer' = peer
    BY <1>17 DEF SendFile_fails
  <2>3. QED
    BY <2>1, <2>2, QueueKeeps
<1>18. ASSUME NEW c \in Conns, UseForeign(c)
      PROVE  QueueInv'
  BY <1>18, QueueKeeps DEF UseForeign, workerVars
<1>19. ASSUME NEW c \in Conns, SockHup(c)
      PROVE  QueueInv'
  <2>1. \A d \in Conns : (sock[d] = 0 /\ pc[d] = "none") => sock'[d] = 0 /\ pc'[d] = "none"
    BY <1>19 DEF TypeOK, SockHup
  <2>2. queue' = queue /\ peer' = peer
    BY <1>19 DEF SockHup
  <2>3. QED
    BY <2>1, <2>2, QueueKeeps
<1>19a. ASSUME NEW c \in Conns, auth_asksDaemon(c)
      PROVE  QueueInv'
  <2>1. \A d \in Conns : (sock[d] = 0 /\ pc[d] = "none") => sock'[d] = 0 /\ pc'[d] = "none"
    BY <1>19a DEF TypeOK, auth_asksDaemon, Asked
  <2>2. queue' = queue /\ peer' = peer
    BY <1>19a DEF auth_asksDaemon, Asked
  <2>3. QED
    BY <2>1, <2>2, QueueKeeps
<1>19b. ASSUME NEW c \in Conns, dm_auth_answers(c)
      PROVE  QueueInv'
  <2>1. \A d \in Conns : (sock[d] = 0 /\ pc[d] = "none") => sock'[d] = 0 /\ pc'[d] = "none"
    BY <1>19b DEF TypeOK, dm_auth_answers
  <2>2. queue' = queue /\ peer' = peer
    BY <1>19b DEF dm_auth_answers
  <2>3. QED
    BY <2>1, <2>2, QueueKeeps
<1>20. ASSUME NEW c \in Conns, Erase(c)
      PROVE  QueueInv'
  <2>1. \A d \in Conns : (sock[d] = 0 /\ pc[d] = "none") => sock'[d] = 0 /\ pc'[d] = "none"
    BY <1>20 DEF TypeOK, Erase
  <2>2. queue' = queue /\ peer' = peer
    BY <1>20 DEF Erase
  <2>3. QED
    BY <2>1, <2>2, QueueKeeps
<1>21. ASSUME NEW c \in Conns, FreeSock(c)
      PROVE  QueueInv'
  <2>1. thread \in [Listeners -> Threads]
    BY DEF TypeOK
  <2>2. \A d \in Conns : (sock[d] = 0 /\ pc[d] = "none") => sock'[d] = 0 /\ pc'[d] = "none"
    BY <1>21 DEF TypeOK, FreeSock
  <2>3. QED
    BY <1>21, <2>1, <2>2, CloseHandles, QueueKeeps DEF FreeSock
<1>22. ASSUME NEW l \in Listeners, Restart(l)
      PROVE  QueueInv'
  BY <1>22, StopHandles, QueueKeeps DEF Restart, workerVars
<1>23. ASSUME NEW i \in DOMAIN Shutdown, Stop(i)
      PROVE  QueueInv'
  <2>1. thread \in [Listeners -> Threads] /\ UNCHANGED <<sock, pc>>
    BY <1>23 DEF TypeOK, Stop, workerVars
  <2>2. CASE Shutdown[i] \in Listeners
    BY <1>23, <2>1, <2>2, StopHandles, QueueKeeps DEF Stop
  <2>3. CASE Shutdown[i] \notin Listeners
    <3>1. CloseClients(Shutdown[i])
      BY <1>23, <2>3 DEF Stop
    <3>2. CASE UNCHANGED <<table, peer, queue, thread, early>>
      BY <2>1, <3>2, QueueKeeps
    <3>3. CASE ClientsClosed(Shutdown[i])
      BY <2>1, <3>3, CloseHandles, QueueKeeps DEF ClientsClosed
    <3>4. QED
      BY <3>1, <3>2, <3>3, ClientsFacts
  <2>4. QED
    BY <2>2, <2>3
<1>24. ASSUME StartListener
      PROVE  QueueInv'
  BY <1>24, QueueKeeps DEF StartListener, workerVars
<1>25. ASSUME StartListener_fails
      PROVE  QueueInv'
  <2>1. thread \in [Listeners -> Threads] /\ UNCHANGED <<sock, pc>>
    BY <1>25 DEF TypeOK, StartListener_fails, workerVars
  <2>2. CASE CloseSock(Fds, thread)
    BY <2>1, <2>2, CloseHandles, QueueKeeps
  <2>3. CASE UNCHANGED <<table, peer, queue>>
    BY <2>1, <2>3, QueueKeeps
  <2>4. QED
    BY <1>25, <2>2, <2>3 DEF StartListener_fails
<1>26. ASSUME Exit
      PROVE  QueueInv'
  <2>1. thread \in [Listeners -> Threads]
    BY DEF TypeOK
  <2>2. \A d \in Conns : (sock[d] = 0 /\ pc[d] = "none") => sock'[d] = 0 /\ pc'[d] = "none"
    BY <1>26 DEF TypeOK, Exit, workerVars
  <2>3. QED
    BY <1>26, <2>1, <2>2, CloseHandles, QueueKeeps DEF Exit
<1>27. ASSUME UNCHANGED vars
      PROVE  QueueInv'
  BY <1>27, QueueKeeps DEF vars, workerVars
<1>27a. ASSUME daemon_stuck
      PROVE  QueueInv'
  BY <1>27a, QueueKeeps DEF daemon_stuck, workerVars
<1>28. \A t \in 1 .. bounds.trans : t \in Trans
  BY BoundsFacts DEF TypeOK
<1>29. ASSUME NEW c \in Conns, Request(c)
      PROVE  QueueInv'
  BY <1>29, <1>10, <1>11, <1>12, <1>13, <1>14, <1>15, <1>19a, <1>28 DEF Request
<1>30. ASSUME NEW c \in Conns, WorkerStep(c)
      PROVE  QueueInv'
  BY <1>30, <1>29, <1>8, <1>9, <1>19, <1>20, <1>21, <1>17 DEF WorkerStep
<1>31. ASSUME NEW l \in Listeners, ListenerStep(l)
      PROVE  QueueInv'
  BY <1>31, <1>3, <1>3a, <1>4, <1>7, <1>6 DEF ListenerStep
<1>32. QED
  BY <1>1, <1>2, <1>2a, <1>5, <1>16, <1>18, <1>19b, <1>22, <1>23, <1>24, <1>25, <1>26,
     <1>27, <1>27a, <1>30, <1>31
     DEF Next

\* A step that gives no handle to anybody, and takes one only with its socket.
LEMMA HandleKeeps ==
    ASSUME TypeOK, HandleInv,
           \A c \in Conns : peer'[c] = "idle" => peer[c] = "idle",
           \A l \in Listeners : thread'[l].pc = "header" =>
              /\ thread[l].pc = "header" /\ thread'[l].conn = thread[l].conn
              /\ sock'[thread[l].conn] = sock[thread[l].conn]
              /\ pc'[thread[l].conn] = pc[thread[l].conn],
           \A c \in Conns :
              /\ sock'[c] = sock[c] \/ (sock'[c] = 0 /\ \A n \in Fds : table'[n] # Sock(c))
              /\ pc'[c] \in Active => pc[c] \in Active /\ sock'[c] = sock[c]
              /\ pc[c] = "none" => pc'[c] = "none",
           \A c \in Conns, n \in Fds : table'[n] = Sock(c) => table[n] = Sock(c)
    PROVE  HandleInv'
<1>1. /\ \A c \in Conns : peer'[c] = "idle" => sock'[c] = 0 /\ pc'[c] = "none"
      /\ \A c \in Conns : pc'[c] \in Active => sock'[c] # 0
  BY DEF HandleInv
<1>2. /\ \A l \in Listeners : thread'[l].pc = "header" =>
            /\ thread'[l].conn \in Conns /\ sock'[thread'[l].conn] # 0
            /\ pc'[thread'[l].conn] = "none"
      /\ \A l, m \in Listeners :
            (/\ thread'[l].pc = "header" /\ thread'[m].pc = "header"
             /\ thread'[l].conn = thread'[m].conn) => l = m
  BY DEF HandleInv
<1>3. \A c \in Conns, n \in Fds : table'[n] = Sock(c) => sock'[c] = n
  BY DEF HandleInv
<1>4. QED
  BY <1>1, <1>2, <1>3 DEF HandleInv

\* A step of one worker c that has its handle and keeps it.
LEMMA WorkerKeeps ==
    ASSUME TypeOK, HandleInv, NEW c \in Conns, pc[c] \in Active, sock' = sock,
           \A d \in Conns : d # c => pc'[d] = pc[d],
           \A d \in Conns : peer'[d] = "idle" => peer[d] = "idle",
           \A l \in Listeners : thread'[l].pc = "header" =>
              thread[l].pc = "header" /\ thread'[l] = thread[l],
           \A d \in Conns, n \in Fds : table'[n] = Sock(d) => table[n] = Sock(d)
    PROVE  HandleInv'
<1>1. \A l \in Listeners : thread[l].pc = "header" =>
         thread[l].conn \in Conns /\ thread[l].conn # c
  BY DEF HandleInv, Active
<1>2. \A d \in Conns : /\ pc'[d] \in Active => pc[d] \in Active
                       /\ pc[d] = "none" => pc'[d] = "none"
  BY DEF Active
<1>3. QED
  BY <1>1, <1>2, HandleKeeps

\* A connection has one handle, and its socket is where the handle says.
LEMMA HandleStep ==
    ASSUME TypeOK, ListenInv, QueueInv, HandleInv, [Next]_vars
    PROVE  HandleInv'
<1>1. ASSUME NEW c \in Conns, NEW l \in Listeners, Connect(c, l)
      PROVE  HandleInv'
  <2>1. \A d \in Conns : peer'[d] = "idle" => peer[d] = "idle"
    BY <1>1 DEF TypeOK, Connect
  <2>2. QED
    BY <1>1, <2>1, HandleKeeps DEF Connect, workerVars
<1>2. ASSUME NEW c \in Conns, PeerCloses(c)
      PROVE  HandleInv'
  <2>1. \A d \in Conns : peer'[d] = "idle" => peer[d] = "idle"
    BY <1>2 DEF TypeOK, PeerCloses
  <2>2. QED
    BY <1>2, <2>1, HandleKeeps DEF PeerCloses
<1>2a. ASSUME NEW c \in Conns, KeepsTalking(c)
      PROVE  HandleInv'
  <2>1. \A d \in Conns : peer'[d] = "idle" => peer[d] = "idle"
    BY <1>2a DEF TypeOK, KeepsTalking, workerVars
  <2>2. QED
    BY <1>2a, <2>1, HandleKeeps DEF KeepsTalking, workerVars
<1>3. ASSUME NEW l \in Listeners, AcceptSock_call(l)
      PROVE  HandleInv'
  <2>1. PICK p \in {"accept", "left"} : thread' = [thread EXCEPT ![l].pc = p]
    BY <1>3 DEF AcceptSock_call
  <2>2. /\ thread'[l].pc = p /\ \A m \in Listeners : m # l => thread'[m] = thread[m]
    BY <2>1 DEF TypeOK, Threads
  <2>3. UNCHANGED <<table, peer, sock, pc>>
    BY <1>3 DEF AcceptSock_call, workerVars
  <2>4. QED
    BY <2>2, <2>3, HandleKeeps
<1>3a. ASSUME NEW l \in Listeners, AcceptSock_full(l)
      PROVE  HandleInv'
  <2>1. /\ thread'[l].pc = "loop" /\ \A m \in Listeners : m # l => thread'[m] = thread[m]
    BY <1>3a DEF AcceptSock_full, TypeOK, Threads
  <2>2. UNCHANGED <<table, peer, sock, pc>>
    BY <1>3a DEF AcceptSock_full, workerVars
  <2>3. QED
    BY <2>1, <2>2, HandleKeeps
<1>4. ASSUME NEW l \in Listeners, AcceptSock(l)
      PROVE  HandleInv'
  <2>1. PICK c \in Conns, n \in Fds, from \in Listeners :
          /\ table[n] = Free /\ thread[l].pc = "accept"
          /\ Len(queue[from]) > 0 /\ c = queue[from][1]
          /\ \A m \in Fds : table'[m] = IF m = n THEN Sock(c) ELSE table[m]
          /\ \A d \in Conns : sock'[d] = IF d = c THEN n ELSE sock[d]
          /\ \A d \in Conns : d # c => peer'[d] = peer[d]
          /\ peer[c] # "idle" => peer'[c] # "idle"
          /\ thread'[l].pc = "header" /\ thread'[l].conn = c
          /\ \A m \in Listeners : m # l => thread'[m] = thread[m]
    BY <1>4, AcceptEffect
  <2>2. sock[c] = 0 /\ pc[c] = "none" /\ peer[c] # "idle" /\ pc' = pc
    <3>1. queue[from] \in Seq(Conns) /\ pc' = pc
      BY <1>4 DEF AcceptSock, TypeOK
    <3>2. 1 \in 1 .. Len(queue[from])
      BY <2>1, <3>1
    <3>3. QED
      BY <2>1, <3>1, <3>2 DEF QueueInv
  <2>3. n # 0
    BY NoNumber
  <2>4. \A m \in Fds : table[m] # Sock(c)
    BY <2>2, NoNumber DEF HandleInv
  <2>5. /\ \A d \in Conns : peer'[d] = "idle" => sock'[d] = 0 /\ pc'[d] = "none"
        /\ \A d \in Conns : pc'[d] \in Active => sock'[d] # 0
    BY <2>1, <2>2, <2>3 DEF HandleInv
  <2>6. /\ \A m \in Listeners : thread'[m].pc = "header" =>
              /\ thread'[m].conn \in Conns /\ sock'[thread'[m].conn] # 0
              /\ pc'[thread'[m].conn] = "none"
        /\ \A m \in Listeners : (m # l /\ thread'[m].pc = "header") => thread'[m].conn # c
    BY <2>1, <2>2, <2>3 DEF HandleInv
  <2>7. \A m, k \in Listeners :
           (/\ thread'[m].pc = "header" /\ thread'[k].pc = "header"
            /\ thread'[m].conn = thread'[k].conn) => m = k
    BY <2>1, <2>6 DEF HandleInv
  <2>8. \A d \in Conns, m \in Fds : table'[m] = Sock(d) => sock'[d] = m
    BY <2>1, <2>4, EntriesApart DEF HandleInv
  <2>9. QED
    BY <2>5, <2>6, <2>7, <2>8 DEF HandleInv
<1>5. ASSUME NEW c \in Conns, NEW k \in Workers, dm_lobby(c, k)
      PROVE  HandleInv'
  <2>1. /\ thread'["lobby"].pc = "loop" /\ "lobby" \in Listeners
        /\ \A m \in Listeners : m # "lobby" => thread'[m] = thread[m]
    BY <1>5, LoopFacts DEF dm_lobby, Listeners
  <2>2. /\ thread["lobby"].pc = "header" /\ thread["lobby"].conn = c
        /\ UNCHANGED <<table, peer, sock>>
    BY <1>5 DEF dm_lobby
  <2>3. \A d \in Conns : pc'[d] = IF d = c THEN "spawned" ELSE pc[d]
    BY <1>5 DEF dm_lobby, TypeOK
  <2>4. sock[c] # 0 /\ peer[c] # "idle"
    BY <2>1, <2>2 DEF HandleInv
  <2>5. \A m \in Listeners : thread'[m].pc = "header" =>
           m # "lobby" /\ thread'[m] = thread[m] /\ thread[m].conn # c
    BY <2>1, <2>2 DEF HandleInv
  <2>6. QED
    BY <2>2, <2>3, <2>4, <2>5 DEF HandleInv, Active
<1>6. ASSUME NEW l \in Listeners, NEW c \in Conns, FreeClient(l, c)
      PROVE  HandleInv'
  <2>1. /\ CloseSock({sock[c]}, Loops(l)) /\ pc' = pc
        /\ thread[l].pc = "header" /\ thread[l].conn = c
    BY <1>6 DEF FreeClient
  <2>2. \A d \in Conns : sock'[d] = IF d = c THEN 0 ELSE sock[d]
    BY <1>6 DEF FreeClient, TypeOK
  <2>3. /\ \A d \in Conns : peer'[d] = "idle" => peer[d] = "idle"
        /\ \A m \in Listeners :
              thread'[m].pc = "header" => Loops(l)[m].pc = "header" /\ thread'[m] = Loops(l)[m]
        /\ \A d \in Conns, n \in Fds :
              table'[n] = Sock(d) => table[n] = Sock(d) /\ n \notin {sock[c]}
    BY <2>1, LoopFacts, CloseHandles
  <2>4. \A m \in Listeners : thread'[m].pc = "header" =>
           m # l /\ thread[m].pc = "header" /\ thread'[m] = thread[m]
    BY <2>3, LoopFacts
  <2>5. \A m \in Listeners : thread'[m].pc = "header" =>
           thread[m].conn \in Conns /\ thread[m].conn # c
    BY <2>1, <2>4 DEF HandleInv
  <2>6. pc[c] \notin Active
    BY <2>1 DEF HandleInv, Active
  <2>7. \A n \in Fds : table'[n] # Sock(c)
    BY <2>3 DEF HandleInv
  <2>8. QED
    BY <2>1, <2>2, <2>3, <2>4, <2>5, <2>6, <2>7, HandleKeeps
<1>7. ASSUME NEW l \in Listeners, Leave(l)
      PROVE  HandleInv'
  <2> DEFINE th == [thread EXCEPT ![l].pc = "off"]
  <2>1. CloseSock({thread[l].fd}, th) /\ UNCHANGED <<sock, pc>>
    BY <1>7 DEF Leave, workerVars
  <2>2. /\ th \in [Listeners -> Threads] /\ th[l].pc = "off"
        /\ \A m \in Listeners : m # l => th[m] = thread[m]
    BY OffFacts
  <2> HIDE DEF th
  <2>3. /\ \A d \in Conns : peer'[d] = "idle" => peer[d] = "idle"
        /\ \A m \in Listeners :
              thread'[m].pc = "header" => th[m].pc = "header" /\ thread'[m] = th[m]
        /\ \A d \in Conns, n \in Fds : table'[n] = Sock(d) => table[n] = Sock(d)
    BY <2>1, <2>2, CloseHandles
  <2>4. \A m \in Listeners : thread'[m].pc = "header" =>
           thread[m].pc = "header" /\ thread'[m] = thread[m]
    BY <2>2, <2>3
  <2>5. QED
    BY <2>1, <2>3, <2>4, HandleKeeps
<1>8. ASSUME NEW c \in Conns, Register(c)
      PROVE  HandleInv'
  <2>1. /\ pc[c] \in Active /\ UNCHANGED <<sock, peer, thread>>
        /\ \A d \in Conns : d # c => pc'[d] = pc[d]
    BY <1>8 DEF TypeOK, Active, Register
  <2>2. \A d \in Conns, n \in Fds : table'[n] = Sock(d) => table[n] = Sock(d)
    BY <1>8 DEF Register
  <2>3. QED
    BY <2>1, <2>2, WorkerKeeps
<1>9. ASSUME NEW c \in Conns, auth_init_fails(c)
      PROVE  HandleInv'
  <2>1. /\ pc[c] \in Active /\ UNCHANGED <<sock, peer, thread>>
        /\ \A d \in Conns : d # c => pc'[d] = pc[d]
    BY <1>9 DEF TypeOK, Active, auth_init_fails
  <2>2. \A d \in Conns, n \in Fds : table'[n] = Sock(d) => table[n] = Sock(d)
    BY <1>9 DEF auth_init_fails
  <2>3. QED
    BY <2>1, <2>2, WorkerKeeps
<1>10. ASSUME NEW c \in Conns, gate_answer(c) \/ file_answer(c) \/ auth_answer(c)
      PROVE  HandleInv'
  <2>1. /\ pc[c] \in Active /\ UNCHANGED <<sock, peer, thread>>
        /\ \A d \in Conns : d # c => pc'[d] = pc[d]
    BY <1>10 DEF TypeOK, Active, gate_answer, file_answer, auth_answer, Answer, Asked
  <2>2. \A d \in Conns, n \in Fds : table'[n] = Sock(d) => table[n] = Sock(d)
    BY <1>10 DEF gate_answer, file_answer, auth_answer, Answer
  <2>3. QED
    BY <2>1, <2>2, WorkerKeeps
<1>11. ASSUME NEW c \in Conns, WrongBuild(c)
      PROVE  HandleInv'
  <2>1. /\ pc[c] \in Active /\ sock' = sock /\ thread \in [Listeners -> Threads]
        /\ \A d \in Conns : d # c => pc'[d] = pc[d]
    BY <1>11 DEF TypeOK, Active, WrongBuild, Asked
  <2>2. QED
    BY <1>11, <2>1, CloseHandles, WorkerKeeps DEF WrongBuild
<1>12. ASSUME NEW c \in Conns, UnknownMessage(c)
      PROVE  HandleInv'
  <2>1. /\ pc[c] \in Active /\ sock' = sock /\ thread \in [Listeners -> Threads]
        /\ \A d \in Conns : d # c => pc'[d] = pc[d]
    BY <1>12 DEF TypeOK, Active, UnknownMessage, Asked
  <2>2. QED
    BY <1>12, <2>1, CloseHandles, WorkerKeeps DEF UnknownMessage
<1>13. ASSUME NEW c \in Conns, NEW t \in Trans, NEW size \in 0 .. bounds.size,
             file_downloadStart(c, t, size)
      PROVE  HandleInv'
  <2>1. /\ pc[c] \in Active /\ UNCHANGED <<sock, peer, thread>>
        /\ \A d \in Conns : d # c => pc'[d] = pc[d]
    BY <1>13 DEF TypeOK, Active, file_downloadStart, Asked
  <2>2. \A d \in Conns, n \in Fds : table'[n] = Sock(d) => table[n] = Sock(d)
    BY <1>13, FileStartEffect, EntriesApart DEF file_downloadStart
  <2>3. QED
    BY <2>1, <2>2, WorkerKeeps
<1>14. ASSUME NEW c \in Conns, NEW t \in Trans, NEW size \in 0 .. bounds.size,
             NEW e \in BOOLEAN, auth_downloadStart(c, t, size, e)
      PROVE  HandleInv'
  <2>1. /\ pc[c] \in Active /\ UNCHANGED <<sock, peer, thread>>
        /\ \A d \in Conns : d # c => pc'[d] = pc[d]
    BY <1>14 DEF TypeOK, Active, auth_downloadStart, Asked
  <2>2. \A d \in Conns, n \in Fds : table'[n] = Sock(d) => table[n] = Sock(d)
    BY <1>14, AuthStartEffect, EntriesApart
  <2>3. QED
    BY <2>1, <2>2, WorkerKeeps
<1>15. ASSUME NEW c \in Conns, NEW t \in Trans, auth_downloadNext(c, t)
      PROVE  HandleInv'
  <2>1. /\ pc[c] \in Active /\ UNCHANGED <<sock, pc>> /\ thread \in [Listeners -> Threads]
    BY <1>15 DEF TypeOK, Active, auth_downloadNext, NextTurn, Asked
  <2>2. CASE Turn(c, t)
    BY <2>1, <2>2, CloseHandles, WorkerKeeps DEF Turn
  <2>3. CASE UNCHANGED <<files, got, table, peer, queue, thread>>
    BY <2>1, <2>3, WorkerKeeps
  <2>4. QED
    BY <1>15, <2>2, <2>3, NextEffect
<1>16. ASSUME NEW c \in Conns, NEW t \in Trans, SendFile(c, t)
      PROVE  HandleInv'
  <2>1. thread \in [Listeners -> Threads] /\ sock' = sock
    BY <1>16 DEF TypeOK, SendFile, SendTurn
  <2>2. /\ Turn(c, t) /\ pc[c] \in Active
        /\ \A d \in Conns : d # c => pc'[d] = pc[d]
    BY <1>16, SendEffect DEF Active
  <2>3. QED
    BY <2>1, <2>2, CloseHandles, WorkerKeeps DEF Turn
<1>17. ASSUME NEW c \in Conns, NEW t \in Trans, SendFile_fails(c, t)
      PROVE  HandleInv'
  <2>1. /\ pc[c] \in Active /\ UNCHANGED <<sock, peer, thread>>
        /\ \A d \in Conns : d # c => pc'[d] = pc[d]
    BY <1>17 DEF TypeOK, Active, SendFile_fails
  <2>2. \A d \in Conns, n \in Fds : table'[n] = Sock(d) => table[n] = Sock(d)
    BY <1>17, EntriesApart DEF SendFile_fails
  <2>3. QED
    BY <2>1, <2>2, WorkerKeeps
<1>18. ASSUME NEW c \in Conns, UseForeign(c)
      PROVE  HandleInv'
  BY <1>18 DEF UseForeign, HandleInv, workerVars
<1>19. ASSUME NEW c \in Conns, SockHup(c)
      PROVE  HandleInv'
  <2>1. /\ pc[c] \in Active /\ UNCHANGED <<sock, peer, thread>>
        /\ \A d \in Conns : d # c => pc'[d] = pc[d]
    BY <1>19 DEF TypeOK, Active, SockHup
  <2>2. \A d \in Conns, n \in Fds : table'[n] = Sock(d) => table[n] = Sock(d)
    BY <1>19 DEF SockHup
  <2>3. QED
    BY <2>1, <2>2, WorkerKeeps
<1>19a. ASSUME NEW c \in Conns, auth_asksDaemon(c)
      PROVE  HandleInv'
  <2>1. /\ pc[c] \in Active /\ UNCHANGED <<sock, peer, thread>>
        /\ \A d \in Conns : d # c => pc'[d] = pc[d]
    BY <1>19a DEF TypeOK, Active, auth_asksDaemon, Asked
  <2>2. \A d \in Conns, n \in Fds : table'[n] = Sock(d) => table[n] = Sock(d)
    BY <1>19a DEF auth_asksDaemon, Asked
  <2>3. QED
    BY <2>1, <2>2, WorkerKeeps
<1>19b. ASSUME NEW c \in Conns, dm_auth_answers(c)
      PROVE  HandleInv'
  <2>1. /\ pc[c] \in Active /\ UNCHANGED <<sock, peer, thread>>
        /\ \A d \in Conns : d # c => pc'[d] = pc[d]
    BY <1>19b DEF TypeOK, Active, dm_auth_answers
  <2>2. \A d \in Conns, n \in Fds : table'[n] = Sock(d) => table[n] = Sock(d)
    BY <1>19b DEF dm_auth_answers
  <2>3. QED
    BY <2>1, <2>2, WorkerKeeps
<1>20. ASSUME NEW c \in Conns, Erase(c)
      PROVE  HandleInv'
  <2>1. /\ pc[c] \in Active /\ UNCHANGED <<sock, peer, thread>>
        /\ \A d \in Conns : d # c => pc'[d] = pc[d]
    BY <1>20 DEF TypeOK, Active, Erase
  <2>2. \A d \in Conns, n \in Fds : table'[n] = Sock(d) => table[n] = Sock(d)
    BY <1>20 DEF Erase
  <2>3. QED
    BY <2>1, <2>2, WorkerKeeps
<1>21. ASSUME NEW c \in Conns, FreeSock(c)
      PROVE  HandleInv'
  <2> DEFINE ns == {sock[c]} \cup {files[c][t].fd : t \in Trans}
  <2>1. CloseSock(ns, thread) /\ pc[c] = "erased" /\ thread \in [Listeners -> Threads]
    BY <1>21 DEF FreeSock, TypeOK
  <2>2. /\ \A d \in Conns : sock'[d] = IF d = c THEN 0 ELSE sock[d]
        /\ \A d \in Conns : pc'[d] = IF d = c THEN "ended" ELSE pc[d]
    BY <1>21 DEF FreeSock, TypeOK
  <2>3. sock[c] \in ns
    OBVIOUS
  <2> HIDE DEF ns
  <2>4. /\ \A d \in Conns : peer'[d] = "idle" => peer[d] = "idle"
        /\ \A m \in Listeners :
              thread'[m].pc = "header" => thread[m].pc = "header" /\ thread'[m] = thread[m]
        /\ \A d \in Conns, n \in Fds :
              table'[n] = Sock(d) => table[n] = Sock(d) /\ n \notin ns
    BY <2>1, CloseHandles
  <2>5. \A m \in Listeners : thread[m].pc = "header" =>
           thread[m].conn \in Conns /\ thread[m].conn # c
    BY <2>1 DEF HandleInv
  <2>6. \A n \in Fds : table'[n] # Sock(c)
    BY <2>3, <2>4 DEF HandleInv
  <2>7. QED
    BY <2>1, <2>2, <2>4, <2>5, <2>6, HandleKeeps DEF Active
<1>22. ASSUME NEW l \in Listeners, Restart(l)
      PROVE  HandleInv'
  BY <1>22, StopHandles, HandleKeeps DEF Restart, workerVars
<1>23. ASSUME NEW i \in DOMAIN Shutdown, Stop(i)
      PROVE  HandleInv'
  <2>1. thread \in [Listeners -> Threads] /\ UNCHANGED <<sock, pc>>
    BY <1>23 DEF TypeOK, Stop, workerVars
  <2>2. CASE Shutdown[i] \in Listeners
    BY <1>23, <2>1, <2>2, StopHandles, HandleKeeps DEF Stop
  <2>3. CASE Shutdown[i] \notin Listeners
    <3>1. CloseClients(Shutdown[i])
      BY <1>23, <2>3 DEF Stop
    <3>2. CASE UNCHANGED <<table, peer, queue, thread, early>>
      BY <2>1, <3>2, HandleKeeps
    <3>3. CASE ClientsClosed(Shutdown[i])
      BY <2>1, <3>3, CloseHandles, HandleKeeps DEF ClientsClosed
    <3>4. QED
      BY <3>1, <3>2, <3>3, ClientsFacts
  <2>4. QED
    BY <2>2, <2>3
<1>24. ASSUME StartListener
      PROVE  HandleInv'
  <2>1. PICK n \in Fds :
          /\ main.at \in Listeners
          /\ \A m \in Fds : table'[m] = IF m = n THEN Listen(main.at) ELSE table[m]
          /\ thread'[main.at].pc = "loop"
          /\ \A m \in Listeners : m # main.at => thread'[m] = thread[m]
    BY <1>24, StartEffect
  <2>2. UNCHANGED <<peer, sock, pc>>
    BY <1>24 DEF StartListener, workerVars
  <2>3. \A d \in Conns, m \in Fds : table'[m] = Sock(d) => table[m] = Sock(d)
    BY <2>1, EntriesApart
  <2>4. \A m \in Listeners : thread'[m].pc = "header" => thread'[m] = thread[m]
    BY <2>1
  <2>5. QED
    BY <2>2, <2>3, <2>4, HandleKeeps
<1>25. ASSUME StartListener_fails
      PROVE  HandleInv'
  <2>1. thread \in [Listeners -> Threads] /\ UNCHANGED <<sock, pc>>
    BY <1>25 DEF TypeOK, StartListener_fails, workerVars
  <2>2. CASE CloseSock(Fds, thread)
    BY <2>1, <2>2, CloseHandles, HandleKeeps
  <2>3. CASE thread' = [thread EXCEPT !["status"] = NoThread] /\ UNCHANGED <<table, peer, queue>>
    <3>1. /\ thread'["status"].pc = "none"
          /\ \A m \in Listeners : m # "status" => thread'[m] = thread[m]
      BY <2>3 DEF TypeOK, NoThread, Listeners
    <3>2. \A m \in Listeners : thread'[m].pc = "header" => thread'[m] = thread[m]
      BY <3>1
    <3>3. QED
      BY <2>1, <2>3, <3>2, HandleKeeps
  <2>4. QED
    BY <1>25, <2>2, <2>3 DEF StartListener_fails
<1>26. ASSUME Exit
      PROVE  HandleInv'
  <2>1. thread \in [Listeners -> Threads] /\ UNCHANGED <<sock, pc>>
    BY <1>26 DEF TypeOK, Exit, workerVars
  <2>2. QED
    BY <1>26, <2>1, CloseHandles, HandleKeeps DEF Exit
<1>27. ASSUME UNCHANGED vars
      PROVE  HandleInv'
  BY <1>27 DEF HandleInv, vars, workerVars
<1>27a. ASSUME daemon_stuck
      PROVE  HandleInv'
  BY <1>27a DEF HandleInv, daemon_stuck, workerVars
<1>28. \A t \in 1 .. bounds.trans : t \in Trans
  BY BoundsFacts DEF TypeOK
<1>29. ASSUME NEW c \in Conns, Request(c)
      PROVE  HandleInv'
  BY <1>29, <1>10, <1>11, <1>12, <1>13, <1>14, <1>15, <1>19a, <1>28 DEF Request
<1>30. ASSUME NEW c \in Conns, WorkerStep(c)
      PROVE  HandleInv'
  BY <1>30, <1>29, <1>8, <1>9, <1>19, <1>20, <1>21, <1>17 DEF WorkerStep
<1>31. ASSUME NEW l \in Listeners, ListenerStep(l)
      PROVE  HandleInv'
  BY <1>31, <1>3, <1>3a, <1>4, <1>7, <1>6 DEF ListenerStep
<1>32. QED
  BY <1>1, <1>2, <1>2a, <1>5, <1>16, <1>18, <1>19b, <1>22, <1>23, <1>24, <1>25, <1>26,
     <1>27, <1>27a, <1>30, <1>31
     DEF Next

-----------------------------------------------------------------------------
\* What closing numbers leaves of the clients and the open files.
LEMMA CloseFiles ==
    ASSUME NEW ns, NEW th, CloseSock(ns, th)
    PROVE  /\ \A c \in Conns : peer'[c] = "open" => peer[c] = "open"
           /\ \A c \in Conns, n \in Fds :
                 table'[n] = File(c) => table[n] = File(c) /\ n \notin ns
<1>1. /\ \A n \in Fds : table'[n] = IF n \in ns THEN Free ELSE table[n]
      /\ \A c \in Conns : peer'[c] = peer[c] \/ peer'[c] = "gone"
  BY CloseEffects
<1>2. QED
  BY <1>1, EntriesApart

\* The same for a listening service that is stopped.
LEMMA StopFiles ==
    ASSUME NEW l \in Listeners, StopListener(l)
    PROVE  /\ \A c \in Conns : peer'[c] = "open" => peer[c] = "open"
           /\ \A c \in Conns, n \in Fds : table'[n] = File(c) => table[n] = File(c)
<1> DEFINE Goal ==
      /\ \A c \in Conns : peer'[c] = "open" => peer[c] = "open"
      /\ \A c \in Conns, n \in Fds : table'[n] = File(c) => table[n] = File(c)
<1>1. ASSUME NEW ns, CloseSock(ns, thread)
      PROVE  Goal
  BY <1>1, CloseFiles
<1>2. ASSUME UNCHANGED <<table, peer, queue, thread, early>>
      PROVE  Goal
  BY <1>2
<1> HIDE DEF Goal
<1>3. Goal
  BY <1>1, <1>2 DEF StopListener
<1>4. QED
  BY <1>3 DEF Goal

\* A step that neither sends for connection c nor opens a file for it.
LEMMA FileKeeps ==
    ASSUME FileInv, NEW c \in Conns,
           \A t \in Trans : files'[c][t] = files[c][t],
           \A t \in Trans : got'[c][t] = got[c][t] \/ peer'[c] # "open",
           pc'[c] = pc[c]
             \/ (pc[c] \notin {"none", "send"} /\ pc'[c] \notin {"none", "send", "ended"}),
           kind'[c] = kind[c],
           peer'[c] = "open" => peer[c] = "open" \/ pc[c] = "none",
           \A n \in Fds : table'[n] = File(c) => table[n] = File(c)
    PROVE  FileOf(c)'
<1>1. FileOf(c)
  BY DEF FileInv
<1>2. QED
  BY <1>1 DEF FileOf

\* A chunk that goes out leaves the number of chunks right, and closes the file with
\* its download.
LEMMA TurnFiles ==
    ASSUME TypeOK, FileInv, NEW c \in Conns, NEW t \in Trans, Turn(c, t),
           files[c][t] # NoFile
    PROVE  /\ \A u \in Trans : (files'[c][u] # NoFile /\ peer'[c] = "open") =>
                 /\ got'[c][u].size = files'[c][u].size
                 /\ Len(got'[c][u].chunks) = files'[c][u].pos
           /\ \A n \in Fds : table'[n] = File(c) => \E u \in Trans : files'[c][u].fd = n
           /\ \A d \in Conns : peer'[d] = "open" => peer[d] = "open"
           /\ \A d \in Conns, n \in Fds : table'[n] = File(d) => table[n] = File(d)
<1>1. FileOf(c)
  BY DEF FileInv
<1>2. \A d \in Conns, u \in Trans :
         ~(d = c /\ u = t) => files'[d][u] = files[d][u] /\ got'[d][u] = got[d][u]
  BY DEF Turn
<1>3. CASE files[c][t].pos + 1 = files[c][t].size
  <2>1. files'[c][t] = NoFile /\ CloseSock({files[c][t].fd}, thread)
    BY <1>3 DEF Turn
  <2>2. /\ \A d \in Conns : peer'[d] = "open" => peer[d] = "open"
        /\ \A d \in Conns, n \in Fds :
              table'[n] = File(d) => table[n] = File(d) /\ n # files[c][t].fd
    BY <2>1, CloseFiles
  <2>3. ASSUME NEW n \in Fds, table'[n] = File(c)
        PROVE  \E u \in Trans : files'[c][u].fd = n
    <3>1. PICK u \in Trans : files[c][u].fd = n
      BY <1>1, <2>2, <2>3 DEF FileOf
    <3>2. u # t
      BY <2>2, <2>3, <3>1
    <3>3. QED
      BY <1>2, <3>1, <3>2
  <2>4. \A u \in Trans : (files'[c][u] # NoFile /\ peer'[c] = "open") =>
           /\ got'[c][u].size = files'[c][u].size
           /\ Len(got'[c][u].chunks) = files'[c][u].pos
    BY <1>1, <1>2, <2>1, <2>2 DEF FileOf
  <2>5. QED
    BY <2>2, <2>3, <2>4
<1>4. CASE files[c][t].pos + 1 # files[c][t].size
  <2>1. /\ files'[c][t].size = files[c][t].size /\ files'[c][t].fd = files[c][t].fd
        /\ files'[c][t].pos = files[c][t].pos + 1 /\ CloseSock({}, thread)
        /\ got'[c][t].size = files[c][t].size
        /\ Len(got'[c][t].chunks) = Len(got[c][t].chunks) + 1
    BY <1>4 DEF Turn
  <2>2. /\ \A d \in Conns : peer'[d] = "open" => peer[d] = "open"
        /\ \A d \in Conns, n \in Fds : table'[n] = File(d) => table[n] = File(d)
    BY <2>1, CloseFiles
  <2>3. ASSUME NEW n \in Fds, table'[n] = File(c)
        PROVE  \E u \in Trans : files'[c][u].fd = n
    <3>1. PICK u \in Trans : files[c][u].fd = n
      BY <1>1, <2>2, <2>3 DEF FileOf
    <3>2. QED
      BY <1>2, <2>1, <3>1
  <2>4. \A u \in Trans : (files'[c][u] # NoFile /\ peer'[c] = "open") =>
           /\ got'[c][u].size = files'[c][u].size
           /\ Len(got'[c][u].chunks) = files'[c][u].pos
    BY <1>1, <1>2, <2>1, <2>2 DEF FileOf
  <2>5. QED
    BY <2>2, <2>3, <2>4
<1>5. QED
  BY <1>3, <1>4

\* An open file belongs to a download, of which the client has what was sent.
LEMMA FileStep ==
    ASSUME TypeOK, ListenInv, QueueInv, HandleInv, FileInv, [Next]_vars
    PROVE  FileInv'
<1>1. ASSUME NEW c \in Conns, NEW l \in Listeners, Connect(c, l)
      PROVE  FileInv'
  <2>1. /\ UNCHANGED <<files, kind>>
        /\ \A d \in Conns, u \in Trans : got'[d][u] = got[d][u] \/ peer'[d] # "open"
        /\ \A d \in Conns : pc'[d] = pc[d] \/
              (pc[d] \notin {"none", "send"} /\ pc'[d] \notin {"none", "send", "ended"})
    BY <1>1 DEF TypeOK, Connect, workerVars
  <2>2. /\ \A d \in Conns : peer'[d] = "open" => peer[d] = "open"
        /\ \A d \in Conns, n \in Fds : table'[n] = File(d) => table[n] = File(d)
    BY <1>1, <2>1 DEF TypeOK, Connect
  <2>3. QED
    BY <2>1, <2>2, FileKeeps DEF FileInv
<1>2. ASSUME NEW c \in Conns, PeerCloses(c)
      PROVE  FileInv'
  <2>1. /\ UNCHANGED <<files, kind>>
        /\ \A d \in Conns, u \in Trans : got'[d][u] = got[d][u] \/ peer'[d] # "open"
        /\ \A d \in Conns : pc'[d] = pc[d] \/
              (pc[d] \notin {"none", "send"} /\ pc'[d] \notin {"none", "send", "ended"})
    BY <1>2 DEF TypeOK, PeerCloses
  <2>2. /\ \A d \in Conns : peer'[d] = "open" => peer[d] = "open"
        /\ \A d \in Conns, n \in Fds : table'[n] = File(d) => table[n] = File(d)
    BY <1>2, <2>1 DEF TypeOK, PeerCloses
  <2>3. QED
    BY <2>1, <2>2, FileKeeps DEF FileInv
<1>2a. ASSUME NEW c \in Conns, KeepsTalking(c)
      PROVE  FileInv'
  <2>1. /\ UNCHANGED <<files, kind>>
        /\ \A d \in Conns, u \in Trans : got'[d][u] = got[d][u] \/ peer'[d] # "open"
        /\ \A d \in Conns : pc'[d] = pc[d] \/
              (pc[d] \notin {"none", "send"} /\ pc'[d] \notin {"none", "send", "ended"})
    BY <1>2a DEF TypeOK, KeepsTalking, workerVars
  <2>2. /\ \A d \in Conns : peer'[d] = "open" => peer[d] = "open"
        /\ \A d \in Conns, n \in Fds : table'[n] = File(d) => table[n] = File(d)
    BY <1>2a, <2>1 DEF TypeOK, KeepsTalking, workerVars
  <2>3. QED
    BY <2>1, <2>2, FileKeeps DEF FileInv
<1>3. ASSUME NEW l \in Listeners, AcceptSock_call(l)
      PROVE  FileInv'
  <2>1. /\ UNCHANGED <<files, kind>>
        /\ \A d \in Conns, u \in Trans : got'[d][u] = got[d][u] \/ peer'[d] # "open"
        /\ \A d \in Conns : pc'[d] = pc[d] \/
              (pc[d] \notin {"none", "send"} /\ pc'[d] \notin {"none", "send", "ended"})
    BY <1>3 DEF TypeOK, AcceptSock_call, workerVars
  <2>2. /\ \A d \in Conns : peer'[d] = "open" => peer[d] = "open"
        /\ \A d \in Conns, n \in Fds : table'[n] = File(d) => table[n] = File(d)
    BY <1>3, <2>1 DEF AcceptSock_call, workerVars
  <2>3. QED
    BY <2>1, <2>2, FileKeeps DEF FileInv
<1>3a. ASSUME NEW l \in Listeners, AcceptSock_full(l)
      PROVE  FileInv'
  <2>1. /\ UNCHANGED <<files, kind>>
        /\ \A d \in Conns, u \in Trans : got'[d][u] = got[d][u] \/ peer'[d] # "open"
        /\ \A d \in Conns : pc'[d] = pc[d] \/
              (pc[d] \notin {"none", "send"} /\ pc'[d] \notin {"none", "send", "ended"})
    BY <1>3a DEF TypeOK, AcceptSock_full, workerVars
  <2>2. /\ \A d \in Conns : peer'[d] = "open" => peer[d] = "open"
        /\ \A d \in Conns, n \in Fds : table'[n] = File(d) => table[n] = File(d)
    BY <1>3a, <2>1 DEF AcceptSock_full, workerVars
  <2>3. QED
    BY <2>1, <2>2, FileKeeps DEF FileInv
<1>4. ASSUME NEW l \in Listeners, AcceptSock(l)
      PROVE  FileInv'
  <2>1. UNCHANGED <<files, kind, got, pc>>
    BY <1>4 DEF AcceptSock
  <2>2. PICK c \in Conns, n \in Fds, from \in Listeners :
          /\ Len(queue[from]) > 0 /\ c = queue[from][1]
          /\ \A m \in Fds : table'[m] = IF m = n THEN Sock(c) ELSE table[m]
          /\ \A d \in Conns : d # c => peer'[d] = peer[d]
    BY <1>4, AcceptEffect
  <2>3. queue[from] \in Seq(Conns)
    BY DEF TypeOK
  <2>4. 1 \in 1 .. Len(queue[from])
    BY <2>2, <2>3
  <2>5. pc[c] = "none"
    BY <2>2, <2>4 DEF QueueInv
  <2>6. \A d \in Conns, m \in Fds : table'[m] = File(d) => table[m] = File(d)
    BY <2>2, EntriesApart
  <2>7. QED
    BY <2>1, <2>2, <2>5, <2>6, FileKeeps DEF FileInv
<1>5. ASSUME NEW c \in Conns, NEW k \in Workers, dm_lobby(c, k)
      PROVE  FileInv'
  <2>1. UNCHANGED <<files, got, peer, table>> /\ pc[c] = "none"
    BY <1>5 DEF dm_lobby, HandleInv, Listeners
  <2>2. /\ pc'[c] = "spawned"
        /\ \A d \in Conns : d # c => pc'[d] = pc[d] /\ kind'[d] = kind[d]
    BY <1>5 DEF dm_lobby, TypeOK
  <2>3. FileOf(c)'
    <3>1. FileOf(c)
      BY DEF FileInv
    <3>2. QED
      BY <2>1, <2>2, <3>1 DEF FileOf
  <2>4. \A d \in Conns : d # c => FileOf(d)'
    BY <2>1, <2>2, FileKeeps
  <2>5. QED
    BY <2>3, <2>4 DEF FileInv
<1>6. ASSUME NEW l \in Listeners, NEW c \in Conns, FreeClient(l, c)
      PROVE  FileInv'
  <2>1. /\ UNCHANGED <<files, kind>>
        /\ \A d \in Conns, u \in Trans : got'[d][u] = got[d][u] \/ peer'[d] # "open"
        /\ \A d \in Conns : pc'[d] = pc[d] \/
              (pc[d] \notin {"none", "send"} /\ pc'[d] \notin {"none", "send", "ended"})
    BY <1>6 DEF TypeOK, FreeClient
  <2>2. /\ \A d \in Conns : peer'[d] = "open" => peer[d] = "open"
        /\ \A d \in Conns, n \in Fds : table'[n] = File(d) => table[n] = File(d)
    BY <1>6, CloseFiles DEF FreeClient
  <2>3. QED
    BY <2>1, <2>2, FileKeeps DEF FileInv
<1>7. ASSUME NEW l \in Listeners, Leave(l)
      PROVE  FileInv'
  <2>1. /\ UNCHANGED <<files, kind>>
        /\ \A d \in Conns, u \in Trans : got'[d][u] = got[d][u] \/ peer'[d] # "open"
        /\ \A d \in Conns : pc'[d] = pc[d] \/
              (pc[d] \notin {"none", "send"} /\ pc'[d] \notin {"none", "send", "ended"})
    BY <1>7 DEF TypeOK, Leave, workerVars
  <2>2. /\ \A d \in Conns : peer'[d] = "open" => peer[d] = "open"
        /\ \A d \in Conns, n \in Fds : table'[n] = File(d) => table[n] = File(d)
    BY <1>7, CloseFiles DEF Leave
  <2>3. QED
    BY <2>1, <2>2, FileKeeps DEF FileInv
<1>8. ASSUME NEW c \in Conns, Register(c)
      PROVE  FileInv'
  <2>1. /\ UNCHANGED <<files, kind>>
        /\ \A d \in Conns, u \in Trans : got'[d][u] = got[d][u] \/ peer'[d] # "open"
        /\ \A d \in Conns : pc'[d] = pc[d] \/
              (pc[d] \notin {"none", "send"} /\ pc'[d] \notin {"none", "send", "ended"})
    BY <1>8 DEF TypeOK, Register
  <2>2. /\ \A d \in Conns : peer'[d] = "open" => peer[d] = "open"
        /\ \A d \in Conns, n \in Fds : table'[n] = File(d) => table[n] = File(d)
    BY <1>8, <2>1 DEF Register
  <2>3. QED
    BY <2>1, <2>2, FileKeeps DEF FileInv
<1>9. ASSUME NEW c \in Conns, auth_init_fails(c)
      PROVE  FileInv'
  <2>1. /\ UNCHANGED <<files, kind>>
        /\ \A d \in Conns, u \in Trans : got'[d][u] = got[d][u] \/ peer'[d] # "open"
        /\ \A d \in Conns : pc'[d] = pc[d] \/
              (pc[d] \notin {"none", "send"} /\ pc'[d] \notin {"none", "send", "ended"})
    BY <1>9 DEF TypeOK, auth_init_fails
  <2>2. /\ \A d \in Conns : peer'[d] = "open" => peer[d] = "open"
        /\ \A d \in Conns, n \in Fds : table'[n] = File(d) => table[n] = File(d)
    BY <1>9, <2>1 DEF auth_init_fails
  <2>3. QED
    BY <2>1, <2>2, FileKeeps DEF FileInv
<1>10. ASSUME NEW c \in Conns, gate_answer(c) \/ file_answer(c) \/ auth_answer(c)
      PROVE  FileInv'
  <2>1. /\ UNCHANGED <<files, kind>>
        /\ \A d \in Conns, u \in Trans : got'[d][u] = got[d][u] \/ peer'[d] # "open"
        /\ \A d \in Conns : pc'[d] = pc[d] \/
              (pc[d] \notin {"none", "send"} /\ pc'[d] \notin {"none", "send", "ended"})
    BY <1>10 DEF TypeOK, gate_answer, file_answer, auth_answer, Answer, Asked
  <2>2. /\ \A d \in Conns : peer'[d] = "open" => peer[d] = "open"
        /\ \A d \in Conns, n \in Fds : table'[n] = File(d) => table[n] = File(d)
    BY <1>10, <2>1 DEF gate_answer, file_answer, auth_answer, Answer, Asked
  <2>3. QED
    BY <2>1, <2>2, FileKeeps DEF FileInv
<1>11. ASSUME NEW c \in Conns, WrongBuild(c)
      PROVE  FileInv'
  <2>1. /\ UNCHANGED <<files, kind>>
        /\ \A d \in Conns, u \in Trans : got'[d][u] = got[d][u] \/ peer'[d] # "open"
        /\ \A d \in Conns : pc'[d] = pc[d] \/
              (pc[d] \notin {"none", "send"} /\ pc'[d] \notin {"none", "send", "ended"})
    BY <1>11 DEF TypeOK, WrongBuild, Asked
  <2>2. /\ \A d \in Conns : peer'[d] = "open" => peer[d] = "open"
        /\ \A d \in Conns, n \in Fds : table'[n] = File(d) => table[n] = File(d)
    BY <1>11, CloseFiles DEF WrongBuild
  <2>3. QED
    BY <2>1, <2>2, FileKeeps DEF FileInv
<1>12. ASSUME NEW c \in Conns, UnknownMessage(c)
      PROVE  FileInv'
  <2>1. /\ UNCHANGED <<files, kind>>
        /\ \A d \in Conns, u \in Trans : got'[d][u] = got[d][u] \/ peer'[d] # "open"
        /\ \A d \in Conns : pc'[d] = pc[d] \/
              (pc[d] \notin {"none", "send"} /\ pc'[d] \notin {"none", "send", "ended"})
    BY <1>12 DEF TypeOK, UnknownMessage, Asked
  <2>2. /\ \A d \in Conns : peer'[d] = "open" => peer[d] = "open"
        /\ \A d \in Conns, n \in Fds : table'[n] = File(d) => table[n] = File(d)
    BY <1>12, CloseFiles DEF UnknownMessage
  <2>3. QED
    BY <2>1, <2>2, FileKeeps DEF FileInv
<1>13. ASSUME NEW c \in Conns, NEW t \in Trans, NEW size \in 0 .. bounds.size,
             file_downloadStart(c, t, size)
      PROVE  FileInv'
  <2>1. kind' = kind /\ peer' = peer /\ kind[c] = "file" /\ pc[c] = "serve" /\ t = AnyTrans
    BY <1>13 DEF file_downloadStart, Asked
  <2>2. CASE size = 0
    <3>1. UNCHANGED <<table, pc, files, got>>
      BY <1>13, <2>2 DEF file_downloadStart
    <3>2. QED
      BY <2>1, <3>1 DEF FileInv, FileOf
  <2>3. CASE size # 0
    <3>1. PICK n \in Fds :
            /\ \A m \in Fds : table'[m] = IF m = n THEN File(c) ELSE table[m]
            /\ files'[c][t].size = size /\ files'[c][t].pos = 0 /\ files'[c][t].fd = n
            /\ got'[c][t].size = size /\ Len(got'[c][t].chunks) = 0
            /\ \A d \in Conns, u \in Trans :
                  ~(d = c /\ u = t) => files'[d][u] = files[d][u] /\ got'[d][u] = got[d][u]
            /\ \A d \in Conns : pc'[d] = IF d = c THEN "send" ELSE pc[d]
      BY <1>13, <2>3, FileStartEffect
    <3>2. \A u \in Trans : files[c][u] = NoFile /\ files[c][u].fd = 0
      BY <2>1 DEF FileInv, FileOf, NoFile
    <3>3. \A m \in Fds : table'[m] = File(c) => files'[c][t].fd = m
      BY <3>1, <3>2, NoNumber DEF FileInv, FileOf
    <3>4. \A u \in Trans : u # t => files'[c][u] = NoFile
      BY <3>1, <3>2
    <3>5. FileOf(c)'
      BY <2>1, <3>1, <3>3, <3>4 DEF FileOf
    <3>6. \A d \in Conns, m \in Fds : d # c => (table'[m] = File(d) => table[m] = File(d))
      BY <3>1, EntriesApart
    <3>7. \A d \in Conns : d # c => FileOf(d)'
      BY <2>1, <3>1, <3>6, FileKeeps
    <3>8. QED
      BY <3>5, <3>7 DEF FileInv
  <2>4. QED
    BY <2>2, <2>3
<1>14. ASSUME NEW c \in Conns, NEW t \in Trans, NEW size \in 0 .. bounds.size,
             NEW e \in BOOLEAN, auth_downloadStart(c, t, size, e)
      PROVE  FileInv'
  <2>1. UNCHANGED <<kind, peer, pc>> /\ kind[c] = "auth" /\ pc[c] = "serve"
        /\ peer[c] = "open" /\ Fresh(c, t)
    BY <1>14 DEF auth_downloadStart, Asked, Readable
  <2>2. FileOf(c) /\ \A d \in Conns, u \in Trans : ~(d = c /\ u = t) => got'[d][u] = got[d][u]
    BY <1>14, AuthStartEffect DEF FileInv
  <2>3. files[c][t] = NoFile /\ files[c][t].fd = 0
    <3>1. /\ files[c][t] \in Downloads
          /\ files[c][t] = NoFile \/ files[c][t].pos < files[c][t].size
      BY DEF TypeOK
    <3>2. files[c][t].pos \in Nat /\ files[c][t].size \in Nat
      BY <3>1 DEF Downloads
    <3>3. files[c][t] = NoFile
      BY <2>1, <2>2, <3>1, <3>2 DEF FileOf, Fresh
    <3>4. QED
      BY <3>3 DEF NoFile
  <2>4. CASE UNCHANGED <<table, files>>
    <3>1. FileOf(c)'
      BY <2>1, <2>2, <2>3, <2>4 DEF FileOf
    <3>2. \A d \in Conns : d # c => FileOf(d)'
      BY <2>1, <2>2, <2>4, FileKeeps
    <3>3. QED
      BY <3>1, <3>2 DEF FileInv
  <2>5. CASE size > 1
    <3>1. PICK n \in 0 .. MaxFd :
            /\ \A m \in Fds : table'[m] = IF m = n THEN File(c) ELSE table[m]
            /\ files'[c][t].size = size /\ files'[c][t].pos = 1 /\ files'[c][t].fd = n
            /\ got'[c][t].size = size /\ Len(got'[c][t].chunks) = 1
            /\ \A d \in Conns, u \in Trans : ~(d = c /\ u = t) => files'[d][u] = files[d][u]
      BY <1>14, <2>5, AuthStartEffect
    <3>2. ASSUME NEW m \in Fds, table'[m] = File(c)
          PROVE  \E u \in Trans : files'[c][u].fd = m
      <4>1. CASE m = n
        BY <3>1, <4>1
      <4>2. CASE m # n
        <5>1. PICK u \in Trans : files[c][u].fd = m
          BY <2>2, <3>1, <3>2, <4>2 DEF FileOf
        <5>2. u # t
          BY <2>3, <5>1, NoNumber
        <5>3. QED
          BY <3>1, <5>1, <5>2
      <4>3. QED
        BY <4>1, <4>2
    <3>3. \A u \in Trans : (files'[c][u] # NoFile /\ peer'[c] = "open") =>
             /\ got'[c][u].size = files'[c][u].size
             /\ Len(got'[c][u].chunks) = files'[c][u].pos
      BY <2>1, <2>2, <3>1 DEF FileOf
    <3>4. FileOf(c)'
      BY <2>1, <3>2, <3>3 DEF FileOf
    <3>5. \A d \in Conns, m \in Fds : d # c => (table'[m] = File(d) => table[m] = File(d))
      BY <3>1, EntriesApart
    <3>6. \A d \in Conns : d # c => FileOf(d)'
      BY <2>1, <2>2, <3>1, <3>5, FileKeeps
    <3>7. QED
      BY <3>4, <3>6 DEF FileInv
  <2>6. QED
    BY <1>14, <2>4, <2>5, AuthStartEffect
<1>15. ASSUME NEW c \in Conns, NEW t \in Trans, auth_downloadNext(c, t)
      PROVE  FileInv'
  <2>1. UNCHANGED <<kind, pc>> /\ kind[c] = "auth" /\ pc[c] = "serve"
    BY <1>15 DEF auth_downloadNext, NextTurn, Asked
  <2>2. CASE UNCHANGED <<files, got, table, peer, queue, thread>>
    BY <2>1, <2>2 DEF FileInv, FileOf
  <2>3. CASE Turn(c, t) /\ files[c][t] # NoFile
    <3>1. /\ \A u \in Trans : (files'[c][u] # NoFile /\ peer'[c] = "open") =>
                /\ got'[c][u].size = files'[c][u].size
                /\ Len(got'[c][u].chunks) = files'[c][u].pos
          /\ \A n \in Fds : table'[n] = File(c) => \E u \in Trans : files'[c][u].fd = n
          /\ \A d \in Conns : peer'[d] = "open" => peer[d] = "open"
          /\ \A d \in Conns, n \in Fds : table'[n] = File(d) => table[n] = File(d)
      BY <2>3, TurnFiles
    <3>2. FileOf(c)'
      BY <2>1, <3>1 DEF FileOf
    <3>3. \A d \in Conns : d # c => FileOf(d)'
      BY <2>1, <2>3, <3>1, FileKeeps DEF Turn
    <3>4. QED
      BY <3>2, <3>3 DEF FileInv
  <2>4. files[c][t] = NoFile => UNCHANGED <<files, got, table, peer, queue, thread>>
    BY <1>15 DEF auth_downloadNext, NextTurn
  <2>5. QED
    BY <1>15, <2>2, <2>3, <2>4, NextEffect
<1>16. ASSUME NEW c \in Conns, NEW t \in Trans, SendFile(c, t)
      PROVE  FileInv'
  <2>1. /\ Turn(c, t) /\ pc[c] = "send" /\ files[c][t] # NoFile
        /\ \A d \in Conns : d # c => pc'[d] = pc[d]
        /\ pc'[c] = IF files[c][t].pos + 1 = files[c][t].size THEN "serve" ELSE "send"
    BY <1>16, SendEffect
  <2>2. kind' = kind
    BY <1>16 DEF SendFile, SendTurn
  <2>3. kind[c] = "file" /\ t = AnyTrans /\ \A u \in Trans : u # t => files[c][u] = NoFile
    BY <2>1 DEF FileInv, FileOf
  <2>4. /\ \A u \in Trans : (files'[c][u] # NoFile /\ peer'[c] = "open") =>
              /\ got'[c][u].size = files'[c][u].size
              /\ Len(got'[c][u].chunks) = files'[c][u].pos
        /\ \A n \in Fds : table'[n] = File(c) => \E u \in Trans : files'[c][u].fd = n
        /\ \A d \in Conns : peer'[d] = "open" => peer[d] = "open"
        /\ \A d \in Conns, n \in Fds : table'[n] = File(d) => table[n] = File(d)
    BY <2>1, TurnFiles
  <2>5. \A u \in Trans : files'[c][u] = NoFile \/ (u = AnyTrans /\ pc'[c] = "send")
    BY <2>1, <2>3 DEF Turn
  <2>6. FileOf(c)'
    BY <2>1, <2>2, <2>3, <2>4, <2>5 DEF FileOf
  <2>7. \A d \in Conns : d # c => FileOf(d)'
    BY <2>1, <2>2, <2>4, FileKeeps DEF Turn
  <2>8. QED
    BY <2>6, <2>7 DEF FileInv
<1>17. ASSUME NEW c \in Conns, NEW t \in Trans, SendFile_fails(c, t)
      PROVE  FileInv'
  <2>1. /\ pc[c] = "send" /\ files[c][t].size > 0 /\ UNCHANGED <<kind, got, peer>>
        /\ \A n \in Fds : table'[n] = IF table[n] = File(c) THEN Leaked ELSE table[n]
    BY <1>17 DEF SendFile_fails
  <2>2. files[c][t] # NoFile
    BY <2>1 DEF NoFile
  <2>3. /\ files'[c][t] = NoFile /\ pc'[c] = "failed"
        /\ \A d \in Conns, u \in Trans : ~(d = c /\ u = t) => files'[d][u] = files[d][u]
        /\ \A d \in Conns : d # c => pc'[d] = pc[d]
    BY <1>17 DEF SendFile_fails, TypeOK
  <2>4. t = AnyTrans /\ \A u \in Trans : files'[c][u] = NoFile
    BY <2>1, <2>2, <2>3 DEF FileInv, FileOf
  <2>5. \A d \in Conns, n \in Fds : table'[n] = File(d) => d # c /\ table[n] = File(d)
    BY <2>1, EntriesApart
  <2>6. FileOf(c)'
    BY <2>3, <2>4, <2>5 DEF FileOf
  <2>7. \A d \in Conns : d # c => FileOf(d)'
    BY <2>1, <2>3, <2>5, FileKeeps
  <2>8. QED
    BY <2>6, <2>7 DEF FileInv
<1>18. ASSUME NEW c \in Conns, UseForeign(c)
      PROVE  FileInv'
  <2>1. /\ UNCHANGED <<files, kind>>
        /\ \A d \in Conns, u \in Trans : got'[d][u] = got[d][u] \/ peer'[d] # "open"
        /\ \A d \in Conns : pc'[d] = pc[d] \/
              (pc[d] \notin {"none", "send"} /\ pc'[d] \notin {"none", "send", "ended"})
    BY <1>18 DEF TypeOK, UseForeign, workerVars
  <2>2. /\ \A d \in Conns : peer'[d] = "open" => peer[d] = "open"
        /\ \A d \in Conns, n \in Fds : table'[n] = File(d) => table[n] = File(d)
    BY <1>18, <2>1 DEF UseForeign, workerVars
  <2>3. QED
    BY <2>1, <2>2, FileKeeps DEF FileInv
<1>19. ASSUME NEW c \in Conns, SockHup(c)
      PROVE  FileInv'
  <2>1. /\ UNCHANGED <<files, kind>>
        /\ \A d \in Conns, u \in Trans : got'[d][u] = got[d][u] \/ peer'[d] # "open"
        /\ \A d \in Conns : pc'[d] = pc[d] \/
              (pc[d] \notin {"none", "send"} /\ pc'[d] \notin {"none", "send", "ended"})
    BY <1>19 DEF TypeOK, SockHup
  <2>2. /\ \A d \in Conns : peer'[d] = "open" => peer[d] = "open"
        /\ \A d \in Conns, n \in Fds : table'[n] = File(d) => table[n] = File(d)
    BY <1>19, <2>1 DEF SockHup
  <2>3. QED
    BY <2>1, <2>2, FileKeeps DEF FileInv
<1>19a. ASSUME NEW c \in Conns, auth_asksDaemon(c)
      PROVE  FileInv'
  <2>1. /\ UNCHANGED <<files, kind>>
        /\ \A d \in Conns, u \in Trans : got'[d][u] = got[d][u] \/ peer'[d] # "open"
        /\ \A d \in Conns : pc'[d] = pc[d] \/
              (pc[d] \notin {"none", "send"} /\ pc'[d] \notin {"none", "send", "ended"})
    BY <1>19a DEF TypeOK, auth_asksDaemon, Asked
  <2>2. /\ \A d \in Conns : peer'[d] = "open" => peer[d] = "open"
        /\ \A d \in Conns, n \in Fds : table'[n] = File(d) => table[n] = File(d)
    BY <1>19a, <2>1 DEF auth_asksDaemon, Asked
  <2>3. QED
    BY <2>1, <2>2, FileKeeps DEF FileInv
<1>19b. ASSUME NEW c \in Conns, dm_auth_answers(c)
      PROVE  FileInv'
  <2>1. /\ UNCHANGED <<files, kind>>
        /\ \A d \in Conns, u \in Trans : got'[d][u] = got[d][u] \/ peer'[d] # "open"
        /\ \A d \in Conns : pc'[d] = pc[d] \/
              (pc[d] \notin {"none", "send"} /\ pc'[d] \notin {"none", "send", "ended"})
    BY <1>19b DEF TypeOK, dm_auth_answers
  <2>2. /\ \A d \in Conns : peer'[d] = "open" => peer[d] = "open"
        /\ \A d \in Conns, n \in Fds : table'[n] = File(d) => table[n] = File(d)
    BY <1>19b, <2>1 DEF dm_auth_answers
  <2>3. QED
    BY <2>1, <2>2, FileKeeps DEF FileInv
<1>20. ASSUME NEW c \in Conns, Erase(c)
      PROVE  FileInv'
  <2>1. /\ UNCHANGED <<files, kind>>
        /\ \A d \in Conns, u \in Trans : got'[d][u] = got[d][u] \/ peer'[d] # "open"
        /\ \A d \in Conns : pc'[d] = pc[d] \/
              (pc[d] \notin {"none", "send"} /\ pc'[d] \notin {"none", "send", "ended"})
    BY <1>20 DEF TypeOK, Erase
  <2>2. /\ \A d \in Conns : peer'[d] = "open" => peer[d] = "open"
        /\ \A d \in Conns, n \in Fds : table'[n] = File(d) => table[n] = File(d)
    BY <1>20, <2>1 DEF Erase
  <2>3. QED
    BY <2>1, <2>2, FileKeeps DEF FileInv
<1>21. ASSUME NEW c \in Conns, FreeSock(c)
      PROVE  FileInv'
  <2> DEFINE ns == {sock[c]} \cup {files[c][t].fd : t \in Trans}
  <2>1. CloseSock(ns, thread)
    BY <1>21 DEF FreeSock
  <2>2. /\ pc'[c] = "ended" /\ kind'[c] = "none" /\ \A u \in Trans : files'[c][u] = NoFile
        /\ \A d \in Conns : d # c => /\ pc'[d] = pc[d] /\ kind'[d] = kind[d]
                                     /\ files'[d] = files[d] /\ got'[d] = got[d]
    BY <1>21 DEF FreeSock, TypeOK
  <2>3. \A t \in Trans : files[c][t].fd \in ns
    OBVIOUS
  <2> HIDE DEF ns
  <2>4. /\ \A d \in Conns : peer'[d] = "open" => peer[d] = "open"
        /\ \A d \in Conns, n \in Fds : table'[n] = File(d) => table[n] = File(d) /\ n \notin ns
    BY <2>1, CloseFiles
  <2>5. \A n \in Fds : table'[n] # File(c)
    BY <2>3, <2>4 DEF FileInv, FileOf
  <2>6. FileOf(c)'
    BY <2>2, <2>5 DEF FileOf
  <2>7. \A d \in Conns : d # c => FileOf(d)'
    BY <2>2, <2>4, FileKeeps
  <2>8. QED
    BY <2>6, <2>7 DEF FileInv
<1>22. ASSUME NEW l \in Listeners, Restart(l)
      PROVE  FileInv'
  <2>1. /\ UNCHANGED <<files, kind>>
        /\ \A d \in Conns, u \in Trans : got'[d][u] = got[d][u] \/ peer'[d] # "open"
        /\ \A d \in Conns : pc'[d] = pc[d] \/
              (pc[d] \notin {"none", "send"} /\ pc'[d] \notin {"none", "send", "ended"})
    BY <1>22 DEF TypeOK, Restart, workerVars
  <2>2. /\ \A d \in Conns : peer'[d] = "open" => peer[d] = "open"
        /\ \A d \in Conns, n \in Fds : table'[n] = File(d) => table[n] = File(d)
    BY <1>22, StopFiles DEF Restart
  <2>3. QED
    BY <2>1, <2>2, FileKeeps DEF FileInv
<1>23. ASSUME NEW i \in DOMAIN Shutdown, Stop(i)
      PROVE  FileInv'
  <2>1. /\ UNCHANGED <<files, kind>>
        /\ \A d \in Conns, u \in Trans : got'[d][u] = got[d][u] \/ peer'[d] # "open"
        /\ \A d \in Conns : pc'[d] = pc[d] \/
              (pc[d] \notin {"none", "send"} /\ pc'[d] \notin {"none", "send", "ended"})
    BY <1>23 DEF TypeOK, Stop, workerVars
  <2>2. /\ \A d \in Conns : peer'[d] = "open" => peer[d] = "open"
        /\ \A d \in Conns, n \in Fds : table'[n] = File(d) => table[n] = File(d)
    BY <1>23, ClientsFacts, CloseFiles, StopFiles
       DEF Stop, ClientsClosed
  <2>3. QED
    BY <2>1, <2>2, FileKeeps DEF FileInv
<1>24. ASSUME StartListener
      PROVE  FileInv'
  <2>1. /\ UNCHANGED <<files, kind>>
        /\ \A d \in Conns, u \in Trans : got'[d][u] = got[d][u] \/ peer'[d] # "open"
        /\ \A d \in Conns : pc'[d] = pc[d] \/
              (pc[d] \notin {"none", "send"} /\ pc'[d] \notin {"none", "send", "ended"})
    BY <1>24 DEF TypeOK, StartListener, workerVars
  <2>2. /\ \A d \in Conns : peer'[d] = "open" => peer[d] = "open"
        /\ \A d \in Conns, n \in Fds : table'[n] = File(d) => table[n] = File(d)
    BY <1>24, StartEffect, EntriesApart DEF StartListener
  <2>3. QED
    BY <2>1, <2>2, FileKeeps DEF FileInv
<1>25. ASSUME StartListener_fails
      PROVE  FileInv'
  <2>1. /\ UNCHANGED <<files, kind>>
        /\ \A d \in Conns, u \in Trans : got'[d][u] = got[d][u] \/ peer'[d] # "open"
        /\ \A d \in Conns : pc'[d] = pc[d] \/
              (pc[d] \notin {"none", "send"} /\ pc'[d] \notin {"none", "send", "ended"})
    BY <1>25 DEF TypeOK, StartListener_fails, workerVars
  <2>2. /\ \A d \in Conns : peer'[d] = "open" => peer[d] = "open"
        /\ \A d \in Conns, n \in Fds : table'[n] = File(d) => table[n] = File(d)
    BY <1>25, CloseFiles DEF StartListener_fails
  <2>3. QED
    BY <2>1, <2>2, FileKeeps DEF FileInv
<1>26. ASSUME Exit
      PROVE  FileInv'
  <2>1. /\ UNCHANGED <<files, kind>>
        /\ \A d \in Conns, u \in Trans : got'[d][u] = got[d][u] \/ peer'[d] # "open"
        /\ \A d \in Conns : pc'[d] = pc[d] \/
              (pc[d] \notin {"none", "send"} /\ pc'[d] \notin {"none", "send", "ended"})
    BY <1>26 DEF TypeOK, Exit, workerVars
  <2>2. /\ \A d \in Conns : peer'[d] = "open" => peer[d] = "open"
        /\ \A d \in Conns, n \in Fds : table'[n] = File(d) => table[n] = File(d)
    BY <1>26, CloseFiles DEF Exit
  <2>3. QED
    BY <2>1, <2>2, FileKeeps DEF FileInv
<1>27. ASSUME UNCHANGED vars
      PROVE  FileInv'
  BY <1>27 DEF FileInv, FileOf, vars, workerVars
<1>27a. ASSUME daemon_stuck
      PROVE  FileInv'
  BY <1>27a DEF FileInv, FileOf, daemon_stuck, workerVars
<1>28. \A t \in 1 .. bounds.trans : t \in Trans
  BY BoundsFacts DEF TypeOK
<1>29. ASSUME NEW c \in Conns, Request(c)
      PROVE  FileInv'
  BY <1>29, <1>10, <1>11, <1>12, <1>13, <1>14, <1>15, <1>19a, <1>28 DEF Request
<1>30. ASSUME NEW c \in Conns, WorkerStep(c)
      PROVE  FileInv'
  BY <1>30, <1>29, <1>8, <1>9, <1>19, <1>20, <1>21, <1>17 DEF WorkerStep
<1>31. ASSUME NEW l \in Listeners, ListenerStep(l)
      PROVE  FileInv'
  BY <1>31, <1>3, <1>3a, <1>4, <1>7, <1>6 DEF ListenerStep
<1>32. QED
  BY <1>1, <1>2, <1>2a, <1>5, <1>16, <1>18, <1>19b, <1>22, <1>23, <1>24, <1>25, <1>26,
     <1>27, <1>27a, <1>30, <1>31
     DEF Next

-----------------------------------------------------------------------------
\* Finitely many numbers and connections.
LEMMA Finite ==
    /\ IsFiniteSet(Lost) /\ IsFiniteSet(Lost') /\ IsFiniteSet(Broken) /\ IsFiniteSet(Broken')
    /\ Cardinality(Lost) \in Nat /\ Cardinality(Lost') \in Nat
    /\ Cardinality(Broken) \in Nat /\ Cardinality(Broken') \in Nat
<1>1. IsFiniteSet(Fds) /\ IsFiniteSet(Conns)
  BY ConnectionsAssumption, FS_Interval DEF Fds
<1>2. /\ Lost \in SUBSET Fds /\ Lost' \in SUBSET Fds
      /\ Broken \in SUBSET Conns /\ Broken' \in SUBSET Conns
  BY DEF Lost, Broken
<1>3. /\ IsFiniteSet(Lost) /\ IsFiniteSet(Lost')
      /\ IsFiniteSet(Broken) /\ IsFiniteSet(Broken')
  BY <1>1, <1>2, FS_Subset
<1>4. QED
  BY <1>3, FS_CardinalityType

\* A step that leaks nothing: a worker that is over stays so.
LEMMA LeakKeeps ==
    ASSUME LeakInv,
           \A n \in Fds : table'[n] = Leaked => table[n] = Leaked,
           \A c \in Conns : pc[c] \in Over => pc'[c] \in Over
    PROVE  LeakInv'
<1>1. Lost' \in SUBSET Lost /\ Broken \in SUBSET (Broken')
  BY DEF Lost, Broken
<1>2. Cardinality(Lost') <= Cardinality(Lost)
  BY <1>1, Finite, FS_Subset
<1>3. Cardinality(Broken) <= Cardinality(Broken')
  BY <1>1, Finite, FS_Subset
<1>4. QED
  BY <1>2, <1>3, Finite DEF LeakInv

\* A worker that fails and leaks one number.
LEMMA LeakOne ==
    ASSUME LeakInv, NEW c \in Conns, NEW x,
           \A n \in Fds : table'[n] = Leaked => table[n] = Leaked \/ n = x,
           pc[c] \notin Over, pc'[c] \in Over,
           \A d \in Conns : d # c => pc'[d] = pc[d]
    PROVE  LeakInv'
<1>1. Lost' \in SUBSET (Lost \cup {x}) /\ Broken' = Broken \cup {c} /\ c \notin Broken
  BY DEF Lost, Broken
<1>2. IsFiniteSet(Lost \cup {x}) /\ Cardinality(Lost \cup {x}) <= Cardinality(Lost) + 1
  <2>1. /\ IsFiniteSet(Lost \cup {x})
        /\ Cardinality(Lost \cup {x}) = IF x \in Lost THEN Cardinality(Lost)
                                        ELSE Cardinality(Lost) + 1
    BY Finite, FS_AddElement
  <2>2. QED
    BY <2>1, Finite
<1>3. Cardinality(Lost') <= Cardinality(Lost \cup {x})
  BY <1>1, <1>2, FS_Subset
<1>4. Cardinality(Broken') = Cardinality(Broken) + 1
  <2>1. Cardinality(Broken \cup {c}) = IF c \in Broken THEN Cardinality(Broken)
                                       ELSE Cardinality(Broken) + 1
    BY Finite, FS_AddElement
  <2>2. QED
    BY <1>1, <2>1
<1>5. Cardinality(Lost \cup {x}) \in Nat
  BY <1>2, FS_CardinalityType
<1>6. QED
  BY <1>2, <1>3, <1>4, <1>5, Finite DEF LeakInv

\* Closing leaks nothing.
LEMMA CloseLeaks ==
    ASSUME NEW ns, NEW th, CloseSock(ns, th)
    PROVE  \A n \in Fds : table'[n] = Leaked => table[n] = Leaked
<1>1. \A n \in Fds : table'[n] = IF n \in ns THEN Free ELSE table[n]
  BY CloseEffects
<1>2. QED
  BY <1>1, EntriesApart

\* Nor does stopping a listening service.
LEMMA StopLeaks ==
    ASSUME NEW l \in Listeners, StopListener(l)
    PROVE  \A n \in Fds : table'[n] = Leaked => table[n] = Leaked
BY CloseLeaks DEF StopListener

\* Only a failing transfer leaks, its one file.
LEMMA LeakStep ==
    ASSUME TypeOK, ListenInv, HandleInv, FileInv, LeakInv, [Next]_vars
    PROVE  LeakInv'
<1>1. ASSUME NEW c \in Conns, NEW l \in Listeners, Connect(c, l)
      PROVE  LeakInv'
  <2>1. \A d \in Conns : pc[d] \in Over => pc'[d] \in Over
    BY <1>1 DEF TypeOK, Over, Connect, workerVars
  <2>2. \A n \in Fds : table'[n] = Leaked => table[n] = Leaked
    BY <1>1 DEF Connect, workerVars
  <2>3. QED
    BY <2>1, <2>2, LeakKeeps
<1>2. ASSUME NEW c \in Conns, PeerCloses(c)
      PROVE  LeakInv'
  <2>1. \A d \in Conns : pc[d] \in Over => pc'[d] \in Over
    BY <1>2 DEF TypeOK, Over, PeerCloses
  <2>2. \A n \in Fds : table'[n] = Leaked => table[n] = Leaked
    BY <1>2 DEF PeerCloses
  <2>3. QED
    BY <2>1, <2>2, LeakKeeps
<1>2a. ASSUME NEW c \in Conns, KeepsTalking(c)
      PROVE  LeakInv'
  <2>1. \A d \in Conns : pc[d] \in Over => pc'[d] \in Over
    BY <1>2a DEF TypeOK, Over, KeepsTalking, workerVars
  <2>2. \A n \in Fds : table'[n] = Leaked => table[n] = Leaked
    BY <1>2a DEF KeepsTalking, workerVars
  <2>3. QED
    BY <2>1, <2>2, LeakKeeps
<1>3. ASSUME NEW l \in Listeners, AcceptSock_call(l)
      PROVE  LeakInv'
  <2>1. \A d \in Conns : pc[d] \in Over => pc'[d] \in Over
    BY <1>3 DEF TypeOK, Over, AcceptSock_call, workerVars
  <2>2. \A n \in Fds : table'[n] = Leaked => table[n] = Leaked
    BY <1>3 DEF AcceptSock_call, workerVars
  <2>3. QED
    BY <2>1, <2>2, LeakKeeps
<1>3a. ASSUME NEW l \in Listeners, AcceptSock_full(l)
      PROVE  LeakInv'
  <2>1. \A d \in Conns : pc[d] \in Over => pc'[d] \in Over
    BY <1>3a DEF TypeOK, Over, AcceptSock_full, workerVars
  <2>2. \A n \in Fds : table'[n] = Leaked => table[n] = Leaked
    BY <1>3a DEF AcceptSock_full, workerVars
  <2>3. QED
    BY <2>1, <2>2, LeakKeeps
<1>4. ASSUME NEW l \in Listeners, AcceptSock(l)
      PROVE  LeakInv'
  <2>1. \A d \in Conns : pc[d] \in Over => pc'[d] \in Over
    BY <1>4 DEF TypeOK, Over, AcceptSock
  <2>2. \A n \in Fds : table'[n] = Leaked => table[n] = Leaked
    BY <1>4, AcceptEffect, EntriesApart
  <2>3. QED
    BY <2>1, <2>2, LeakKeeps
<1>5. ASSUME NEW c \in Conns, NEW k \in Workers, dm_lobby(c, k)
      PROVE  LeakInv'
  <2>1. pc[c] = "none" /\ table' = table
    BY <1>5 DEF dm_lobby, HandleInv, Listeners
  <2>2. \A d \in Conns : pc[d] \in Over => pc'[d] \in Over
    BY <1>5, <2>1 DEF TypeOK, Over, dm_lobby
  <2>3. QED
    BY <2>1, <2>2, LeakKeeps
<1>6. ASSUME NEW l \in Listeners, NEW c \in Conns, FreeClient(l, c)
      PROVE  LeakInv'
  <2>1. \A d \in Conns : pc[d] \in Over => pc'[d] \in Over
    BY <1>6 DEF TypeOK, Over, FreeClient
  <2>2. \A n \in Fds : table'[n] = Leaked => table[n] = Leaked
    BY <1>6, CloseLeaks DEF FreeClient
  <2>3. QED
    BY <2>1, <2>2, LeakKeeps
<1>7. ASSUME NEW l \in Listeners, Leave(l)
      PROVE  LeakInv'
  <2>1. \A d \in Conns : pc[d] \in Over => pc'[d] \in Over
    BY <1>7 DEF TypeOK, Over, Leave, workerVars
  <2>2. \A n \in Fds : table'[n] = Leaked => table[n] = Leaked
    BY <1>7, CloseLeaks DEF Leave
  <2>3. QED
    BY <2>1, <2>2, LeakKeeps
<1>8. ASSUME NEW c \in Conns, Register(c)
      PROVE  LeakInv'
  <2>1. \A d \in Conns : pc[d] \in Over => pc'[d] \in Over
    BY <1>8 DEF TypeOK, Over, Register
  <2>2. \A n \in Fds : table'[n] = Leaked => table[n] = Leaked
    BY <1>8 DEF Register
  <2>3. QED
    BY <2>1, <2>2, LeakKeeps
<1>9. ASSUME NEW c \in Conns, auth_init_fails(c)
      PROVE  LeakInv'
  <2>1. \A d \in Conns : pc[d] \in Over => pc'[d] \in Over
    BY <1>9 DEF TypeOK, Over, auth_init_fails
  <2>2. \A n \in Fds : table'[n] = Leaked => table[n] = Leaked
    BY <1>9 DEF auth_init_fails
  <2>3. QED
    BY <2>1, <2>2, LeakKeeps
<1>10. ASSUME NEW c \in Conns, gate_answer(c) \/ file_answer(c) \/ auth_answer(c)
      PROVE  LeakInv'
  <2>1. \A d \in Conns : pc[d] \in Over => pc'[d] \in Over
    BY <1>10 DEF TypeOK, Over, gate_answer, file_answer, auth_answer, Answer, Asked
  <2>2. \A n \in Fds : table'[n] = Leaked => table[n] = Leaked
    BY <1>10 DEF gate_answer, file_answer, auth_answer, Answer, Asked
  <2>3. QED
    BY <2>1, <2>2, LeakKeeps
<1>11. ASSUME NEW c \in Conns, WrongBuild(c)
      PROVE  LeakInv'
  <2>1. \A d \in Conns : pc[d] \in Over => pc'[d] \in Over
    BY <1>11 DEF TypeOK, Over, WrongBuild, Asked
  <2>2. \A n \in Fds : table'[n] = Leaked => table[n] = Leaked
    BY <1>11, CloseLeaks DEF WrongBuild
  <2>3. QED
    BY <2>1, <2>2, LeakKeeps
<1>12. ASSUME NEW c \in Conns, UnknownMessage(c)
      PROVE  LeakInv'
  <2>1. \A d \in Conns : pc[d] \in Over => pc'[d] \in Over
    BY <1>12 DEF TypeOK, Over, UnknownMessage, Asked
  <2>2. \A n \in Fds : table'[n] = Leaked => table[n] = Leaked
    BY <1>12, CloseLeaks DEF UnknownMessage
  <2>3. QED
    BY <2>1, <2>2, LeakKeeps
<1>13. ASSUME NEW c \in Conns, NEW t \in Trans, NEW size \in 0 .. bounds.size,
             file_downloadStart(c, t, size)
      PROVE  LeakInv'
  <2>1. \A d \in Conns : pc[d] \in Over => pc'[d] \in Over
    BY <1>13 DEF TypeOK, Over, file_downloadStart, Asked
  <2>2. \A n \in Fds : table'[n] = Leaked => table[n] = Leaked
    BY <1>13, FileStartEffect, EntriesApart DEF file_downloadStart
  <2>3. QED
    BY <2>1, <2>2, LeakKeeps
<1>14. ASSUME NEW c \in Conns, NEW t \in Trans, NEW size \in 0 .. bounds.size,
             NEW e \in BOOLEAN, auth_downloadStart(c, t, size, e)
      PROVE  LeakInv'
  <2>1. \A d \in Conns : pc[d] \in Over => pc'[d] \in Over
    BY <1>14 DEF TypeOK, Over, auth_downloadStart, Asked
  <2>2. \A n \in Fds : table'[n] = Leaked => table[n] = Leaked
    BY <1>14, AuthStartEffect, EntriesApart
  <2>3. QED
    BY <2>1, <2>2, LeakKeeps
<1>15. ASSUME NEW c \in Conns, NEW t \in Trans, auth_downloadNext(c, t)
      PROVE  LeakInv'
  <2>1. \A d \in Conns : pc[d] \in Over => pc'[d] \in Over
    BY <1>15 DEF TypeOK, Over, auth_downloadNext, NextTurn, Asked
  <2>2. \A n \in Fds : table'[n] = Leaked => table[n] = Leaked
    BY <1>15, NextEffect, CloseLeaks DEF Turn
  <2>3. QED
    BY <2>1, <2>2, LeakKeeps
<1>16. ASSUME NEW c \in Conns, NEW t \in Trans, SendFile(c, t)
      PROVE  LeakInv'
  <2>1. \A d \in Conns : pc[d] \in Over => pc'[d] \in Over
    BY <1>16, SendEffect DEF Over
  <2>2. \A n \in Fds : table'[n] = Leaked => table[n] = Leaked
    BY <1>16, SendEffect, CloseLeaks DEF Turn
  <2>3. QED
    BY <2>1, <2>2, LeakKeeps
<1>17. ASSUME NEW c \in Conns, NEW t \in Trans, SendFile_fails(c, t)
      PROVE  LeakInv'
  <2>1. /\ pc[c] = "send" /\ pc'[c] = "failed" /\ \A d \in Conns : d # c => pc'[d] = pc[d]
        /\ \A n \in Fds : table'[n] = IF table[n] = File(c) THEN Leaked ELSE table[n]
    BY <1>17 DEF SendFile_fails, TypeOK
  <2>2. FileOf(c)
    BY DEF FileInv
  <2>3. \A u \in Trans : files[c][u].fd # 0 => u = AnyTrans
    BY <2>1, <2>2 DEF FileOf, NoFile
  <2>4. \A n \in Fds : table[n] = File(c) => n = files[c][AnyTrans].fd
    BY <2>2, <2>3, NoNumber DEF FileOf
  <2>5. pc[c] \notin Over /\ pc'[c] \in Over
    BY <2>1 DEF Over
  <2>6. \A n \in Fds : table'[n] = Leaked => table[n] = Leaked \/ n = files[c][AnyTrans].fd
    BY <2>1, <2>4
  <2>7. QED
    BY <2>1, <2>5, <2>6, LeakOne
<1>18. ASSUME NEW c \in Conns, UseForeign(c)
      PROVE  LeakInv'
  <2>1. \A d \in Conns : pc[d] \in Over => pc'[d] \in Over
    BY <1>18 DEF TypeOK, Over, UseForeign, workerVars
  <2>2. \A n \in Fds : table'[n] = Leaked => table[n] = Leaked
    BY <1>18 DEF UseForeign, workerVars
  <2>3. QED
    BY <2>1, <2>2, LeakKeeps
<1>19. ASSUME NEW c \in Conns, SockHup(c)
      PROVE  LeakInv'
  <2>1. \A d \in Conns : pc[d] \in Over => pc'[d] \in Over
    BY <1>19 DEF TypeOK, Over, SockHup
  <2>2. \A n \in Fds : table'[n] = Leaked => table[n] = Leaked
    BY <1>19 DEF SockHup
  <2>3. QED
    BY <2>1, <2>2, LeakKeeps
<1>19a. ASSUME NEW c \in Conns, auth_asksDaemon(c)
      PROVE  LeakInv'
  <2>1. \A d \in Conns : pc[d] \in Over => pc'[d] \in Over
    BY <1>19a DEF TypeOK, Over, auth_asksDaemon, Asked
  <2>2. \A n \in Fds : table'[n] = Leaked => table[n] = Leaked
    BY <1>19a DEF auth_asksDaemon, Asked
  <2>3. QED
    BY <2>1, <2>2, LeakKeeps
<1>19b. ASSUME NEW c \in Conns, dm_auth_answers(c)
      PROVE  LeakInv'
  <2>1. \A d \in Conns : pc[d] \in Over => pc'[d] \in Over
    BY <1>19b DEF TypeOK, Over, dm_auth_answers
  <2>2. \A n \in Fds : table'[n] = Leaked => table[n] = Leaked
    BY <1>19b DEF dm_auth_answers
  <2>3. QED
    BY <2>1, <2>2, LeakKeeps
<1>20. ASSUME NEW c \in Conns, Erase(c)
      PROVE  LeakInv'
  <2>1. \A d \in Conns : pc[d] \in Over => pc'[d] \in Over
    BY <1>20 DEF TypeOK, Over, Erase
  <2>2. \A n \in Fds : table'[n] = Leaked => table[n] = Leaked
    BY <1>20 DEF Erase
  <2>3. QED
    BY <2>1, <2>2, LeakKeeps
<1>21. ASSUME NEW c \in Conns, FreeSock(c)
      PROVE  LeakInv'
  <2>1. \A d \in Conns : pc[d] \in Over => pc'[d] \in Over
    BY <1>21 DEF TypeOK, Over, FreeSock
  <2>2. \A n \in Fds : table'[n] = Leaked => table[n] = Leaked
    BY <1>21, CloseLeaks DEF FreeSock
  <2>3. QED
    BY <2>1, <2>2, LeakKeeps
<1>22. ASSUME NEW l \in Listeners, Restart(l)
      PROVE  LeakInv'
  <2>1. \A d \in Conns : pc[d] \in Over => pc'[d] \in Over
    BY <1>22 DEF TypeOK, Over, Restart, workerVars
  <2>2. \A n \in Fds : table'[n] = Leaked => table[n] = Leaked
    BY <1>22, StopLeaks DEF Restart
  <2>3. QED
    BY <2>1, <2>2, LeakKeeps
<1>23. ASSUME NEW i \in DOMAIN Shutdown, Stop(i)
      PROVE  LeakInv'
  <2>1. \A d \in Conns : pc[d] \in Over => pc'[d] \in Over
    BY <1>23 DEF TypeOK, Over, Stop, workerVars
  <2>2. \A n \in Fds : table'[n] = Leaked => table[n] = Leaked
    BY <1>23, ClientsFacts, StopLeaks, CloseLeaks
       DEF Stop, ClientsClosed
  <2>3. QED
    BY <2>1, <2>2, LeakKeeps
<1>24. ASSUME StartListener
      PROVE  LeakInv'
  <2>1. \A d \in Conns : pc[d] \in Over => pc'[d] \in Over
    BY <1>24 DEF TypeOK, Over, StartListener, workerVars
  <2>2. \A n \in Fds : table'[n] = Leaked => table[n] = Leaked
    BY <1>24, StartEffect, EntriesApart
  <2>3. QED
    BY <2>1, <2>2, LeakKeeps
<1>25. ASSUME StartListener_fails
      PROVE  LeakInv'
  <2>1. \A d \in Conns : pc[d] \in Over => pc'[d] \in Over
    BY <1>25 DEF TypeOK, Over, StartListener_fails, workerVars
  <2>2. \A n \in Fds : table'[n] = Leaked => table[n] = Leaked
    BY <1>25, CloseLeaks DEF StartListener_fails
  <2>3. QED
    BY <2>1, <2>2, LeakKeeps
<1>26. ASSUME Exit
      PROVE  LeakInv'
  <2>1. \A d \in Conns : pc[d] \in Over => pc'[d] \in Over
    BY <1>26 DEF TypeOK, Over, Exit, workerVars
  <2>2. \A n \in Fds : table'[n] = Leaked => table[n] = Leaked
    BY <1>26, CloseLeaks DEF Exit
  <2>3. QED
    BY <2>1, <2>2, LeakKeeps
<1>27. ASSUME UNCHANGED vars
      PROVE  LeakInv'
  <2>1. \A d \in Conns : pc[d] \in Over => pc'[d] \in Over
    BY <1>27 DEF TypeOK, Over, vars, workerVars
  <2>2. \A n \in Fds : table'[n] = Leaked => table[n] = Leaked
    BY <1>27 DEF vars, workerVars
  <2>3. QED
    BY <2>1, <2>2, LeakKeeps
<1>27a. ASSUME daemon_stuck
      PROVE  LeakInv'
  <2>1. \A d \in Conns : pc[d] \in Over => pc'[d] \in Over
    BY <1>27a DEF TypeOK, Over, daemon_stuck, workerVars
  <2>2. \A n \in Fds : table'[n] = Leaked => table[n] = Leaked
    BY <1>27a DEF daemon_stuck, workerVars
  <2>3. QED
    BY <2>1, <2>2, LeakKeeps
<1>28. \A t \in 1 .. bounds.trans : t \in Trans
  BY BoundsFacts DEF TypeOK
<1>29. ASSUME NEW c \in Conns, Request(c)
      PROVE  LeakInv'
  BY <1>29, <1>10, <1>11, <1>12, <1>13, <1>14, <1>15, <1>19a, <1>28 DEF Request
<1>30. ASSUME NEW c \in Conns, WorkerStep(c)
      PROVE  LeakInv'
  BY <1>30, <1>29, <1>8, <1>9, <1>19, <1>20, <1>21, <1>17 DEF WorkerStep
<1>31. ASSUME NEW l \in Listeners, ListenerStep(l)
      PROVE  LeakInv'
  BY <1>31, <1>3, <1>3a, <1>4, <1>7, <1>6 DEF ListenerStep
<1>32. QED
  BY <1>1, <1>2, <1>2a, <1>5, <1>16, <1>18, <1>19b, <1>22, <1>23, <1>24, <1>25, <1>26,
     <1>27, <1>27a, <1>30, <1>31
     DEF Next

-----------------------------------------------------------------------------
\* Closing numbers makes a thread leave its loop, never disappear.
LEMMA CloseLobby ==
    ASSUME TypeOK, NEW ns, NEW th, th \in [Listeners -> Threads], CloseSock(ns, th),
           th["lobby"].pc # "none"
    PROVE  thread'["lobby"].pc # "none"
<1>1. "lobby" \in Listeners /\ th["lobby"] \in Threads
  BY DEF Listeners
<1>2. thread'["lobby"] = IF th["lobby"].pc = "accept" /\ th["lobby"].fd \in ns
                         THEN [th["lobby"] EXCEPT !.pc = "left"] ELSE th["lobby"]
  BY <1>1, CloseEffects
<1>3. [th["lobby"] EXCEPT !.pc = "left"].pc = "left"
  BY <1>1 DEF Threads
<1>4. QED
  BY <1>2, <1>3

\* The threads as they are.
LEMMA SameLobby ==
    ASSUME TypeOK, MainInv, NEW ns, CloseSock(ns, thread)
    PROVE  thread'["lobby"].pc # "none"
<1>1. thread \in [Listeners -> Threads] /\ thread["lobby"].pc # "none"
  BY DEF TypeOK, MainInv
<1>2. QED
  BY <1>1, CloseLobby

\* A listening service is stopped early, unless its thread does not exist, which is
\* the status server's.
LEMMA StopMain ==
    ASSUME TypeOK, MainInv, NEW l \in Listeners, StopListener(l)
    PROVE  /\ thread'["lobby"].pc # "none"
           /\ \/ early'
              \/ /\ l = "status" /\ ~early'
                 /\ UNCHANGED <<table, peer, queue, thread, early>>
<1>1. thread["lobby"].pc # "none" /\ early \in BOOLEAN
  BY DEF MainInv, TypeOK
<1>2. CASE thread[l].pc = "none"
  <2>1. UNCHANGED <<table, peer, queue, thread, early>> /\ l = "status"
    BY <1>1, <1>2 DEF StopListener, Listeners
  <2>2. QED
    BY <1>1, <2>1
<1>3. CASE thread[l].pc # "none"
  <2>1. early' /\ \E ns : CloseSock(ns, thread)
    BY <1>3 DEF StopListener
  <2>2. QED
    BY <2>1, SameLobby
<1>4. QED
  BY <1>2, <1>3

\* The lobby's thread is never gone, and quit and restart stop it early.
LEMMA MainStep ==
    ASSUME TypeOK, ListenInv, MainInv, [Next]_vars
    PROVE  MainInv'
<1>1. ASSUME NEW c \in Conns, NEW l \in Listeners, Connect(c, l)
      PROVE  MainInv'
  BY <1>1 DEF MainInv, Connect, workerVars
<1>2. ASSUME NEW c \in Conns, PeerCloses(c)
      PROVE  MainInv'
  BY <1>2 DEF MainInv, PeerCloses
<1>2a. ASSUME NEW c \in Conns, KeepsTalking(c)
      PROVE  MainInv'
  BY <1>2a DEF MainInv, KeepsTalking, workerVars
<1>3. ASSUME NEW l \in Listeners, AcceptSock_call(l)
      PROVE  MainInv'
  <2>1. thread'["lobby"].pc # "none"
    BY <1>3 DEF AcceptSock_call, MainInv, TypeOK, Threads, Listeners
  <2>2. QED
    BY <1>3, <2>1 DEF MainInv, AcceptSock_call, workerVars
<1>3a. ASSUME NEW l \in Listeners, AcceptSock_full(l)
      PROVE  MainInv'
  <2>1. thread'["lobby"].pc # "none"
    BY <1>3a DEF AcceptSock_full, MainInv, TypeOK, Threads, Listeners
  <2>2. QED
    BY <1>3a, <2>1 DEF MainInv, AcceptSock_full, workerVars
<1>4. ASSUME NEW l \in Listeners, AcceptSock(l)
      PROVE  MainInv'
  <2>1. thread'["lobby"].pc # "none"
    BY <1>4, AcceptEffect DEF MainInv, Listeners
  <2>2. QED
    BY <1>4, <2>1 DEF MainInv, AcceptSock
<1>5. ASSUME NEW c \in Conns, NEW k \in Workers, dm_lobby(c, k)
      PROVE  MainInv'
  <2>1. thread'["lobby"].pc = "loop"
    BY <1>5, LoopFacts DEF dm_lobby, Listeners
  <2>2. QED
    BY <1>5, <2>1 DEF MainInv, dm_lobby
<1>6. ASSUME NEW l \in Listeners, NEW c \in Conns, FreeClient(l, c)
      PROVE  MainInv'
  <2>1. Loops(l) \in [Listeners -> Threads] /\ Loops(l)["lobby"].pc # "none"
    BY LoopFacts DEF MainInv, Listeners
  <2>2. thread'["lobby"].pc # "none"
    BY <1>6, <2>1, CloseLobby DEF FreeClient
  <2>3. QED
    BY <1>6, <2>2 DEF MainInv, FreeClient
<1>7. ASSUME NEW l \in Listeners, Leave(l)
      PROVE  MainInv'
  <2> DEFINE th == [thread EXCEPT ![l].pc = "off"]
  <2>1. CloseSock({thread[l].fd}, th) /\ UNCHANGED <<main, early>>
    BY <1>7 DEF Leave
  <2>2. th \in [Listeners -> Threads] /\ th["lobby"].pc # "none"
    BY OffFacts DEF MainInv, Listeners
  <2> HIDE DEF th
  <2>3. thread'["lobby"].pc # "none"
    BY <2>1, <2>2, CloseLobby
  <2>4. QED
    BY <2>1, <2>3 DEF MainInv
<1>8. ASSUME NEW c \in Conns, Register(c)
      PROVE  MainInv'
  BY <1>8 DEF MainInv, Register
<1>9. ASSUME NEW c \in Conns, auth_init_fails(c)
      PROVE  MainInv'
  BY <1>9 DEF MainInv, auth_init_fails
<1>10. ASSUME NEW c \in Conns, gate_answer(c) \/ file_answer(c) \/ auth_answer(c)
      PROVE  MainInv'
  BY <1>10 DEF MainInv, gate_answer, file_answer, auth_answer, Answer, Asked
<1>11. ASSUME NEW c \in Conns, WrongBuild(c)
      PROVE  MainInv'
  <2>1. thread'["lobby"].pc # "none"
    BY <1>11, SameLobby DEF WrongBuild
  <2>2. QED
    BY <1>11, <2>1 DEF MainInv, TypeOK, WrongBuild, Asked
<1>12. ASSUME NEW c \in Conns, UnknownMessage(c)
      PROVE  MainInv'
  <2>1. thread'["lobby"].pc # "none"
    BY <1>12, SameLobby DEF UnknownMessage
  <2>2. QED
    BY <1>12, <2>1 DEF MainInv, TypeOK, UnknownMessage, Asked
<1>13. ASSUME NEW c \in Conns, NEW t \in Trans, NEW size \in 0 .. bounds.size,
             file_downloadStart(c, t, size)
      PROVE  MainInv'
  BY <1>13 DEF MainInv, file_downloadStart, Asked
<1>14. ASSUME NEW c \in Conns, NEW t \in Trans, NEW size \in 0 .. bounds.size,
             NEW e \in BOOLEAN, auth_downloadStart(c, t, size, e)
      PROVE  MainInv'
  BY <1>14 DEF MainInv, auth_downloadStart, Asked
<1>15. ASSUME NEW c \in Conns, NEW t \in Trans, auth_downloadNext(c, t)
      PROVE  MainInv'
  <2>1. thread'["lobby"].pc # "none"
    BY <1>15, NextEffect, SameLobby DEF Turn, MainInv
  <2>2. QED
    BY <1>15, <2>1 DEF MainInv, auth_downloadNext, NextTurn, Asked
<1>16. ASSUME NEW c \in Conns, NEW t \in Trans, SendFile(c, t)
      PROVE  MainInv'
  <2>1. thread'["lobby"].pc # "none"
    BY <1>16, SendEffect, SameLobby DEF Turn
  <2>2. QED
    BY <1>16, <2>1 DEF MainInv, SendFile, SendTurn
<1>17. ASSUME NEW c \in Conns, NEW t \in Trans, SendFile_fails(c, t)
      PROVE  MainInv'
  BY <1>17 DEF MainInv, SendFile_fails
<1>18. ASSUME NEW c \in Conns, UseForeign(c)
      PROVE  MainInv'
  BY <1>18 DEF MainInv, UseForeign, workerVars
<1>19. ASSUME NEW c \in Conns, SockHup(c)
      PROVE  MainInv'
  BY <1>19 DEF MainInv, SockHup
<1>19a. ASSUME NEW c \in Conns, auth_asksDaemon(c)
      PROVE  MainInv'
  BY <1>19a DEF MainInv, auth_asksDaemon, Asked
<1>19b. ASSUME NEW c \in Conns, dm_auth_answers(c)
      PROVE  MainInv'
  BY <1>19b DEF MainInv, dm_auth_answers
<1>20. ASSUME NEW c \in Conns, Erase(c)
      PROVE  MainInv'
  BY <1>20 DEF MainInv, Erase
<1>21. ASSUME NEW c \in Conns, FreeSock(c)
      PROVE  MainInv'
  <2>1. thread'["lobby"].pc # "none"
    BY <1>21, SameLobby DEF FreeSock
  <2>2. QED
    BY <1>21, <2>1 DEF MainInv, TypeOK, FreeSock
<1>22. ASSUME NEW l \in Listeners, Restart(l)
      PROVE  MainInv'
  <2>1. main' = [pc |-> "restart", at |-> l]
    BY <1>22 DEF Restart
  <2>2. main'.pc = "restart" /\ main'.at = l
    BY <2>1
  <2>3. thread'["lobby"].pc # "none" /\ (early' \/ l = "status")
    BY <1>22, StopMain DEF Restart
  <2>4. QED
    BY <2>2, <2>3 DEF MainInv
<1>23. ASSUME NEW i \in DOMAIN Shutdown, Stop(i)
      PROVE  MainInv'
  <2>1. /\ main' = [pc |-> "quit", at |-> Shutdown[i]]
        /\ i = 1 \/ main = [pc |-> "quit", at |-> Shutdown[i - 1]]
    BY <1>23 DEF Stop
  <2>2. /\ main'.pc = "quit" /\ main'.at = Shutdown[i]
        /\ i = 1 \/ (main.pc = "quit" /\ main.at = Shutdown[i - 1])
    BY <2>1
  <2>3. CASE Shutdown[i] \in Listeners
    <3>1. thread'["lobby"].pc # "none" /\ (early' \/ Shutdown[i] = "status")
      BY <1>23, <2>3, StopMain DEF Stop
    <3>2. QED
      BY <2>2, <3>1 DEF MainInv
  <2>4. CASE Shutdown[i] \notin Listeners
    <3>1. CloseClients(Shutdown[i])
      BY <1>23, <2>4 DEF Stop
    <3>2. thread'["lobby"].pc # "none" /\ (early => early')
      BY <3>1, ClientsFacts, SameLobby DEF ClientsClosed, MainInv
    <3>3. /\ i \in 1 .. Len(Shutdown) /\ Len(Shutdown) \in {4, 5}
          /\ Shutdown[1] \in Listeners
          /\ \A j \in 2 .. Len(Shutdown) : Shutdown[j - 1] = "status" => Shutdown[j] = "lobby"
      BY ShutdownFacts DEF TypeOK
    <3>4. i \in 2 .. Len(Shutdown)
      BY <2>4, <3>3
    <3>5. main.at # "status" /\ main.pc = "quit"
      BY <2>2, <2>4, <3>3, <3>4 DEF Listeners
    <3>6. early
      BY <3>5 DEF MainInv
    <3>7. QED
      BY <3>2, <3>6 DEF MainInv
  <2>5. QED
    BY <2>3, <2>4
<1>24. ASSUME StartListener
      PROVE  MainInv'
  <2>1. thread'["lobby"].pc # "none"
    BY <1>24, StartEffect DEF MainInv, Listeners
  <2>2. main'.pc = "run"
    BY <1>24 DEF StartListener
  <2>3. QED
    BY <2>1, <2>2 DEF MainInv
<1>25. ASSUME StartListener_fails
      PROVE  MainInv'
  <2>1. main.pc = "restart" /\ early' = early
    BY <1>25 DEF StartListener_fails
  <2>2. CASE main.at = "status"
    <3>1. main'.pc = "run" /\ thread' = [thread EXCEPT !["status"] = NoThread]
      BY <1>25, <2>2 DEF StartListener_fails
    <3>2. thread'["lobby"].pc # "none"
      BY <3>1 DEF MainInv, TypeOK, Listeners
    <3>3. QED
      BY <3>1, <3>2 DEF MainInv
  <2>3. CASE main.at = "lobby"
    <3>1. thread'["lobby"].pc # "none"
      BY <1>25, <2>3, SameLobby DEF StartListener_fails
    <3>2. early
      BY <2>1, <2>3 DEF MainInv
    <3>3. QED
      BY <2>1, <3>1, <3>2 DEF MainInv
  <2>4. QED
    BY <1>25, <2>2, <2>3 DEF StartListener_fails
<1>26. ASSUME Exit
      PROVE  MainInv'
  <2>1. early' = early /\ main = [pc |-> "quit", at |-> Shutdown[Len(Shutdown)]]
    BY <1>26 DEF Exit
  <2>2. main.pc = "quit" /\ main.at = "file"
    BY <2>1, ShutdownFacts DEF TypeOK
  <2>3. thread'["lobby"].pc # "none"
    BY <1>26, SameLobby DEF Exit
  <2>4. QED
    BY <2>1, <2>2, <2>3 DEF MainInv
<1>27. ASSUME UNCHANGED vars
      PROVE  MainInv'
  BY <1>27 DEF MainInv, vars
<1>27a. ASSUME daemon_stuck
      PROVE  MainInv'
  BY <1>27a DEF MainInv, daemon_stuck, workerVars
<1>28. \A t \in 1 .. bounds.trans : t \in Trans
  BY BoundsFacts DEF TypeOK
<1>29. ASSUME NEW c \in Conns, Request(c)
      PROVE  MainInv'
  BY <1>29, <1>10, <1>11, <1>12, <1>13, <1>14, <1>15, <1>19a, <1>28 DEF Request
<1>30. ASSUME NEW c \in Conns, WorkerStep(c)
      PROVE  MainInv'
  BY <1>30, <1>29, <1>8, <1>9, <1>19, <1>20, <1>21, <1>17 DEF WorkerStep
<1>31. ASSUME NEW l \in Listeners, ListenerStep(l)
      PROVE  MainInv'
  BY <1>31, <1>3, <1>3a, <1>4, <1>7, <1>6 DEF ListenerStep
<1>32. QED
  BY <1>1, <1>2, <1>2a, <1>5, <1>16, <1>18, <1>19b, <1>22, <1>23, <1>24, <1>25, <1>26,
     <1>27, <1>27a, <1>30, <1>31
     DEF Next

-----------------------------------------------------------------------------
\* The numbers that are stored, while nothing was closed early.
LEMMA OwnFacts ==
    ASSUME TypeOK, OwnInv, ~early
    PROVE  /\ ~mixed
           /\ \A l \in Listeners : /\ thread[l].fd \in Fds
                                   /\ thread[l].pc # "none" =>
                                        /\ thread[l].pc \in Listening
                                        /\ table[thread[l].fd] = Listen(l)
           /\ \A c \in Conns : sock[c] # 0 => sock[c] \in Fds /\ table[sock[c]] = Sock(c)
           /\ \A c \in Conns, t \in Trans : files[c][t].fd # 0 =>
                 files[c][t].fd \in Fds /\ table[files[c][t].fd] = File(c)
           /\ \A c \in Conns : \A t, u \in Trans :
                 (t # u /\ files[c][t].fd # 0) => files[c][t].fd # files[c][u].fd
<1>1. \A l \in Listeners : thread[l].fd \in Fds
  BY DEF TypeOK, Threads
<1>2. \A n \in 0 .. MaxFd : n # 0 => n \in Fds
  BY ConnectionsAssumption DEF Fds
<1>3. \A c \in Conns : sock[c] \in 0 .. MaxFd
  BY DEF TypeOK
<1>4. \A c \in Conns, t \in Trans : files[c][t].fd \in 0 .. MaxFd
  <2>1. \A c \in Conns, t \in Trans : files[c][t] \in Downloads
    BY DEF TypeOK
  <2>2. QED
    BY <2>1 DEF Downloads
<1>5. QED
  BY <1>1, <1>2, <1>3, <1>4 DEF OwnInv

\* Closing numbers that nobody else has stored.
LEMMA OwnClose ==
    ASSUME TypeOK, OwnInv, ~early, mixed' = mixed, NEW ns, NEW th, CloseSock(ns, th),
           \A l \in Listeners : th[l].pc # "none" =>
              /\ thread[l].pc # "none" /\ th[l].pc \in Listening /\ th[l].fd = thread[l].fd
              /\ thread[l].fd \notin ns,
           \A c \in Conns : sock'[c] # 0 => sock'[c] = sock[c] /\ sock[c] \notin ns,
           \A c \in Conns, t \in Trans : files'[c][t].fd # 0 =>
              files'[c][t].fd = files[c][t].fd /\ files[c][t].fd \notin ns
    PROVE  OwnInv'
<1>1. /\ \A n \in Fds : table'[n] = IF n \in ns THEN Free ELSE table[n]
      /\ \A l \in Listeners :
            thread'[l] = IF th[l].pc = "accept" /\ th[l].fd \in ns
                         THEN [th[l] EXCEPT !.pc = "left"] ELSE th[l]
  BY CloseEffects
<1>2. \A l \in Listeners : th[l].pc = "accept" => th[l].fd \notin ns
  OBVIOUS
<1>3. \A l \in Listeners : thread'[l] = th[l]
  BY <1>1, <1>2
<1>4. \A l \in Listeners : thread'[l].pc # "none" =>
         thread'[l].pc \in Listening /\ table'[thread'[l].fd] = Listen(l)
  BY <1>1, <1>3, OwnFacts
<1>5. \A c \in Conns : sock'[c] # 0 => table'[sock'[c]] = Sock(c)
  BY <1>1, OwnFacts
<1>6. \A c \in Conns, t \in Trans :
         files'[c][t].fd # 0 => table'[files'[c][t].fd] = File(c)
  BY <1>1, OwnFacts
<1>7. ASSUME NEW c \in Conns, NEW t \in Trans, NEW u \in Trans, t # u, files'[c][t].fd # 0
      PROVE  files'[c][t].fd # files'[c][u].fd
  <2>1. files'[c][t].fd = files[c][t].fd /\ files[c][t].fd # files[c][u].fd
    BY <1>7, OwnFacts
  <2>2. CASE files'[c][u].fd = 0
    BY <1>7, <2>2
  <2>3. CASE files'[c][u].fd # 0
    BY <2>1, <2>3
  <2>4. QED
    BY <2>2, <2>3
<1>8. QED
  BY <1>4, <1>5, <1>6, <1>7, OwnFacts DEF OwnInv

\* A step that leaves every stored number and its entry as they are.
LEMMA OwnKeeps ==
    ASSUME TypeOK, OwnInv, ~early, mixed' = mixed, NEW n,
           \A m \in Fds : m # n => table'[m] = table[m],
           n \in Fds => table[n] = Free,
           \A l \in Listeners : thread'[l].pc # "none" =>
              \/ /\ thread[l].pc # "none" /\ thread'[l].pc \in Listening
                 /\ thread'[l].fd = thread[l].fd
              \/ thread'[l].pc \in Listening /\ table'[thread'[l].fd] = Listen(l),
           \A c \in Conns : sock'[c] = sock[c] \/ table'[sock'[c]] = Sock(c),
           \A c \in Conns, t \in Trans :
              files'[c][t].fd = files[c][t].fd \/ table'[files'[c][t].fd] = File(c),
           \A c \in Conns, t \in Trans :
              files'[c][t].fd = files[c][t].fd
                \/ (/\ files'[c][t].fd = n /\ n \in Fds
                    /\ \A u \in Trans : u # t => files'[c][u] = files[c][u])
    PROVE  OwnInv'
<1>1. /\ \A l \in Listeners : thread[l].pc # "none" =>
            thread[l].fd \in Fds /\ thread[l].fd # n /\ table[thread[l].fd] = Listen(l)
      /\ \A c \in Conns : sock[c] # 0 =>
            sock[c] \in Fds /\ sock[c] # n /\ table[sock[c]] = Sock(c)
      /\ \A c \in Conns, t \in Trans : files[c][t].fd # 0 =>
            /\ files[c][t].fd \in Fds /\ files[c][t].fd # n
            /\ table[files[c][t].fd] = File(c)
  BY OwnFacts, EntriesApart
<1>2. \A l \in Listeners : thread'[l].pc # "none" =>
         thread'[l].pc \in Listening /\ table'[thread'[l].fd] = Listen(l)
  BY <1>1
<1>3. \A c \in Conns : sock'[c] # 0 => table'[sock'[c]] = Sock(c)
  BY <1>1
<1>4. \A c \in Conns, t \in Trans :
         files'[c][t].fd # 0 => table'[files'[c][t].fd] = File(c)
  BY <1>1
<1>5. ASSUME NEW c \in Conns, NEW t \in Trans, NEW u \in Trans, t # u, files'[c][t].fd # 0
      PROVE  files'[c][t].fd # files'[c][u].fd
  <2>1. CASE files'[c][t].fd = files[c][t].fd /\ files'[c][u].fd = files[c][u].fd
    BY <1>5, <2>1, OwnFacts
  <2>2. CASE files'[c][t].fd # files[c][t].fd
    <3>1. files'[c][t].fd = n /\ n \in Fds /\ files'[c][u] = files[c][u]
      BY <1>5, <2>2
    <3>2. QED
      BY <1>1, <3>1, NoNumber
  <2>3. CASE files'[c][u].fd # files[c][u].fd
    <3>1. files'[c][u].fd = n /\ n \in Fds /\ files'[c][t] = files[c][t]
      BY <1>5, <2>3
    <3>2. QED
      BY <1>1, <1>5, <3>1
  <2>4. QED
    BY <2>1, <2>2, <2>3
<1>6. QED
  BY <1>2, <1>3, <1>4, <1>5, OwnFacts DEF OwnInv

\* Closing nothing.
LEMMA CloseNone ==
    ASSUME TypeOK, OwnInv, ~early, CloseSock({}, thread), mixed' = mixed, sock' = sock,
           \A c \in Conns, t \in Trans : files'[c][t].fd = files[c][t].fd
    PROVE  OwnInv'
BY OwnFacts, OwnClose

\* The next chunk of a download, after whose last one its own file is closed.
LEMMA OwnTurn ==
    ASSUME TypeOK, OwnInv, ~early, mixed' = mixed, sock' = sock,
           NEW c \in Conns, NEW t \in Trans, Turn(c, t)
    PROVE  OwnInv'
<1>1. \A d \in Conns, u \in Trans : ~(d = c /\ u = t) => files'[d][u] = files[d][u]
  BY DEF Turn
<1>2. CASE files[c][t].pos + 1 = files[c][t].size
  <2> DEFINE ns == {files[c][t].fd}
  <2>1. files'[c][t].fd = 0 /\ CloseSock(ns, thread)
    BY <1>2 DEF Turn, NoFile
  <2>2. \A n \in ns : n = files[c][t].fd /\ (n = 0 \/ (n \in Fds /\ table[n] = File(c)))
    BY OwnFacts
  <2> HIDE DEF ns
  <2>3. \A l \in Listeners : thread[l].pc # "none" =>
           thread[l].pc \in Listening /\ thread[l].fd \notin ns
    BY <2>2, OwnFacts, EntriesApart, NoNumber
  <2>4. \A d \in Conns : sock'[d] # 0 => sock'[d] = sock[d] /\ sock[d] \notin ns
    BY <2>2, OwnFacts, EntriesApart
  <2>5. ASSUME NEW d \in Conns, NEW u \in Trans, files'[d][u].fd # 0
        PROVE  files'[d][u].fd = files[d][u].fd /\ files[d][u].fd \notin ns
    <3>1. ~(d = c /\ u = t) /\ files'[d][u] = files[d][u]
      BY <1>1, <2>1, <2>5
    <3>2. CASE d = c
      BY <2>2, <2>5, <3>1, <3>2, OwnFacts
    <3>3. CASE d # c
      BY <2>2, <2>5, <3>1, <3>3, OwnFacts, EntriesApart
    <3>4. QED
      BY <3>2, <3>3
  <2>6. QED
    BY <2>1, <2>3, <2>4, <2>5, OwnClose
<1>3. CASE files[c][t].pos + 1 # files[c][t].size
  BY <1>1, <1>3, CloseNone DEF Turn
<1>4. QED
  BY <1>2, <1>3

\* While nothing was closed early a step leaves every stored number its entry.
LEMMA OwnStep ==
    ASSUME TypeOK, ListenInv, HandleInv, FileInv, MainInv, OwnInv, [Next]_vars
    PROVE  OwnInv'
<1>1. ASSUME NEW c \in Conns, NEW l \in Listeners, Connect(c, l)
      PROVE  OwnInv'
  BY <1>1 DEF OwnInv, Connect, workerVars
<1>2. ASSUME NEW c \in Conns, PeerCloses(c)
      PROVE  OwnInv'
  BY <1>2 DEF OwnInv, PeerCloses
<1>2a. ASSUME NEW c \in Conns, KeepsTalking(c)
      PROVE  OwnInv'
  BY <1>2a DEF OwnInv, KeepsTalking, workerVars
<1>3. ASSUME NEW l \in Listeners, AcceptSock_call(l)
      PROVE  OwnInv'
  <2> SUFFICES ASSUME ~early'
               PROVE  OwnInv'
    BY DEF OwnInv
  <2>1. ~early /\ UNCHANGED <<table, sock, files, mixed>> /\ thread[l].pc = "loop"
    BY <1>3 DEF AcceptSock_call, workerVars
  <2>2. table[thread[l].fd].kind = "listen"
    BY <2>1, OwnFacts, EntriesApart
  <2>3. thread' = [thread EXCEPT ![l].pc = "accept"]
    BY <1>3, <2>2 DEF AcceptSock_call
  <2>4. /\ thread'[l].pc = "accept" /\ thread'[l].fd = thread[l].fd
        /\ \A m \in Listeners : m # l => thread'[m] = thread[m]
    BY <2>3 DEF TypeOK, Threads
  <2>5. \A m \in Listeners : thread'[m].pc # "none" =>
           /\ thread[m].pc # "none" /\ thread'[m].pc \in Listening
           /\ thread'[m].fd = thread[m].fd
    BY <2>1, <2>4, OwnFacts DEF Listening
  <2>6. QED
    BY <2>1, <2>5 DEF OwnInv
<1>3a. ASSUME NEW l \in Listeners, AcceptSock_full(l)
      PROVE  OwnInv'
  <2> SUFFICES ASSUME ~early'
               PROVE  OwnInv'
    BY DEF OwnInv
  <2>1. ~early /\ UNCHANGED <<table, sock, files, mixed>> /\ thread[l].pc = "accept"
    BY <1>3a DEF AcceptSock_full, workerVars
  <2>2. /\ thread'[l].pc = "loop" /\ thread'[l].fd = thread[l].fd
        /\ \A m \in Listeners : m # l => thread'[m] = thread[m]
    BY <1>3a DEF AcceptSock_full, TypeOK, Threads
  <2>3. \A m \in Listeners : thread'[m].pc # "none" =>
           /\ thread[m].pc # "none" /\ thread'[m].pc \in Listening
           /\ thread'[m].fd = thread[m].fd
    BY <2>1, <2>2, OwnFacts DEF Listening
  <2>4. QED
    BY <2>1, <2>3 DEF OwnInv
<1>4. ASSUME NEW l \in Listeners, AcceptSock(l)
      PROVE  OwnInv'
  <2> SUFFICES ASSUME ~early'
               PROVE  OwnInv'
    BY DEF OwnInv
  <2>1. ~early /\ UNCHANGED <<files, mixed>>
    BY <1>4 DEF AcceptSock
  <2>2. PICK c \in Conns, n \in Fds :
          /\ table[n] = Free /\ thread[l].pc = "accept"
          /\ \A m \in Fds : table'[m] = IF m = n THEN Sock(c) ELSE table[m]
          /\ \A d \in Conns : sock'[d] = IF d = c THEN n ELSE sock[d]
          /\ thread'[l].pc = "header" /\ thread'[l].fd = thread[l].fd
          /\ \A m \in Listeners : m # l => thread'[m] = thread[m]
    BY <1>4, AcceptEffect
  <2>3. \A m \in Listeners : thread'[m].pc # "none" =>
           /\ thread[m].pc # "none" /\ thread'[m].pc \in Listening
           /\ thread'[m].fd = thread[m].fd
    BY <2>1, <2>2, OwnFacts DEF Listening
  <2>4. \A d \in Conns : sock'[d] = sock[d] \/ table'[sock'[d]] = Sock(d)
    BY <2>2
  <2>5. \A m \in Fds : m # n => table'[m] = table[m]
    BY <2>2
  <2>6. QED
    BY <2>1, <2>2, <2>3, <2>4, <2>5, OwnKeeps
<1>5. ASSUME NEW c \in Conns, NEW k \in Workers, dm_lobby(c, k)
      PROVE  OwnInv'
  <2> SUFFICES ASSUME ~early'
               PROVE  OwnInv'
    BY DEF OwnInv
  <2>1. ~early /\ UNCHANGED <<table, sock, files, mixed>> /\ thread["lobby"].pc = "header"
    BY <1>5 DEF dm_lobby
  <2>2. /\ thread'["lobby"].pc = "loop" /\ thread'["lobby"].fd = thread["lobby"].fd
        /\ \A m \in Listeners : m # "lobby" => thread'[m] = thread[m]
    BY <1>5, LoopFacts DEF dm_lobby, Listeners
  <2>3. \A m \in Listeners : thread'[m].pc # "none" =>
           /\ thread[m].pc # "none" /\ thread'[m].pc \in Listening
           /\ thread'[m].fd = thread[m].fd
    BY <2>1, <2>2, OwnFacts DEF Listening
  <2>4. QED
    BY <2>1, <2>3 DEF OwnInv
<1>6. ASSUME NEW l \in Listeners, NEW c \in Conns, FreeClient(l, c)
      PROVE  OwnInv'
  <2> SUFFICES ASSUME ~early'
               PROVE  OwnInv'
    BY DEF OwnInv
  <2> DEFINE ns == {sock[c]}
  <2>1. /\ CloseSock(ns, Loops(l)) /\ ~early /\ UNCHANGED <<files, mixed>>
        /\ thread[l].pc = "header" /\ thread[l].conn = c
    BY <1>6 DEF FreeClient
  <2>2. \A d \in Conns : sock'[d] = IF d = c THEN 0 ELSE sock[d]
    BY <1>6 DEF FreeClient, TypeOK
  <2>3. \A n \in ns : n \in Fds /\ table[n] = Sock(c)
    BY <2>1, OwnFacts DEF HandleInv
  <2> HIDE DEF ns
  <2>4. \A m \in Listeners : Loops(l)[m].pc # "none" =>
           /\ thread[m].pc # "none" /\ Loops(l)[m].pc \in Listening
           /\ Loops(l)[m].fd = thread[m].fd
    BY <2>1, LoopFacts, OwnFacts DEF Listening
  <2>5. \A m \in Listeners : thread[m].pc # "none" => thread[m].fd \notin ns
    BY <2>1, <2>3, OwnFacts, EntriesApart
  <2>6. \A d \in Conns : sock'[d] # 0 => sock'[d] = sock[d] /\ sock[d] \notin ns
    BY <2>1, <2>2, <2>3, OwnFacts, EntriesApart
  <2>7. \A d \in Conns, u \in Trans : files[d][u].fd # 0 => files[d][u].fd \notin ns
    BY <2>1, <2>3, OwnFacts, EntriesApart
  <2>8. QED
    BY <2>1, <2>4, <2>5, <2>6, <2>7, OwnClose
<1>7. ASSUME NEW l \in Listeners, Leave(l)
      PROVE  OwnInv'
  <2>1. thread[l].pc = "left" /\ early' = early
    BY <1>7 DEF Leave
  <2>2. early
    BY <2>1 DEF OwnInv, Listening
  <2>3. QED
    BY <2>1, <2>2 DEF OwnInv
<1>8. ASSUME NEW c \in Conns, Register(c)
      PROVE  OwnInv'
  BY <1>8 DEF OwnInv, Register
<1>9. ASSUME NEW c \in Conns, auth_init_fails(c)
      PROVE  OwnInv'
  BY <1>9 DEF OwnInv, auth_init_fails
<1>10. ASSUME NEW c \in Conns, gate_answer(c) \/ file_answer(c) \/ auth_answer(c)
      PROVE  OwnInv'
  BY <1>10 DEF OwnInv, gate_answer, file_answer, auth_answer, Answer, Asked
<1>11. ASSUME NEW c \in Conns, WrongBuild(c)
      PROVE  OwnInv'
  BY <1>11 DEF OwnInv, WrongBuild
<1>12. ASSUME NEW c \in Conns, UnknownMessage(c)
      PROVE  OwnInv'
  BY <1>12 DEF OwnInv, UnknownMessage
<1>13. ASSUME NEW c \in Conns, NEW t \in Trans, NEW size \in 0 .. bounds.size,
             file_downloadStart(c, t, size)
      PROVE  OwnInv'
  <2> SUFFICES ASSUME ~early'
               PROVE  OwnInv'
    BY DEF OwnInv
  <2>1. ~early /\ UNCHANGED <<sock, thread, mixed>>
    BY <1>13 DEF file_downloadStart, Asked
  <2>2. CASE size = 0
    <3>1. UNCHANGED <<table, files>>
      BY <1>13, <2>2 DEF file_downloadStart
    <3>2. QED
      BY <2>1, <3>1 DEF OwnInv
  <2>3. CASE size # 0
    <3>1. PICK n \in Fds :
            /\ table[n] = Free
            /\ \A m \in Fds : table'[m] = IF m = n THEN File(c) ELSE table[m]
            /\ files'[c][t].fd = n
            /\ \A d \in Conns, u \in Trans : ~(d = c /\ u = t) => files'[d][u] = files[d][u]
      BY <1>13, <2>3, FileStartEffect
    <3>2. QED
      BY <2>1, <3>1, OwnFacts, OwnKeeps
  <2>4. QED
    BY <2>2, <2>3
<1>14. ASSUME NEW c \in Conns, NEW t \in Trans, NEW size \in 0 .. bounds.size,
             NEW e \in BOOLEAN, auth_downloadStart(c, t, size, e)
      PROVE  OwnInv'
  <2> SUFFICES ASSUME ~early'
               PROVE  OwnInv'
    BY DEF OwnInv
  <2>1. ~early /\ UNCHANGED <<sock, thread, mixed>>
    BY <1>14 DEF auth_downloadStart, Asked
  <2>2. CASE UNCHANGED <<table, files>>
    BY <2>1, <2>2 DEF OwnInv
  <2>3. CASE size > 1
    <3>1. PICK n \in 0 .. MaxFd :
            /\ n # 0 => n \in Fds /\ table[n] = Free
            /\ \A m \in Fds : table'[m] = IF m = n THEN File(c) ELSE table[m]
            /\ files'[c][t].fd = n
            /\ \A d \in Conns, u \in Trans : ~(d = c /\ u = t) => files'[d][u] = files[d][u]
      BY <1>14, <2>3, AuthStartEffect
    <3>2. CASE n # 0
      BY <2>1, <3>1, <3>2, OwnFacts, OwnKeeps
    <3>3. CASE n = 0
      <4>1. \A m \in Fds : table'[m] = table[m]
        BY <3>1, <3>3, NoNumber
      <4>2. \A d \in Conns, u \in Trans : files'[d][u].fd # 0 => files'[d][u].fd = files[d][u].fd
        BY <3>1, <3>3
      <4>3. QED
        BY <2>1, <4>1, <4>2, OwnFacts DEF OwnInv
    <3>4. QED
      BY <3>2, <3>3
  <2>4. QED
    BY <1>14, <2>2, <2>3, AuthStartEffect
<1>15. ASSUME NEW c \in Conns, NEW t \in Trans, auth_downloadNext(c, t)
      PROVE  OwnInv'
  <2> SUFFICES ASSUME ~early'
               PROVE  OwnInv'
    BY DEF OwnInv
  <2>1. ~early /\ UNCHANGED <<sock, mixed>>
    BY <1>15 DEF auth_downloadNext, NextTurn, Asked
  <2>2. CASE Turn(c, t)
    BY <2>1, <2>2, OwnTurn
  <2>3. CASE UNCHANGED <<files, got, table, peer, queue, thread>>
    BY <2>1, <2>3 DEF OwnInv
  <2>4. QED
    BY <1>15, <2>2, <2>3, NextEffect
<1>16. ASSUME NEW c \in Conns, NEW t \in Trans, SendFile(c, t)
      PROVE  OwnInv'
  <2> SUFFICES ASSUME ~early'
               PROVE  OwnInv'
    BY DEF OwnInv
  <2>1. ~early /\ UNCHANGED <<sock, mixed>>
    BY <1>16 DEF SendFile, SendTurn
  <2>2. QED
    BY <1>16, <2>1, SendEffect, OwnTurn
<1>17. ASSUME NEW c \in Conns, NEW t \in Trans, SendFile_fails(c, t)
      PROVE  OwnInv'
  <2> SUFFICES ASSUME ~early'
               PROVE  OwnInv'
    BY DEF OwnInv
  <2>1. /\ ~early /\ UNCHANGED <<sock, thread, mixed>> /\ pc[c] = "send" /\ files[c][t].size > 0
        /\ \A n \in Fds : table'[n] = IF table[n] = File(c) THEN Leaked ELSE table[n]
    BY <1>17 DEF SendFile_fails
  <2>2. /\ files'[c][t] = NoFile
        /\ \A d \in Conns, u \in Trans : ~(d = c /\ u = t) => files'[d][u] = files[d][u]
    BY <1>17 DEF SendFile_fails, TypeOK
  <2>3. \A u \in Trans : files'[c][u].fd = 0
    <3>1. files[c][t] # NoFile
      BY <2>1 DEF NoFile
    <3>2. \A u \in Trans : u # t => files[c][u] = NoFile
      BY <2>1, <3>1 DEF FileInv, FileOf
    <3>3. QED
      BY <2>2, <3>2 DEF NoFile
  <2>4. \A l \in Listeners : thread'[l].pc # "none" =>
           thread'[l].pc \in Listening /\ table'[thread'[l].fd] = Listen(l)
    BY <2>1, OwnFacts, EntriesApart
  <2>5. \A d \in Conns : sock'[d] # 0 => table'[sock'[d]] = Sock(d)
    BY <2>1, OwnFacts, EntriesApart
  <2>6. \A d \in Conns, u \in Trans : files'[d][u].fd # 0 => table'[files'[d][u].fd] = File(d)
    BY <2>1, <2>2, <2>3, OwnFacts, EntriesApart
  <2>7. \A d \in Conns : \A u, v \in Trans :
           (u # v /\ files'[d][u].fd # 0) => files'[d][u].fd # files'[d][v].fd
    BY <2>1, <2>2, <2>3, OwnFacts
  <2>8. QED
    BY <2>1, <2>4, <2>5, <2>6, <2>7, OwnFacts DEF OwnInv
<1>18. ASSUME NEW c \in Conns, UseForeign(c)
      PROVE  OwnInv'
  <2>1. ASSUME ~early PROVE FALSE
    <3>1. /\ sock[c] # 0 => At(c) = Sock(c)
          /\ \A t \in Trans : files[c][t].fd # 0 => table[files[c][t].fd] = File(c)
      BY <2>1, OwnFacts DEF At
    <3>2. /\ pc[c] \in {"serve", "send", "spawned"} => sock[c] # 0
          /\ \A l \in Listeners :
                (thread[l].pc = "header" /\ thread[l].conn = c) => sock[c] # 0
      BY DEF HandleInv, Active
    <3>3. QED
      BY <1>18, <3>1, <3>2 DEF UseForeign
  <2>2. early' = early
    BY <1>18 DEF UseForeign
  <2>3. QED
    BY <2>1, <2>2 DEF OwnInv
<1>19. ASSUME NEW c \in Conns, SockHup(c)
      PROVE  OwnInv'
  BY <1>19 DEF OwnInv, SockHup
<1>19a. ASSUME NEW c \in Conns, auth_asksDaemon(c)
      PROVE  OwnInv'
  BY <1>19a DEF OwnInv, auth_asksDaemon, Asked
<1>19b. ASSUME NEW c \in Conns, dm_auth_answers(c)
      PROVE  OwnInv'
  BY <1>19b DEF OwnInv, dm_auth_answers
<1>20. ASSUME NEW c \in Conns, Erase(c)
      PROVE  OwnInv'
  BY <1>20 DEF OwnInv, Erase
<1>21. ASSUME NEW c \in Conns, FreeSock(c)
      PROVE  OwnInv'
  <2> SUFFICES ASSUME ~early'
               PROVE  OwnInv'
    BY DEF OwnInv
  <2> DEFINE ns == {sock[c]} \cup {files[c][t].fd : t \in Trans}
  <2>1. CloseSock(ns, thread) /\ ~early /\ mixed' = mixed
    BY <1>21 DEF FreeSock
  <2>2. /\ \A d \in Conns : sock'[d] = IF d = c THEN 0 ELSE sock[d]
        /\ \A u \in Trans : files'[c][u].fd = 0
        /\ \A d \in Conns : d # c => files'[d] = files[d]
    BY <1>21 DEF FreeSock, TypeOK, NoFile
  <2>3. \A n \in ns : n = 0 \/ (n \in Fds /\ (table[n] = Sock(c) \/ table[n] = File(c)))
    BY <2>1, OwnFacts
  <2> HIDE DEF ns
  <2>4. \A l \in Listeners : thread[l].pc # "none" =>
           thread[l].pc \in Listening /\ thread[l].fd \notin ns
    BY <2>1, <2>3, OwnFacts, EntriesApart, NoNumber
  <2>5. \A d \in Conns : sock'[d] # 0 => sock'[d] = sock[d] /\ sock[d] \notin ns
    BY <2>1, <2>2, <2>3, OwnFacts, EntriesApart
  <2>6. \A d \in Conns, u \in Trans : files'[d][u].fd # 0 =>
           files'[d][u].fd = files[d][u].fd /\ files[d][u].fd \notin ns
    BY <2>1, <2>2, <2>3, OwnFacts, EntriesApart
  <2>7. QED
    BY <2>1, <2>4, <2>5, <2>6, OwnClose
<1>22. ASSUME NEW l \in Listeners, Restart(l)
      PROVE  OwnInv'
  <2> SUFFICES ASSUME ~early'
               PROVE  OwnInv'
    BY DEF OwnInv
  <2>1. UNCHANGED <<table, thread, early>>
    BY <1>22, StopMain DEF Restart
  <2>2. QED
    BY <1>22, <2>1 DEF Restart, workerVars, OwnInv
<1>23. ASSUME NEW i \in DOMAIN Shutdown, Stop(i)
      PROVE  OwnInv'
  <2> SUFFICES ASSUME ~early'
               PROVE  OwnInv'
    BY DEF OwnInv
  <2>1. UNCHANGED <<sock, files, mixed>>
    BY <1>23 DEF Stop, workerVars
  <2>2. CASE Shutdown[i] \in Listeners
    <3>1. UNCHANGED <<table, thread, early>>
      BY <1>23, <2>2, StopMain DEF Stop
    <3>2. QED
      BY <2>1, <3>1 DEF OwnInv
  <2>3. CASE Shutdown[i] \notin Listeners
    <3>1. CloseClients(Shutdown[i])
      BY <1>23, <2>3 DEF Stop
    <3>2. CASE UNCHANGED <<table, peer, queue, thread, early>>
      BY <2>1, <3>2 DEF OwnInv
    <3>3. CASE ClientsClosed(Shutdown[i])
      <4>1. ~early /\ Registered(Shutdown[i]) = {}
        BY <3>3 DEF ClientsClosed, TypeOK
      <4>2. {sock[c] : c \in Registered(Shutdown[i])} = {}
        BY <4>1
      <4>3. CloseSock({}, thread)
        BY <3>3, <4>2 DEF ClientsClosed
      <4>4. QED
        BY <2>1, <4>1, <4>3, CloseNone
    <3>4. QED
      BY <3>1, <3>2, <3>3, ClientsFacts
  <2>4. QED
    BY <2>2, <2>3
<1>24. ASSUME StartListener
      PROVE  OwnInv'
  <2> SUFFICES ASSUME ~early'
               PROVE  OwnInv'
    BY DEF OwnInv
  <2>1. ~early /\ UNCHANGED <<sock, files, mixed>>
    BY <1>24 DEF StartListener, workerVars
  <2>2. PICK n \in Fds :
          /\ table[n] = Free /\ main.at \in Listeners
          /\ \A m \in Fds : table'[m] = IF m = n THEN Listen(main.at) ELSE table[m]
          /\ thread'[main.at].pc = "loop" /\ thread'[main.at].fd = n
          /\ \A m \in Listeners : m # main.at => thread'[m] = thread[m]
    BY <1>24, StartEffect
  <2>3. \A m \in Fds : m # n => table'[m] = table[m]
    BY <2>2
  <2>4. \A l \in Listeners : thread'[l].pc # "none" =>
           \/ /\ thread[l].pc # "none" /\ thread'[l].pc \in Listening
              /\ thread'[l].fd = thread[l].fd
           \/ thread'[l].pc \in Listening /\ table'[thread'[l].fd] = Listen(l)
    BY <2>1, <2>2, OwnFacts DEF Listening
  <2>5. QED
    BY <2>1, <2>2, <2>3, <2>4, OwnKeeps
<1>25. ASSUME StartListener_fails
      PROVE  OwnInv'
  <2> SUFFICES ASSUME ~early'
               PROVE  OwnInv'
    BY DEF OwnInv
  <2>1. ~early /\ UNCHANGED <<sock, files, mixed>> /\ main.pc = "restart"
    BY <1>25 DEF StartListener_fails, workerVars
  <2>2. main.at = "status"
    BY <2>1 DEF MainInv
  <2>3. table' = table /\ thread' = [thread EXCEPT !["status"] = NoThread]
    BY <1>25, <2>2 DEF StartListener_fails
  <2>4. \A l \in Listeners : thread'[l].pc # "none" => thread'[l] = thread[l]
    BY <2>3 DEF TypeOK, NoThread, Listeners
  <2>5. QED
    BY <2>1, <2>3, <2>4 DEF OwnInv
<1>26. ASSUME Exit
      PROVE  OwnInv'
  <2>1. early' = early /\ main = [pc |-> "quit", at |-> Shutdown[Len(Shutdown)]]
    BY <1>26 DEF Exit
  <2>2. main.pc = "quit" /\ main.at = "file"
    BY <2>1, ShutdownFacts DEF TypeOK
  <2>3. early
    BY <2>2 DEF MainInv
  <2>4. QED
    BY <2>1, <2>3 DEF OwnInv
<1>27. ASSUME UNCHANGED vars
      PROVE  OwnInv'
  BY <1>27 DEF OwnInv, vars, workerVars
<1>27a. ASSUME daemon_stuck
      PROVE  OwnInv'
  BY <1>27a DEF OwnInv, daemon_stuck, workerVars
<1>28. \A t \in 1 .. bounds.trans : t \in Trans
  BY BoundsFacts DEF TypeOK
<1>29. ASSUME NEW c \in Conns, Request(c)
      PROVE  OwnInv'
  BY <1>29, <1>10, <1>11, <1>12, <1>13, <1>14, <1>15, <1>19a, <1>28 DEF Request
<1>30. ASSUME NEW c \in Conns, WorkerStep(c)
      PROVE  OwnInv'
  BY <1>30, <1>29, <1>8, <1>9, <1>19, <1>20, <1>21, <1>17 DEF WorkerStep
<1>31. ASSUME NEW l \in Listeners, ListenerStep(l)
      PROVE  OwnInv'
  BY <1>31, <1>3, <1>3a, <1>4, <1>7, <1>6 DEF ListenerStep
<1>32. QED
  BY <1>1, <1>2, <1>2a, <1>5, <1>16, <1>18, <1>19b, <1>22, <1>23, <1>24, <1>25, <1>26,
     <1>27, <1>27a, <1>30, <1>31
     DEF Next

-----------------------------------------------------------------------------
\* The invariant holds when main has started the services.
LEMMA InitHolds ==
    ASSUME Init
    PROVE  IInv
<1>1. /\ bounds \in Bounds /\ bounds.status \in BOOLEAN /\ bounds.restarts \in Nat
      /\ bounds.size \in Nat
  BY BoundsFacts DEF Init
<1>2. 1 \in Fds /\ 2 \in Fds /\ 0 \notin Fds /\ 0 \in 0 .. MaxFd
  BY ConnectionsAssumption DEF Fds
<1>3. /\ \A n \in Fds : table[n] = IF n = 1 THEN Listen("lobby")
                                   ELSE IF n = 2 /\ bounds.status THEN Listen("status")
                                   ELSE Free
      /\ \A c \in Conns : /\ peer[c] = "idle" /\ pc[c] = "none" /\ kind[c] = "none" /\ sock[c] = 0
                          /\ \A t \in Trans : files[c][t] = NoFile
      /\ \A l \in Listeners : queue[l] = <<>> /\ Len(queue[l]) = 0
      /\ ~early /\ ~mixed /\ main.pc = "run"
  BY DEF Init
<1>4. /\ thread["lobby"].pc = "loop" /\ thread["lobby"].fd = 1
      /\ bounds.status => thread["status"].pc = "loop" /\ thread["status"].fd = 2
      /\ ~bounds.status => thread["status"].pc = "none" /\ thread["status"].fd = 1
      /\ thread \in [Listeners -> Threads]
  <2>1. thread = [l \in Listeners |->
                    IF l = "lobby" THEN [pc |-> "loop", fd |-> 1, conn |-> "nobody"]
                    ELSE IF bounds.status THEN [pc |-> "loop", fd |-> 2, conn |-> "nobody"]
                    ELSE [pc |-> "none", fd |-> 1, conn |-> "nobody"]]
    BY DEF Init, NoThread
  <2>2. thread \in [Listeners -> Threads]
    BY <1>2, <2>1 DEF Threads
  <2>3. QED
    BY <2>1, <2>2 DEF Listeners
<1>5. TypeOK
  <2>1. table \in [Fds -> Entries]
    BY DEF Init, Entries, Listeners
  <2>2. /\ peer \in [Conns -> {"idle", "pending", "open", "talks", "gone"}]
        /\ queue \in [Listeners -> Seq(Conns)]
        /\ kind \in [Conns -> Workers \cup {"none"}]
        /\ pc \in [Conns -> {"none", "spawned", "serve", "send", "asks"} \cup Over]
        /\ sock \in [Conns -> 0 .. MaxFd]
    BY <1>2 DEF Init
  <2>3. NoFile \in Downloads /\ NoFile.size = 0 /\ Forgotten \in [Trans -> Received]
    BY <1>2 DEF NoFile, Downloads, Forgotten, NoChunks, Received
  <2>4. /\ files \in [Conns -> [Trans -> Downloads]]
        /\ got \in [Conns -> [Trans -> Received]]
    BY <2>3 DEF Init
  <2>5. \A c \in Conns, t \in Trans :
           /\ files[c][t] = NoFile \/ files[c][t].pos < files[c][t].size
           /\ files[c][t].size <= bounds.size
    BY <1>1, <1>3, <2>3
  <2>6. /\ main \in [pc : {"run", "restart", "quit", "exit"},
                     at : Listeners \cup Workers \cup {"none"}]
        /\ main.pc # "restart" /\ restarts \in 0 .. bounds.restarts
        /\ early \in BOOLEAN /\ mixed \in BOOLEAN
    <3>1. main = [pc |-> "run", at |-> "none"] /\ restarts = 0 /\ early = FALSE /\ mixed = FALSE
      BY DEF Init
    <3>2. 0 \in 0 .. bounds.restarts
      BY <1>1
    <3>3. QED
      BY <3>1, <3>2
  <2>7. daemon \in {"up", "ended", "stuck"}
    BY DEF Init
  <2>8. QED
    BY <1>1, <1>4, <2>1, <2>2, <2>4, <2>5, <2>6, <2>7 DEF TypeOK
<1>6. ListenInv
  <2>1. ASSUME NEW l \in Listeners, NEW n \in Fds, table[n] = Listen(l)
        PROVE  thread[l].fd = n /\ thread[l].pc \in Listening
    <3>1. (n = 1 /\ l = "lobby") \/ (n = 2 /\ l = "status" /\ bounds.status)
      BY <1>3, <2>1, EntriesApart DEF Listeners
    <3>2. QED
      BY <1>4, <3>1 DEF Listening
  <2>2. \A l \in Listeners : thread[l].pc # "accept"
    BY <1>1, <1>4 DEF Listeners
  <2>3. QED
    BY <2>1, <2>2 DEF ListenInv
<1>7. QueueInv
  BY <1>3 DEF QueueInv
<1>8. HandleInv
  <2>1. \A l \in Listeners : thread[l].pc # "header"
    BY <1>1, <1>4 DEF Listeners
  <2>2. \A c \in Conns, n \in Fds : table[n] # Sock(c)
    BY <1>3, EntriesApart DEF Listeners
  <2>3. QED
    BY <1>3, <2>1, <2>2 DEF HandleInv, Active
<1>9. FileInv
  <2>1. \A c \in Conns, n \in Fds : table[n] # File(c)
    BY <1>3, EntriesApart DEF Listeners
  <2>2. QED
    BY <1>3, <2>1 DEF FileInv, FileOf
<1>10. LeakInv
  <2>1. Lost = {}
    BY <1>3, EntriesApart DEF Lost, Listeners
  <2>2. Cardinality(Lost) = 0
    BY <2>1, FS_EmptySet
  <2>3. QED
    BY <2>2, Finite DEF LeakInv
<1>11. MainInv
  BY <1>3, <1>4 DEF MainInv
<1>12. OwnInv
  <2>1. \A l \in Listeners : thread[l].pc # "none" =>
           thread[l].pc \in Listening /\ table[thread[l].fd] = Listen(l)
    BY <1>1, <1>2, <1>3, <1>4 DEF Listeners, Listening
  <2>2. \A c \in Conns, t \in Trans : files[c][t].fd = 0
    BY <1>3 DEF NoFile
  <2>3. QED
    BY <1>3, <2>1, <2>2 DEF OwnInv
<1>13. QED
  BY <1>5, <1>6, <1>7, <1>8, <1>9, <1>10, <1>11, <1>12 DEF IInv

\* In every reachable state the entries of the descriptor table, the handles, the
\* downloads and the listening threads agree as IInv says.
THEOREM InductiveInvariant == Spec => []IInv
<1>1. Init => IInv
  BY InitHolds
<1>2. IInv /\ [Next]_vars => IInv'
  <2>1. ASSUME IInv, [Next]_vars
        PROVE  IInv'
    <3>1. TypeOK /\ ListenInv /\ QueueInv /\ HandleInv /\ FileInv /\ LeakInv /\ MainInv /\ OwnInv
      BY <2>1 DEF IInv
    <3>2. TypeOK' /\ ListenInv'
      BY <2>1, <3>1, TypeStep, ListenStep
    <3>3. QueueInv' /\ HandleInv'
      BY <2>1, <3>1, QueueStep, HandleStep
    <3>4. FileInv' /\ LeakInv'
      BY <2>1, <3>1, FileStep, LeakStep
    <3>5. MainInv' /\ OwnInv'
      BY <2>1, <3>1, MainStep, OwnStep
    <3>6. QED
      BY <3>2, <3>3, <3>4, <3>5 DEF IInv
  <2>2. QED
    BY <2>1
<1>3. QED
  BY <1>1, <1>2, PTL DEF Spec

\* The listening threads, workers, downloads and main keep their types, and no
\* download goes on past the end of its file.
THEOREM TypeCorrect == Spec => []TypeOK
<1>1. IInv => TypeOK
  BY DEF IInv
<1>2. QED
  BY <1>1, InductiveInvariant, PTL

\* Every descriptor that is open has somebody who will close it, but for one file of
\* each failed transfer; and until a handle is closed before it is freed, every stored
\* number leads to the descriptor it was stored for (SockIO.cpp, Lobby.cpp, Status.cpp,
\* FileServer.cpp, AuthServer.cpp, dsmain.cpp).
THEOREM DescriptorsSound == Spec => []DescriptorsOwned
<1>1. ASSUME IInv
      PROVE  DescriptorsOwned
  <2>1. TypeOK /\ ListenInv /\ HandleInv /\ FileInv /\ LeakInv /\ OwnInv
    BY <1>1 DEF IInv
  <2>2. \A l \in Listeners, n \in Fds :
           table[n] = Listen(l) =>
              thread[l].fd = n /\ thread[l].pc \in {"loop", "accept", "header"}
    BY <2>1 DEF ListenInv, Listening
  <2>3. \A c \in Conns, n \in Fds : table[n] = Sock(c) => sock[c] = n
    BY <2>1 DEF HandleInv
  <2>4. ASSUME NEW c \in Conns, NEW n \in Fds, table[n] = File(c)
        PROVE  pc[c] # "ended" /\ \E t \in Trans : files[c][t].fd = n
    <3>1. PICK t \in Trans : files[c][t].fd = n
      BY <2>1, <2>4 DEF FileInv, FileOf
    <3>2. files[c][t] # NoFile
      BY <3>1, NoNumber DEF NoFile
    <3>3. QED
      BY <2>1, <3>1, <3>2 DEF FileInv, FileOf
  <2>5. Cardinality({n \in Fds : table[n] = Leaked})
           <= Cardinality({c \in Conns : pc[c] \in Over})
    BY <2>1 DEF LeakInv, Lost, Broken, Over
  <2>6. ~early =>
          /\ ~mixed
          /\ \A c \in Conns :
                /\ sock[c] # 0 => At(c) = Sock(c)
                /\ \A t \in Trans : files[c][t].fd # 0 => table[files[c][t].fd] = File(c)
    BY <2>1 DEF OwnInv, At
  <2>7. QED
    BY <2>2, <2>3, <2>4, <2>5, <2>6 DEF DescriptorsOwned
<1>2. IInv => DescriptorsOwned
  BY <1>1
<1>3. QED
  BY <1>2, InductiveInvariant, PTL

-----------------------------------------------------------------------------
(* Refinement of FileTransfer.                                               *)

\* A connection that has broken, as Transfer has it.
Broke(c) == peer[c] = "gone" \/ mixed \/ pc[c] \in Over

\* What a step may do for a download: begin it, or deliver its next chunk.
Begins(c, t) ==
    /\ Len(got[c][t].chunks) = got[c][t].size
    /\ \E b \in Bounds : got'[c][t].size \in 0 .. b.size
    /\ got'[c][t].chunks = <<>> \/ (got'[c][t].chunks = <<0>> /\ got'[c][t].size > 0)
Delivers(c, t) ==
    /\ Len(got[c][t].chunks) < got[c][t].size
    /\ got'[c][t].chunks = Append(got[c][t].chunks, Len(got[c][t].chunks))
    /\ got'[c][t].size = got[c][t].size
Progress(c, t) ==
    Broke(c)' \/ (~Broke(c) /\ (Begins(c, t) \/ Delivers(c, t) \/ got'[c][t] = got[c][t]))

\* What has broken stays so.
LEMMA ProgressKeeps ==
    ASSUME \A c \in Conns : peer[c] = "gone" => peer'[c] = "gone",
           \A c \in Conns : pc[c] \in Over => pc'[c] \in Over,
           mixed' = mixed \/ mixed',
           \A c \in Conns, t \in Trans :
              \/ Broke(c)' \/ Begins(c, t) \/ Delivers(c, t)
              \/ got'[c][t] = got[c][t]
    PROVE  \A c \in Conns, t \in Trans : Progress(c, t)
<1>1. \A c \in Conns : Broke(c) => Broke(c)'
  BY DEF Broke, Over
<1>2. QED
  BY <1>1 DEF Progress

\* A client that has seen the end of its connection does not come back.
LEMMA CloseGone ==
    ASSUME NEW ns, NEW th, CloseSock(ns, th)
    PROVE  \A c \in Conns : peer[c] = "gone" => peer'[c] = "gone"
BY CloseEffects

\* The same for a listening service that is stopped.
LEMMA StopGone ==
    ASSUME NEW l \in Listeners, StopListener(l)
    PROVE  \A c \in Conns : peer[c] = "gone" => peer'[c] = "gone"
BY CloseGone DEF StopListener

\* The chunk that goes out is the one the client has next.
LEMMA TurnDelivers ==
    ASSUME TypeOK, FileInv, NEW c \in Conns, NEW t \in Trans, Turn(c, t),
           files[c][t] # NoFile, peer[c] = "open"
    PROVE  /\ Delivers(c, t)
           /\ \A d \in Conns, u \in Trans : ~(d = c /\ u = t) => got'[d][u] = got[d][u]
           /\ \A d \in Conns : peer[d] = "gone" => peer'[d] = "gone"
<1>1. files[c][t].pos < files[c][t].size
  BY DEF TypeOK
<1>2. got[c][t].size = files[c][t].size /\ Len(got[c][t].chunks) = files[c][t].pos
  BY DEF FileInv, FileOf
<1>3. Delivers(c, t)
  BY <1>1, <1>2 DEF Delivers, Turn
<1>4. \A d \in Conns : peer[d] = "gone" => peer'[d] = "gone"
  BY CloseGone DEF Turn
<1>5. QED
  BY <1>3, <1>4 DEF Turn

\* A step begins a download whose last transfer is complete, or delivers the next chunk.
LEMMA ProgressStep ==
    ASSUME TypeOK, HandleInv, FileInv, [Next]_vars
    PROVE  \A d \in Conns, u \in Trans : Progress(d, u)
<1>1. ASSUME NEW c \in Conns, NEW l \in Listeners, Connect(c, l)
      PROVE  \A d \in Conns, u \in Trans : Progress(d, u)
  <2>1. \A d \in Conns : pc[d] \in Over => pc'[d] \in Over
    BY <1>1 DEF TypeOK, Over, Connect, workerVars
  <2>2. \A d \in Conns : peer[d] = "gone" => peer'[d] = "gone"
    BY <1>1 DEF TypeOK, Connect
  <2>3. got' = got /\ mixed' = mixed
    BY <1>1 DEF Connect, workerVars
  <2>4. QED
    BY <2>1, <2>2, <2>3, ProgressKeeps
<1>2. ASSUME NEW c \in Conns, PeerCloses(c)
      PROVE  \A d \in Conns, u \in Trans : Progress(d, u)
  <2>1. /\ pc' = pc /\ mixed' = mixed /\ peer'[c] = "gone"
        /\ \A d \in Conns : d # c => peer'[d] = peer[d] /\ got'[d] = got[d]
    BY <1>2 DEF TypeOK, PeerCloses
  <2>2. Broke(c)'
    BY <2>1 DEF Broke
  <2>3. QED
    BY <2>1, <2>2, ProgressKeeps
<1>2a. ASSUME NEW c \in Conns, KeepsTalking(c)
      PROVE  \A d \in Conns, u \in Trans : Progress(d, u)
  <2>1. \A d \in Conns : pc[d] \in Over => pc'[d] \in Over
    BY <1>2a DEF KeepsTalking, workerVars
  <2>2. \A d \in Conns : peer[d] = "gone" => peer'[d] = "gone"
    BY <1>2a DEF TypeOK, KeepsTalking
  <2>3. got' = got /\ mixed' = mixed
    BY <1>2a DEF KeepsTalking, workerVars
  <2>4. QED
    BY <2>1, <2>2, <2>3, ProgressKeeps
<1>3. ASSUME NEW l \in Listeners, AcceptSock_call(l)
      PROVE  \A d \in Conns, u \in Trans : Progress(d, u)
  <2>1. \A d \in Conns : pc[d] \in Over => pc'[d] \in Over
    BY <1>3 DEF TypeOK, Over, AcceptSock_call, workerVars
  <2>2. \A d \in Conns : peer[d] = "gone" => peer'[d] = "gone"
    BY <1>3 DEF AcceptSock_call, workerVars
  <2>3. got' = got /\ mixed' = mixed
    BY <1>3 DEF AcceptSock_call, workerVars
  <2>4. QED
    BY <2>1, <2>2, <2>3, ProgressKeeps
<1>3a. ASSUME NEW l \in Listeners, AcceptSock_full(l)
      PROVE  \A d \in Conns, u \in Trans : Progress(d, u)
  <2>1. \A d \in Conns : pc[d] \in Over => pc'[d] \in Over
    BY <1>3a DEF TypeOK, Over, AcceptSock_full, workerVars
  <2>2. \A d \in Conns : peer[d] = "gone" => peer'[d] = "gone"
    BY <1>3a DEF AcceptSock_full, workerVars
  <2>3. got' = got /\ mixed' = mixed
    BY <1>3a DEF AcceptSock_full, workerVars
  <2>4. QED
    BY <2>1, <2>2, <2>3, ProgressKeeps
<1>4. ASSUME NEW l \in Listeners, AcceptSock(l)
      PROVE  \A d \in Conns, u \in Trans : Progress(d, u)
  <2>1. \A d \in Conns : pc[d] \in Over => pc'[d] \in Over
    BY <1>4 DEF TypeOK, Over, AcceptSock
  <2>2. \A d \in Conns : peer[d] = "gone" => peer'[d] = "gone"
    BY <1>4 DEF AcceptSock, TypeOK
  <2>3. got' = got /\ mixed' = mixed
    BY <1>4 DEF AcceptSock
  <2>4. QED
    BY <2>1, <2>2, <2>3, ProgressKeeps
<1>5. ASSUME NEW c \in Conns, NEW k \in Workers, dm_lobby(c, k)
      PROVE  \A d \in Conns, u \in Trans : Progress(d, u)
  <2>1. pc[c] = "none" /\ UNCHANGED <<peer, got, mixed>>
    BY <1>5 DEF dm_lobby, HandleInv, Listeners
  <2>2. \A d \in Conns : pc[d] \in Over => pc'[d] \in Over
    BY <1>5, <2>1 DEF TypeOK, Over, dm_lobby
  <2>3. QED
    BY <2>1, <2>2, ProgressKeeps
<1>6. ASSUME NEW l \in Listeners, NEW c \in Conns, FreeClient(l, c)
      PROVE  \A d \in Conns, u \in Trans : Progress(d, u)
  <2>1. \A d \in Conns : pc[d] \in Over => pc'[d] \in Over
    BY <1>6 DEF TypeOK, Over, FreeClient
  <2>2. \A d \in Conns : peer[d] = "gone" => peer'[d] = "gone"
    BY <1>6, CloseGone DEF FreeClient
  <2>3. got' = got /\ mixed' = mixed
    BY <1>6 DEF FreeClient
  <2>4. QED
    BY <2>1, <2>2, <2>3, ProgressKeeps
<1>7. ASSUME NEW l \in Listeners, Leave(l)
      PROVE  \A d \in Conns, u \in Trans : Progress(d, u)
  <2>1. \A d \in Conns : pc[d] \in Over => pc'[d] \in Over
    BY <1>7 DEF TypeOK, Over, Leave, workerVars
  <2>2. \A d \in Conns : peer[d] = "gone" => peer'[d] = "gone"
    BY <1>7, CloseGone DEF Leave
  <2>3. got' = got /\ mixed' = mixed
    BY <1>7 DEF Leave, workerVars
  <2>4. QED
    BY <2>1, <2>2, <2>3, ProgressKeeps
<1>8. ASSUME NEW c \in Conns, Register(c)
      PROVE  \A d \in Conns, u \in Trans : Progress(d, u)
  <2>1. \A d \in Conns : pc[d] \in Over => pc'[d] \in Over
    BY <1>8 DEF TypeOK, Over, Register
  <2>2. \A d \in Conns : peer[d] = "gone" => peer'[d] = "gone"
    BY <1>8 DEF Register
  <2>3. got' = got /\ mixed' = mixed
    BY <1>8 DEF Register
  <2>4. QED
    BY <2>1, <2>2, <2>3, ProgressKeeps
<1>9. ASSUME NEW c \in Conns, auth_init_fails(c)
      PROVE  \A d \in Conns, u \in Trans : Progress(d, u)
  <2>1. \A d \in Conns : pc[d] \in Over => pc'[d] \in Over
    BY <1>9 DEF TypeOK, Over, auth_init_fails
  <2>2. \A d \in Conns : peer[d] = "gone" => peer'[d] = "gone"
    BY <1>9 DEF auth_init_fails
  <2>3. got' = got /\ mixed' = mixed
    BY <1>9 DEF auth_init_fails
  <2>4. QED
    BY <2>1, <2>2, <2>3, ProgressKeeps
<1>10. ASSUME NEW c \in Conns, gate_answer(c) \/ file_answer(c) \/ auth_answer(c)
      PROVE  \A d \in Conns, u \in Trans : Progress(d, u)
  <2>1. \A d \in Conns : pc[d] \in Over => pc'[d] \in Over
    BY <1>10 DEF TypeOK, Over, gate_answer, file_answer, auth_answer, Answer, Asked
  <2>2. \A d \in Conns : peer[d] = "gone" => peer'[d] = "gone"
    BY <1>10 DEF gate_answer, file_answer, auth_answer, Answer, Asked
  <2>3. got' = got /\ mixed' = mixed
    BY <1>10 DEF gate_answer, file_answer, auth_answer, Answer, Asked
  <2>4. QED
    BY <2>1, <2>2, <2>3, ProgressKeeps
<1>11. ASSUME NEW c \in Conns, WrongBuild(c)
      PROVE  \A d \in Conns, u \in Trans : Progress(d, u)
  <2>1. \A d \in Conns : pc[d] \in Over => pc'[d] \in Over
    BY <1>11 DEF TypeOK, Over, WrongBuild, Asked
  <2>2. \A d \in Conns : peer[d] = "gone" => peer'[d] = "gone"
    BY <1>11, CloseGone DEF WrongBuild
  <2>3. got' = got /\ mixed' = mixed
    BY <1>11 DEF WrongBuild, Asked
  <2>4. QED
    BY <2>1, <2>2, <2>3, ProgressKeeps
<1>12. ASSUME NEW c \in Conns, UnknownMessage(c)
      PROVE  \A d \in Conns, u \in Trans : Progress(d, u)
  <2>1. \A d \in Conns : pc[d] \in Over => pc'[d] \in Over
    BY <1>12 DEF TypeOK, Over, UnknownMessage, Asked
  <2>2. \A d \in Conns : peer[d] = "gone" => peer'[d] = "gone"
    BY <1>12, CloseGone DEF UnknownMessage
  <2>3. got' = got /\ mixed' = mixed
    BY <1>12 DEF UnknownMessage, Asked
  <2>4. QED
    BY <2>1, <2>2, <2>3, ProgressKeeps
<1>13. ASSUME NEW c \in Conns, NEW t \in Trans, NEW size \in 0 .. bounds.size,
             file_downloadStart(c, t, size)
      PROVE  \A d \in Conns, u \in Trans : Progress(d, u)
  <2>1. UNCHANGED <<peer, mixed>> /\ Fresh(c, t) /\ pc[c] = "serve" /\ bounds \in Bounds
    BY <1>13 DEF file_downloadStart, Asked, TypeOK
  <2>2. CASE size = 0
    <3>1. UNCHANGED <<pc, got>>
      BY <1>13, <2>2 DEF file_downloadStart
    <3>2. QED
      BY <2>1, <3>1, ProgressKeeps
  <2>3. CASE size # 0
    <3>1. /\ got'[c][t].size = size /\ got'[c][t].chunks = <<>>
          /\ \A d \in Conns, u \in Trans : ~(d = c /\ u = t) => got'[d][u] = got[d][u]
          /\ \A d \in Conns : pc'[d] = IF d = c THEN "send" ELSE pc[d]
      BY <1>13, <2>3, FileStartEffect
    <3>2. Begins(c, t)
      BY <2>1, <3>1 DEF Begins, Fresh
    <3>3. \A d \in Conns : pc[d] \in Over => pc'[d] \in Over
      BY <2>1, <3>1 DEF Over
    <3>4. QED
      BY <2>1, <3>1, <3>2, <3>3, ProgressKeeps
  <2>4. QED
    BY <2>2, <2>3
<1>14. ASSUME NEW c \in Conns, NEW t \in Trans, NEW size \in 0 .. bounds.size,
             NEW e \in BOOLEAN, auth_downloadStart(c, t, size, e)
      PROVE  \A d \in Conns, u \in Trans : Progress(d, u)
  <2>1. UNCHANGED <<peer, mixed, pc>> /\ Fresh(c, t) /\ bounds \in Bounds
    BY <1>14 DEF auth_downloadStart, Asked, TypeOK
  <2>2. /\ \A d \in Conns, u \in Trans : ~(d = c /\ u = t) => got'[d][u] = got[d][u]
        /\ \/ got'[c][t] = got[c][t]
           \/ size > 0 /\ got'[c][t].size = size /\ got'[c][t].chunks = <<0>>
    BY <1>14, AuthStartEffect
  <2>3. got'[c][t] = got[c][t] \/ Begins(c, t)
    BY <2>1, <2>2 DEF Begins, Fresh
  <2>4. QED
    BY <2>1, <2>2, <2>3, ProgressKeeps
<1>15. ASSUME NEW c \in Conns, NEW t \in Trans, auth_downloadNext(c, t)
      PROVE  \A d \in Conns, u \in Trans : Progress(d, u)
  <2>1. UNCHANGED <<mixed, pc>> /\ peer[c] = "open"
    BY <1>15 DEF auth_downloadNext, NextTurn, Asked, Readable
  <2>2. CASE UNCHANGED <<files, got, table, peer, queue, thread>>
    BY <2>1, <2>2, ProgressKeeps
  <2>3. CASE Turn(c, t) /\ files[c][t] # NoFile
    BY <2>1, <2>3, TurnDelivers, ProgressKeeps
  <2>4. files[c][t] = NoFile => UNCHANGED <<files, got, table, peer, queue, thread>>
    BY <1>15 DEF auth_downloadNext, NextTurn
  <2>5. QED
    BY <1>15, <2>2, <2>3, <2>4, NextEffect
<1>16. ASSUME NEW c \in Conns, NEW t \in Trans, SendFile(c, t)
      PROVE  \A d \in Conns, u \in Trans : Progress(d, u)
  <2>1. /\ Turn(c, t) /\ pc[c] = "send" /\ files[c][t] # NoFile /\ Readable(c)
        /\ \A d \in Conns : d # c => pc'[d] = pc[d]
    BY <1>16, SendEffect
  <2>2. mixed' = mixed /\ peer[c] = "open"
    BY <1>16, <2>1 DEF SendFile, SendTurn, Readable
  <2>3. \A d \in Conns : pc[d] \in Over => pc'[d] \in Over
    BY <2>1 DEF Over
  <2>4. QED
    BY <2>1, <2>2, <2>3, TurnDelivers, ProgressKeeps
<1>17. ASSUME NEW c \in Conns, NEW t \in Trans, SendFile_fails(c, t)
      PROVE  \A d \in Conns, u \in Trans : Progress(d, u)
  <2>1. \A d \in Conns : pc[d] \in Over => pc'[d] \in Over
    BY <1>17 DEF TypeOK, Over, SendFile_fails
  <2>2. \A d \in Conns : peer[d] = "gone" => peer'[d] = "gone"
    BY <1>17 DEF SendFile_fails
  <2>3. got' = got /\ mixed' = mixed
    BY <1>17 DEF SendFile_fails
  <2>4. QED
    BY <2>1, <2>2, <2>3, ProgressKeeps
<1>18. ASSUME NEW c \in Conns, UseForeign(c)
      PROVE  \A d \in Conns, u \in Trans : Progress(d, u)
  <2>1. UNCHANGED <<peer, pc, got>> /\ mixed'
    BY <1>18 DEF UseForeign, workerVars
  <2>2. QED
    BY <2>1, ProgressKeeps
<1>19. ASSUME NEW c \in Conns, SockHup(c)
      PROVE  \A d \in Conns, u \in Trans : Progress(d, u)
  <2>1. \A d \in Conns : pc[d] \in Over => pc'[d] \in Over
    BY <1>19 DEF TypeOK, Over, SockHup
  <2>2. \A d \in Conns : peer[d] = "gone" => peer'[d] = "gone"
    BY <1>19 DEF SockHup
  <2>3. got' = got /\ mixed' = mixed
    BY <1>19 DEF SockHup
  <2>4. QED
    BY <2>1, <2>2, <2>3, ProgressKeeps
<1>19a. ASSUME NEW c \in Conns, auth_asksDaemon(c)
      PROVE  \A d \in Conns, u \in Trans : Progress(d, u)
  <2>1. \A d \in Conns : pc[d] \in Over => pc'[d] \in Over
    BY <1>19a DEF TypeOK, Over, auth_asksDaemon, Asked
  <2>2. \A d \in Conns : peer[d] = "gone" => peer'[d] = "gone"
    BY <1>19a DEF auth_asksDaemon, Asked
  <2>3. got' = got /\ mixed' = mixed
    BY <1>19a DEF auth_asksDaemon, Asked
  <2>4. QED
    BY <2>1, <2>2, <2>3, ProgressKeeps
<1>19b. ASSUME NEW c \in Conns, dm_auth_answers(c)
      PROVE  \A d \in Conns, u \in Trans : Progress(d, u)
  <2>1. \A d \in Conns : pc[d] \in Over => pc'[d] \in Over
    BY <1>19b DEF TypeOK, Over, dm_auth_answers
  <2>2. \A d \in Conns : peer[d] = "gone" => peer'[d] = "gone"
    BY <1>19b DEF dm_auth_answers
  <2>3. got' = got /\ mixed' = mixed
    BY <1>19b DEF dm_auth_answers
  <2>4. QED
    BY <2>1, <2>2, <2>3, ProgressKeeps
<1>20. ASSUME NEW c \in Conns, Erase(c)
      PROVE  \A d \in Conns, u \in Trans : Progress(d, u)
  <2>1. \A d \in Conns : pc[d] \in Over => pc'[d] \in Over
    BY <1>20 DEF TypeOK, Over, Erase
  <2>2. \A d \in Conns : peer[d] = "gone" => peer'[d] = "gone"
    BY <1>20 DEF Erase
  <2>3. got' = got /\ mixed' = mixed
    BY <1>20 DEF Erase
  <2>4. QED
    BY <2>1, <2>2, <2>3, ProgressKeeps
<1>21. ASSUME NEW c \in Conns, FreeSock(c)
      PROVE  \A d \in Conns, u \in Trans : Progress(d, u)
  <2>1. /\ pc'[c] = "ended" /\ mixed' = mixed
        /\ \A d \in Conns : d # c => pc'[d] = pc[d] /\ got'[d] = got[d]
    BY <1>21 DEF TypeOK, FreeSock
  <2>2. \A d \in Conns : peer[d] = "gone" => peer'[d] = "gone"
    BY <1>21, CloseGone DEF FreeSock
  <2>3. Broke(c)'
    BY <2>1 DEF Broke, Over
  <2>4. \A d \in Conns : pc[d] \in Over => pc'[d] \in Over
    BY <2>1 DEF Over
  <2>5. QED
    BY <2>1, <2>2, <2>3, <2>4, ProgressKeeps
<1>22. ASSUME NEW l \in Listeners, Restart(l)
      PROVE  \A d \in Conns, u \in Trans : Progress(d, u)
  <2>1. \A d \in Conns : pc[d] \in Over => pc'[d] \in Over
    BY <1>22 DEF TypeOK, Over, Restart, workerVars
  <2>2. \A d \in Conns : peer[d] = "gone" => peer'[d] = "gone"
    BY <1>22, StopGone DEF Restart
  <2>3. got' = got /\ mixed' = mixed
    BY <1>22 DEF Restart, workerVars
  <2>4. QED
    BY <2>1, <2>2, <2>3, ProgressKeeps
<1>23. ASSUME NEW i \in DOMAIN Shutdown, Stop(i)
      PROVE  \A d \in Conns, u \in Trans : Progress(d, u)
  <2>1. \A d \in Conns : pc[d] \in Over => pc'[d] \in Over
    BY <1>23 DEF TypeOK, Over, Stop, workerVars
  <2>2. \A d \in Conns : peer[d] = "gone" => peer'[d] = "gone"
    BY <1>23, ClientsFacts, StopGone, CloseGone
       DEF Stop, ClientsClosed
  <2>3. got' = got /\ mixed' = mixed
    BY <1>23 DEF Stop, workerVars
  <2>4. QED
    BY <2>1, <2>2, <2>3, ProgressKeeps
<1>24. ASSUME StartListener
      PROVE  \A d \in Conns, u \in Trans : Progress(d, u)
  <2>1. \A d \in Conns : pc[d] \in Over => pc'[d] \in Over
    BY <1>24 DEF TypeOK, Over, StartListener, workerVars
  <2>2. \A d \in Conns : peer[d] = "gone" => peer'[d] = "gone"
    BY <1>24 DEF StartListener, workerVars
  <2>3. got' = got /\ mixed' = mixed
    BY <1>24 DEF StartListener, workerVars
  <2>4. QED
    BY <2>1, <2>2, <2>3, ProgressKeeps
<1>25. ASSUME StartListener_fails
      PROVE  \A d \in Conns, u \in Trans : Progress(d, u)
  <2>1. \A d \in Conns : pc[d] \in Over => pc'[d] \in Over
    BY <1>25 DEF TypeOK, Over, StartListener_fails, workerVars
  <2>2. \A d \in Conns : peer[d] = "gone" => peer'[d] = "gone"
    BY <1>25, CloseGone DEF StartListener_fails
  <2>3. got' = got /\ mixed' = mixed
    BY <1>25 DEF StartListener_fails, workerVars
  <2>4. QED
    BY <2>1, <2>2, <2>3, ProgressKeeps
<1>26. ASSUME Exit
      PROVE  \A d \in Conns, u \in Trans : Progress(d, u)
  <2>1. \A d \in Conns : pc[d] \in Over => pc'[d] \in Over
    BY <1>26 DEF TypeOK, Over, Exit, workerVars
  <2>2. \A d \in Conns : peer[d] = "gone" => peer'[d] = "gone"
    BY <1>26, CloseGone DEF Exit
  <2>3. got' = got /\ mixed' = mixed
    BY <1>26 DEF Exit, workerVars
  <2>4. QED
    BY <2>1, <2>2, <2>3, ProgressKeeps
<1>27. ASSUME UNCHANGED vars
      PROVE  \A d \in Conns, u \in Trans : Progress(d, u)
  <2>1. \A d \in Conns : pc[d] \in Over => pc'[d] \in Over
    BY <1>27 DEF TypeOK, Over, vars, workerVars
  <2>2. \A d \in Conns : peer[d] = "gone" => peer'[d] = "gone"
    BY <1>27 DEF vars, workerVars
  <2>3. got' = got /\ mixed' = mixed
    BY <1>27 DEF vars, workerVars
  <2>4. QED
    BY <2>1, <2>2, <2>3, ProgressKeeps
<1>27a. ASSUME daemon_stuck
      PROVE  \A d \in Conns, u \in Trans : Progress(d, u)
  <2>1. \A d \in Conns : pc[d] \in Over => pc'[d] \in Over
    BY <1>27a DEF TypeOK, Over, daemon_stuck, workerVars
  <2>2. \A d \in Conns : peer[d] = "gone" => peer'[d] = "gone"
    BY <1>27a DEF daemon_stuck, workerVars
  <2>3. got' = got /\ mixed' = mixed
    BY <1>27a DEF daemon_stuck, workerVars
  <2>4. QED
    BY <2>1, <2>2, <2>3, ProgressKeeps
<1>28. \A t \in 1 .. bounds.trans : t \in Trans
  BY BoundsFacts DEF TypeOK
<1>29. ASSUME NEW c \in Conns, Request(c)
      PROVE  \A d \in Conns, u \in Trans : Progress(d, u)
  BY <1>29, <1>10, <1>11, <1>12, <1>13, <1>14, <1>15, <1>19a, <1>28 DEF Request
<1>30. ASSUME NEW c \in Conns, WorkerStep(c)
      PROVE  \A d \in Conns, u \in Trans : Progress(d, u)
  BY <1>30, <1>29, <1>8, <1>9, <1>19, <1>20, <1>21, <1>17 DEF WorkerStep
<1>31. ASSUME NEW l \in Listeners, ListenerStep(l)
      PROVE  \A d \in Conns, u \in Trans : Progress(d, u)
  BY <1>31, <1>3, <1>3a, <1>4, <1>7, <1>6 DEF ListenerStep
<1>32. QED
  BY <1>1, <1>2, <1>2a, <1>5, <1>16, <1>18, <1>19b, <1>22, <1>23, <1>24, <1>25, <1>26,
     <1>27, <1>27a, <1>30, <1>31
     DEF Next

\* Every chunk that a client of the file server or of the auth server gets is the
\* next one of the file it asked for under that transaction id, until its
\* connection breaks (cb_downloadStart in FileServer.cpp, cb_downloadStart and
\* cb_downloadNext in AuthServer.cpp).
THEOREM DownloadsDelivered == Spec => TransferSpec
<1>1. Init => Transfer!Init
  <2>1. ASSUME Init PROVE Transfer!Init
    <3>1. \A x \in Conns \X Trans : x[1] \in Conns /\ x[2] \in Trans
      OBVIOUS
    <3>2. \A c \in Conns, t \in Trans : got[c][t].size = 0 /\ got[c][t].chunks = <<>>
      BY <2>1 DEF Init, Forgotten, NoChunks
    <3>3. \A c \in Conns : ~Broke(c)
      BY <2>1 DEF Init, Broke, Over
    <3>4. QED
      BY <3>1, <3>2, <3>3, Zenon DEF Transfer!Init, Broke
  <2>2. QED
    BY <2>1
<1>2. IInv /\ [Next]_vars => [Transfer!Next]_(Transfer!vars)
  <2>1. ASSUME IInv, [Next]_vars
        PROVE  Transfer!Next
    <3>1. \A c \in Conns, t \in Trans : Progress(c, t)
      BY <2>1, ProgressStep DEF IInv
    <3>2. SUFFICES ASSUME NEW x \in Conns \X Trans
                   PROVE  \/ Broke(x[1])'
                          \/ /\ ~Broke(x[1])
                             /\ Transfer!Begin(x) \/ Transfer!Chunk(x) \/ Transfer!Wait(x)
      BY DEF Transfer!Next, Broke
    <3>3. CASE Broke(x[1])'
      BY <3>3
    <3>4. CASE ~Broke(x[1])' /\ Begins(x[1], x[2])
      <4>1. Transfer!Begin(x)
        BY <3>4 DEF Transfer!Begin, Begins, Broke
      <4>2. QED
        BY <3>1, <3>4, <4>1 DEF Progress
    <3>5. CASE ~Broke(x[1])' /\ Delivers(x[1], x[2])
      <4>1. Transfer!Chunk(x)
        BY <3>5 DEF Transfer!Chunk, Delivers, Broke
      <4>2. QED
        BY <3>1, <3>5, <4>1 DEF Progress
    <3>6. CASE ~Broke(x[1])' /\ got'[x[1]][x[2]] = got[x[1]][x[2]]
      <4>1. Transfer!Wait(x)
        BY <3>6 DEF Transfer!Wait, Broke
      <4>2. QED
        BY <3>1, <3>6, <4>1 DEF Progress
    <3>7. QED
      BY <3>1, <3>3, <3>4, <3>5, <3>6 DEF Progress
  <2>2. QED
    BY <2>1
<1>3. QED
  BY <1>1, <1>2, InductiveInvariant, PTL DEF Spec, TransferSpec, Transfer!Spec
=============================================================================

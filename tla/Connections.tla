----------------------------- MODULE Connections -----------------------------
(***************************************************************************)
(* Connections and the descriptors behind them: the lobby and the status   *)
(* server accept (Lobby.cpp, Status.cpp), workers serve the gate keeper,   *)
(* file and auth connections and their downloads (GateServ.cpp,            *)
(* FileServer.cpp, AuthServer.cpp), and main stops and restarts them       *)
(* (dsmain.cpp).  The kernel's descriptor table is part of the state,      *)
(* because a SocketHandle keeps its number after CloseSock and closes it   *)
(* again in FreeSock (SockIO.cpp), while the kernel gives the number to    *)
(* whoever opens next.                                                     *)
(***************************************************************************)
EXTENDS Naturals, Sequences, FiniteSets, FiniteSetsExt, Functions

CONSTANTS
    Conns,     \* connections, each made by one client
    MaxFd,     \* bound on open descriptors (RLIMIT_NOFILE)
    MaxTrans,  \* bound on transaction ids of downloads
    Bounds     \* bounds of a behaviour: its clients, descriptors, transaction ids,
               \* chunks of a file and restarts of a listening service, and
               \* whether it has a status server, a quit and a failing auth daemon

ASSUME ConnectionsAssumption ==
    /\ IsFiniteSet(Conns) /\ "nobody" \notin Conns
    /\ MaxFd \in Nat \ {0, 1} /\ MaxTrans \in Nat \ {0}
    /\ Bounds \subseteq [clients : Nat, fds : 2 .. MaxFd, trans : 1 .. MaxTrans, size : Nat,
                         restarts : Nat, status : BOOLEAN, quit : BOOLEAN, faulty : BOOLEAN]

VARIABLES
    bounds,    \* the bounds of this behaviour
    table,     \* the process's descriptors
    peer,      \* the client's end of each connection
    queue,     \* connections the kernel has completed for each listener
    thread,    \* the listening threads
    pc, kind,  \* where each connection's worker is, and which worker it is
    sock,      \* m_sockfd of each connection's SocketHandle
    files,     \* the downloads each worker has open
    got,       \* what the client has received of each download
    main, restarts,
    daemon,    \* the auth daemon: up, its thread ended, or stuck in a request for ever
    early,     \* a handle was closed before it was freed
    mixed      \* a thread has used a number that is somebody else's by now

workerVars == <<pc, kind, sock, files, got>>
vars == <<table, peer, queue, thread, workerVars, main, restarts, early, mixed, bounds, daemon>>

Fds == 1 .. MaxFd
Trans == 1 .. MaxTrans
Listeners == {"lobby", "status"}
Workers == {"gate", "file", "auth"}

\* main shuts down in this order; the game server, between gate and auth, is not
\* among these workers.
Shutdown ==
    IF bounds.status THEN <<"status", "lobby", "gate", "auth", "file">>
    ELSE <<"lobby", "gate", "auth", "file">>

\* The entries of the descriptor table.
Free == [kind |-> "free", of |-> "nobody"]
Listen(l) == [kind |-> "listen", of |-> l]
Sock(c) == [kind |-> "sock", of |-> c]
File(c) == [kind |-> "file", of |-> c]
Leaked == [kind |-> "file", of |-> "nobody"]

\* The worker has given its client up.  One of the auth server then waits for the
\* daemon's answer to e_AuthDisconnect, listed (failed) or not (refused).
Over == {"failed", "refused", "answered", "erased", "ended"}

NoThread == [pc |-> "none", fd |-> 1, conn |-> "nobody"]
NoFile == [size |-> 0, pos |-> 0, fd |-> 0]
NoChunks == [size |-> 0, chunks |-> <<>>]
Forgotten == [t \in Trans |-> NoChunks]

FreeFds == {n \in 1 .. bounds.fds : table[n] = Free}

\* main has started the lobby, and the status server if it is enabled.
Init ==
    /\ bounds \in Bounds
    /\ table = [n \in Fds |-> IF n = 1 THEN Listen("lobby")
                              ELSE IF n = 2 /\ bounds.status THEN Listen("status") ELSE Free]
    /\ thread = [l \in Listeners |->
                   IF l = "lobby" THEN [pc |-> "loop", fd |-> 1, conn |-> "nobody"]
                   ELSE IF bounds.status THEN [pc |-> "loop", fd |-> 2, conn |-> "nobody"]
                   ELSE NoThread]
    /\ peer = [c \in Conns |-> "idle"]
    /\ queue = [l \in Listeners |-> <<>>]
    /\ pc = [c \in Conns |-> "none"]
    /\ kind = [c \in Conns |-> "none"]
    /\ sock = [c \in Conns |-> 0]
    /\ files = [c \in Conns |-> [t \in Trans |-> NoFile]]
    /\ got = [c \in Conns |-> Forgotten]
    /\ main = [pc |-> "run", at |-> "none"]
    /\ daemon \in IF bounds.faulty THEN {"up", "ended"} ELSE {"up"}
    /\ restarts = 0 /\ early = FALSE /\ mixed = FALSE

\* Once a worker has used another's connection its protocol state is undefined,
\* and behaviours are not followed further.
Running == main.pc # "exit" /\ ~mixed

\* CloseSock on these numbers, whatever the kernel has there now.  A client sees
\* the end of its connection, a listener loses the connections still in its
\* queue, and a thread blocked in accept on it gets EINVAL; th is the state of
\* the threads otherwise.
CloseSock(ns, th) ==
    LET closed == {table[n] : n \in ns \cap Fds}
        cut    == {l \in Listeners : Listen(l) \in closed}
    IN  /\ table' = [n \in Fds |-> IF n \in ns THEN Free ELSE table[n]]
        /\ peer' = [c \in Conns |->
                      IF Sock(c) \in closed \/ \E l \in cut : c \in Range(queue[l])
                      THEN "gone" ELSE peer[c]]
        /\ queue' = [l \in Listeners |-> IF l \in cut THEN <<>> ELSE queue[l]]
        /\ thread' = [l \in Listeners |->
                        IF th[l].pc = "accept" /\ th[l].fd \in ns
                        THEN [th[l] EXCEPT !.pc = "left"] ELSE th[l]]

-----------------------------------------------------------------------------
(* The clients, outside this program.                                        *)

\* Clients are alike: the next to connect is a fixed one of those left.
Connect(c, l) ==
    /\ Running /\ Listen(l) \in Range(table)
    /\ peer[c] = "idle" /\ c = CHOOSE x \in Conns : peer[x] = "idle"
    /\ Cardinality({x \in Conns : peer[x] # "idle"}) < bounds.clients
    /\ peer' = [peer EXCEPT ![c] = "pending"]
    /\ queue' = [queue EXCEPT ![l] = Append(@, c)]
    /\ UNCHANGED <<table, thread, workerVars, main, restarts, early, mixed, bounds, daemon>>

PeerCloses(c) ==
    /\ Running /\ peer[c] \in {"pending", "open", "talks"}
    /\ peer' = [peer EXCEPT ![c] = "gone"]
    /\ got' = [got EXCEPT ![c] = Forgotten]
    /\ UNCHANGED <<table, queue, thread, pc, kind, sock, files, main, restarts,
                   early, mixed, bounds, daemon>>

\* A client of the status server sends header lines and never the empty one.
KeepsTalking(c) ==
    /\ Running /\ thread["status"].pc = "header" /\ thread["status"].conn = c
    /\ peer[c] = "open"
    /\ peer' = [peer EXCEPT ![c] = "talks"]
    /\ UNCHANGED <<table, queue, thread, workerVars, main, restarts, early, mixed, bounds, daemon>>

-----------------------------------------------------------------------------
(* The listening threads.                                                    *)

\* accept is called with the number in s_listenSock.  A connected socket gives
\* EINVAL, which ends the loop; a closed number or a file gives an error the
\* loop ignores, so that it calls again at once.
AcceptSock_call(l) ==
    /\ Running /\ thread[l].pc = "loop"
    /\ \/ /\ table[thread[l].fd].kind = "listen"
          /\ thread' = [thread EXCEPT ![l].pc = "accept"]
       \/ /\ table[thread[l].fd].kind = "sock"
          /\ thread' = [thread EXCEPT ![l].pc = "left"]
    /\ UNCHANGED <<table, peer, queue, workerVars, main, restarts, early, mixed, bounds, daemon>>

\* Without a free number accept fails, and the loop calls again.
AcceptSock_full(l) ==
    /\ Running /\ thread[l].pc = "accept" /\ FreeFds = {}
    /\ thread' = [thread EXCEPT ![l].pc = "loop"]
    /\ UNCHANGED <<table, peer, queue, workerVars, main, restarts, early, mixed, bounds, daemon>>

\* The lowest free number is the connection's.
AcceptSock(l) ==
    /\ Running /\ thread[l].pc = "accept" /\ FreeFds # {}
    /\ LET from == table[thread[l].fd].of
           c    == Head(queue[from])
           n    == Min(FreeFds)
       IN  /\ queue[from] # <<>>
           /\ queue' = [queue EXCEPT ![from] = Tail(@)]
           /\ table' = [table EXCEPT ![n] = Sock(c)]
           /\ sock' = [sock EXCEPT ![c] = n]
           /\ peer' = [peer EXCEPT ![c] = IF @ = "pending" THEN "open" ELSE @]
           /\ thread' = [thread EXCEPT ![l] = [pc |-> "header", fd |-> @.fd, conn |-> c]]
    /\ UNCHANGED <<pc, kind, files, got, main, restarts, early, mixed, bounds, daemon>>

\* The entry at the number a connection's handle holds, and whether a read of it
\* delivers the client's bytes.
At(c) == table[sock[c]]
Readable(c) == At(c) = Sock(c) /\ peer[c] = "open"

Loops(l) == [thread EXCEPT ![l] = [pc |-> "loop", fd |-> @.fd, conn |-> "nobody"]]

\* A header that names a worker starts it.
dm_lobby(c, k) ==
    /\ Running /\ thread["lobby"].pc = "header" /\ thread["lobby"].conn = c
    /\ Readable(c)
    /\ kind' = [kind EXCEPT ![c] = k]
    /\ pc' = [pc EXCEPT ![c] = "spawned"]
    /\ thread' = Loops("lobby")
    /\ UNCHANGED <<table, peer, queue, sock, files, got, main, restarts,
                   early, mixed, bounds, daemon>>

\* Variant of FreeClient: the header is awaited for ever.
FreeClient_noTimeout(l, c) ==
    /\ Running /\ thread[l].pc = "header" /\ thread[l].conn = c
    /\ ~Readable(c)
    /\ CloseSock({sock[c]}, Loops(l))
    /\ sock' = [sock EXCEPT ![c] = 0]
    /\ UNCHANGED <<pc, kind, files, got, main, restarts, early, mixed, bounds, daemon>>

\* The connection is dropped: another header, a hangup, an error, or nothing
\* within NET_TIMEOUT; the status server does so after every request as well, and
\* reads lines until then.
FreeClient(l, c) ==
    /\ Running /\ thread[l].pc = "header" /\ thread[l].conn = c
    /\ CloseSock({sock[c]}, Loops(l))
    /\ sock' = [sock EXCEPT ![c] = 0]
    /\ UNCHANGED <<pc, kind, files, got, main, restarts, early, mixed, bounds, daemon>>

\* The thread frees the listening handle, which closes its number once more.
Leave(l) ==
    /\ Running /\ thread[l].pc = "left"
    /\ CloseSock({thread[l].fd}, [thread EXCEPT ![l].pc = "off"])
    /\ UNCHANGED <<workerVars, main, restarts, early, mixed, bounds, daemon>>

-----------------------------------------------------------------------------
(* The workers.                                                              *)

\* The gate keeper and the file server list a client before they read from it,
\* the auth server after its handshake.
Register(c) ==
    /\ Running /\ pc[c] = "spawned"
    /\ kind[c] # "auth" \/ Readable(c)
    /\ pc' = [pc EXCEPT ![c] = "serve"]
    /\ UNCHANGED <<table, peer, queue, thread, kind, sock, files, got, main,
                   restarts, early, mixed, bounds, daemon>>

auth_init_fails(c) ==
    /\ Running /\ pc[c] = "spawned" /\ kind[c] = "auth"
    /\ pc' = [pc EXCEPT ![c] = "refused"]
    /\ UNCHANGED <<table, peer, queue, thread, kind, sock, files, got, main,
                   restarts, early, mixed, bounds, daemon>>

\* A worker reads a request of its client.
Asked(c) ==
    /\ Running /\ pc[c] = "serve" /\ Readable(c)
    /\ UNCHANGED <<kind, sock, main, restarts, mixed, bounds, daemon>>

\* A request that is answered at once, or needs no answer.
Answer(c) ==
    /\ Asked(c)
    /\ UNCHANGED <<table, peer, queue, thread, pc, files, got, early>>

\* Pings and the addresses of the other servers.
gate_answer(c) == kind[c] = "gate" /\ Answer(c)

\* Pings, build ids and manifests; acknowledgements of manifests and chunks are
\* ignored.  A missing file, or one that no number is free for, is an error reply.
file_answer(c) == kind[c] = "file" /\ Answer(c)

\* Pings, registrations and file lists; downloads that cannot start.
auth_answer(c) == kind[c] = "auth" /\ Answer(c)

\* The other requests go to the daemon, and the worker waits for its answer.
auth_asksDaemon(c) ==
    /\ Asked(c) /\ kind[c] = "auth"
    /\ pc' = [pc EXCEPT ![c] = "asks"]
    /\ UNCHANGED <<table, peer, queue, thread, files, got, early>>

\* The daemon answers a request, or e_AuthDisconnect.
dm_auth_answers(c) ==
    /\ Running /\ daemon = "up" /\ kind[c] = "auth"
    /\ pc[c] \in {"asks", "failed", "refused"}
    /\ pc' = [pc EXCEPT ![c] = CASE @ = "asks" -> "serve"
                                 [] @ = "failed" -> "answered"
                                 [] @ = "refused" -> "erased"]
    /\ UNCHANGED <<table, peer, queue, thread, kind, sock, files, got, main,
                   restarts, early, mixed, bounds, daemon>>

\* The daemon waits for a game host that waits for it.
daemon_stuck ==
    /\ Running /\ bounds.faulty /\ daemon = "up"
    /\ daemon' = "stuck"
    /\ UNCHANGED <<table, peer, queue, thread, workerVars, main, restarts, early, mixed, bounds>>

\* The file server's cb_manifest and the auth server's cb_register close the
\* socket of a client of another build and go on reading from its number.
WrongBuild(c) ==
    /\ Asked(c) /\ kind[c] \in {"file", "auth"}
    /\ CloseSock({sock[c]}, thread)
    /\ early' = TRUE
    /\ UNCHANGED <<pc, files, got>>

UnknownMessage(c) ==
    /\ Asked(c)
    /\ CloseSock({sock[c]}, thread)
    /\ early' = TRUE
    /\ pc' = [pc EXCEPT ![c] = "failed"]
    /\ UNCHANGED <<files, got>>

\* A transaction id is used again only after its last transfer is complete: the
\* game client numbers its transactions.
Fresh(c, t) == Len(got[c][t].chunks) = got[c][t].size

\* What the client has after an answer.
Receives(c, t, size, chunks) ==
    got' = [got EXCEPT ![c][t] = [size |-> size, chunks |-> chunks]]

\* The file server does not tell transactions apart, so one id will do.
AnyTrans == 1

\* FileServer.cpp cb_downloadStart up to its loop: an empty file has no chunk
\* and gets no answer.
file_downloadStart(c, t, size) ==
    /\ Asked(c) /\ kind[c] = "file" /\ t = AnyTrans /\ Fresh(c, t) /\ FreeFds # {}
    /\ IF size = 0
       THEN UNCHANGED <<table, pc, files, got>>
       ELSE /\ table' = [table EXCEPT ![Min(FreeFds)] = File(c)]
            /\ files' = [files EXCEPT ![c][t] = [size |-> size, pos |-> 0, fd |-> Min(FreeFds)]]
            /\ pc' = [pc EXCEPT ![c] = "send"]
            /\ Receives(c, t, size, <<>>)
    /\ UNCHANGED <<peer, queue, thread, early>>

\* One turn of the loop, of which done says whether it is the last, and what is
\* closed after the last.
SendTurn(c, t, done, closes) ==
    LET file == files[c][t]
    IN  /\ Running /\ pc[c] = "send" /\ file.size > 0
        /\ Readable(c) /\ table[file.fd] = File(c)
        /\ Receives(c, t, file.size, Append(got[c][t].chunks, file.pos))
        /\ files' = [files EXCEPT ![c][t] = IF done THEN NoFile ELSE [file EXCEPT !.pos = @ + 1]]
        /\ pc' = [pc EXCEPT ![c] = IF done THEN "serve" ELSE "send"]
        /\ CloseSock(IF done THEN closes ELSE {}, thread)
        /\ UNCHANGED <<kind, sock, main, restarts, early, mixed, bounds, daemon>>

\* Variants of SendFile: <= for < in the loop's condition; no close(fd).
SendFile_oneMore(c, t) ==
    SendTurn(c, t, files[c][t].pos = files[c][t].size, {files[c][t].fd})
SendFile_leavesOpen(c, t) ==
    SendTurn(c, t, files[c][t].pos + 1 = files[c][t].size, {})

\* One turn of the loop of cb_downloadStart, and close(fd) after the last.
SendFile(c, t) ==
    SendTurn(c, t, files[c][t].pos + 1 = files[c][t].size, {files[c][t].fd})

\* send or sendfile fails and throws past close(fd).
SendFile_fails(c, t) ==
    /\ Running /\ pc[c] = "send" /\ files[c][t].size > 0
    /\ ~Readable(c) \/ table[files[c][t].fd].kind # "file"
    /\ pc' = [pc EXCEPT ![c] = "failed"]
    /\ files' = [files EXCEPT ![c][t] = NoFile]
    /\ table' = [n \in Fds |-> IF table[n] = File(c) THEN Leaked ELSE table[n]]
    /\ UNCHANGED <<peer, queue, thread, kind, sock, got, main, restarts,
                   early, mixed, bounds, daemon>>

\* AuthServer.cpp cb_downloadStart: the first chunk goes out at once.  The rest
\* of a longer file is kept, an encrypted one as the open file, another one as a
\* buffer of its encryption; FileStream's destructor closes the other files.
auth_downloadStart(c, t, size, encrypted) ==
    /\ Asked(c) /\ kind[c] = "auth" /\ Fresh(c, t) /\ FreeFds # {}
    /\ LET fd == IF encrypted THEN Min(FreeFds) ELSE 0
       IN  IF size > 1
           THEN /\ files' = [files EXCEPT ![c][t] = [size |-> size, pos |-> 1, fd |-> fd]]
                /\ table' = [n \in Fds |-> IF n = fd THEN File(c) ELSE table[n]]
           ELSE UNCHANGED <<files, table>>
    /\ IF size > 0 THEN Receives(c, t, size, <<0>>) ELSE UNCHANGED got
    /\ UNCHANGED <<peer, queue, thread, pc, early>>

\* An acknowledgement, after which the rest of the download is next.
NextTurn(c, t, next) ==
    LET file == files[c][t]
    IN  /\ Asked(c) /\ kind[c] = "auth"
        /\ IF file = NoFile
           THEN UNCHANGED <<files, got, table, peer, queue, thread>>
           ELSE /\ Receives(c, t, file.size, Append(got[c][t].chunks, file.pos))
                /\ files' = [files EXCEPT ![c][t] = next]
                /\ CloseSock(IF next = NoFile THEN {file.fd} ELSE {}, thread)
        /\ UNCHANGED <<pc, early>>

\* Variant of auth_downloadNext: the stream is not read on.
auth_downloadNext_rereads(c, t) ==
    NextTurn(c, t, IF files[c][t].pos + 1 = files[c][t].size THEN NoFile ELSE files[c][t])

\* AuthServer.cpp cb_downloadNext: an acknowledgement sends the next chunk of
\* the transaction, if it has one, and the last one ends it.
auth_downloadNext(c, t) ==
    NextTurn(c, t, IF files[c][t].pos + 1 = files[c][t].size THEN NoFile
                   ELSE [files[c][t] EXCEPT !.pos = @ + 1])

\* A thread reads from or writes to a number that is another connection's by now,
\* or sends from a number that is another's file.
UseForeign(c) ==
    LET reads == \/ pc[c] \in {"serve", "send"}
                 \/ pc[c] = "spawned" /\ kind[c] = "auth"
                 \/ \E l \in Listeners : thread[l].pc = "header" /\ thread[l].conn = c
    IN  /\ Running
        /\ \/ reads /\ At(c).kind = "sock" /\ At(c) # Sock(c)
           \/ \E t \in Trans :
                 /\ pc[c] \in {"serve", "send"} /\ files[c][t].fd # 0
                 /\ table[files[c][t].fd].kind = "file" /\ table[files[c][t].fd] # File(c)
        /\ mixed' = TRUE
        /\ UNCHANGED <<table, peer, queue, thread, workerVars, main, restarts, early, bounds, daemon>>

\* A read fails: the client is gone or silent for NET_TIMEOUT, the message is
\* malformed, or the number is no socket any more.
SockHup(c) ==
    /\ Running /\ pc[c] = "serve"
    /\ pc' = [pc EXCEPT ![c] = "failed"]
    /\ UNCHANGED <<table, peer, queue, thread, kind, sock, files, got, main,
                   restarts, early, mixed, bounds, daemon>>

\* The client list is left under its mutex, by a worker of the auth server only
\* after the daemon has answered e_AuthDisconnect.
Erase(c) ==
    /\ Running /\ pc[c] = IF kind[c] = "auth" THEN "answered" ELSE "failed"
    /\ pc' = [pc EXCEPT ![c] = "erased"]
    /\ UNCHANGED <<table, peer, queue, thread, kind, sock, files, got, main,
                   restarts, early, mixed, bounds, daemon>>

\* FreeSock, and the destructor of m_downloads; the connection's other variables
\* mean nothing any more.
FreeSock(c) ==
    /\ Running /\ pc[c] = "erased"
    /\ CloseSock({sock[c]} \cup {files[c][t].fd : t \in Trans}, thread)
    /\ pc' = [pc EXCEPT ![c] = "ended"]
    /\ sock' = [sock EXCEPT ![c] = 0]
    /\ files' = [files EXCEPT ![c] = [t \in Trans |-> NoFile]]
    /\ got' = [got EXCEPT ![c] = Forgotten]
    /\ kind' = [kind EXCEPT ![c] = "none"]
    /\ UNCHANGED <<main, restarts, early, mixed, bounds, daemon>>

-----------------------------------------------------------------------------
(* main.                                                                     *)

\* StopLobby and StopStatusHTTP close the listening socket.  If the thread has
\* left on its own, the handle is freed memory and its number can be any.
StopListener(l) ==
    \/ /\ thread[l].pc \notin {"none", "off"}
       /\ CloseSock({thread[l].fd}, thread)
       /\ early' = TRUE
    \/ /\ thread[l].pc = "off"
       /\ \E n \in 0 .. MaxFd : CloseSock({n}, thread)
       /\ early' = TRUE
    \/ /\ thread[l].pc = "none"
       /\ UNCHANGED <<table, peer, queue, thread, early>>

\* The console's restart of a listening service.
Restart(l) ==
    /\ Running /\ main.pc = "run" /\ restarts < bounds.restarts
    /\ StopListener(l)
    /\ restarts' = restarts + 1
    /\ main' = [pc |-> "restart", at |-> l]
    /\ UNCHANGED <<workerVars, mixed, bounds, daemon>>

Registered(k) ==
    {c \in Conns : kind[c] = k /\ pc[c] \in {"serve", "send", "asks", "failed", "answered"}}

\* GateKeeper_Shutdown, FileServer_Shutdown and the auth daemon, if it takes the
\* message of AuthServer_Shutdown, close the sockets of the listed clients; the
\* daemon answers nobody while it waits for them, and ends.
CloseClients(k) ==
    IF k = "auth" /\ daemon # "up"
    THEN UNCHANGED <<table, peer, queue, thread, early, daemon>>
    ELSE /\ CloseSock({sock[c] : c \in Registered(k)}, thread)
         /\ early' = (early \/ Registered(k) # {})
         /\ daemon' = IF k = "auth" THEN "ended" ELSE daemon

\* The join of a listening thread or of the auth daemon, or the wait for the
\* clients of a service, which is given up after five seconds.
Waited(what) ==
    /\ what \in Listeners => thread[what].pc \in {"none", "off"}
    /\ what = "auth" => daemon # "stuck"

\* quit: the services are stopped one after the other.
Stop(i) ==
    /\ Running
    /\ IF i = 1 THEN main.pc = "run" /\ bounds.quit
       ELSE main = [pc |-> "quit", at |-> Shutdown[i - 1]] /\ Waited(main.at)
    /\ main' = [pc |-> "quit", at |-> Shutdown[i]]
    /\ IF Shutdown[i] \in Listeners THEN StopListener(Shutdown[i]) /\ UNCHANGED daemon
       ELSE CloseClients(Shutdown[i])
    /\ UNCHANGED <<workerVars, restarts, mixed, bounds>>

\* The listening thread is started again, if there is a number for its socket.
StartListener ==
    /\ Running /\ main.pc = "restart" /\ Waited(main.at) /\ FreeFds # {}
    /\ main' = [pc |-> "run", at |-> "none"]
    /\ table' = [table EXCEPT ![Min(FreeFds)] = Listen(main.at)]
    /\ thread' = [thread EXCEPT ![main.at] =
                    [pc |-> "loop", fd |-> Min(FreeFds), conn |-> "nobody"]]
    /\ UNCHANGED <<peer, queue, workerVars, restarts, early, mixed, bounds, daemon>>

\* Without one the status server stays down, and the lobby ends the process: the
\* kernel closes what is open.
StartListener_fails ==
    /\ Running /\ main.pc = "restart" /\ Waited(main.at) /\ FreeFds = {}
    /\ \/ /\ main.at = "status"
          /\ main' = [pc |-> "run", at |-> "none"]
          /\ thread' = [thread EXCEPT !["status"] = NoThread]
          /\ UNCHANGED <<table, peer, queue>>
       \/ /\ main.at = "lobby"
          /\ main' = [main EXCEPT !.pc = "exit"]
          /\ CloseSock(Fds, thread)
    /\ UNCHANGED <<workerVars, restarts, early, mixed, bounds, daemon>>

\* The process ends, and the kernel closes what is open.
Exit ==
    /\ Running /\ main = [pc |-> "quit", at |-> Shutdown[Len(Shutdown)]]
    /\ main' = [main EXCEPT !.pc = "exit"]
    /\ CloseSock(Fds, thread)
    /\ UNCHANGED <<workerVars, restarts, early, mixed, bounds, daemon>>

-----------------------------------------------------------------------------
ListenerStep(l) ==
    \/ AcceptSock_call(l) \/ AcceptSock_full(l) \/ AcceptSock(l) \/ Leave(l)
    \/ \E c \in Conns : FreeClient(l, c)

Request(c) ==
    \/ gate_answer(c) \/ file_answer(c) \/ auth_answer(c) \/ auth_asksDaemon(c)
    \/ WrongBuild(c) \/ UnknownMessage(c)
    \/ \E t \in 1 .. bounds.trans, size \in 0 .. bounds.size :
          \/ file_downloadStart(c, t, size)
          \/ \E encrypted \in BOOLEAN : auth_downloadStart(c, t, size, encrypted)
    \/ \E t \in 1 .. bounds.trans : auth_downloadNext(c, t)

WorkerStep(c) ==
    \/ Register(c) \/ auth_init_fails(c) \/ Request(c) \/ SockHup(c)
    \/ Erase(c) \/ FreeSock(c)
    \/ \E t \in Trans : SendFile_fails(c, t)

Next ==
    \/ \E c \in Conns :
          \/ \E l \in Listeners : Connect(c, l)
          \/ \E k \in Workers : dm_lobby(c, k)
          \/ PeerCloses(c) \/ KeepsTalking(c)
          \/ WorkerStep(c) \/ dm_auth_answers(c) \/ UseForeign(c)
          \/ \E t \in Trans : SendFile(c, t)
    \/ \E l \in Listeners : ListenerStep(l)
    \/ \E l \in Listeners : Restart(l)
    \/ \E i \in DOMAIN Shutdown : Stop(i)
    \/ StartListener \/ StartListener_fails \/ Exit \/ daemon_stuck

\* A thread is blocked for NET_TIMEOUT at most, or until its number's connection
\* ends: but for the listener that reads lines as long as they come, and for a
\* worker while its client is there or the daemon owes it an answer.
Spec ==
    /\ Init /\ [][Next]_vars
    /\ \A l \in Listeners :
          WF_vars(\/ AcceptSock_call(l) \/ AcceptSock_full(l) \/ AcceptSock(l) \/ Leave(l)
                  \/ \E c \in Conns : peer[c] # "talks" /\ FreeClient(l, c))
    /\ \A c \in Conns :
          /\ WF_vars(\/ Register(c) \/ auth_init_fails(c)
                     \/ SockHup(c) /\ ~Readable(c)
                     \/ Erase(c) \/ FreeSock(c)
                     \/ \E t \in Trans : SendFile_fails(c, t))
          /\ WF_vars(dm_auth_answers(c))

-----------------------------------------------------------------------------
Entries ==
    {Free, Leaked} \cup {Listen(l) : l \in Listeners}
    \cup {Sock(c) : c \in Conns} \cup {File(c) : c \in Conns}
Threads == [pc : {"none", "off", "loop", "accept", "header", "left"}, fd : Fds,
            conn : Conns \cup {"nobody"}]
Downloads == [size : Nat, pos : Nat, fd : 0 .. MaxFd]
Received == [size : Nat, chunks : Seq(Nat)]

TypeOK ==
    /\ bounds \in Bounds
    /\ table \in [Fds -> Entries]
    /\ peer \in [Conns -> {"idle", "pending", "open", "talks", "gone"}]
    /\ queue \in [Listeners -> Seq(Conns)]
    /\ thread \in [Listeners -> Threads]
    /\ kind \in [Conns -> Workers \cup {"none"}]
    /\ pc \in [Conns -> {"none", "spawned", "serve", "send", "asks"} \cup Over]
    /\ sock \in [Conns -> 0 .. MaxFd]
    /\ files \in [Conns -> [Trans -> Downloads]]
    /\ \A c \in Conns, t \in Trans :
          /\ files[c][t] = NoFile \/ files[c][t].pos < files[c][t].size
          /\ files[c][t].size <= bounds.size
    /\ got \in [Conns -> [Trans -> Received]]
    /\ main \in [pc : {"run", "restart", "quit", "exit"},
                at : Listeners \cup Workers \cup {"none"}]
    /\ daemon \in {"up", "ended", "stuck"}
    /\ main.pc = "restart" => main.at \in Listeners
    /\ restarts \in 0 .. bounds.restarts
    /\ early \in BOOLEAN /\ mixed \in BOOLEAN

\* Every open descriptor has somebody who will close it: a listening thread in
\* its loop, a connection's handle, a download; the only exception is the one
\* file of a file server worker whose transfer broke, for cb_downloadStart's
\* close(fd) is skipped by the exception.  And as long as no handle was closed
\* before it was freed, every number means the descriptor it was stored for:
\* only CloseSock followed by FreeSock (wrong build, unknown message, StopLobby,
\* the shutdowns) lets a worker read, answer or close somebody else's.
DescriptorsOwned ==
    /\ \A l \in Listeners, n \in Fds :
          table[n] = Listen(l) =>
              thread[l].fd = n /\ thread[l].pc \in {"loop", "accept", "header"}
    /\ \A c \in Conns, n \in Fds : table[n] = Sock(c) => sock[c] = n
    /\ \A c \in Conns, n \in Fds :
          table[n] = File(c) => pc[c] # "ended" /\ \E t \in Trans : files[c][t].fd = n
    /\ Cardinality({n \in Fds : table[n] = Leaked})
          <= Cardinality({c \in Conns : pc[c] \in Over})
    /\ ~early =>
          /\ ~mixed
          /\ \A c \in Conns :
                /\ sock[c] # 0 => At(c) = Sock(c)
                /\ \A t \in Trans : files[c][t].fd # 0 => table[files[c][t].fd] = File(c)

\* A download is broken for its client once its connection is: closed on either
\* side, given up by the worker, or used by another's worker.
Transfer == INSTANCE FileTransfer WITH
    Transfers <- Conns \X Trans,
    Sizes <- UNION {0 .. b.size : b \in Bounds},
    size <- [x \in Conns \X Trans |-> got[x[1]][x[2]].size],
    got <- [x \in Conns \X Trans |-> got[x[1]][x[2]].chunks],
    broken <- [x \in Conns \X Trans |->
                 \/ peer[x[1]] = "gone" \/ mixed
                 \/ pc[x[1]] \in Over]

\* The downloads of the file server, sent in one go, and of the auth server, a
\* chunk per acknowledgement whenever it comes and kept by transaction id,
\* deliver each chunk once and in order.
TransferSpec == Transfer!Spec

\* The connection waits behind a client of the status server that keeps talking.
Held(c) ==
    \E l \in Listeners, d \in Conns :
       /\ c \in Range(queue[l])
       /\ thread[l].pc = "header" /\ thread[l].conn = d /\ peer[d] = "talks"

\* The worker waits for an answer of an auth daemon that gives none any more.
Unanswered(c) == kind[c] = "auth" /\ pc[c] \in {"asks", "failed", "refused"} /\ daemon # "up"

\* Unless the process runs out of descriptors again and again, or a worker has
\* used another's connection, a client in the queue is accepted or its listener
\* is closed, however silent the clients before it are (the listening threads read
\* headers themselves, under SO_RCVTIMEO), and the socket of a client that has
\* gone is closed.  Two things can keep them for ever: a client of the status
\* server that never ends its header, and an auth daemon that is dead or stuck,
\* which wk_authWorker asks once more before it closes the socket.
Served ==
    \/ []<>(FreeFds = {}) \/ <>(mixed)
    \/ \A c \in Conns :
          /\ peer[c] = "pending" ~> peer[c] # "pending" \/ Held(c)
          /\ peer[c] = "gone" ~> Sock(c) \notin Range(table) \/ Unanswered(c)
=============================================================================

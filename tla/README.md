# DIRTSAND in TLA+

DIRTSAND is a server for Myst Online: one process that runs a file server, an
auth server, game servers, a gate keeper and a status page, each connection
served by a thread of its own. This directory models its core: the channel all
threads talk through, the sessions of the auth server, the game hosts and the
scene they show, the traffic between auth daemon and game host over an age's SDL
state, the broadcasts by which clients keep up with the vault, the tables the
daemon fills over several lives of the process, the SDL language and its states,
and the connections with the descriptors behind them. TLC checks the models on
small instances; TLAPS proves, for every number of threads, connections, players,
hosts, nodes and messages, that the channel is a FIFO, that a download is the file,
and that the safety invariants of sessions, game hosts, age SDL, vault
broadcasts, vault tables, scores and connections hold.

Source paths below are relative to `src/`.

## The system

| Component | State | Operations | Talks to |
|---|---|---|---|
| Message channel (`NetIO/MsgChannel.*`) | queue, mutex, lazily created eventfd | put, get, hasMessage, fd, destructor | everything below |
| Auth workers (`AuthServ/AuthServer.cpp`) | per connection: account, player, age node, downloads, reply channel, broadcast channel | one callback per client message; disconnect | auth daemon, by request and reply; client list `s_authClients` |
| Auth daemon (`AuthServ/AuthDaemon.cpp`) | database connection, request queue, global SDL states | one handler per request; restart | workers' replies and broadcasts; game hosts (`GameServer_UpdateVaultSDL`, `GameServer_UpdateGlobalSDL`) |
| Vault (`AuthServ/AuthVault.cpp`, `db/functions.sql`) | nodes, references | create age, player, node; ref, unref, update, find, tree, send | called by the daemon only |
| Scores (`AuthDaemon.cpp`, `db/functions.sql`) | points per score | create, add, transfer, set | called by the daemon only |
| Game workers (`GameServ/GameServer.cpp`) | per connection: host pointer, reply and broadcast channels | join, message, disconnect | host queue; host registry `s_gameHosts`; auth daemon |
| Game host (`GameServ/GameHost.cpp`) | members, game master, locks, object states, clones, local SDL state | join, disconnect, message handlers, SDL updates, shutdown | workers' replies and broadcasts; auth daemon |
| SDL (`SDL/`) | descriptors; states with variables | parse, add, merge, update, blob in and out | hosts, daemon |
| File server (`FileServ/`) | manifests; open files per connection | manifest, chunked download | - |
| Gate keeper (`GateKeeper/`) | - | address queries | - |
| Lobby, sockets, console (`NetIO/Lobby.cpp`, `SockIO.cpp`, `dsmain.cpp`) | client lists, order of start and stop | accept, dispatch, shutdown, restart | all servers |
| Status page, encryption, message classes, base types | - | - | - |

A thread that needs another one puts a message whose payload is on its own
stack and blocks on its own reply channel. Everything hard follows from that:
a handler has to answer exactly once on each of its paths; two threads may wait
for each other; pointers to structures on other threads' stacks are kept in
shared lists; ids are looked up under a mutex and used after it is released; the
daemon and the hosts may end while requests are in their queues. The list is in
`PROJECT.json` under `hazards`, each at its line.

What would make each component correct:

* channel: an atomic FIFO; no lost wakeup; no use after the owner has returned;
* auth sessions: one session per player, a player in use is online, one answer
  per request, also across restarts of the daemon;
* game hosts: one host per age, one game master, exclusive locks, no pointers to
  ended workers, every worker answered;
* age SDL: no acknowledged update is lost, nobody waits for ever;
* vault: ages and players are created whole or not at all, who holds a node
  learns of its changes;
* scores: bounds kept, the reported outcome is what happened;
* SDL: a state read back from its blob is the state written;
* SDL files: what the database holds is what the text says, also when a file is
  damaged;
* downloads: the chunks add up to the file, for every order of acknowledgements;
* connections: a descriptor has one owner, clients are served or let go, also
  while services are restarted and the process stops.

## Modules

| Module | Models |
|---|---|
| `FifoChannel` | abstract: an atomic put and get |
| `MsgChannel`, `MCMsgChannel` | `DS::MsgChannel`, each critical section and system call one action |
| `QueueLemmas` | lemmas on `Append`, `Head`, `Tail` and queues of one message; induction over a set of numbers |
| `MsgChannelProofs` | theorems about `MsgChannel` |
| `AuthSession`, `MCAuthSession` | auth workers, auth daemon, restart |
| `AuthSessionProofs` | theorems about `AuthSession` |
| `GameHost`, `MCGameHost` | game workers, host threads, registry, of one age |
| `GameHostProofs` | theorems about `GameHost`: pairing, members, master, locks; the scene |
| `AgeSdl` | daemon and host calling each other over one age's SDL node |
| `AgeSdlProofs` | theorems about `AgeSdl` |
| `VaultSync`, `MCVaultSync` | vault references and contents, broadcasts of their changes, what clients see of them |
| `VaultSyncProofs` | theorems about `VaultSync`: types, the counts of buffers, what clients know |
| `SdlParser` | the scanner and the parser of SDL files, the descriptor database |
| `SdlState` (extends `SdlParser`) | states, blobs, `add`, `merge`, `update` |
| `SdlStore` (extends `SdlState`) | the global state of an age and the state of one object, in memory and in their tables |
| `VaultCreation` | creation of the vault, of ages and players, statement by statement |
| `Scores` | the table of scores |
| `AuthDb`, `MCAuthDb` | composition of the last three: the daemon's start, its requests, the end of the process |
| `AuthDbProofs` | theorems about `AuthDb`: ages, players, their lists, scores |
| `FileTransfer` | abstract: a download delivers the chunks in order |
| `Connections`, `MCConnections` | listeners, workers, downloads, descriptor table, restart and shutdown |
| `ConnectionsProofs` | theorems about `Connections`, and that it implements `FileTransfer` |

`AuthSession`, `GameHost`, `AgeSdl` and `VaultSync` use channels as sequences with atomic append and `Head`/`Tail`:
that is the contract of `FifoChannel`, which `MsgChannel` is proved to implement.
Operators keep the names of the functions they translate; a function that
releases a mutex or blocks in the middle is cut there, and the parts have a
suffix (`dm_auth_setPlayer_scan`, `dm_auth_setPlayer_mark`). A handler's whole
effect, its reply included, is in the action. Definitions headed "Variant" are
wrong versions of the one that follows; nothing uses them but the mutants of
`PROJECT.json`, which show that every property can fail.

### MsgChannel

`m_queue`, `m_semaphore` and the counters `events` are the members and the
eventfds; `pc` says where each thread is in `putMessage` (`PutPush`, `PutFd`,
`PutWrite`) or `getMessage` (`GetCall` or `HasMessage`, then `GetFd`, `GetRead`,
`GetPop`). `Fd` creates the eventfd on first use. `front()` on an empty queue
sets `undefined`. `Destroy` is the end of a channel on its owner's stack after
the last reply. `sent` and `delivered` are histories, and are exactly the
variables of `FifoChannel`, so the refinement mapping is the identity.
Failures of the eventfd calls themselves (descriptors exhausted) are left out.

### AuthSession

`cb_login`, `cb_setPlayer` and `cb_request` are the callbacks of the workers;
`GetReply` the return of their `getMessage`; `PeerCloses`, `Hup`, `Leave`,
`GetDisconnectReply`, `Remove` the way out of `wk_authWorker`. The handlers of
the daemon follow one to one. `playerId` is written by the worker before the
daemon looks at it, as in the code; `grant` is a ghost variable that records
what the daemon answered. A failing statement is a choice, limited to the kinds
in `Faults`. `dm_authDaemon_init` is the daemon's thread before its loop: with "init"
in `Faults` it returns, dead, and the UPDATE that sets everybody offline may fail
without consequence. `AuthServer_Shutdown` and `AuthServer_Init` are the console's
"restart auth", which puts e_AuthShutdown and joins the thread: `dm_auth_shutdown_wait`
may end at once, since its five seconds are no guarantee, and the new daemon has the
old queue. If the old daemon was dead, nobody has taken the message, and the
new one begins by shutting itself down.

`RequestsAnswered` names the two cases in which a requester waits for ever:
`Abandoned`, a dead daemon and nobody who restarts it, and `dropped`, the worker
whose `dm_auth_findAge` returned without an answer.

### GameHost

One age with its registry entry `s_gameHosts` and the host objects that are
created for it one after the other, or at once. A worker goes through
`cb_join` (lookup), `start_game_host` (register), `PutJoin`, `GetJoinReply`,
`Insert`, any number of `cb_netmsg`, then `Erase`, `PutDisconnect`,
`GetDisconnectReply`. A worker that uses a deleted host goes to "undefined" and
nothing is said about it from then on. `owns`, `holds`, `admitted`, `sees` and
`listed` are ghosts: what the clients were last told.

The scene is `avatar` (a worker's `m_clientKey` and `m_isLoaded`), `m_clones` and
`m_states` of the host, and `sees`, what was put into each client's broadcast
channel. `dm_load_clone`, `dm_read_sdl` (for states of avatars), `dm_send_members`,
`dm_send_state` and the unload in `dm_game_disconnect` change it. A message that
`makeSafeForNet` refuses is an "other" message: answered, without effect.
`SceneComplete` says that the list makes up for what a client missed while it
was joining; `NoLeftovers` says what remains of players who left: nothing, unless
the player had unloaded his avatar, for `dm_send_members` shows unloaded avatars
and `dm_game_disconnect` withdraws only loaded ones.

`cb_netmsg` asks only whether the worker has a host. So a client that the vault
refused (`VaultRefuses`: in no member map) and one that the host refused (in the map
all the same) send messages as well. The first may be alone when it asks for the
members, and then leaves the mutex locked (`jammed`): `OnlyOutsidersJam` says that
nobody else can bring that about. `start_game_host_orphan` is a host that was
registered before reading its stored states threw: it has no thread and answers
nobody.

Assumed of clients: one join per connection. Two connections may have the same
player as far as the module goes (`PlayerOf`); the auth server's sessions keep a
well-behaved client from it, the runs have one connection per player, and the table
under Proofs says which theorems need it.

### AgeSdl

Each update sets a variable of its own, so a state is the set of the updates in
it, and `State::add` and `State::merge` are union. A client that saves the
node does so on top of what the vault holds when it sends the save: a client that
works from an older copy overwrites others' changes in any design without
revisions, and is not what these properties are about. `phase` is what the
host thread does or waits for, `daemon` the save the auth daemon has passed on and
is blocked for, with `s_gameHostMutex` held (`MutexFree`). Failures of the fetch,
of parsing and of the database are in `Faults`. A SELECT that fails is no failure to
`dm_auth_fetchSDL`: it answers success with an empty blob (`dm_auth_fetchSDL_null`),
and the host begins with the default state and writes that over the node
(`start_game_host_upgrade`). A blob that cannot be parsed makes the host give up
(`start_game_host_unparsed`). `exposed` collects the updates that were in the node when
such a SELECT failed, or in a save of the host that failed; `HookAckedIsSaved` is about
all others. One game client comes and goes; several are in `GameHost`.

### VaultSync

`refs` and `version` are the vault's references and the contents of its nodes;
`v_ref_node`, `v_unref_node`, `v_send_node`, `v_update_node`,
`dm_auth_addAllPlayers` and `dm_auth_deletePlayer` change them, and all but the
last begin a broadcast. `bcast` is the broadcast under way: the daemon holds
`s_authClientMutex`, visits one client of the list at a time (`dm_auth_bcast`) and
drops its own reference to the buffer at the end; workers forward
(`cb_broadcast`) and drain (`Drain`) meanwhile, so that `m_refs` is
touched by several threads.

`wpc` follows the loop of `wk_authWorker`: it sleeps in `poll`, which tells it that the
socket, the channel or both have something. The socket comes first: `cb_sockRead` takes one request,
and `cb_nodeTree` or `cb_nodeFetch` answers it when the daemon has served it; then the
worker forwards one broadcast, if `poll` had seen one (`cb_broadcast`). So a tree may reach the client
before a broadcast that is older than it, and what came into the channel while the
worker waited for the daemon is not seen before the next `poll`.

The game client is external. Assumed of it: it downloads its player's tree
after it connects and the age's tree after it joins, fetches the subtree and
the contents of every node it is told of, and asks for nothing it is waiting for already.
It asks to join an age on the same socket, so its request for the player's tree is
answered before the join (guard of `dm_auth_updateAgeSrv`). Assumed of the vault: the
references have no cycle (`vault.has_node` and `vault.fetch_tree` never end on one).

`InStep` is what holds of a client with nothing under way: it knows the present
contents of all nodes below its player and its age, and their references, with one
exception: references from a node of the age that the player's tree has, or may get, as well.
Of such a node a client may be told before it joins. When a reference is removed and made again,
and in between the node is neither below the player nor is the client in the age yet, the
removal can wait in the channel while the age's tree, which has the reference, overtakes
it; the client then drops a reference that exists (`AuthServer.cpp:1134-1137`). Three
changes are enough for this. Bound: a connection joins one age. With a second join all
nodes of an age it comes back to are exposed in this way, and `InStep` does not hold. That a
client forgets what is no longer below its nodes is not claimed.

### SdlParser, SdlState, SdlStore

A file is a sequence of lines of lexemes. `NextLine` is the scanner's work on a
line (a comment ends it, and so does an unknown character), `ParseToken` one
turn of the loop of `Parser::parse`, with `ParseFrame`, `ParseVar` and
`parse_default` for its parts; the automaton keeps the variable and the descriptor
under construction, as the code does. `LoadDescriptors` reads the files of a
directory in turn; a file that cannot be read keeps what came before the error.
`FindDescriptor` and `FindLatestDescriptor` differ in what they keep of a version
that is there twice, as the code does: version -1 points to the first.

`SdlState` keeps dirty flags, contents flags, time stamps, default values and
nested states (one level). `WriteState` and `ReadState` follow the code's counts:
the loop over nested variables ends at the number of dirty ones, and a nested
variable announces all its children and writes the dirty ones. A blob is the
sequence of fields written; a reader that meets another field than it expects is
lost, which the code notices as an exception. `ObjectRestorable` states exactly
which saved objects can be read back: those whose changes have no gaps. `Update`
copies values without flags and stamps, so that an upgraded state is written
back as one without variables, and the next start has the defaults again.
`GlobalAgrees` says which values a restart gives back: those set since the last
upgrade, those that are defaults anyway, and no others (nothing is said when the last save
failed, `drifted`). A downgrade gives the null state: the next change from the console ends the
process (`update_globalSDL_crashes`), and so does the first player in the age, since
a new host merges the global state into its own without looking
(`CanMerge`, `start_game_host_crashes`); the same happens in an age that has a
descriptor and of which the daemon has no state (`HostGlobal`).

### VaultCreation, Scores, AuthDb

An age is the number of statements of `v_create_age` that were done, in the
order of `AgeStatements`; a player is how many nodes and references it has, its
relto and its hood. A creation stops at any statement, and is asked for again.
What the code does with the remains is in the actions: `dm_auth_createAge` takes an
age with AgeInfo as created, `dm_check_static_ages` looks for the AgeInfo of a
public one only (so an age set private is created a second time at the next
start, and so is any age whose query fails), `dm_all_players_init` may leave an empty
folder, `OpenHood` chooses a hood without owners folder (and `JoinHood` then reads
a row that is not there: `createPlayer_crashes`), `dm_auth_createPlayer` carries on
with the id 0, which gives a reference from node 0 to itself (`zeroRef`), one from the
AllPlayers folder to node 0 and a row, and deleting such a row deletes all of them. The ids of ages that
`gen_uuid` makes are numbers, those of clients and of the configuration are taken from
elsewhere, and none is both (`UuidAssumption`): `uuid_generate_v4` does not repeat an id that
somebody chose.

`Scores` keeps the 32-bit range on a small scale; statements whose arithmetic
leaves it fail. The reply to a transfer is always "not enough points", for a
boolean is read as a number; the points move nevertheless.
`getHighScores_crashes` is the query for owner 0, which returns four columns and
is read for five.

`AuthDb` puts them together: `Start`, `StartVault`, `StartSdl`, `StartAges` and
`StartAllPlayers` are `main` and `dm_authDaemon` before its loop, each of which may
fail; then requests; `Crash` at any time. What is in memory is lost, the tables
stay.

### FileTransfer, Connections

The descriptor table is modelled with the kernel's rule that the lowest free
number is given out, because `CloseSock` leaves its number in the handle and
`FreeSock` closes it again. A listening thread accepts, reads the header itself
with a timeout of 45 seconds (`FreeClient`), and starts a worker (`dm_lobby`). A worker
registers, answers, sends files, and ends by `Erase` and `FreeSock`. Workers of the auth server ask
the daemon (`auth_asksDaemon`), and once more when they end, before `Erase`; the
daemon answers (`dm_auth_answers`) while it is "up", not when its thread has
"ended" or it is "stuck" in a request, as in `age_sdl_deadlock`. A client of the status server may go
on sending header lines (`KeepsTalking`). `accept` fails when no number is
free (`AcceptSock_full`) and is called again. `main` stops
the services in the order of `Shutdown`, or restarts the lobby or the status
server. `early` records that a handle was closed before it was freed (wrong
build, unknown message, `StopLobby`, a shutdown); `mixed` that a thread has then
used a number that belongs to somebody else by now. A behaviour ends when that happens:
whatever follows is another connection's data. `DescriptorsOwned` says that it
happens only so.

The game client is external: it uses a transaction id again only when its
download under that id is complete. Also in the behaviours: a broken transfer of
the file server leaks one descriptor (`Leaked`), an empty file is never answered,
a stop of the lobby while it reads a header leaves the thread accepting on a
closed number for ever and `main` waiting for it, a listening thread that left on its own
leaves a handle behind. Left out: game server connections, event and database
descriptors.

## Runs

| Run | Instance | Shows |
|---|---|---|
| `msg_channel` | 2 producers, 1 consumer, 3 puts, 2 messages | queue and semaphore in step (`Conservation`), no pop from an empty queue, no lost wakeup, no use after destruction, refinement of `FifoChannel`, drains end, messages arrive |
| `auth_session` | 2 connections, 2 players, 1 account, 1 restart, failing start, SELECT and UPDATE | `OneSessionPerPlayer`, `ActiveIsOnline`, `OneReplyPerRequest` |
| `auth_replies` | 1 connection, 1 game host, 2 restarts, failing start, SELECT, UPDATE and INSERT | `RequestsAnswered` |
| `game_host` | 3 connections that join and leave, 2 hosts, 1 object; 2 connections for locks, lists and the scene; undecodable keys | `LockExclusive`, `OneOwner`, `MasterIsLive`, `NoDanglingClient`, `OnlyOutsidersJam`, `SceneComplete`, `NoLeftovers`, `OneReplyPerMessage` |
| `game_two_hosts` | 2 connections, 2 hosts | refutes `OneGameMaster` |
| `game_lost_disconnect` | 2 connections, 1 host | refutes `LeaverAnswered` |
| `age_sdl` | 2 saves, 2 updates, 2 lives of the host, failing SELECT, parse and saves | `HookAckedIsSaved`, `WorkerAnswered` |
| `age_sdl_lost_save` | 1 save, 1 life | refutes `SavesNotLost` |
| `age_sdl_deadlock` | 1 save, 1 life | refutes `SavesAnswered` |
| `vault_sync` | 2 clients, 2 changes, 2 players, an inbox, the AllPlayers folder, 1 age, 1 shared leaf | `InStep`, `BuffersCounted` |
| `auth_db` | 2 starts, 3 or 4 requests of one kind, 1 failing statement, SDL files whole and damaged at every token | `DescriptorsMatchText`, `GlobalAgrees`, `ObjectRestorable`, `PlayerRowsSound`, `AgesSound`, `ListsAgree`, `ScoresSafe` |
| `connections` | 1 or 2 clients, 3 or 4 descriptors, up to 2 downloads of up to 3 chunks, restart, quit, an auth daemon that is up, dead or stuck | `DescriptorsOwned`, refinement of `FileTransfer` (`TransferSpec`), `Served` |

### What the refutations say

* `game_two_hosts`. `find_game_host` unlocks between lookup and registration.
  Two first players get two hosts, both registered, the second over the first,
  and both are told that they own the objects. With one host object in the
  instance the same property fails later, in another way: the master leaves
  while another player's join is answered and not yet inserted in `m_clients`,
  nobody is promoted, and the age has a member and no master.
* `game_lost_disconnect`. Of two players who leave together, the second is out of
  the member map and has not put its message when the first one's handler finds
  the map empty and queues the shutdown. Its `e_GameDisconnect` is behind it and is
  never read.
* `age_sdl_lost_save`. The daemon handles a save between `dm_auth_fetchSDL` and the
  registration of the host.
* `age_sdl_deadlock`. The daemon passes a save to a host that is blocked for that
  daemon's answer to a join. The daemon holds `s_gameHostMutex`, so joins of all
  other ages stop as well.

One failure of the same kind is in the models but outside the passing runs'
`Faults`: with "createNode" `OneReplyPerRequest` fails (`dm_auth_createPlayer`
answers and carries on). Others are in the passing runs, and the properties name them as
exceptions: a lost answer and a dead daemon in `RequestsAnswered`, a failing statement of
the host in `HookAckedIsSaved`, a refused client in `OnlyOutsidersJam`, a talking
client and an unanswered disconnect in `Served`. With "insert" `OneReplyPerRequest` fails
for the worker that is not answered.

### Bounds

Two producers are enough for every pair of overlapping puts, and three puts let
one be queued, one be half done and one be delivered. Two connections contend
for a player, or switch between two; one restart leaves requests of the old
life in the queue, two do so while the first is still being recovered from. In
`GameHost`, three connections give a master, a successor and a third who is
joining or leaving meanwhile; two hosts give an old and a new host of the age
alive at once. Locks and lists need two: one who asks and one who is in the way, or who
was refused (`Talks` says how many connections send which messages). In `AgeSdl`, two of each update and two lives give an update
acknowledged in one life and overwritten candidates in the next. In `VaultSync`,
two changes let one be broadcast while the other waits on a channel, and two
clients let a buffer be read, drained and still be put to another. The scene of
`GameHost` is about pairs, one who sees and one who is seen, so two connections
are enough, with two or three kinds of messages at a time: every property of the scene
is broken by at most three, and no handler relates clones to avatars. In
`AuthDb`, one failure in the first life or the second, repeated requests and a
restart give every prefix of a creation followed by another attempt;
`AgeStops` are the statements whose absence some code tells apart. In
`Connections`, each plan of `Bounds` adds one difficulty to the smallest
instance in which it shows: a number can be given out again as soon as there are
two clients, or a client and a file. Bounds that are constants: `MaxPuts`,
`MaxRestarts`, `MaxLives`, `MaxChanges`, `MaxStarts`, `MaxRequests`, `MaxFailures`,
`IntMax`, `MaxFd`, `MaxTrans`, `Bounds`, `Talks`, and the set `Hosts`.
Symmetry is used in the two large safety runs only, over sets whose members the
specification never tells apart.

`CHECK_DEADLOCK FALSE` is set where the system may stop: a channel that was
destroyed, connections and hosts that are used up, an age nobody enters any
more, a vault whose changes are used up, a process that was stopped or whose
requests are used up, a daemon that could not start when all connections wait for it.

### Fairness

Weak fairness of the daemon, of every host thread and of every worker inside a
call: they are loops that block only in the operations the models show. Nothing
is assumed of peers, game clients or the operator: they need not send, join,
leave or restart. In `MsgChannel` the owner of a channel keeps calling
`getMessage`, as the loops of the workers and daemons do. `WorkerAnswered` in
`AgeSdl` is conditional on the daemon coming back again and again, since
`SavesAnswered` is false. In `AuthSession`, `AuthServer_Init` is fair once the
console is inside a restart; the operator need not begin one.

In `Connections`, a listening thread gets on with accepting, and with freeing a client that
sends nothing, because it reads under `SO_RCVTIMEO`; not with a client of
the status server that keeps sending lines, for the timeout starts anew with each. A worker
is fair where it does not depend on others: it registers, it notices that its
connection is gone, it leaves the list and frees the socket. It need not finish a
`SendFile` to an open peer that does not read, which has no timeout, and nothing but the daemon
ends its wait for an answer. The daemon is fair while it is up (`dm_auth_answers`).
So `Served` has exceptions that are the code's: a queue behind a talking
client (`Held`), and a worker whose daemon is dead or stuck (`Unanswered`), which asks it once more
before it closes the socket. It claims nothing of a process that runs out of
descriptors again and again, where `accept` fails and is repeated.

## Proofs

Every theorem is about `Spec`, so fairness plays no part, and holds for all values
of the constants that satisfy the named assumptions of the modules (finite,
disjoint sets of threads; numbers that are natural; in `GameHost` a set of objects
that is not empty; in `VaultSync` no cycle of references; in `AuthDb` ids that differ from
those `gen_uuid` makes). None of the invariants the runs check is inductive alone.
Each proof module defines the inductive invariant as a conjunction of named
parts, has one lemma per part with one step per action, and ends with the
theorems. TLC checked each inductive invariant on the instance of the run.

| Module | Theorem | Property | Assumes |
|---|---|---|---|
| `MsgChannelProofs` | `TypeCorrect`, `SemaphoreAccounting`, `PopIsDefined`, `WakeupNotLost`, `DestroyIsSafe` | `TypeOK`, `Conservation`, `NoPopFromEmpty`, `NoLostWakeup`, `NoUseAfterDestroy` | |
| | `ImplementsFifo` | `FifoSpec` (refinement) | |
| `AuthSessionProofs` | `TypeCorrect` | `TypeOK` | |
| | `SessionUnique`, `OnlineWhileActive`, `OneReply` | `OneSessionPerPlayer`, `ActiveIsOnline`, `OneReplyPerRequest` | `Answering` |
| `GameHostProofs` | `TypeCorrect`, `NoDangling`, `MasterLive`, `OneReply` | `TypeOK`, `NoDanglingClient`, `MasterIsLive`, `OneReplyPerMessage` | |
| | `LocksExclude`, `OutsidersJam` | `LockExclusive`, `OnlyOutsidersJam` | |
| | `OwnerUnique` | `OneOwner` | `OnePlayerEach` |
| | `SceneAgrees`, `NothingLeft` | `SceneComplete`, `NoLeftovers` | `OnePlayerEach` |
| `AgeSdlProofs` | `TypeCorrect`, `AcknowledgedIsSaved` | `TypeOK`, `HookAckedIsSaved` | |
| `VaultSyncProofs` | `TypeCorrect`, `BuffersExact`, `ClientsInStep` | `TypeOK`, `BuffersCounted`, `InStep` | |
| `AuthDbProofs` | `AgesAreSound`, `PlayersAreWhole`, `ListsDoAgree` | `AgesSound`, `PlayerRowsSound`, `ListsAgree` | |
| | `ScoresCannotGrow` | `ScoresSafe` (action property) | |
| | `VaultTypesCorrect`, `ScoresInvariant` | `VaultTypeOK`, a part of `TypeOK`; `ScoresInv` | |
| `ConnectionsProofs` | `TypeCorrect`, `DescriptorsSound` | `TypeOK`, `DescriptorsOwned` | |
| | `DownloadsDelivered` | `TransferSpec` (refinement) | |

The two hypotheses:

* `Answering` excludes the faults "createNode" and "insert", after which the code
  answers twice or not at all. With them `OneReplyPerRequest` is false, so nothing
  less would do; the invariant is a statement about a code in which those two
  paths are repaired or do not happen. `TypeCorrect` needs no such hypothesis.
* `OnePlayerEach` says that two connections never have the same player. The host
  keeps members, locks and master by player id. The auth daemon lets a player in
  on one connection (`OneSessionPerPlayer`), and a well-behaved client does not
  return to an age before its old worker has ended there. The client that does is
  the hazard at `GameServer.cpp:289`: of the age's owner and of the scene nothing is
  claimed then. Types, members, master, replies, locks and the mutex need no such
  hypothesis. What `LockExclusive` says of a player on two connections is that an object
  on record is held by a client of the recorded player that was affirmed it and has not
  left, so that nothing stays locked by a player who is gone; that both connections
  of one player think they hold it can happen, and is not excluded.

### MsgChannel

"No pop from an empty queue" needs that each get past its event read has a queued
message of its own, that is `Conservation`; `Conservation` is kept by `PutWrite` only if the
descriptor the thread fetched earlier is still the channel's
(`DescriptorAgrees`), since `fd()` is called in a critical section of its own; the
refinement needs that the queue is the undelivered part of the history
(`QueueIsPending`); destruction needs that the last delivery leaves no put under
way (`LifeInv`, and `Conservation` again with an empty queue). The counting is done by
lemmas on the sets `Putting` and `Popping`, which gain or lose one thread at a time.

### AuthSession

`BaseInv` is the types and the forms of the requests. `RequestInv` says that a blocked
thread has its one request in the queue, or with the daemon, or its reply in its
channel: so whoever the daemon serves is blocked, and what it was when it sent the
request it still is. A restart drops nothing from the queue, so `RequestInv`
goes through it. `SessionInv` follows a player id. It is in `m_playerId` ungranted
only from `cb_setPlayer` to the daemon's answer and after a disconnect
(`WorkerInv`, `ClaimInv`); a client with a grant is in the list, where the scan finds it
(`ListInv`); between scan and grant nobody else is granted the same player (`MarkInv`);
and during a restart no granted client has its socket (`ClosedInv`), which is why
the new daemon may set every player offline.

### GameHost

The core is again the pairing, `RequestInv`: a waiting worker has its one message in
its host's queue, or with the host thread, or its answer. From it follow the
member map (`MemberInv`) and the master (`MasterInv`); together with the types and
`PointerInv` they are `BaseInv`. `LockInv` and `AdmissionInv` say what is on record of
a connection that shares its player with no other (`Alone`), and who is on record
otherwise; with `BaseInv` they are `HostInv`, which holds whoever the players are
(`HostInductive`). `OwnerInv` and the scene need `OnePlayerEach`. For the scene,
`AvatarsInv` and `ClonesInv` say what a client in its loop sees, listed or not yet
listed; `GoneInv` covers a leaving client from the handling of its
disconnect on; `SameHostInv` and `BlankInv` are needed because handlers reach the member
map only, while a client that the vault refused is in its loop and not in the map.

### AgeSdl

An acknowledged update could be lost to a save that a client made earlier, whose blob lacks
the update, and which waits in the daemon's queue. `SavedInv` says that such a
save meets a host that has the update and merges it. It does, because the host
saves its copy a last time before it leaves: that save stands behind the
client's, and the host waits for its answer (`HostWaits`, `ShutdownInv`). A statement
of the host that fails takes the updates it was about out of this argument
(`exposed`), and only those: `SavedInv` and the others are about `Safe`, what was
acknowledged and is not exposed. A host that starts from an empty state after a
failed SELECT is covered so, for whatever the node held then is exposed.

### VaultSync

A buffer is at most once in a channel, because a channel holds buffers in the
order of their creation and not the one the daemon has not yet put there
(`QueuedInv`). So its count is the number of clients that have it waiting, one
more while the daemon sends it (`CountInv`).

`InStep` speaks of a client at rest, its invariant `FollowInv` of every moment. It looks at
the nodes below a client's player and its age, without the trees that the client has
asked for or is yet told to ask for (`Below`, `Pending`). Of such a node the client knows the
contents, or a request or a broadcast that brings them is under way
(`VersionsFollow`); of its references, the client knows each or will be told of it
(`RefsFollow`). A tree can overtake older broadcasts. An old "added" or "changed" only
makes the client fetch once more; an old "removed" takes away a reference that the tree has brought. `RemovalsFollow`
says that this does no harm: if the reference exists, its "added" comes after the
removal, or the parent is only in trees that the client will be told to fetch after it. This holds of the player's
tree, of which the client is told from the start, and of those nodes of the age that
can never be in the player's tree, since nothing about them comes before the join
(`PlayerFirst`). This is where the exception in `InStep` comes from. The guard of
`dm_auth_updateAgeSrv` on the player's tree keeps the instance small; the proof does not use it.
`RestInv` has the types and the places
of the workers. That `Tree`, defined level by level, is closed under the
references, and the smallest such set, is proved by induction on the levels
(a step added and one taken away change it by what is below the child).

### AuthDb

Creations are not transactions, so `VaultInv` says of every table what also holds of the
remains. `AgesFacts`: an id that the daemon made is the number of its age, so that only a
configured one may be there twice (`UuidsSound`); the rows of `game.Servers` that are
not temporary are those of the ages whose last statement was done (`ServersSound`).
`OwnersFacts` and `PlayersFacts`: only players own ages, and only ages with an owners'
folder; what a player has as relto and hood is an age of that kind. `RowsFacts`: a name gets a row only with what
`v_create_player` returned, hence a whole player (`WholePlayer`) or the id 0. `FolderInv` is
about the AllPlayers folder, which a start makes before requests are served.
`ListsInv` is what holds besides as long as nothing failed (`Agreed`). A start creates the configured ages by a loop, a recursive function of the
model; that each turn keeps `AgesFacts`, so that the loop does, is shown by
induction on the turns. `ScoresInv` is the type of the table and the uniqueness of an owner's names;
`ScoreStep`, what a request may do, is proved request by request. `Cardinality(moved) <= 2`
comes from naming the one or two scores it touches.

### Connections

`DescriptorsOwned` relates the table to what is stored in three places. One
direction holds whatever was closed: an entry of the table is found from a listening thread
(`ListenInv`), a handle (`HandleInv`) or a download (`FileInv`). It needs that
`accept` hands out a connection that has no handle yet, hence that a connection is in one
queue once (`QueueInv`), and that a thread is in `accept` only on a listening socket, which
may be the other listener's after an early close. The other direction, that a
number leads to its own entry, holds until `early` (`OwnInv`); `MainInv` says that
`main` stops the lobby only by an early close, so that `early` is what
every stop and every restart but that of an absent status server comes to.
`LeakInv` counts: a worker of the file server has one file, so a failing transfer
leaks one, and its worker is over. `FileInv` also says how many chunks of an open download the client has,
from which each step of `Next` is a step of `FileTransfer` or leaves it alone (`Progress`).

### Only model-checked

* The liveness properties (`DrainFinishes`, `EventuallyDelivered`,
  `RequestsAnswered`, `WorkerAnswered`, `Served`): out of the prover's reach.
* Of `AuthDb`: `TypeOK` (beyond `VaultTypeOK`), `DescriptorsMatchText`,
  `GlobalAgrees`, `ObjectRestorable`. They depend on what the parser makes of a text and
  what a blob's writer and reader make of the fields of a state, which are folds over sequences
  with states of many fields. Induction over numbers is possible (`Induction` in
  `QueueLemmas`, from the well-foundedness of `<`), and is used for loops and trees;
  for `FoldLeft` the library's theorems on recursive definitions would be needed,
  which take operators as parameters. The automaton of the parser would also need an
  invariant of its own, which has not been attempted.
* The liveness half of the vault's broadcasts, that a client comes to rest, is not stated.

## Not modelled

Encryption and key exchange (arithmetic on big numbers), the serialisation of
the message classes, settings and base types: no state and no interleaving to
check. Of the modelled parts: the search for vault nodes by example and the
fields of nodes, accounts and their flags, the list of public ages (single
queries whose rows go to the client); which members a chat message is
routed to, in this and other hosts (it leaves no state behind); a second
connection of a player to a game host while the first has not been noticed as
gone; the lines of manifests and the status page.

## Plan

The models and the proofs are complete along the plan. What would carry it further: to
write the parser of SDL files and the blobs as recursive functions over positions, as the loop of
`dm_check_static_ages` is, and prove `DescriptorsMatchText` and `GlobalAgrees` from
an invariant of the automaton; a second connection of a player in
`GameHost`, with what the properties that are keyed by player become there.

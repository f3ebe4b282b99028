------------------------------- MODULE AuthDb -------------------------------
(***************************************************************************)
(* The database behind the auth daemon over the life of several processes: *)
(* the start of dm_authDaemon, one phase per step of it, and then the      *)
(* requests it serves one after the other.  Any statement may fail, and    *)
(* the process may end at any time; what is in memory is lost and the      *)
(* tables stay.  The tables of global and of object states, of the vault   *)
(* and of scores are touched by different requests: a behaviour makes      *)
(* requests of one kind.                                                   *)
(***************************************************************************)
EXTENDS SdlStore, VaultCreation, Scores

\* The kinds of requests.
Works == {"global", "object", "vault", "scores"}

CONSTANTS
    FirstFiles,   \* SDL directories a server may start with (a sequence)
    LaterFiles,   \* SDL directories it may be restarted with (a sequence)
    MaxStarts,    \* bound on starts of the process
    MaxRequests,  \* bound on requests of each kind of work
    AgeStops,     \* after how many statements of v_create_age a failure is tried
    MaxFailures   \* bound on requests and start steps that meet a failing statement

ASSUME BoundsAssumption ==
    /\ {MaxStarts, MaxFailures} \subseteq Nat
    /\ AgeStops \subseteq 0 .. AgeLength - 1
    /\ MaxRequests \in [Works -> Nat]

VARIABLES
    work,      \* the kind of requests of this behaviour
    phase,     \* how far the process has come
    starts, requests, failures

vars == <<sdlVars, vaultVars, scoreVars, work, phase, starts, requests, failures>>

\* The steps of dm_authDaemon before its loop, the loop ("up"), and a daemon
\* whose start failed: its thread has ended, the process runs on.
Phases == {"down", "vault", "sdl", "ages", "allPlayers", "up", "ended"}

Init ==
    /\ SdlInit /\ VaultInit /\ ScoreInit
    /\ work \in Works
    /\ phase = "down" /\ starts = 0 /\ requests = 0 /\ failures = 0

Counts(fails) ==
    /\ fails => failures < MaxFailures
    /\ failures' = IF fails THEN failures + 1 ELSE failures

----------------------------------------------------------------------------
\* main reads the SDL files before it starts the daemon.
Start ==
    /\ phase = "down" /\ starts < MaxStarts
    /\ LET dirs == IF starts = 0 /\ work # "object" THEN FirstFiles ELSE LaterFiles
       IN  \E i \in CASE work = "global" -> DOMAIN dirs
                      [] work = "object" -> 1 .. Len(LaterFiles)
                      [] OTHER -> {Len(dirs)} : StartWith(dirs[i])
    /\ phase' = "vault"
    /\ starts' = starts + 1
    /\ UNCHANGED <<vaultVars, scoreVars, work, requests, failures>>

\* One step of the start: the next phase if it succeeds, "ended" if not.
StartVault ==
    /\ phase = "vault"
    /\ \E k \in IF sys = 0 THEN 0 .. 3 ELSE {0, 3} :
          /\ Counts(k < 3) /\ (k < 3 => work = "vault")
          /\ dm_vault_init(k)
          /\ phase' = IF k = 3 THEN "sdl" ELSE "ended"
    /\ CloseFiles
    /\ UNCHANGED <<scoreVars, work, starts, requests>>

StartSdl ==
    /\ phase = "sdl"
    /\ \/ \E fails \in BOOLEAN :
             /\ Counts(fails) /\ (fails => work = "global")
             /\ dm_global_sdl_init(fails)
             /\ phase' = IF fails /\ globalRow = None THEN "ended" ELSE "ages"
       \/ /\ Latest # <<>> /\ work = "global" /\ Counts(TRUE)
          /\ phase' = "ended"
          /\ UNCHANGED sdlVars
       \/ /\ UpgradeThrows
          /\ phase' = "down"
          /\ UNCHANGED <<sdlVars, failures>>
    /\ UNCHANGED <<vaultVars, scoreVars, work, starts, requests>>

StartAges ==
    /\ phase = "ages"
    /\ \/ /\ Counts(FALSE)
          /\ dm_check_static_ages(Len(StaticAges) + 1, 0, 0)
          /\ phase' = "allPlayers"
       \/ \E missed \in DOMAIN StaticAges :
             /\ work = "vault" /\ Counts(TRUE)
             /\ dm_check_static_ages(Len(StaticAges) + 1, 0, missed)
             /\ phase' = "allPlayers"
       \/ \E n \in DOMAIN StaticAges, k \in AgeStops : \E missed \in {0, n} :
             /\ work = "vault" /\ Counts(TRUE)
             /\ dm_check_static_ages(n, k, missed)
             /\ phase' = "ended"
    /\ UNCHANGED <<sdlVars, scoreVars, work, starts, requests>>

\* Failing references to old players do not end the start, and neither does the
\* statement that marks the players offline; a failing query for the players does,
\* and leaves an empty folder.
StartAllPlayers ==
    /\ phase = "allPlayers"
    /\ \E k \in 0 .. 2 :
          /\ Counts(k < 2) /\ (k < 2 => work = "vault")
          /\ dm_all_players_init(k)
          /\ phase' \in CASE k = 0 -> {"ended"} [] k = 1 -> {"ended", "up"} [] k = 2 -> {"up"}
    /\ UNCHANGED <<sdlVars, scoreVars, work, starts, requests>>

\* The process ends, in whatever phase.
Crash ==
    /\ phase # "down" /\ starts < MaxStarts
    /\ phase' = "down"
    /\ UNCHANGED <<sdlVars, vaultVars, scoreVars, work, starts, requests, failures>>

----------------------------------------------------------------------------
\* The daemon takes a request of this kind off its channel.
Serves(kind) ==
    /\ phase = "up" /\ work = kind
    /\ requests < MaxRequests[kind]
    /\ requests' = requests + 1
    /\ UNCHANGED <<work, starts>>

Survives == phase' = phase

GlobalRequest ==
    /\ Serves("global")
    /\ \E i \in DOMAIN GlobalChanges :
          \/ \E fails \in BOOLEAN :
                /\ Counts(fails) /\ Survives
                /\ dm_auth_update_globalSDL(GlobalChanges[i], requests + 1, fails)
          \/ /\ update_globalSDL_crashes(GlobalChanges[i])
             /\ phase' = "down"
             /\ UNCHANGED <<sdlVars, failures>>
    /\ UNCHANGED <<vaultVars, scoreVars>>

ObjectRequest ==
    /\ Serves("object") /\ Survives
    /\ \E i \in DOMAIN ObjectBlobs, persist \in BOOLEAN, fails \in BOOLEAN :
          /\ Counts(fails) /\ (fails => persist)
          /\ dm_read_sdl(FromBlob(descriptors, ObjectBlobs[i], requests + 1), persist, fails)
    /\ UNCHANGED <<vaultVars, scoreVars>>

\* A host of the age starts, or its start ends the process, or it shuts down.
HostLife ==
    /\ work \in {"global", "object"} /\ Serves(work)
    /\ \/ \E fails \in BOOLEAN : Survives /\ Counts(fails) /\ start_game_host(fails)
       \/ /\ start_game_host_crashes
          /\ phase' = "down"
          /\ UNCHANGED <<sdlVars, failures>>
       \/ Survives /\ Counts(FALSE) /\ StopHost
    /\ UNCHANGED <<vaultVars, scoreVars>>

\* The game host handles its messages at its own pace.
HostStep ==
    /\ phase = "up"
    /\ dm_global_sdl_update
    /\ UNCHANGED <<vaultVars, scoreVars, work, phase, starts, requests, failures>>

AgeRequest ==
    \/ \E uuid \in ClientUuids, k \in AgeStops \cup {AgeLength} :
          /\ Counts(k < AgeLength) /\ Survives
          /\ dm_auth_createAge(uuid, k)
    \/ \E uuid \in ClientUuids :
          /\ Counts(FALSE) /\ Survives
          /\ dm_auth_findAge(uuid)
    \/ \E i \in DOMAIN servers :
          /\ Counts(FALSE) /\ Survives
          /\ DropTemporary(i)
    \/ \E i \in DOMAIN ages, public \in BOOLEAN :
          /\ Counts(FALSE) /\ Survives
          /\ dm_auth_set_pub_priv(i, public)

\* The statements of a player's creation after which a failure is tried, and
\* its end with and without a new hood: its nodes, its relto and its owner, its
\* hood, its references, and the three statements of dm_auth_createPlayer.
PlayerStops ==
    LET hood == PlayerNodes + AgeLength + 1
        Ends(base) == {base, base + 1} \cup (base + PlayerRefs - 1 .. base + PlayerRefs + 3)
    IN  {0, 1, 2, PlayerNodes - 1} \cup {PlayerNodes + k : k \in AgeStops}
        \cup {hood - 1} \cup {hood + k : k \in AgeStops}
        \cup Ends(hood) \cup Ends(hood + AgeLength)

\* A creation of which k statements are done, all of them if k is past the last.
CreatePlayer(name, made, k, later) ==
    /\ k <= made.last + 3
    /\ k < made.last + 3 \/ later
    /\ Counts(k < made.last + 3)
    /\ \/ Survives /\ dm_auth_createPlayer(name, made, k, later)
       \/ later /\ phase' = "down" /\ createPlayer_crashes(name, made)

PlayerRequest ==
    \/ \E name \in Names, k \in PlayerStops, later \in BOOLEAN :
          CreatePlayer(name, v_create_player(k, later), k, later)
    \/ \E row \in rows, k \in 0 .. 2 :
          /\ Counts(k < 2) /\ Survives
          /\ dm_auth_deletePlayer(row, k)
    \/ \E row \in {r \in rows : r.player # 0} :
          /\ Counts(FALSE) /\ Survives
          /\ dm_auth_addAllPlayers(row.player)

VaultRequest ==
    /\ Serves("vault")
    /\ AgeRequest \/ PlayerRequest
    /\ UNCHANGED <<sdlVars, scoreVars>>

Ids == 1 .. Len(scores) + 1

ScoreRequest ==
    /\ Serves("scores")
    /\ Counts(FALSE)
    /\ \/ /\ Survives
          /\ \/ \E owner \in ScoreOwners, name \in ScoreNames, type \in ScoreTypes, n \in Amounts :
                   dm_auth_createScore(owner, name, type, n)
             \/ \E owner \in ScoreOwners, name \in ScoreNames : dm_auth_getScores(owner, name)
             \/ \E id \in Ids, n \in Amounts :
                   dm_auth_addScorePoints(id, n) \/ dm_auth_setScorePoints(id, n)
             \/ \E src, dst \in Ids, n \in (Amounts \cap Nat) \cup {IntMax + 1} :
                   dm_auth_transferScorePoints(src, dst, n)
             \/ \E name \in ScoreNames, owners \in SUBSET ScoreOwners, max \in 0 .. 1 :
                   dm_auth_getHighScores(name, owners, max)
       \/ /\ \E name \in ScoreNames, max \in 0 .. 1 : getHighScores_crashes(name, max)
          /\ phase' = "down"
          /\ UNCHANGED scoreVars
    /\ UNCHANGED <<sdlVars, vaultVars>>

Next == \/ Start \/ StartVault \/ StartSdl \/ StartAges \/ StartAllPlayers \/ Crash
        \/ GlobalRequest \/ ObjectRequest \/ HostLife \/ HostStep \/ VaultRequest \/ ScoreRequest

Spec == Init /\ [][Next]_vars

----------------------------------------------------------------------------
TypeOK ==
    /\ SdlTypeOK /\ VaultTypeOK /\ ScoresTypeOK
    /\ phase \in Phases
    /\ starts \in 0 .. MaxStarts
    /\ failures \in 0 .. MaxFailures
    /\ requests \in 0 .. MaxRequests[work]

\* The parser delivers, in order, the descriptors of the text up to the first it
\* cannot read, and the database finds them by name, version and as the newest;
\* no token of one descriptor or variable shows in another, and the files of a
\* restart, which are well-formed, are read to their end (SdlParser.cpp,
\* DescriptorDb.cpp).
DescriptorsMatchText ==
    phase = "vault" =>
        LET all == [f \in DOMAIN files |-> Blocks(files[f])]
            Kept(n) == SelectSeq(FlattenSeq([f \in DOMAIN files |-> SubSeq(all[f], 1, n[f])]),
                                 LAMBDA b : b.version >= 0)
        IN  \E n \in [DOMAIN files -> 0 .. Max({Len(all[f]) : f \in DOMAIN files})] :
              /\ \A f \in DOMAIN files : n[f] <= Len(all[f])
              /\ starts > 1 => \A f \in DOMAIN files : n[f] = Len(all[f])
              /\ Holds(descriptors, Kept(n))

\* As long as no statement failed, the players with a name are those the hoods
\* and the AllPlayers folder list, no age is there in part, and node 0 gets into
\* the references, where vault.fetch_tree would follow it for ever, only with a
\* player that was refused because no city is public: creation and deletion touch
\* four tables (dm_auth_createPlayer, dm_auth_deletePlayer).
ListsAgree ==
    failures = 0 /\ phase = "up" =>
        LET named == {r.player : r \in rows} \ {0}
            hoods == {i \in DOMAIN ages : ages[i].file = "Neighborhood"}
        IN  /\ named = (UNION Range(allPlayers)) \ {0}
            /\ named = UNION {ages[i].owners : i \in hoods}
            /\ \A i \in DOMAIN ages : WholeAge(ages[i])
            /\ zeroRef \/ 0 \in UNION Range(allPlayers) =>
                  \E p \in DOMAIN players : players[p].refs = 0
=============================================================================

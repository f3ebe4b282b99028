--------------------------- MODULE VaultCreation ---------------------------
(***************************************************************************)
(* How ages and players come into the database (AuthVault.cpp,             *)
(* AuthDaemon.cpp): series of statements without a transaction, each of    *)
(* which may be the first to fail, repeated at the next start or when the  *)
(* client asks again.                                                      *)
(*                                                                         *)
(* An age or a player is stored as how many of its statements were done:   *)
(* they are always issued in the same order and end at the first failure.  *)
(* A failing query is counted with the statement after it, which is not    *)
(* reached either.  gen_uuid always delivers an unused id.                 *)
(***************************************************************************)
EXTENDS Integers, Sequences, SequencesExt, FiniteSets, FiniteSetsExt

CONSTANTS
    ClientUuids,      \* instance ids that clients choose
    Names,            \* player names
    StaticAges,       \* static_ages.ini: a sequence of [uuid, file], uuid 0 for auto
    HoodPopThreshold  \* Settings::HoodPopThreshold

\* gen_uuid makes numbers; an id that comes from elsewhere is none it makes.
ASSUME UuidAssumption ==
    /\ ClientUuids \cap Nat = {}
    /\ StaticAges \in Seq(Range(StaticAges))
    /\ \A age \in Range(StaticAges) :
          /\ age = [uuid |-> age.uuid, file |-> age.file]
          /\ age.uuid = 0 \/ age.uuid \notin Nat

VARIABLES
    sys,         \* statements of dm_vault_init done
    ages,        \* [uuid, file, public, done, owners] in the order of creation
    servers,     \* game.Servers: [uuid, age, temp], age 0 for no age node
    players,     \* vault side of players: [nodes, refs, relto, hood, linked]
    rows,        \* auth.Players: [name, player], player 0 for PlayerIdx 0
    allPlayers,  \* the players below the AllPlayers folder, and node 0; <<>> without a folder
    watchers,    \* players that have the AllPlayers folder in their tree
    zeroRef      \* vault.NodeRefs has a reference from node 0 to itself

vaultVars == <<sys, ages, servers, players, rows, allPlayers, watchers, zeroRef>>

VaultInit ==
    /\ sys = 0
    /\ ages = <<>> /\ servers = <<>> /\ players = <<>> /\ rows = {}
    /\ allPlayers = <<>> /\ watchers = {} /\ zeroRef = FALSE

\* The statements of v_create_age: ten nodes, ten references, one server row.
AgeStatements ==
    << "Age", "Chronicle", "PeopleIKnow", "SubAges", "AgeInfo", "Devices",
       "CanVisit", "SDL", "Owners", "ChildAges",
       "Age-System", "Age-Chronicle", "Age-PeopleIKnow", "Age-SubAges",
       "Age-AgeInfo", "Age-Devices", "AgeInfo-CanVisit", "AgeInfo-SDL",
       "AgeInfo-Owners", "AgeInfo-ChildAges", "Servers" >>

AgeLength == Len(AgeStatements)

Has(age, statement) == \E i \in 1 .. age.done : AgeStatements[i] = statement

WholeAge(age) == age.done = AgeLength

Fresh == Len(ages) + 1

\* Variant: the server is registered before the nodes and references are there.
v_create_age_serverFirst(as, srv, uuid, file, public, k) ==
    [ages    |-> IF k = 0 THEN as
                 ELSE Append(as, [uuid |-> uuid, file |-> file, public |-> public,
                                  done |-> k, owners |-> {}]),
     servers |-> IF k = 0 THEN srv
                 ELSE Append(srv, [uuid |-> uuid, age |-> Len(as) + 1, temp |-> FALSE])]

\* v_create_age with k statements done: it returns (0, 0) unless all are.
v_create_age(as, srv, uuid, file, public, k) ==
    [ages    |-> IF k = 0 THEN as
                 ELSE Append(as, [uuid |-> uuid, file |-> file, public |-> public,
                                  done |-> k, owners |-> {}]),
     servers |-> IF k < AgeLength THEN srv
                 ELSE Append(srv, [uuid |-> uuid, age |-> Len(as) + 1, temp |-> FALSE])]

\* find_public_age_1: the AgeInfo nodes it finds; uuid 0 asks for any.
find_public_age(as, file, uuid) ==
    {i \in DOMAIN as : /\ Has(as[i], "AgeInfo") /\ as[i].public
                       /\ as[i].file = file
                       /\ uuid # 0 => as[i].uuid = uuid}

----------------------------------------------------------------------------
\* dm_vault_init: once there is a System node, the inbox is taken for granted.
dm_vault_init(k) ==
    /\ sys' = IF sys = 0 THEN k ELSE sys
    /\ UNCHANGED <<ages, servers, players, rows, allPlayers, watchers, zeroRef>>

\* One static age, of whose statements k are done if it is created: it is if no
\* public age is found for it, or the query was not answered.
CheckAge(db, age, answered, k) ==
    IF answered /\ find_public_age(db.ages, age.file, age.uuid) # {} THEN db
    ELSE v_create_age(db.ages, db.servers,
                      IF age.uuid = 0 THEN Len(db.ages) + 1 ELSE age.uuid, age.file, TRUE, k)

\* dm_check_static_ages: the ages of the configuration in order; the n-th is the
\* one whose statements end at k, n is past the last if none fails; the query for
\* the one numbered missed fails.
dm_check_static_ages(n, k, missed) ==
    LET last == IF n > Len(StaticAges) THEN Len(StaticAges) ELSE n
        checked[i \in 0 .. last] ==
            IF i = 0 THEN [ages |-> ages, servers |-> servers]
            ELSE CheckAge(checked[i - 1], StaticAges[i], i # missed,
                          IF i = n THEN k ELSE AgeLength)
        db   == checked[last]
    IN  /\ ages' = db.ages
        /\ servers' = db.servers
        /\ UNCHANGED <<sys, players, rows, allPlayers, watchers, zeroRef>>

\* dm_all_players_init: a new folder takes the PlayerInfo nodes there are, as
\* far as the references succeed.
dm_all_players_init(k) ==
    LET infos == {p \in DOMAIN players : players[p].nodes >= 2}
    IN  /\ allPlayers' = IF allPlayers # <<>> \/ k = 0 THEN allPlayers
                         ELSE <<IF k = 1 THEN {} ELSE infos>>
        /\ UNCHANGED <<sys, ages, servers, players, rows, watchers, zeroRef>>

----------------------------------------------------------------------------
\* dm_auth_createAge: an age that has both its nodes is taken as it is.
dm_auth_createAge(uuid, k) ==
    LET there == {i \in DOMAIN ages : ages[i].uuid = uuid /\ Has(ages[i], "Age")}
        new   == v_create_age(ages, servers, uuid, "Garden", FALSE, k)
    IN  /\ ages' = IF there # {} THEN ages ELSE new.ages
        /\ servers' = IF there # {} THEN servers ELSE new.servers
        /\ UNCHANGED <<sys, players, rows, allPlayers, watchers, zeroRef>>

\* dm_auth_findAge: an instance nobody registered gets a temporary row.
dm_auth_findAge(uuid) ==
    /\ servers' = IF \E i \in DOMAIN servers : servers[i].uuid = uuid THEN servers
                  ELSE Append(servers, [uuid |-> uuid, age |-> 0, temp |-> TRUE])
    /\ UNCHANGED <<sys, ages, players, rows, allPlayers, watchers, zeroRef>>

\* The host of a temporary instance ends: dm_game_shutdown deletes the row.
DropTemporary(i) ==
    /\ servers[i].temp
    /\ servers' = RemoveAt(servers, i)
    /\ UNCHANGED <<sys, ages, players, rows, allPlayers, watchers, zeroRef>>

\* dm_auth_set_pub_priv on an AgeInfo node.
dm_auth_set_pub_priv(i, public) ==
    /\ Has(ages[i], "AgeInfo")
    /\ ages' = [ages EXCEPT ![i].public = public]
    /\ UNCHANGED <<sys, servers, players, rows, allPlayers, watchers, zeroRef>>

----------------------------------------------------------------------------
PlayerNodes == 16   \* nodes v_create_player makes itself
PlayerRefs == 20    \* references at its end

\* find_a_friendly_neighborhood_for_our_new_visitor: the first hood with room,
\* 0 if a new one is needed.  A hood without its owners' folder counts as empty.
OpenHood(as) ==
    LET hoods == {i \in DOMAIN as : as[i].file = "Neighborhood" /\ Has(as[i], "AgeInfo")
                                    /\ Cardinality(as[i].owners) < HoodPopThreshold}
    IN  IF hoods = {} THEN 0 ELSE Min(hoods)

\* Of the n statements that follow the first from ones, those among the first k.
Part(k, from, n) == IF k <= from THEN 0 ELSE IF k < from + n THEN k - from ELSE n

\* The statement of v_create_player that makes the player the owner of its relto.
OwnedAt == PlayerNodes + AgeLength + 1

\* Variant: the relto gets no owner.
CreateRelto_unowned(k) ==
    v_create_age(ages, servers, Fresh, "Personal", FALSE, Part(k, PlayerNodes, AgeLength))

\* The first half of v_create_player with k statements done: the nodes, the
\* relto and its owner.
CreateRelto(k) ==
    LET Own(db) == IF k < OwnedAt THEN db
                   ELSE [db EXCEPT !.ages[Len(db.ages)].owners = {Len(players) + 1}]
    IN  Own(v_create_age(ages, servers, Fresh, "Personal", FALSE,
                         Part(k, PlayerNodes, AgeLength)))

\* The hood: room is the one found, 0 if a new one is needed.  later is whether
\* the statements after the first failure succeed.  crashes: find_folder found
\* nothing and its result was read.
JoinHood(k, later, db, room) ==
    LET n   == Part(k, OwnedAt, AgeLength)
        Build(new) == [ages |-> new.ages, servers |-> new.servers,
                       hood |-> IF n < AgeLength THEN 0 ELSE Len(new.ages),
                       base |-> OwnedAt + AgeLength, crashes |-> n < AgeLength /\ later]
    IN  IF k < OwnedAt \/ room # 0
        THEN [ages |-> db.ages, servers |-> db.servers,
              hood |-> IF k < OwnedAt THEN 0 ELSE room, base |-> OwnedAt,
              crashes |-> k > OwnedAt /\ ~ Has(db.ages[room], "AgeInfo-Owners")]
        ELSE Build(v_create_age(db.ages, db.servers, Len(db.ages) + 1, "Neighborhood", TRUE, n))

\* v_create_player with k statements done before the first failure: the relto,
\* the hood, and the references, which need a public city.
v_create_player(k, later) ==
    LET city == find_public_age(ages, "city", 0) # {}
        Refer(db) ==
            [players |-> IF k = 0 THEN players
                         ELSE Append(players,
                                [nodes |-> Part(k, 0, PlayerNodes),
                                 refs  |-> IF city THEN Part(k, db.base, PlayerRefs) ELSE 0,
                                 relto |-> IF k > PlayerNodes THEN Fresh ELSE 0,
                                 hood  |-> db.hood, linked |-> TRUE]),
             ages |-> db.ages, servers |-> db.servers, hood |-> db.hood,
             made |-> city /\ k >= db.base + PlayerRefs,
             last |-> db.base + PlayerRefs, crashes |-> db.crashes]
        Home(db) == Refer(JoinHood(k, later, db, OpenHood(db.ages)))
    IN  Home(CreateRelto(k))

\* dm_auth_createPlayer, with what v_create_player made: a failure of it is
\* answered, and then the rest is done all the same, with the ids 0: a reference
\* from node 0 to itself, one from the AllPlayers folder to node 0, and a row.
dm_auth_createPlayer(name, made, k, later) ==
    LET p    == IF made.made THEN Len(players) + 1 ELSE 0
        Then(n) == IF k < made.last THEN later
                   ELSE made.last + n <= k \/ (later /\ made.last + n > k + 1)
    IN  /\ ~ \E r \in rows : r.name = name
        /\ ~ made.crashes
        /\ players' = made.players
        /\ servers' = made.servers
        /\ ages' = IF p # 0 /\ Then(1)
                   THEN [made.ages EXCEPT ![made.hood].owners = @ \cup {p}]
                   ELSE made.ages
        /\ zeroRef' = (zeroRef \/ (p = 0 /\ Then(1)))
        /\ allPlayers' = IF Then(2) /\ allPlayers # <<>>
                         THEN <<allPlayers[1] \cup {p}>> ELSE allPlayers
        /\ rows' = IF Then(3) THEN rows \cup {[name |-> name, player |-> p]} ELSE rows
        /\ UNCHANGED <<sys, watchers>>

\* The process ends half way through v_create_player.
createPlayer_crashes(name, made) ==
    /\ ~ \E r \in rows : r.name = name
    /\ made.crashes
    /\ players' = made.players /\ servers' = made.servers /\ ages' = made.ages
    /\ UNCHANGED <<sys, rows, allPlayers, watchers, zeroRef>>

\* Variant: the references to the PlayerInfo stay.
dm_auth_deletePlayer_keepsInfo(row, k) ==
    /\ rows' = IF k = 0 THEN rows ELSE {r \in rows : r.player # row.player}
    /\ UNCHANGED <<sys, ages, servers, players, allPlayers, watchers, zeroRef>>

\* dm_auth_deletePlayer: the rows of the player, then the references to its
\* PlayerInfo; the vault keeps the nodes.
dm_auth_deletePlayer(row, k) ==
    LET p == row.player
        forget == k = 2 /\ p # 0
    IN  /\ rows' = IF k = 0 THEN rows ELSE {r \in rows : r.player # p}
        /\ ages' = IF ~ forget THEN ages
                   ELSE [i \in DOMAIN ages |-> [ages[i] EXCEPT !.owners = @ \ {p}]]
        /\ allPlayers' = IF forget /\ allPlayers # <<>> THEN <<allPlayers[1] \ {p}>> ELSE allPlayers
        /\ players' = IF forget THEN [players EXCEPT ![p].linked = FALSE] ELSE players
        /\ UNCHANGED <<sys, servers, watchers, zeroRef>>

\* dm_auth_addAllPlayers: a request turns the folder on or off for a player.
dm_auth_addAllPlayers(p) ==
    /\ watchers' = IF p \in watchers THEN watchers \ {p} ELSE watchers \cup {p}
    /\ UNCHANGED <<sys, ages, servers, players, rows, allPlayers, zeroRef>>

----------------------------------------------------------------------------
VaultTypeOK ==
    /\ sys \in 0 .. 3
    /\ \A i \in DOMAIN ages : /\ ages[i].done \in 1 .. AgeLength
                              /\ ages[i].owners \subseteq DOMAIN players
                              /\ ages[i].owners # {} => Has(ages[i], "AgeInfo-Owners")
    /\ \A i \in DOMAIN servers : servers[i].age \in {0} \cup DOMAIN ages
    /\ \A p \in DOMAIN players : /\ {players[p].relto, players[p].hood} \subseteq {0} \cup DOMAIN ages
                                 /\ players[p].nodes \in 1 .. PlayerNodes
                                 /\ players[p].refs \in 0 .. PlayerRefs
    /\ \A r \in rows : r.name \in Names /\ r.player \in {0} \cup DOMAIN players
    /\ \A all \in Range(allPlayers) : all \subseteq {0} \cup DOMAIN players
    /\ zeroRef \in BOOLEAN
    /\ watchers \subseteq DOMAIN players

Configured == {StaticAges[i].uuid : i \in DOMAIN StaticAges} \ {0}

\* What the server knows as an age is one: the rows of game.Servers that are not
\* temporary are those of the ages all of whose statements succeeded, one for
\* each, and only an age of the static configuration may exist twice
\* (v_create_age, dm_auth_createAge, dm_check_static_ages).
AgesSound ==
    /\ {servers[i].age : i \in {x \in DOMAIN servers : ~ servers[x].temp}}
         = {i \in DOMAIN ages : WholeAge(ages[i])}
    /\ \A i, j \in DOMAIN servers :
          i # j /\ servers[i].age = servers[j].age => servers[i].temp /\ servers[j].temp
    /\ \A i, j \in DOMAIN ages :
          i # j /\ ages[i].uuid = ages[j].uuid => ages[i].uuid \in Configured

\* A name a player can log in with stands for a whole player, however creations
\* failed before: all its nodes and references, and a whole relto that it owns
\* (v_create_player, dm_auth_createPlayer).  A row with the id 0 is what a
\* failed creation leaves.
PlayerRowsSound ==
    /\ \A r, s \in rows : r.name = s.name => r = s
    /\ \A r \in rows : r.player # 0 =>
          LET p == players[r.player]
          IN  /\ p.nodes = PlayerNodes /\ p.refs = PlayerRefs /\ p.linked
              /\ p.relto # 0 /\ WholeAge(ages[p.relto])
              /\ ages[p.relto].owners = {r.player}
              /\ p.hood # 0 /\ ages[p.hood].file = "Neighborhood"
=============================================================================

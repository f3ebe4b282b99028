---------------------------- MODULE AuthDbProofs ----------------------------
(***************************************************************************)
(* Proofs about AuthDb: its scores and its vault, for any static ages, names,  *)
(* client ids, amounts and bounds.                                             *)
(*                                                                             *)
(* The scores: ScoresInv is inductive, and every request keeps to ScoreStep.   *)
(*                                                                             *)
(* The vault: VaultInv is inductive.  Creation is a series of statements that  *)
(* may end after any of them, so it says of every table what holds of the      *)
(* rows that a failed creation leaves too: an age without its last statement   *)
(* has no server (ServersSound), only one with an owners' folder has owners    *)
(* (OwnersFacts), and a name gets a row only with a whole player (RowsFacts).  *)
(* ListsInv says what holds besides as long as nothing failed.                 *)
(*                                                                             *)
(* A start makes the configured ages by a loop over them; StaticAgesHold takes *)
(* it by induction over how many were looked at.                               *)
(***************************************************************************)
EXTENDS AuthDb, QueueLemmas, FiniteSetTheorems, WellFoundedInduction, TLAPS

\* A function on the places of a sequence is a sequence.
LEMMA SameLength ==
    ASSUME NEW S, NEW T, NEW s \in Seq(S), NEW t,
           t = [i \in DOMAIN s |-> t[i]], \A i \in DOMAIN s : t[i] \in T
    PROVE  t \in Seq(T) /\ Len(t) = Len(s)
<1>1. Len(s) \in Nat /\ DOMAIN s = 1 .. Len(s)
  OBVIOUS
<1>2. t \in [1 .. Len(s) -> T]
  BY <1>1
<1>3. QED
  BY <1>1, <1>2

-----------------------------------------------------------------------------
(* The scores.                                                               *)

Points == -IntMax - 1 .. IntMax

ScoreRecords == [owner : ScoreOwners, name : ScoreNames, type : ScoreTypes, points : Points]

\* The table is a sequence of scores, and a name of an owner is there once.
ScoresInv ==
    /\ scores \in Seq(ScoreRecords)
    /\ \A i, j \in DOMAIN scores :
          scores[i].owner = scores[j].owner /\ scores[i].name = scores[j].name => i = j

\* What a request may do to the points.
ScoreStep ==
    LET moved == {i \in DOMAIN scores : scores'[i].points # scores[i].points}
    IN  /\ DOMAIN scores \subseteq DOMAIN scores'
        /\ Cardinality(moved) <= 2
        /\ \A i, j \in moved : i # j =>
              scores'[i].points + scores'[j].points = scores[i].points + scores[j].points
        /\ \A i \in moved : scores[i].type = "Football" /\ scores[i].points >= 0
                           => scores'[i].points >= 0

LEMMA AtMostOne ==
    ASSUME NEW x, NEW M, M \subseteq {x}
    PROVE  Cardinality(M) <= 2
<1>1. IsFiniteSet({x}) /\ Cardinality({x}) = 1
  BY FS_Singleton
<1>2. Cardinality(M) <= Cardinality({x}) /\ Cardinality(M) \in Nat
  BY <1>1, FS_Subset, FS_CardinalityType
<1>3. QED
  BY <1>1, <1>2

LEMMA CreateScoreHolds ==
    ASSUME ScoresInv, NEW owner \in ScoreOwners, NEW name \in ScoreNames,
           NEW type \in ScoreTypes, NEW n \in Amounts,
           dm_auth_createScore(owner, name, type, n)
    PROVE  ScoresInv' /\ ScoreStep
<1> DEFINE new == [owner |-> owner, name |-> name, type |-> type, points |-> n]
<1>1. CASE scores' = scores
  <2>1. ScoresInv'
    BY <1>1 DEF ScoresInv
  <2>2. ScoreStep
    BY <1>1, FS_EmptySet DEF ScoreStep
  <2>3. QED
    BY <2>1, <2>2
<1>2. CASE scores' # scores
  <2>1. /\ scores' = Append(scores, new)
        /\ ~ \E i \in DOMAIN scores : scores[i].owner = owner /\ scores[i].name = name
    BY <1>2 DEF dm_auth_createScore, Answer
  <2>2. new \in ScoreRecords
    BY IntMaxAssumption DEF ScoreRecords, Points
  <2>3. scores \in Seq(ScoreRecords)
    BY DEF ScoresInv
  <2> HIDE DEF new
  <2>4. scores' \in Seq(ScoreRecords)
    BY <2>1, <2>2, <2>3
  <2>5. /\ DOMAIN scores = 1 .. Len(scores) /\ DOMAIN scores' = 1 .. Len(scores) + 1
        /\ scores'[Len(scores) + 1] = new
        /\ \A i \in DOMAIN scores : scores'[i] = scores[i]
    BY <2>1, <2>3
  <2>6. new.owner = owner /\ new.name = name
    BY DEF new
  <2>7. ScoresInv'
    <3>1. ASSUME NEW i \in DOMAIN scores', NEW j \in DOMAIN scores',
                 scores'[i].owner = scores'[j].owner, scores'[i].name = scores'[j].name
          PROVE  i = j
      <4>1. CASE i \in DOMAIN scores /\ j \in DOMAIN scores
        BY <3>1, <4>1, <2>5 DEF ScoresInv
      <4>2. CASE i \in DOMAIN scores /\ j \notin DOMAIN scores
        BY <3>1, <4>2, <2>1, <2>3, <2>5, <2>6
      <4>3. CASE i \notin DOMAIN scores /\ j \in DOMAIN scores
        BY <3>1, <4>3, <2>1, <2>3, <2>5, <2>6
      <4>4. CASE i \notin DOMAIN scores /\ j \notin DOMAIN scores
        BY <3>1, <4>4, <2>3, <2>5
      <4>5. QED
        BY <4>1, <4>2, <4>3, <4>4
    <3>2. QED
      BY <2>4, <3>1 DEF ScoresInv
  <2>8. ScoreStep
    <3>1. {i \in DOMAIN scores : scores'[i].points # scores[i].points} = {}
      BY <2>5
    <3>2. DOMAIN scores \subseteq DOMAIN scores'
      BY <2>3, <2>5
    <3>3. QED
      BY <3>1, <3>2, FS_EmptySet DEF ScoreStep
  <2>9. QED
    BY <2>7, <2>8
<1>3. QED
  BY <1>1, <1>2

\* One score gets other points; they stay where they must.
LEMMA SetPoints ==
    ASSUME ScoresInv, NEW id \in DOMAIN scores, NEW n \in Points,
           scores[id].type = "Football" /\ scores[id].points >= 0 => n >= 0,
           scores' = [scores EXCEPT ![id].points = n]
    PROVE  ScoresInv' /\ ScoreStep
<1>1. scores \in Seq(ScoreRecords)
  BY DEF ScoresInv
<1>2. /\ DOMAIN scores' = DOMAIN scores
      /\ scores'[id] = [scores[id] EXCEPT !.points = n]
      /\ \A i \in DOMAIN scores : i # id => scores'[i] = scores[i]
  BY <1>1
<1>3. scores[id] \in ScoreRecords
  BY <1>1
<1>4. scores'[id] \in ScoreRecords /\ scores'[id].points = n
      /\ scores'[id].owner = scores[id].owner /\ scores'[id].name = scores[id].name
  BY <1>2, <1>3 DEF ScoreRecords
<1>5. scores' \in Seq(ScoreRecords)
  BY <1>1, <1>2, <1>4
<1>6. ScoresInv'
  BY <1>2, <1>4, <1>5 DEF ScoresInv
<1>7. ScoreStep
  <2> DEFINE moved == {i \in DOMAIN scores : scores'[i].points # scores[i].points}
  <2>2. moved \subseteq {id}
    BY <1>2
  <2> HIDE DEF moved
  <2>1. Cardinality(moved) <= 2
    BY <2>2, AtMostOne
  <2>5. \A i, j \in moved : i = j
    BY <2>2
  <2>3. \A i \in moved : scores[i].type = "Football" /\ scores[i].points >= 0
                           => scores'[i].points >= 0
    BY <2>2, <1>4
  <2>4. QED
    BY <1>2, <2>1, <2>3, <2>5 DEF ScoreStep, moved
<1>8. QED
  BY <1>6, <1>7

LEMMA SameScores ==
    ASSUME ScoresInv, UNCHANGED scores
    PROVE  ScoresInv' /\ ScoreStep
<1>1. ScoresInv'
  BY DEF ScoresInv
<1> DEFINE moved == {i \in DOMAIN scores : scores'[i].points # scores[i].points}
<1>2. moved = {}
  OBVIOUS
<1>3. Cardinality({}) = 0
  BY FS_EmptySet
<1> HIDE DEF moved
<1>4. DOMAIN scores \subseteq DOMAIN scores' /\ Cardinality(moved) <= 2
  BY <1>2, <1>3
<1>5. QED
  BY <1>1, <1>2, <1>4 DEF ScoreStep, moved

LEMMA AddScoreHolds ==
    ASSUME ScoresInv, NEW id, NEW n \in Amounts, dm_auth_addScorePoints(id, n)
    PROVE  ScoresInv' /\ ScoreStep
<1>1. CASE scores' = scores
  BY <1>1, SameScores
<1>2. CASE scores' # scores
  <2> DEFINE sum == scores[id].points + n
             new == IF sum >= 0 \/ scores[id].type = "Golf" THEN sum ELSE 0
  <2>1. id \in DOMAIN scores /\ Fits(sum) /\ scores' = [scores EXCEPT ![id].points =
                                  IF sum >= 0 \/ scores[id].type = "Golf" THEN sum ELSE 0]
    BY <1>2 DEF dm_auth_addScorePoints, Answer
  <2>2. new \in Points /\ (scores[id].type = "Football" => new >= 0)
    BY <2>1, IntMaxAssumption DEF Fits, Points
  <2>3. QED
    BY <2>1, <2>2, SetPoints
<1>3. QED
  BY <1>1, <1>2

LEMMA SetScoreHolds ==
    ASSUME ScoresInv, NEW id, NEW n \in Amounts, dm_auth_setScorePoints(id, n)
    PROVE  ScoresInv' /\ ScoreStep
<1>1. CASE scores' = scores
  BY <1>1, SameScores
<1>2. CASE scores' # scores
  <2>1. id \in DOMAIN scores /\ scores[id].type = "Fixed"
        /\ scores' = [scores EXCEPT ![id].points = n]
    BY <1>2 DEF dm_auth_setScorePoints, Answer
  <2>2. n \in Points
    BY IntMaxAssumption DEF Points
  <2>3. QED
    BY <2>1, <2>2, SetPoints
<1>3. QED
  BY <1>1, <1>2

LEMMA TransferHolds ==
    ASSUME ScoresInv, NEW src, NEW dst, NEW n \in Nat, dm_auth_transferScorePoints(src, dst, n)
    PROVE  ScoresInv' /\ ScoreStep
<1>1. CASE scores' = scores
  BY <1>1, SameScores
<1>2. CASE scores' # scores
  <2> DEFINE left  == scores[src].points - n
             right == scores[dst].points + n
             types == {scores[src].type, scores[dst].type}
  <2>1. /\ src \in DOMAIN scores /\ dst \in DOMAIN scores /\ src # dst
        /\ Fits(left) /\ Fits(right) /\ (left >= 0 \/ types = {"Golf"})
        /\ scores' = [scores EXCEPT ![src].points = left, ![dst].points = right]
    BY <1>2 DEF dm_auth_transferScorePoints, Answer
  <2>2. left \in Points /\ right \in Points
    BY <2>1 DEF Fits, Points
  <2>3. types = {"Golf"} => scores[src].type = "Golf" /\ scores[dst].type = "Golf"
    OBVIOUS
  <2>4. /\ scores \in Seq(ScoreRecords)
        /\ scores[src] \in ScoreRecords /\ scores[dst] \in ScoreRecords
    BY <2>1 DEF ScoresInv
  <2>5. /\ scores[src].points \in Int /\ scores[dst].points \in Int
        /\ scores[src].points = left + n /\ right = scores[dst].points + n
        /\ left \in Int /\ right \in Int
    BY <2>4, IntMaxAssumption DEF ScoreRecords, Points
  <2>6. /\ scores[src].type = "Football" => left >= 0
        /\ scores[dst].type = "Football" /\ scores[dst].points >= 0 => right >= 0
    <3> HIDE DEF left, right, types
    <3>1. scores[src].type = "Football" => left >= 0
      BY <2>1, <2>3
    <3>2. scores[dst].points >= 0 => right >= 0
      BY <2>5
    <3>3. QED
      BY <3>1, <3>2
  <2>7. left + right = scores[src].points + scores[dst].points
    BY <2>5
  <2> HIDE DEF left, right, types
  <2>8. /\ DOMAIN scores' = DOMAIN scores
        /\ scores'[src] = [scores[src] EXCEPT !.points = left]
        /\ scores'[dst] = [scores[dst] EXCEPT !.points = right]
        /\ \A i \in DOMAIN scores : i # src /\ i # dst => scores'[i] = scores[i]
    BY <2>1, <2>4
  <2>9. /\ scores'[src] \in ScoreRecords /\ scores'[src].points = left
        /\ scores'[src].owner = scores[src].owner /\ scores'[src].name = scores[src].name
    BY <2>2, <2>4, <2>8 DEF ScoreRecords
  <2>10. /\ scores'[dst] \in ScoreRecords /\ scores'[dst].points = right
         /\ scores'[dst].owner = scores[dst].owner /\ scores'[dst].name = scores[dst].name
    BY <2>2, <2>4, <2>8 DEF ScoreRecords
  <2>11. scores' \in Seq(ScoreRecords)
    <3>1. \A i \in DOMAIN scores : scores'[i] \in ScoreRecords
      BY <2>4, <2>8, <2>9, <2>10
    <3>2. scores' = [i \in DOMAIN scores |-> scores'[i]]
      BY <2>1
    <3>3. QED
      BY <3>1, <3>2, <2>4, SameLength
  <2>12. \A i \in DOMAIN scores : scores'[i].owner = scores[i].owner
                                  /\ scores'[i].name = scores[i].name
    BY <2>8, <2>9, <2>10
  <2>13. ScoresInv'
    BY <2>8, <2>11, <2>12 DEF ScoresInv
  <2> DEFINE moved == {i \in DOMAIN scores : scores'[i].points # scores[i].points}
  <2>14. moved \subseteq {src, dst}
    BY <2>8
  <2>15. IsFiniteSet({src, dst}) /\ Cardinality({src, dst}) = 2
    <3>1. IsFiniteSet({src}) /\ Cardinality({src}) = 1
      BY FS_Singleton
    <3>2. {src} \cup {dst} = {src, dst} /\ dst \notin {src}
      BY <2>1
    <3>3. IsFiniteSet({src} \cup {dst}) /\ Cardinality({src} \cup {dst}) = Cardinality({src}) + 1
      BY <3>1, <3>2, FS_AddElement
    <3>4. QED
      BY <3>1, <3>2, <3>3
  <2>16. Cardinality(moved) <= 2
    BY <2>14, <2>15, FS_Subset, FS_CardinalityType
  <2> HIDE DEF moved
  <2>17. \A i, j \in moved : i # j =>
              scores'[i].points + scores'[j].points = scores[i].points + scores[j].points
    BY <2>5, <2>7, <2>9, <2>10, <2>14
  <2>18. \A i \in moved : scores[i].type = "Football" /\ scores[i].points >= 0
                           => scores'[i].points >= 0
    BY <2>6, <2>9, <2>10, <2>14
  <2>19. ScoreStep
    BY <2>8, <2>16, <2>17, <2>18 DEF ScoreStep, moved
  <2>20. QED
    BY <2>13, <2>19
<1>3. QED
  BY <1>1, <1>2

LEMMA ScoreRequestHolds ==
    ASSUME ScoresInv, ScoreRequest
    PROVE  ScoresInv' /\ ScoreStep
<1>1. ASSUME NEW owner \in ScoreOwners, NEW name \in ScoreNames, NEW type \in ScoreTypes,
             NEW n \in Amounts, dm_auth_createScore(owner, name, type, n)
      PROVE  ScoresInv' /\ ScoreStep
  BY <1>1, CreateScoreHolds
<1>2. ASSUME NEW owner \in ScoreOwners, NEW name \in ScoreNames, dm_auth_getScores(owner, name)
      PROVE  ScoresInv' /\ ScoreStep
  BY <1>2, SameScores DEF dm_auth_getScores
<1>3. ASSUME NEW id \in Ids, NEW n \in Amounts, dm_auth_addScorePoints(id, n)
      PROVE  ScoresInv' /\ ScoreStep
  BY <1>3, AddScoreHolds
<1>4. ASSUME NEW id \in Ids, NEW n \in Amounts, dm_auth_setScorePoints(id, n)
      PROVE  ScoresInv' /\ ScoreStep
  BY <1>4, SetScoreHolds
<1>5. ASSUME NEW src \in Ids, NEW dst \in Ids, NEW n \in (Amounts \cap Nat) \cup {IntMax + 1},
             dm_auth_transferScorePoints(src, dst, n)
      PROVE  ScoresInv' /\ ScoreStep
  <2>1. n \in Nat
    BY IntMaxAssumption
  <2>2. QED
    BY <1>5, <2>1, TransferHolds
<1>6. ASSUME NEW name \in ScoreNames, NEW owners \in SUBSET ScoreOwners, NEW max \in 0 .. 1,
             dm_auth_getHighScores(name, owners, max)
      PROVE  ScoresInv' /\ ScoreStep
  BY <1>6, SameScores DEF dm_auth_getHighScores
<1>7. ASSUME UNCHANGED scoreVars
      PROVE  ScoresInv' /\ ScoreStep
  BY <1>7, SameScores DEF scoreVars
<1>8. QED
  BY <1>1, <1>2, <1>3, <1>4, <1>5, <1>6, <1>7 DEF ScoreRequest

\* An owner has a name once: auth.create_score counts the rows with both before it
\* inserts, and no other request makes a score or renames one (functions.sql).
THEOREM ScoresInvariant == Spec => []ScoresInv
<1>1. Init => ScoresInv
  BY DEF Init, ScoreInit, ScoresInv
<1>2. ASSUME ScoresInv, [Next]_vars
      PROVE  ScoresInv'
  <2>1. UNCHANGED scoreVars => ScoresInv'
    BY <1>2, SameScores DEF scoreVars
  <2>2. ~ ScoreRequest => UNCHANGED scoreVars
    BY <1>2 DEF Next, vars, Start, StartVault, StartSdl, StartAges, StartAllPlayers, Crash,
       GlobalRequest, ObjectRequest, HostLife, HostStep, VaultRequest
  <2>3. QED
    BY <1>2, <2>1, <2>2, ScoreRequestHolds
<1>3. QED
  BY <1>1, <1>2, PTL DEF Spec

\* Points move and are not made: a request changes at most two scores, two only
\* by a transfer that keeps their sum, and a football score that was not negative
\* stays so, for any points a client sends (add_score_points, set_score_points,
\* transfer_score_points).
THEOREM ScoresCannotGrow == Spec => ScoresSafe
<1>1. ASSUME ScoresInv, [Next]_vars
      PROVE  [ScoreStep]_scoreVars
  <2>2. ~ ScoreRequest => UNCHANGED scoreVars
    BY <1>1 DEF Next, vars, Start, StartVault, StartSdl, StartAges, StartAllPlayers, Crash,
       GlobalRequest, ObjectRequest, HostLife, HostStep, VaultRequest
  <2>3. QED
    BY <1>1, <2>2, ScoreRequestHolds
<1>2. QED
  BY <1>1, ScoresInvariant, PTL DEF Spec, ScoresSafe, ScoreStep

-----------------------------------------------------------------------------
(* The vault.                                                                *)

Uuids == Nat \cup ClientUuids \cup Configured
Files == {age.file : age \in Range(StaticAges)} \cup {"Garden", "Personal", "Neighborhood"}

AgeRecords == [uuid : Uuids, file : Files, public : BOOLEAN, done : 1 .. AgeLength,
               owners : SUBSET Nat]
ServerRecords == [uuid : Uuids, age : Nat, temp : BOOLEAN]
PlayerRecords == [nodes : 1 .. PlayerNodes, refs : 0 .. PlayerRefs, relto : Nat, hood : Nat,
                  linked : BOOLEAN]
RowRecords == [name : Names, player : Nat]

\* An id that the daemon made is the number of its age, so no other age has it.
UuidsSound(ags) ==
    /\ \A i \in DOMAIN ags : ags[i].uuid = i \/ ags[i].uuid \in ClientUuids \cup Configured
    /\ \A i, j \in DOMAIN ags :
          i # j /\ ags[i].uuid = ags[j].uuid => ags[i].uuid \in Configured

\* The rows that are not temporary are those of the whole ages, one for each.
ServersSound(ags, srv) ==
    /\ \A s \in DOMAIN srv : srv[s].temp <=> srv[s].age = 0
    /\ \A s \in DOMAIN srv : srv[s].age # 0 => srv[s].age \in DOMAIN ags /\ WholeAge(ags[srv[s].age])
    /\ \A i \in DOMAIN ags : WholeAge(ags[i]) => \E s \in DOMAIN srv : srv[s].age = i
    /\ \A s, t \in DOMAIN srv : s # t /\ srv[s].age = srv[t].age => srv[s].age = 0

AgesFacts(ags, srv) ==
    /\ ags \in Seq(AgeRecords) /\ srv \in Seq(ServerRecords)
    /\ UuidsSound(ags)
    /\ ServersSound(ags, srv)

\* Only players own an age, and only one with an owners' folder.
OwnersFacts(ags, pl) ==
    \A i \in DOMAIN ags : /\ ags[i].owners \subseteq DOMAIN pl
                          /\ ags[i].owners # {} => Has(ags[i], "AgeInfo-Owners")

\* The relto and the hood of a player are ages of these kinds.
PlayersFacts(ags, pl) ==
    /\ pl \in Seq(PlayerRecords)
    /\ \A p \in DOMAIN pl :
          /\ pl[p].relto # 0 => pl[p].relto \in DOMAIN ags /\ ags[pl[p].relto].file = "Personal"
          /\ pl[p].hood # 0 => pl[p].hood \in DOMAIN ags /\ ags[pl[p].hood].file = "Neighborhood"

\* The player with number p, whom a row names, is whole.
WholePlayer(ags, pl, p) ==
    /\ p \in DOMAIN pl
    /\ pl[p].nodes = PlayerNodes /\ pl[p].refs = PlayerRefs /\ pl[p].linked
    /\ pl[p].relto # 0 /\ WholeAge(ags[pl[p].relto]) /\ ags[pl[p].relto].owners = {p}
    /\ pl[p].hood # 0

RowsFacts(ags, pl, rs) ==
    /\ rs \subseteq RowRecords
    /\ \A r, s \in rs : r.name = s.name => r = s
    /\ \A r \in rs : r.player # 0 => WholePlayer(ags, pl, r.player)

NamedPlayers(rs) == {r.player : r \in rs} \ {0}
HoodOwners(ags) == UNION {ags[i].owners : i \in {j \in DOMAIN ags : ags[j].file = "Neighborhood"}}

\* What the statements agree on when none has failed.
Agreed(ags, rs, all) ==
    /\ NamedPlayers(rs) = HoodOwners(ags)
    /\ \A listed \in Range(all) : listed \ {0} = NamedPlayers(rs)
    /\ \A i \in DOMAIN ags : WholeAge(ags[i])

\* Node 0 is in the references, or in the folder; only a player that was refused
\* for want of a public city brings it there when no statement has failed.
Stray(zero, all) == zero \/ \E listed \in Range(all) : 0 \in listed
Unreferenced(pl) == \E p \in DOMAIN pl : pl[p].refs = 0

FolderInv ==
    /\ allPlayers = <<>> \/ \E listed \in SUBSET ({0} \cup DOMAIN players) : allPlayers = <<listed>>
    /\ zeroRef \in BOOLEAN
    /\ allPlayers = <<>> => players = <<>> /\ phase # "up"
    /\ watchers \subseteq DOMAIN players
    /\ sys \in 0 .. 3

ListsInv ==
    /\ failures \in Nat
    /\ failures = 0 => Agreed(ages, rows, allPlayers)
    /\ failures = 0 /\ Stray(zeroRef, allPlayers) => Unreferenced(players)

VaultInv ==
    /\ AgesFacts(ages, servers)
    /\ OwnersFacts(ages, players)
    /\ PlayersFacts(ages, players)
    /\ RowsFacts(ages, players, rows)
    /\ FolderInv
    /\ ListsInv

LEMMA StatementOrder ==
    /\ AgeLength = 21
    /\ AgeStatements[1] = "Age" /\ AgeStatements[19] = "AgeInfo-Owners"
  BY DEF AgeLength, AgeStatements

\* A node or a reference of an age is there as soon as its statement is done.
LEMMA HasFacts ==
    ASSUME NEW age, age.done \in 1 .. AgeLength
    PROVE  /\ Has(age, "Age")
           /\ WholeAge(age) => Has(age, "AgeInfo-Owners")
  BY StatementOrder DEF Has, WholeAge

\* The age that statements of v_create_age make.
NewAge(uuid, file, public, k) ==
    [uuid |-> uuid, file |-> file, public |-> public, done |-> k, owners |-> {}]

\* new are the ages ags with at most one more, which has the file and k statements.
Grows(ags, new, file, k) ==
    /\ Len(new) = (IF k = 0 THEN Len(ags) ELSE Len(ags) + 1)
    /\ \A i \in DOMAIN ags : i \in DOMAIN new /\ new[i] = ags[i]
    /\ \A i \in DOMAIN new :
          i \notin DOMAIN ags => /\ i = Len(ags) + 1 /\ k # 0
                                 /\ new[i].file = file /\ new[i].done = k /\ new[i].owners = {}

LEMMA CreateAge ==
    ASSUME NEW ags, NEW srv, AgesFacts(ags, srv),
           NEW uuid, uuid = Len(ags) + 1 \/ uuid \in ClientUuids \cup Configured,
           \A i \in DOMAIN ags : ags[i].uuid = uuid => uuid \in Configured,
           NEW file \in Files, NEW public \in BOOLEAN, NEW k \in 0 .. AgeLength,
           NEW db, db = v_create_age(ags, srv, uuid, file, public, k)
    PROVE  AgesFacts(db.ages, db.servers) /\ Grows(ags, db.ages, file, k)
<1> DEFINE made == NewAge(uuid, file, public, k)
           reg == [uuid |-> uuid, age |-> Len(ags) + 1, temp |-> FALSE]
<1>1. /\ db.ages = IF k = 0 THEN ags ELSE Append(ags, made)
      /\ db.servers = IF k < AgeLength THEN srv ELSE Append(srv, reg)
  BY DEF v_create_age, NewAge
<1>2. /\ ags \in Seq(AgeRecords) /\ srv \in Seq(ServerRecords)
      /\ UuidsSound(ags) /\ ServersSound(ags, srv)
  BY DEF AgesFacts
<1>3. Len(ags) \in Nat /\ DOMAIN ags = 1 .. Len(ags) /\ Len(srv) \in Nat /\ DOMAIN srv = 1 .. Len(srv)
  BY <1>2
<1>4. uuid \in Uuids
  BY <1>3 DEF Uuids
<1>5. reg \in ServerRecords /\ reg.age = Len(ags) + 1 /\ reg.temp = FALSE
  BY <1>3, <1>4 DEF ServerRecords
<1>6. /\ made.uuid = uuid /\ made.file = file /\ made.done = k /\ made.owners = {}
      /\ k # 0 => made \in AgeRecords
  BY <1>4 DEF NewAge, AgeRecords
<1>7. CASE k = 0
  <2>1. db.ages = ags /\ db.servers = srv
    BY <1>1, <1>7, StatementOrder
  <2>2. QED
    BY <2>1, <1>3, <1>7 DEF Grows
<1>8. CASE k # 0
  <2> HIDE DEF made, reg
  <2>1. db.ages = Append(ags, made)
    BY <1>1, <1>8
  <2>2. /\ db.ages \in Seq(AgeRecords) /\ Len(db.ages) = Len(ags) + 1
        /\ DOMAIN db.ages = 1 .. Len(ags) + 1 /\ db.ages[Len(ags) + 1] = made
        /\ \A i \in DOMAIN ags : db.ages[i] = ags[i]
    BY <2>1, <1>2, <1>3, <1>6, <1>8
  <2>3. Grows(ags, db.ages, file, k)
    BY <2>2, <1>3, <1>6, <1>8 DEF Grows
  <2>4. UuidsSound(db.ages)
    <3>1. ASSUME NEW i \in DOMAIN db.ages
          PROVE  db.ages[i].uuid = i \/ db.ages[i].uuid \in ClientUuids \cup Configured
      BY <2>2, <1>2, <1>3, <1>6 DEF UuidsSound
    <3>2. ASSUME NEW i \in DOMAIN db.ages, NEW j \in DOMAIN db.ages, i # j,
                 db.ages[i].uuid = db.ages[j].uuid
          PROVE  db.ages[i].uuid \in Configured
      BY <3>2, <2>2, <1>2, <1>3, <1>6 DEF UuidsSound
    <3>3. QED
      BY <3>1, <3>2 DEF UuidsSound
  <2>5. db.servers \in Seq(ServerRecords) /\ ServersSound(db.ages, db.servers)
    <3>1. CASE k < AgeLength
      <4>1. db.servers = srv
        BY <1>1, <3>1
      <4>2. ~ WholeAge(made)
        BY <1>6, <3>1, StatementOrder DEF WholeAge
      <4>3. \A i \in DOMAIN db.ages : WholeAge(db.ages[i]) => i \in DOMAIN ags
        BY <4>2, <2>2, <1>3
      <4>4. \A i \in DOMAIN ags : i \in DOMAIN db.ages /\ db.ages[i] = ags[i]
        BY <2>2, <1>3
      <4>5. ServersSound(db.ages, srv)
        <5>1. \A s \in DOMAIN srv : srv[s].age # 0 =>
                 srv[s].age \in DOMAIN db.ages /\ WholeAge(db.ages[srv[s].age])
          BY <4>4, <1>2 DEF ServersSound
        <5>2. \A i \in DOMAIN db.ages : WholeAge(db.ages[i]) =>
                 \E s \in DOMAIN srv : srv[s].age = i
          BY <4>3, <4>4, <1>2 DEF ServersSound
        <5>3. QED
          BY <5>1, <5>2, <1>2 DEF ServersSound
      <4>6. QED
        BY <4>1, <4>5, <1>2
    <3>2. CASE k = AgeLength
      <4>1. db.servers = Append(srv, reg)
        BY <1>1, <3>2, StatementOrder
      <4>2. /\ db.servers \in Seq(ServerRecords) /\ Len(db.servers) = Len(srv) + 1
            /\ DOMAIN db.servers = 1 .. Len(srv) + 1 /\ db.servers[Len(srv) + 1] = reg
            /\ \A i \in DOMAIN srv : db.servers[i] = srv[i]
        BY <4>1, <1>2, <1>3, <1>5
      <4>3. WholeAge(made)
        BY <1>6, <3>2 DEF WholeAge
      <4>4. \A s \in DOMAIN srv : srv[s].age # Len(ags) + 1
        BY <1>2, <1>3 DEF ServersSound
      <4>5. ASSUME NEW s \in DOMAIN db.servers
            PROVE  /\ db.servers[s].temp <=> db.servers[s].age = 0
                   /\ db.servers[s].age # 0 =>
                         db.servers[s].age \in DOMAIN db.ages /\ WholeAge(db.ages[db.servers[s].age])
        <5>1. CASE s \in DOMAIN srv
          BY <5>1, <4>2, <2>2, <1>2, <1>3 DEF ServersSound
        <5>2. CASE s = Len(srv) + 1
          BY <5>2, <4>2, <4>3, <2>2, <1>3, <1>5
        <5>3. QED
          BY <5>1, <5>2, <4>2, <1>3
      <4>6. ASSUME NEW i \in DOMAIN db.ages, WholeAge(db.ages[i])
            PROVE  \E s \in DOMAIN db.servers : db.servers[s].age = i
        <5>1. CASE i \in DOMAIN ags
          <6>1. PICK s \in DOMAIN srv : srv[s].age = i
            BY <5>1, <4>6, <2>2, <1>2 DEF ServersSound
          <6>2. s \in DOMAIN db.servers /\ db.servers[s].age = i
            BY <6>1, <4>2, <1>3
          <6>3. QED
            BY <6>2
        <5>2. CASE i = Len(ags) + 1
          BY <5>2, <4>2, <1>3, <1>5
        <5>3. QED
          BY <5>1, <5>2, <2>2, <1>3
      <4>7. ASSUME NEW s \in DOMAIN db.servers, NEW t \in DOMAIN db.servers, s # t,
                   db.servers[s].age = db.servers[t].age
            PROVE  db.servers[s].age = 0
        <5>1. CASE s \in DOMAIN srv /\ t \in DOMAIN srv
          BY <5>1, <4>7, <4>2, <1>2 DEF ServersSound
        <5>2. CASE s = Len(srv) + 1 \/ t = Len(srv) + 1
          BY <5>2, <4>7, <4>2, <4>4, <1>3, <1>5
        <5>3. QED
          BY <5>1, <5>2, <4>2, <1>3
      <4>8. QED
        BY <4>2, <4>5, <4>6, <4>7 DEF ServersSound
    <3>3. QED
      BY <3>1, <3>2, StatementOrder
  <2>6. QED
    BY <2>2, <2>3, <2>4, <2>5 DEF AgesFacts
<1>9. QED
  BY <1>7, <1>8

\* What is said of players and rows is about ages that are there.
LEMMA GrowsKeeps ==
    ASSUME NEW ags, NEW new, NEW file, NEW k, Grows(ags, new, file, k)
    PROVE  /\ \A pl : OwnersFacts(ags, pl) => OwnersFacts(new, pl)
           /\ \A pl : PlayersFacts(ags, pl) => PlayersFacts(new, pl)
           /\ \A pl, rs : PlayersFacts(ags, pl) /\ RowsFacts(ags, pl, rs) => RowsFacts(new, pl, rs)
<1>1. /\ \A i \in DOMAIN ags : i \in DOMAIN new /\ new[i] = ags[i]
      /\ \A i \in DOMAIN new : i \notin DOMAIN ags => new[i].owners = {}
  BY DEF Grows
<1>2. ASSUME NEW pl, OwnersFacts(ags, pl)
      PROVE  OwnersFacts(new, pl)
  BY <1>1, <1>2 DEF OwnersFacts
<1>3. ASSUME NEW pl, PlayersFacts(ags, pl)
      PROVE  PlayersFacts(new, pl)
  BY <1>1, <1>3 DEF PlayersFacts
<1>4. ASSUME NEW pl, NEW rs, PlayersFacts(ags, pl), RowsFacts(ags, pl, rs)
      PROVE  RowsFacts(new, pl, rs)
  <2>1. ASSUME NEW p, WholePlayer(ags, pl, p)
        PROVE  WholePlayer(new, pl, p)
    <3>1. p \in DOMAIN pl /\ pl[p].relto \in DOMAIN ags
      BY <1>4, <2>1 DEF WholePlayer, PlayersFacts
    <3>2. QED
      BY <1>1, <2>1, <3>1 DEF WholePlayer
  <2>2. QED
    BY <1>4, <2>1 DEF RowsFacts
<1>5. QED
  BY <1>2, <1>3, <1>4

\* Whoever owns the hoods still does, and no age is in part if the new one is not.
LEMMA GrowsAgreed ==
    ASSUME NEW ags, NEW new, NEW file, NEW k, Grows(ags, new, file, k),
           NEW rs, NEW all
    PROVE  /\ HoodOwners(new) = HoodOwners(ags)
           /\ Agreed(ags, rs, all) /\ k \in {0, AgeLength} => Agreed(new, rs, all)
<1>1. /\ \A i \in DOMAIN ags : i \in DOMAIN new /\ new[i] = ags[i]
      /\ \A i \in DOMAIN new : i \notin DOMAIN ags => new[i].owners = {} /\ new[i].done = k /\ k # 0
  BY DEF Grows
<1>2. HoodOwners(new) = HoodOwners(ags)
  <2>1. ASSUME NEW x \in HoodOwners(new)
        PROVE  x \in HoodOwners(ags)
    <3>1. PICK i \in DOMAIN new : new[i].file = "Neighborhood" /\ x \in new[i].owners
      BY <2>1 DEF HoodOwners
    <3>2. i \in DOMAIN ags /\ ags[i] = new[i]
      BY <1>1, <3>1
    <3>3. QED
      BY <3>1, <3>2 DEF HoodOwners
  <2>2. ASSUME NEW x \in HoodOwners(ags)
        PROVE  x \in HoodOwners(new)
    <3>1. PICK i \in DOMAIN ags : ags[i].file = "Neighborhood" /\ x \in ags[i].owners
      BY <2>2 DEF HoodOwners
    <3>2. i \in DOMAIN new /\ ags[i] = new[i]
      BY <1>1, <3>1
    <3>3. QED
      BY <3>1, <3>2 DEF HoodOwners
  <2>3. QED
    BY <2>1, <2>2
<1>3. ASSUME Agreed(ags, rs, all), k \in {0, AgeLength}
      PROVE  Agreed(new, rs, all)
  <2>1. \A i \in DOMAIN new : i \notin DOMAIN ags => WholeAge(new[i])
    <3>1. CASE k = 0
      BY <1>1, <3>1
    <3>2. CASE k = AgeLength
      BY <1>1, <3>2 DEF WholeAge
    <3>3. QED
      BY <1>3, <3>1, <3>2
  <2>2. \A i \in DOMAIN ags : WholeAge(ags[i])
    BY <1>3 DEF Agreed
  <2>3. \A i \in DOMAIN new : WholeAge(new[i])
    BY <1>1, <2>1, <2>2
  <2>4. QED
    BY <1>2, <1>3, <2>3 DEF Agreed
<1>4. QED
  BY <1>2, <1>3

\* The vault's tables but for the folder of all players.
VaultFacts(ags, srv, pl, rs) ==
    /\ AgesFacts(ags, srv)
    /\ OwnersFacts(ags, pl)
    /\ PlayersFacts(ags, pl)
    /\ RowsFacts(ags, pl, rs)

LEMMA UuidKinds == Configured \cap Nat = {} /\ ClientUuids \cap Nat = {}
<1>1. ASSUME NEW x \in Configured
      PROVE  x \notin Nat
  <2>1. PICK i \in DOMAIN StaticAges : x = StaticAges[i].uuid /\ x # 0
    BY DEF Configured
  <2>2. StaticAges[i] \in Range(StaticAges)
    BY DEF Range
  <2>3. QED
    BY <2>1, <2>2, UuidAssumption
<1>2. QED
  BY <1>1, UuidAssumption

\* gen_uuid delivers an id that no age has.
LEMMA FreshUuid ==
    ASSUME NEW ags, NEW srv, AgesFacts(ags, srv)
    PROVE  /\ Len(ags) \in Nat
           /\ \A i \in DOMAIN ags : ags[i].uuid # Len(ags) + 1
<1>1. Len(ags) \in Nat /\ DOMAIN ags = 1 .. Len(ags)
  BY DEF AgesFacts
<1>2. ASSUME NEW i \in DOMAIN ags
      PROVE  ags[i].uuid # Len(ags) + 1
  <2>1. ags[i].uuid = i \/ ags[i].uuid \in ClientUuids \cup Configured
    BY DEF AgesFacts, UuidsSound
  <2>2. Len(ags) + 1 \in Nat /\ i # Len(ags) + 1
    BY <1>1
  <2>3. QED
    BY <2>1, <2>2, UuidKinds
<1>3. QED
  BY <1>1, <1>2

LEMMA CreateHolds ==
    ASSUME NEW ags, NEW srv, NEW pl, NEW rs, VaultFacts(ags, srv, pl, rs),
           NEW uuid, uuid = Len(ags) + 1 \/ uuid \in ClientUuids \cup Configured,
           \A i \in DOMAIN ags : ags[i].uuid = uuid => uuid \in Configured,
           NEW file \in Files, NEW public \in BOOLEAN, NEW k \in 0 .. AgeLength,
           NEW db, db = v_create_age(ags, srv, uuid, file, public, k)
    PROVE  VaultFacts(db.ages, db.servers, pl, rs) /\ Grows(ags, db.ages, file, k)
<1>1. AgesFacts(ags, srv) /\ OwnersFacts(ags, pl) /\ PlayersFacts(ags, pl) /\ RowsFacts(ags, pl, rs)
  BY DEF VaultFacts
<1>2. AgesFacts(db.ages, db.servers) /\ Grows(ags, db.ages, file, k)
  BY <1>1, CreateAge
<1>3. OwnersFacts(db.ages, pl) /\ PlayersFacts(db.ages, pl) /\ RowsFacts(db.ages, pl, rs)
  BY <1>1, <1>2, GrowsKeeps
<1>4. QED
  BY <1>2, <1>3 DEF VaultFacts

LEMMA CheckAgeHolds ==
    ASSUME NEW db, NEW pl, NEW rs, VaultFacts(db.ages, db.servers, pl, rs),
           NEW age \in Range(StaticAges), NEW answered \in BOOLEAN, NEW k \in 0 .. AgeLength,
           NEW new, new = CheckAge(db, age, answered, k), NEW all
    PROVE  /\ VaultFacts(new.ages, new.servers, pl, rs)
           /\ Agreed(db.ages, rs, all) /\ k \in {0, AgeLength} => Agreed(new.ages, rs, all)
<1> DEFINE uuid == IF age.uuid = 0 THEN Len(db.ages) + 1 ELSE age.uuid
<1>1. CASE new = db
  BY <1>1
<1>2. CASE new = v_create_age(db.ages, db.servers, uuid, age.file, TRUE, k)
  <2>1. age.file \in Files
    BY DEF Files
  <2>2. AgesFacts(db.ages, db.servers)
    BY DEF VaultFacts
  <2>3. age.uuid # 0 => age.uuid \in Configured
    <3>1. PICK i \in DOMAIN StaticAges : age = StaticAges[i]
      BY DEF Range
    <3>2. QED
      BY <3>1 DEF Configured
  <2>4. /\ uuid = Len(db.ages) + 1 \/ uuid \in ClientUuids \cup Configured
        /\ \A i \in DOMAIN db.ages : db.ages[i].uuid = uuid => uuid \in Configured
    BY <2>2, <2>3, FreshUuid
  <2> HIDE DEF uuid
  <2>5. /\ VaultFacts(new.ages, new.servers, pl, rs)
        /\ Grows(db.ages, new.ages, age.file, k)
    BY <1>2, <2>1, <2>4, CreateHolds
  <2>6. QED
    BY <2>5, GrowsAgreed
<1>3. QED
  BY <1>1, <1>2 DEF CheckAge

\* The start makes the configured ages one after the other: by induction over
\* how many of them were looked at.
LEMMA StaticAgesHold ==
    ASSUME NEW pl, NEW rs, VaultFacts(ages, servers, pl, rs), NEW all,
           NEW n \in 1 .. Len(StaticAges) + 1, NEW k \in 0 .. AgeLength, NEW missed \in Nat,
           dm_check_static_ages(n, k, missed)
    PROVE  /\ VaultFacts(ages', servers', pl, rs)
           /\ Agreed(ages, rs, all) /\ n > Len(StaticAges) => Agreed(ages', rs, all)
<1> DEFINE last == IF n > Len(StaticAges) THEN Len(StaticAges) ELSE n
           Do(i, db) == CheckAge(db, StaticAges[i], i # missed, IF i = n THEN k ELSE AgeLength)
           first == [ages |-> ages, servers |-> servers]
           Level(f) == [i \in 0 .. last |-> IF i = 0 THEN first ELSE Do(i, f[i - 1])]
           Checked == CHOOSE f : f = Level(f)
           IsChecked(m, f) == f = [i \in 0 .. m |-> IF i = 0 THEN first ELSE Do(i, f[i - 1])]
<1>1. Len(StaticAges) \in Nat /\ DOMAIN StaticAges = 1 .. Len(StaticAges) /\ last \in Nat
  BY UuidAssumption
<1>2. ages' = Checked[last].ages /\ servers' = Checked[last].servers
  BY DEF dm_check_static_ages
<1> DEFINE L == {m \in Nat : \E f : IsChecked(m, f)}
<1>3. 0 \in L
  <2> DEFINE g == [i \in 0 .. 0 |-> first]
  <2>1. g = [i \in 0 .. 0 |-> IF i = 0 THEN first ELSE Do(i, g[i - 1])]
    <3> HIDE DEF Do, first
    <3>1. QED
      OBVIOUS
  <2> HIDE DEF g
  <2>2. IsChecked(0, g)
    BY <2>1
  <2>3. QED
    BY <2>2
<1>4. ASSUME NEW m \in Nat, m \in L
      PROVE  m + 1 \in L
  <2>1. PICK f : IsChecked(m, f)
    BY <1>4
  <2> DEFINE g == [i \in 0 .. m + 1 |-> IF i = m + 1 THEN Do(i, f[m]) ELSE f[i]]
             h == [i \in 0 .. m + 1 |-> IF i = 0 THEN first ELSE Do(i, g[i - 1])]
  <2> HIDE DEF Do, first
  <2>2. ASSUME NEW i \in 0 .. m + 1
        PROVE  g[i] = h[i]
    <3>1. CASE i = m + 1
      <4>1. i # 0 /\ i - 1 = m /\ i - 1 \in 0 .. m + 1 /\ i - 1 # m + 1
        BY <3>1
      <4>2. g[i] = Do(i, f[m]) /\ g[i - 1] = f[m]
        BY <3>1, <4>1
      <4>3. QED
        BY <4>1, <4>2
    <3>2. CASE i = 0
      BY <3>2, <2>1
    <3>3. CASE i # 0 /\ i # m + 1
      <4>1. i \in 0 .. m /\ i - 1 \in 0 .. m /\ i - 1 \in 0 .. m + 1 /\ i - 1 # m + 1
        BY <3>3
      <4>2. f[i] = Do(i, f[i - 1])
        BY <2>1, <3>3, <4>1
      <4>3. g[i] = f[i] /\ g[i - 1] = f[i - 1]
        BY <3>3, <4>1
      <4>4. QED
        BY <3>3, <4>2, <4>3
    <3>4. QED
      BY <3>1, <3>2, <3>3
  <2>3. g = h
    BY <2>2
  <2>4. g = [i \in 0 .. m + 1 |-> IF i = 0 THEN first ELSE Do(i, g[i - 1])]
    BY <2>3
  <2> HIDE DEF g, h
  <2>5. IsChecked(m + 1, g)
    BY <2>4
  <2>6. QED
    BY <2>5
<1>5. \E f : f = Level(f)
  <2> HIDE DEF L
  <2>1. last \in L
    BY <1>1, <1>3, <1>4, Induction
  <2>2. QED
    BY <2>1 DEF L
<1>6. Checked = Level(Checked)
  <2> HIDE DEF Level
  <2>1. QED
    BY <1>5
<1>7. ASSUME NEW i \in 0 .. last
      PROVE  Checked[i] = IF i = 0 THEN first ELSE Do(i, Checked[i - 1])
  <2> DEFINE c == Checked
  <2>1. c = [j \in 0 .. last |-> IF j = 0 THEN first ELSE Do(j, c[j - 1])]
    BY <1>6
  <2> HIDE DEF c, Do, first, last
  <2>2. c[i] = IF i = 0 THEN first ELSE Do(i, c[i - 1])
    BY <2>1
  <2>3. QED
    BY <2>2 DEF c
<1> DEFINE At(i) == Checked[i]
           Fine(i) == /\ VaultFacts(At(i).ages, At(i).servers, pl, rs)
                      /\ Agreed(ages, rs, all) /\ n > Len(StaticAges) => Agreed(At(i).ages, rs, all)
           M == {i \in Nat : i <= last => Fine(i)}
<1> HIDE DEF Checked, Level
<1>8. 0 \in M
  <2>1. At(0) = first
    BY <1>1, <1>7
  <2>2. Fine(0)
    BY <2>1
  <2>3. QED
    BY <2>2
<1>9. ASSUME NEW i \in Nat, i \in M
      PROVE  i + 1 \in M
  <2>1. SUFFICES ASSUME i + 1 <= last
                 PROVE  Fine(i + 1)
    OBVIOUS
  <2> DEFINE a == StaticAges[i + 1]
             stop == IF i + 1 = n THEN k ELSE AgeLength
             answered == i + 1 # missed
  <2>2. i + 1 \in 0 .. last /\ i + 1 # 0 /\ i + 1 - 1 = i /\ i <= last
    BY <1>1, <2>1
  <2>3. At(i + 1) = CheckAge(At(i), a, answered, stop)
    BY <1>7, <2>2
  <2>4. a \in Range(StaticAges)
    BY <1>1, <2>1 DEF Range
  <2>5. stop \in 0 .. AgeLength /\ (n > Len(StaticAges) => stop = AgeLength)
    BY <1>1, <2>1, StatementOrder
  <2>6. Fine(i) /\ answered \in BOOLEAN
    BY <1>9, <2>2
  <2> HIDE DEF At, a, stop, last, answered
  <2>7. /\ VaultFacts(At(i + 1).ages, At(i + 1).servers, pl, rs)
        /\ Agreed(At(i).ages, rs, all) /\ stop \in {0, AgeLength} => Agreed(At(i + 1).ages, rs, all)
    BY <2>3, <2>4, <2>5, <2>6, CheckAgeHolds
  <2>8. QED
    BY <2>5, <2>6, <2>7
<1>10. Fine(last)
  <2> HIDE DEF Fine, last
  <2>1. last \in M
    BY <1>1, <1>8, <1>9, Induction
  <2>2. QED
    BY <1>1, <2>1
<1>11. QED
  BY <1>2, <1>10

\* Without one of its elements a sequence has the others, in their order.
LEMMA RemoveFacts ==
    ASSUME NEW S, NEW s \in Seq(S), NEW i \in DOMAIN s, NEW t, t = RemoveAt(s, i)
    PROVE  /\ t \in Seq(S)
           /\ DOMAIN t = 1 .. Len(s) - 1
           /\ \A j \in DOMAIN t : t[j] = s[IF j < i THEN j ELSE j + 1]
<1>1. Len(s) \in Nat /\ DOMAIN s = 1 .. Len(s) /\ i \in 1 .. Len(s)
  OBVIOUS
<1> DEFINE u == SubSeq(s, 1, i - 1)
           v == SubSeq(s, i + 1, Len(s))
<1>2. /\ u \in Seq(S) /\ Len(u) = i - 1
      /\ \A j \in 1 .. i - 1 : u[j] = s[j]
  BY <1>1
<1>3. /\ v \in Seq(S) /\ Len(v) = Len(s) - i
      /\ \A j \in 1 .. Len(s) - i : v[j] = s[i + j]
  <2>1. CASE i = Len(s)
    BY <1>1, <2>1
  <2>2. CASE i < Len(s)
    BY <1>1, <2>2
  <2>3. QED
    BY <1>1, <2>1, <2>2
<1> HIDE DEF u, v
<1>4. t = u \o v
  BY DEF RemoveAt, u, v
<1>5. t \in Seq(S) /\ Len(t) = Len(s) - 1 /\ DOMAIN t = 1 .. Len(s) - 1
  <2>1. u \o v \in Seq(S) /\ Len(u \o v) = Len(u) + Len(v)
    <3>1. u \in Seq(S) /\ v \in Seq(S)
      BY <1>2, <1>3
    <3>2. QED
      BY <3>1
  <2>2. Len(t) = Len(s) - 1
    BY <1>1, <1>2, <1>3, <1>4, <2>1
  <2>3. QED
    BY <1>4, <2>1, <2>2
<1>6. ASSUME NEW j \in 1 .. Len(s) - 1
      PROVE  t[j] = s[IF j < i THEN j ELSE j + 1]
  <2>1. CASE j < i
    BY <1>1, <1>2, <1>3, <1>4, <2>1
  <2>2. CASE j >= i
    <3>1. t[j] = v[j - (i - 1)] /\ j - (i - 1) \in 1 .. Len(s) - i
      BY <1>1, <1>2, <1>3, <1>4, <2>2
    <3>2. i + (j - (i - 1)) = j + 1
      BY <1>1
    <3>3. QED
      BY <1>1, <1>3, <2>2, <3>1, <3>2
  <2>3. QED
    BY <1>1, <2>1, <2>2
<1>7. QED
  BY <1>5, <1>6

\* A temporary row is the row of no age.
LEMMA DropHolds ==
    ASSUME AgesFacts(ages, servers), NEW i \in DOMAIN servers, DropTemporary(i)
    PROVE  AgesFacts(ages, servers')
<1>1. /\ servers \in Seq(ServerRecords) /\ ServersSound(ages, servers)
      /\ servers[i].temp /\ servers' = RemoveAt(servers, i)
  BY DEF AgesFacts, DropTemporary
<1> DEFINE Old(j) == IF j < i THEN j ELSE j + 1
           srv == servers'
<1>2. /\ srv \in Seq(ServerRecords)
      /\ DOMAIN srv = 1 .. Len(servers) - 1
      /\ \A j \in DOMAIN srv : srv[j] = servers[Old(j)]
  BY <1>1, RemoveFacts
<1>3. Len(servers) \in Nat /\ DOMAIN servers = 1 .. Len(servers) /\ i \in 1 .. Len(servers)
  BY <1>1
<1>4. \A j \in DOMAIN srv : Old(j) \in DOMAIN servers
  BY <1>2, <1>3
<1>5. \A j, m \in DOMAIN srv : j # m => Old(j) # Old(m)
  BY <1>2, <1>3
<1>6. \A m \in DOMAIN servers : m # i => \E j \in DOMAIN srv : Old(j) = m
  <2>1. ASSUME NEW m \in DOMAIN servers, m # i
        PROVE  \E j \in DOMAIN srv : Old(j) = m
    <3>1. CASE m < i
      <4>1. m \in DOMAIN srv /\ Old(m) = m
        BY <3>1, <1>2, <1>3
      <4>2. QED
        BY <4>1
    <3>2. CASE m > i
      <4>1. m - 1 \in DOMAIN srv /\ Old(m - 1) = m
        BY <3>2, <1>2, <1>3
      <4>2. QED
        BY <4>1
    <3>3. QED
      BY <2>1, <3>1, <3>2, <1>3
  <2>2. QED
    BY <2>1
<1>7. servers[i].age = 0
  BY <1>1 DEF ServersSound
<1> HIDE DEF Old, srv
<1>8. /\ \A s \in DOMAIN srv : srv[s].temp <=> srv[s].age = 0
      /\ \A s \in DOMAIN srv :
            srv[s].age # 0 => srv[s].age \in DOMAIN ages /\ WholeAge(ages[srv[s].age])
  BY <1>1, <1>2, <1>4 DEF ServersSound
<1>9. ASSUME NEW a \in DOMAIN ages, WholeAge(ages[a])
      PROVE  \E s \in DOMAIN srv : srv[s].age = a
  <2>1. PICK m \in DOMAIN servers : servers[m].age = a
    BY <1>1, <1>9 DEF ServersSound
  <2>2. a # 0
    BY <1>9 DEF AgesFacts
  <2>3. PICK j \in DOMAIN srv : Old(j) = m
    BY <1>6, <1>7, <2>1, <2>2
  <2>4. srv[j].age = a
    BY <1>2, <2>1, <2>3
  <2>5. QED
    BY <2>4
<1>10. \A s, t \in DOMAIN srv : s # t /\ srv[s].age = srv[t].age => srv[s].age = 0
  BY <1>1, <1>2, <1>4, <1>5 DEF ServersSound
<1>11. ServersSound(ages, srv)
  BY <1>8, <1>9, <1>10 DEF ServersSound
<1>12. QED
  BY <1>2, <1>11 DEF AgesFacts, srv

LEMMA FindAgeHolds ==
    ASSUME AgesFacts(ages, servers), NEW uuid \in ClientUuids, dm_auth_findAge(uuid)
    PROVE  AgesFacts(ages, servers')
<1> DEFINE reg == [uuid |-> uuid, age |-> 0, temp |-> TRUE]
<1>1. servers \in Seq(ServerRecords) /\ ServersSound(ages, servers)
  BY DEF AgesFacts
<1>2. CASE servers' = servers
  BY <1>2
<1>3. CASE servers' = Append(servers, reg)
  <2>1. reg \in ServerRecords /\ reg.age = 0 /\ reg.temp = TRUE
    BY DEF ServerRecords, Uuids
  <2> HIDE DEF reg
  <2> DEFINE srv == servers'
  <2>2. /\ srv \in Seq(ServerRecords)
        /\ DOMAIN servers = 1 .. Len(servers) /\ Len(servers) \in Nat
        /\ DOMAIN srv = 1 .. Len(servers) + 1 /\ srv[Len(servers) + 1] = reg
        /\ \A s \in DOMAIN servers : srv[s] = servers[s]
    BY <1>1, <1>3, <2>1
  <2> HIDE DEF srv
  <2>3. \A s \in DOMAIN srv : s \in DOMAIN servers \/ srv[s] = reg
    BY <2>2
  <2>4. \A s \in DOMAIN servers : s \in DOMAIN srv
    BY <2>2
  <2>5. /\ \A s \in DOMAIN srv : srv[s].temp <=> srv[s].age = 0
        /\ \A s \in DOMAIN srv :
              srv[s].age # 0 => srv[s].age \in DOMAIN ages /\ WholeAge(ages[srv[s].age])
    BY <1>1, <2>1, <2>2, <2>3 DEF ServersSound
  <2>6. \A a \in DOMAIN ages : WholeAge(ages[a]) => \E s \in DOMAIN srv : srv[s].age = a
    BY <1>1, <2>2, <2>4 DEF ServersSound
  <2>7. \A s, t \in DOMAIN srv : s # t /\ srv[s].age = srv[t].age => srv[s].age = 0
    BY <1>1, <2>1, <2>2, <2>3 DEF ServersSound
  <2>8. ServersSound(ages, srv)
    BY <2>5, <2>6, <2>7 DEF ServersSound
  <2>9. QED
    BY <2>2, <2>8 DEF AgesFacts, srv
<1>4. QED
  BY <1>2, <1>3 DEF dm_auth_findAge

LEMMA CreateAgeHolds ==
    ASSUME NEW pl, NEW rs, VaultFacts(ages, servers, pl, rs), NEW all,
           NEW uuid \in ClientUuids, NEW k \in 0 .. AgeLength, dm_auth_createAge(uuid, k)
    PROVE  /\ VaultFacts(ages', servers', pl, rs)
           /\ Agreed(ages, rs, all) /\ k = AgeLength => Agreed(ages', rs, all)
<1>1. CASE ages' = ages /\ servers' = servers
  BY <1>1
<1>2. CASE ages' # ages \/ servers' # servers
  <2> DEFINE db == v_create_age(ages, servers, uuid, "Garden", FALSE, k)
  <2>1. /\ ages' = db.ages /\ servers' = db.servers
        /\ \A i \in DOMAIN ages : ages[i].uuid = uuid => ~ Has(ages[i], "Age")
    BY <1>2 DEF dm_auth_createAge
  <2>2. \A i \in DOMAIN ages : Has(ages[i], "Age")
    <3>1. \A i \in DOMAIN ages : ages[i] \in AgeRecords
      BY DEF VaultFacts, AgesFacts
    <3>2. QED
      BY <3>1, HasFacts DEF AgeRecords
  <2>3. "Garden" \in Files
    BY DEF Files
  <2> HIDE DEF db
  <2>4. VaultFacts(db.ages, db.servers, pl, rs) /\ Grows(ages, db.ages, "Garden", k)
    BY <2>1, <2>2, <2>3, CreateHolds DEF db
  <2>5. QED
    BY <2>1, <2>4, GrowsAgreed
<1>3. QED
  BY <1>1, <1>2

\* Who owns an age, and whether it is public, is no matter of its row.
LEMMA SameAges ==
    ASSUME NEW ags, NEW srv, AgesFacts(ags, srv), NEW new,
           new = [i \in DOMAIN ags |-> new[i]],
           \A i \in DOMAIN ags : /\ new[i] \in AgeRecords
                                 /\ new[i].uuid = ags[i].uuid /\ new[i].done = ags[i].done
    PROVE  AgesFacts(new, srv) /\ DOMAIN new = DOMAIN ags
<1>1. ags \in Seq(AgeRecords) /\ srv \in Seq(ServerRecords) /\ UuidsSound(ags) /\ ServersSound(ags, srv)
  BY DEF AgesFacts
<1>2. new \in Seq(AgeRecords)
  BY <1>1, SameLength
<1>3. DOMAIN new = DOMAIN ags /\ \A i \in DOMAIN ags : WholeAge(new[i]) <=> WholeAge(ags[i])
  BY DEF WholeAge
<1>4. UuidsSound(new)
  BY <1>1, <1>3 DEF UuidsSound
<1>5. ServersSound(new, srv)
  BY <1>1, <1>3 DEF ServersSound
<1>6. QED
  BY <1>1, <1>2, <1>3, <1>4, <1>5 DEF AgesFacts

LEMMA PublicHolds ==
    ASSUME NEW pl, NEW rs, VaultFacts(ages, servers, pl, rs), NEW all,
           NEW i \in DOMAIN ages, NEW public \in BOOLEAN, dm_auth_set_pub_priv(i, public)
    PROVE  /\ VaultFacts(ages', servers', pl, rs)
           /\ Agreed(ages, rs, all) => Agreed(ages', rs, all)
<1>1. AgesFacts(ages, servers) /\ ages \in Seq(AgeRecords)
  BY DEF VaultFacts, AgesFacts
<1>2. ages' = [ages EXCEPT ![i].public = public] /\ servers' = servers
  BY DEF dm_auth_set_pub_priv
<1> DEFINE new == ages'
<1>3. /\ new = [j \in DOMAIN ages |-> new[j]]
      /\ \A j \in DOMAIN ages : j # i => new[j] = ages[j]
      /\ new[i] = [ages[i] EXCEPT !.public = public]
  BY <1>2
<1>4. ages[i] \in AgeRecords
  BY <1>1
<1>5. /\ new[i] \in AgeRecords
      /\ new[i].uuid = ages[i].uuid /\ new[i].done = ages[i].done
      /\ new[i].owners = ages[i].owners /\ new[i].file = ages[i].file
  BY <1>3, <1>4 DEF AgeRecords
<1> HIDE DEF new
<1>6. \A j \in DOMAIN ages :
         /\ new[j] \in AgeRecords
         /\ new[j].uuid = ages[j].uuid /\ new[j].done = ages[j].done
         /\ new[j].owners = ages[j].owners /\ new[j].file = ages[j].file
  BY <1>1, <1>3, <1>5
<1>7. AgesFacts(new, servers) /\ DOMAIN new = DOMAIN ages
  BY <1>1, <1>3, <1>6, SameAges
<1>8. \A j \in DOMAIN ages : /\ WholeAge(new[j]) <=> WholeAge(ages[j])
                             /\ \A s : Has(new[j], s) <=> Has(ages[j], s)
  BY <1>6 DEF WholeAge, Has
<1>9. OwnersFacts(new, pl)
  BY <1>6, <1>7, <1>8 DEF VaultFacts, OwnersFacts
<1>10. PlayersFacts(ages, pl) /\ PlayersFacts(new, pl)
  BY <1>6, <1>7 DEF VaultFacts, PlayersFacts
<1>11. RowsFacts(new, pl, rs)
  <2>1. ASSUME NEW p, WholePlayer(ages, pl, p)
        PROVE  WholePlayer(new, pl, p)
    <3>1. p \in DOMAIN pl /\ pl[p].relto \in DOMAIN ages
      BY <1>10, <2>1 DEF WholePlayer, PlayersFacts
    <3>2. QED
      BY <1>6, <1>8, <2>1, <3>1 DEF WholePlayer
  <2>2. QED
    BY <2>1 DEF RowsFacts, VaultFacts
<1>12. VaultFacts(new, servers, pl, rs)
  BY <1>7, <1>9, <1>10, <1>11 DEF VaultFacts
<1>13. HoodOwners(new) = HoodOwners(ages)
  BY <1>6, <1>7 DEF HoodOwners
<1>14. Agreed(ages, rs, all) => Agreed(new, rs, all)
  BY <1>7, <1>8, <1>13 DEF Agreed
<1>15. QED
  BY <1>2, <1>12, <1>14 DEF new

LEMMA MinIn ==
    ASSUME NEW S, S \subseteq Nat, S # {}
    PROVE  Min(S) \in S
<1>1. PICK x \in S : \A y \in S : ~(<<y, x>> \in OpToRel(<, Nat))
  BY NatLessThanWellFounded, WFMin
<1>2. \A y \in S : x <= y
  <2>1. ASSUME NEW y \in S
        PROVE  x <= y
    <3>1. x \in Nat /\ y \in Nat
      BY <1>1
    <3>2. y < x => <<y, x>> \in {p \in Nat \X Nat : p[1] < p[2]}
      BY <3>1
    <3>3. ~ (y < x)
      BY <1>1, <3>2 DEF OpToRel
    <3>4. QED
      BY <3>1, <3>3
  <2>2. QED
    BY <2>1
<1>3. QED
  BY <1>1, <1>2 DEF Min

LEMMA OpenHoodFacts ==
    ASSUME NEW ags, ags \in Seq(AgeRecords)
    PROVE  OpenHood(ags) # 0 =>
              OpenHood(ags) \in DOMAIN ags /\ ags[OpenHood(ags)].file = "Neighborhood"
<1> DEFINE hoods == {i \in DOMAIN ags : ags[i].file = "Neighborhood" /\ Has(ags[i], "AgeInfo")
                                        /\ Cardinality(ags[i].owners) < HoodPopThreshold}
<1>1. OpenHood(ags) = IF hoods = {} THEN 0 ELSE Min(hoods)
  BY DEF OpenHood
<1>2. hoods \subseteq Nat
  <2>1. DOMAIN ags \subseteq Nat
    OBVIOUS
  <2>2. QED
    BY <2>1
<1> HIDE DEF hoods
<1>3. OpenHood(ags) # 0 => OpenHood(ags) \in hoods
  BY <1>1, <1>2, MinIn
<1>4. QED
  BY <1>3 DEF hoods

\* How far a series of n statements after the first from ones came.
LEMMA PartFacts ==
    ASSUME NEW k \in Nat, NEW from \in Nat, NEW n \in Nat
    PROVE  /\ Part(k, from, n) \in 0 .. n
           /\ k >= from + n => Part(k, from, n) = n
           /\ k < from + n => Part(k, from, n) < n \/ n = 0
           /\ k > from /\ n > 0 => Part(k, from, n) > 0
  BY DEF Part

LEMMA Sizes == PlayerNodes = 16 /\ PlayerRefs = 20 /\ OwnedAt = 38
  BY StatementOrder DEF PlayerNodes, PlayerRefs, OwnedAt

More(ags, new) == \A i \in DOMAIN ags : i \in DOMAIN new /\ new[i] = ags[i]

\* What the first half of v_create_player makes: a relto, which is whole and the
\* new player's as soon as its owner is there.
ReltoMade(db, k) ==
    /\ AgesFacts(db.ages, db.servers)
    /\ More(ages, db.ages)
    /\ k > PlayerNodes => Fresh \in DOMAIN db.ages
    /\ \A i \in DOMAIN db.ages :
          i \notin DOMAIN ages =>
             /\ i = Fresh /\ db.ages[i].file = "Personal"
             /\ k >= OwnedAt => WholeAge(db.ages[i])
             /\ db.ages[i].owners = (IF k < OwnedAt THEN {} ELSE {Len(players) + 1})

LEMMA ReltoHolds ==
    ASSUME VaultFacts(ages, servers, players, rows), NEW k \in Nat,
           NEW db, db = CreateRelto(k)
    PROVE  ReltoMade(db, k)
<1> DEFINE n == Part(k, PlayerNodes, AgeLength)
           new == v_create_age(ages, servers, Fresh, "Personal", FALSE, n)
           P == Len(players) + 1
<1>1. /\ n \in 0 .. AgeLength
      /\ k > PlayerNodes => n > 0
      /\ k >= OwnedAt => n = AgeLength
  <2>1. PlayerNodes \in Nat /\ AgeLength \in Nat
    BY Sizes, StatementOrder
  <2>2. /\ n \in 0 .. AgeLength
        /\ k >= PlayerNodes + AgeLength => n = AgeLength
        /\ k > PlayerNodes /\ AgeLength > 0 => n > 0
    BY <2>1, PartFacts
  <2> HIDE DEF n
  <2>3. QED
    BY <2>2, Sizes, StatementOrder
<1>2. db = IF k < OwnedAt THEN new ELSE [new EXCEPT !.ages[Len(new.ages)].owners = {P}]
  BY DEF CreateRelto
<1>3. new = [ages |-> new.ages, servers |-> new.servers]
  BY DEF v_create_age
<1>4. AgesFacts(ages, servers)
  BY DEF VaultFacts
<1>5. Len(ages) \in Nat /\ DOMAIN ages = 1 .. Len(ages)
  BY <1>4 DEF AgesFacts
<1>6. Fresh = Len(ages) + 1 /\ \A i \in DOMAIN ages : ages[i].uuid # Fresh
  BY <1>4, FreshUuid DEF Fresh
<1> HIDE DEF n, new
<1>7. VaultFacts(new.ages, new.servers, players, rows) /\ Grows(ages, new.ages, "Personal", n)
  <2>1. "Personal" \in Files
    BY DEF Files
  <2>2. QED
    BY <1>1, <1>6, <2>1, CreateHolds DEF new
<1>8. AgesFacts(new.ages, new.servers) /\ new.ages \in Seq(AgeRecords)
  BY <1>7 DEF VaultFacts, AgesFacts
<1>9. DOMAIN new.ages = 1 .. Len(new.ages) /\ Len(new.ages) \in Nat
  BY <1>8
<1>10. /\ More(ages, new.ages)
       /\ Len(new.ages) = (IF n = 0 THEN Len(ages) ELSE Fresh)
       /\ \A i \in DOMAIN new.ages :
             i \notin DOMAIN ages => /\ i = Fresh /\ new.ages[i].file = "Personal"
                                     /\ new.ages[i].done = n /\ new.ages[i].owners = {}
  BY <1>6, <1>7 DEF Grows, More
<1>11. k > PlayerNodes => Fresh \in DOMAIN new.ages
  BY <1>1, <1>5, <1>6, <1>9, <1>10, Sizes
<1>12. CASE k < OwnedAt
  <2>1. db = new /\ ~ (k >= OwnedAt)
    BY <1>2, <1>12, Sizes
  <2>2. QED
    BY <2>1, <1>8, <1>10, <1>11, <1>12 DEF ReltoMade
<1>13. CASE k >= OwnedAt
  <2>1. n = AgeLength /\ k > PlayerNodes /\ ~ (k < OwnedAt)
    BY <1>1, <1>13, Sizes
  <2>2. Len(new.ages) = Fresh /\ Fresh \in DOMAIN new.ages
    BY <2>1, <1>10, <1>11, StatementOrder
  <2>3. /\ db.servers = new.servers
        /\ db.ages = [new.ages EXCEPT ![Fresh] = [new.ages[Fresh] EXCEPT !.owners = {P}]]
    <3>1. db = [new EXCEPT !.ages[Len(new.ages)].owners = {P}]
      BY <1>2, <2>1
    <3>2. QED
      BY <3>1, <2>2, <1>3
  <2> DEFINE t == db.ages
  <2>4. /\ t = [i \in DOMAIN new.ages |-> t[i]]
        /\ t[Fresh] = [new.ages[Fresh] EXCEPT !.owners = {P}]
        /\ \A i \in DOMAIN new.ages : i # Fresh => t[i] = new.ages[i]
    BY <2>2, <2>3
  <2>5. P \in Nat
    BY DEF VaultFacts, PlayersFacts
  <2>6. new.ages[Fresh] \in AgeRecords
    BY <1>8, <2>2
  <2>7. /\ t[Fresh] \in AgeRecords /\ t[Fresh].owners = {P}
        /\ t[Fresh].uuid = new.ages[Fresh].uuid /\ t[Fresh].done = new.ages[Fresh].done
        /\ t[Fresh].file = new.ages[Fresh].file
    BY <2>4, <2>5, <2>6 DEF AgeRecords
  <2> HIDE DEF t, P
  <2>8. \A i \in DOMAIN new.ages : /\ t[i] \in AgeRecords
                                   /\ t[i].uuid = new.ages[i].uuid /\ t[i].done = new.ages[i].done
    <3>1. ASSUME NEW i \in DOMAIN new.ages
          PROVE  new.ages[i] \in AgeRecords
      BY <1>8
    <3>2. QED
      BY <3>1, <2>4, <2>7
  <2>9. AgesFacts(t, new.servers) /\ DOMAIN t = DOMAIN new.ages
    BY <1>8, <2>4, <2>8, SameAges
  <2>10. Fresh \notin DOMAIN ages
    BY <1>5, <1>6
  <2>11. More(ages, t)
    BY <1>10, <2>4, <2>9, <2>10 DEF More
  <2>12. \A i \in DOMAIN t :
            i \notin DOMAIN ages => i = Fresh /\ t[i].file = "Personal" /\ WholeAge(t[i])
                                    /\ t[i].owners = {P}
    BY <1>10, <2>1, <2>7, <2>9 DEF WholeAge
  <2>13. QED
    BY <2>1, <2>2, <2>3, <2>9, <2>11, <2>12 DEF ReltoMade, t, P
<1>14. QED
  BY <1>12, <1>13, Sizes

\* What the second half makes of the ages: it finds a hood or makes one.
HoodMade(ags, j, k) ==
    /\ AgesFacts(j.ages, j.servers)
    /\ More(ags, j.ages)
    /\ \A i \in DOMAIN j.ages :
          i \notin DOMAIN ags =>
             /\ j.ages[i].file = "Neighborhood" /\ j.ages[i].owners = {}
             /\ k >= j.base => WholeAge(j.ages[i])
    /\ j.base \in Nat /\ j.base >= OwnedAt
    /\ j.hood # 0 => j.hood \in DOMAIN j.ages /\ j.ages[j.hood].file = "Neighborhood"
    /\ k > j.base => /\ j.hood # 0
                     /\ ~ j.crashes => Has(j.ages[j.hood], "AgeInfo-Owners")

LEMMA HoodHolds ==
    ASSUME NEW db, AgesFacts(db.ages, db.servers), NEW k \in Nat, NEW later \in BOOLEAN,
           NEW room, room = OpenHood(db.ages), NEW j, j = JoinHood(k, later, db, room)
    PROVE  HoodMade(db.ages, j, k)
<1> DEFINE n == Part(k, OwnedAt, AgeLength)
           new == v_create_age(db.ages, db.servers, Len(db.ages) + 1, "Neighborhood", TRUE, n)
<1>1. /\ n \in 0 .. AgeLength
      /\ k >= OwnedAt + AgeLength => n = AgeLength
      /\ k < OwnedAt + AgeLength => n < AgeLength
  <2>1. OwnedAt \in Nat /\ AgeLength \in Nat /\ AgeLength # 0
    BY Sizes, StatementOrder
  <2>2. QED
    BY <2>1, PartFacts
<1>2. db.ages \in Seq(AgeRecords)
  BY DEF AgesFacts
<1>3. room # 0 => room \in DOMAIN db.ages /\ db.ages[room].file = "Neighborhood"
  BY <1>2, OpenHoodFacts
<1>4. CASE k < OwnedAt \/ room # 0
  <2>1. /\ j.ages = db.ages /\ j.servers = db.servers
        /\ j.hood = (IF k < OwnedAt THEN 0 ELSE room) /\ j.base = OwnedAt
        /\ j.crashes <=> k > OwnedAt /\ ~ Has(db.ages[room], "AgeInfo-Owners")
    BY <1>4 DEF JoinHood
  <2>2. k > j.base => /\ j.hood # 0
                      /\ ~ j.crashes => Has(j.ages[j.hood], "AgeInfo-Owners")
    BY <1>4, <2>1, Sizes
  <2>3. j.hood # 0 => j.hood \in DOMAIN j.ages /\ j.ages[j.hood].file = "Neighborhood"
    BY <1>3, <2>1
  <2>4. QED
    BY <2>1, <2>2, <2>3, Sizes DEF HoodMade, More
<1>5. CASE k >= OwnedAt /\ room = 0
  <2>1. /\ j.ages = new.ages /\ j.servers = new.servers
        /\ j.hood = (IF n < AgeLength THEN 0 ELSE Len(new.ages))
        /\ j.base = OwnedAt + AgeLength
    <3>1. ~ (k < OwnedAt \/ room # 0)
      BY <1>5, Sizes
    <3> HIDE DEF n, new
    <3>2. QED
      BY <3>1 DEF JoinHood, n, new
  <2> HIDE DEF n, new
  <2>2. Len(db.ages) \in Nat /\ \A i \in DOMAIN db.ages : db.ages[i].uuid # Len(db.ages) + 1
    BY FreshUuid
  <2>3. AgesFacts(new.ages, new.servers) /\ Grows(db.ages, new.ages, "Neighborhood", n)
    <3>1. "Neighborhood" \in Files
      BY DEF Files
    <3>2. QED
      BY <3>1, <1>1, <2>2, CreateAge DEF new
  <2>4. new.ages \in Seq(AgeRecords) /\ DOMAIN new.ages = 1 .. Len(new.ages) /\ Len(new.ages) \in Nat
    BY <2>3 DEF AgesFacts
  <2>5. k > j.base => n = AgeLength
    BY <1>1, <2>1, Sizes, StatementOrder
  <2>6. n = AgeLength => /\ Len(new.ages) \in DOMAIN new.ages
                         /\ new.ages[Len(new.ages)].file = "Neighborhood"
                         /\ new.ages[Len(new.ages)].done = AgeLength
    <3>1. DOMAIN db.ages = 1 .. Len(db.ages)
      BY <1>2
    <3>2. QED
      BY <2>2, <2>3, <2>4, <3>1, StatementOrder DEF Grows
  <2>7. n = AgeLength => Has(new.ages[Len(new.ages)], "AgeInfo-Owners")
    <3>1. new.ages[Len(new.ages)].done = AgeLength =>
             /\ new.ages[Len(new.ages)].done \in 1 .. AgeLength
             /\ WholeAge(new.ages[Len(new.ages)])
      BY StatementOrder DEF WholeAge
    <3>2. QED
      BY <2>6, <3>1, HasFacts
  <2>8. n < AgeLength => n # AgeLength
    BY <1>1, StatementOrder
  <2>9. n # AgeLength => n < AgeLength
    BY <1>1, StatementOrder
  <2>10. j.hood # 0 => j.hood \in DOMAIN j.ages /\ j.ages[j.hood].file = "Neighborhood"
    BY <2>1, <2>6, <2>9
  <2>11. k > j.base => j.hood # 0 /\ Has(j.ages[j.hood], "AgeInfo-Owners")
    <3>1. 0 \notin DOMAIN new.ages
      BY <2>4
    <3>2. QED
      BY <2>1, <2>5, <2>6, <2>7, <2>8, <3>1
  <2>12. \A i \in DOMAIN j.ages :
            i \notin DOMAIN db.ages =>
               /\ j.ages[i].file = "Neighborhood" /\ j.ages[i].owners = {}
               /\ k >= j.base => WholeAge(j.ages[i])
    BY <1>1, <2>1, <2>3 DEF Grows, WholeAge
  <2>13. j.base \in Nat /\ j.base >= OwnedAt
    BY <2>1, Sizes, StatementOrder
  <2>14. AgesFacts(j.ages, j.servers) /\ More(db.ages, j.ages)
    BY <2>1, <2>3 DEF Grows, More
  <2>15. QED
    BY <2>10, <2>11, <2>12, <2>13, <2>14 DEF HoodMade
<1>6. QED
  BY <1>4, <1>5, Sizes

\* What v_create_player leaves, however far it comes: the tables are in order, the
\* hoods have the owners they had, and the player it delivers is whole.
PlayerMade(made, k) ==
    /\ VaultFacts(made.ages, made.servers, made.players, rows)
    /\ \A p \in DOMAIN players : p \in DOMAIN made.players /\ made.players[p] = players[p]
    /\ HoodOwners(made.ages) = HoodOwners(ages)
    /\ k >= made.last /\ ~ made.made => Unreferenced(made.players)
    /\ k >= made.last /\ (\A i \in DOMAIN ages : WholeAge(ages[i])) =>
          \A i \in DOMAIN made.ages : WholeAge(made.ages[i])
    /\ made.last \in Nat
    /\ made.made => /\ WholePlayer(made.ages, made.players, Len(players) + 1)
                    /\ made.hood \in DOMAIN made.ages
                    /\ made.ages[made.hood].file = "Neighborhood"
                    /\ ~ made.crashes => Has(made.ages[made.hood], "AgeInfo-Owners")

LEMMA PlayerHolds ==
    ASSUME VaultFacts(ages, servers, players, rows), NEW k \in Nat, NEW later \in BOOLEAN,
           NEW made, made = v_create_player(k, later)
    PROVE  PlayerMade(made, k)
<1> DEFINE db == CreateRelto(k)
           j == JoinHood(k, later, db, OpenHood(db.ages))
           city == find_public_age(ages, "city", 0) # {}
           P == Len(players) + 1
           rec == [nodes |-> Part(k, 0, PlayerNodes),
                   refs  |-> IF city THEN Part(k, j.base, PlayerRefs) ELSE 0,
                   relto |-> IF k > PlayerNodes THEN Fresh ELSE 0,
                   hood  |-> j.hood, linked |-> TRUE]
<1>1. /\ made.players = (IF k = 0 THEN players ELSE Append(players, rec))
      /\ made.ages = j.ages /\ made.servers = j.servers /\ made.hood = j.hood
      /\ made.made <=> city /\ k >= j.base + PlayerRefs
      /\ made.last = j.base + PlayerRefs
      /\ made.crashes = j.crashes
  <2> HIDE DEF db
  <2>1. made = [players |-> IF k = 0 THEN players ELSE Append(players, rec),
                ages |-> j.ages, servers |-> j.servers, hood |-> j.hood,
                made |-> city /\ k >= j.base + PlayerRefs,
                last |-> j.base + PlayerRefs, crashes |-> j.crashes]
    BY DEF v_create_player, db
  <2> HIDE DEF rec, j
  <2>2. /\ made.players = (IF k = 0 THEN players ELSE Append(players, rec))
        /\ made.ages = j.ages /\ made.servers = j.servers /\ made.hood = j.hood
        /\ made.last = j.base + PlayerRefs /\ made.crashes = j.crashes
    BY <2>1
  <2>3. made.made <=> city /\ k >= j.base + PlayerRefs
    <3>1. made.made = (city /\ k >= j.base + PlayerRefs)
      BY <2>1
    <3> HIDE DEF city
    <3>2. QED
      BY <3>1, Zenon
  <2>4. QED
    BY <2>2, <2>3
<1>2. AgesFacts(ages, servers) /\ OwnersFacts(ages, players) /\ PlayersFacts(ages, players)
      /\ RowsFacts(ages, players, rows)
  BY DEF VaultFacts
<1>3. ReltoMade(db, k)
  BY ReltoHolds
<1>4. HoodMade(db.ages, j, k)
  <2> HIDE DEF db
  <2>1. AgesFacts(db.ages, db.servers)
    BY <1>3 DEF ReltoMade
  <2>2. QED
    BY <2>1, HoodHolds
<1> DEFINE ags == j.ages
           srv == j.servers
           pl == made.players
<1> HIDE DEF db, city
<1>5. AgesFacts(ags, srv) /\ ags \in Seq(AgeRecords)
  <2> HIDE DEF j
  <2>1. QED
    BY <1>4 DEF HoodMade, AgesFacts
<1>6. players \in Seq(PlayerRecords) /\ P \in Nat /\ P # 0 /\ DOMAIN players = 1 .. Len(players)
      /\ Len(players) \in Nat
  BY <1>2 DEF PlayersFacts
<1>7. Fresh \in Nat /\ Fresh # 0 /\ Fresh \notin DOMAIN ages /\ 0 \notin DOMAIN ages
  BY <1>2 DEF AgesFacts, Fresh
<1>8. /\ j.base \in Nat /\ j.base >= 38
      /\ j.hood # 0 => j.hood \in DOMAIN ags /\ ags[j.hood].file = "Neighborhood"
      /\ k > j.base => j.hood # 0 /\ (~ j.crashes => Has(ags[j.hood], "AgeInfo-Owners"))
  <2> HIDE DEF j
  <2>1. QED
    BY <1>4, Sizes DEF HoodMade
\* The new ages: the relto and the hood.
<1>9. /\ More(ages, ags)
      /\ \A i \in DOMAIN ags :
            i \notin DOMAIN ages =>
               \/ /\ i = Fresh /\ ags[i].file = "Personal"
                  /\ k >= OwnedAt => WholeAge(ags[i])
                  /\ ags[i].owners = (IF k < OwnedAt THEN {} ELSE {P})
               \/ /\ ags[i].file = "Neighborhood" /\ ags[i].owners = {}
                  /\ k >= j.base => WholeAge(ags[i])
      /\ k > PlayerNodes => Fresh \in DOMAIN ags /\ ags[Fresh] = db.ages[Fresh]
  <2> HIDE DEF j, P
  <2>1. More(ages, ags)
    BY <1>3, <1>4 DEF ReltoMade, HoodMade, More
  <2>2. ASSUME NEW i \in DOMAIN ags, i \notin DOMAIN ages
        PROVE  \/ /\ i = Fresh /\ ags[i].file = "Personal"
                  /\ k >= OwnedAt => WholeAge(ags[i])
                  /\ ags[i].owners = (IF k < OwnedAt THEN {} ELSE {P})
               \/ /\ ags[i].file = "Neighborhood" /\ ags[i].owners = {}
                  /\ k >= j.base => WholeAge(ags[i])
    <3>1. CASE i \in DOMAIN db.ages
      <4>1. ags[i] = db.ages[i]
        BY <1>4, <3>1 DEF HoodMade, More
      <4>2. QED
        BY <1>3, <2>2, <3>1, <4>1 DEF ReltoMade, P
    <3>2. CASE i \notin DOMAIN db.ages
      BY <1>4, <2>2, <3>2 DEF HoodMade
    <3>3. QED
      BY <3>1, <3>2
  <2>3. k > PlayerNodes => Fresh \in DOMAIN ags /\ ags[Fresh] = db.ages[Fresh]
    BY <1>3, <1>4 DEF ReltoMade, HoodMade, More
  <2>4. QED
    BY <2>1, <2>2, <2>3
<1>10. k > PlayerNodes => ags[Fresh].file = "Personal" /\ ags[Fresh].owners = (IF k < OwnedAt THEN {} ELSE {P})
                          /\ (k >= OwnedAt => WholeAge(ags[Fresh]))
  <2> HIDE DEF j
  <2>1. k > PlayerNodes => Fresh \in DOMAIN db.ages
    BY <1>3 DEF ReltoMade
  <2>2. QED
    BY <1>3, <1>7, <1>9, <2>1 DEF ReltoMade, P
<1>11. /\ rec.nodes = Part(k, 0, PlayerNodes) /\ rec.hood = j.hood /\ rec.linked
       /\ rec.relto = (IF k > PlayerNodes THEN Fresh ELSE 0)
       /\ rec.refs = (IF city THEN Part(k, j.base, PlayerRefs) ELSE 0)
  <2> HIDE DEF j
  <2>1. QED
    OBVIOUS
<1>12. k # 0 => rec \in PlayerRecords
  <2>1. /\ k # 0 => Part(k, 0, PlayerNodes) \in 1 .. PlayerNodes
        /\ Part(k, j.base, PlayerRefs) \in 0 .. PlayerRefs
    <3> HIDE DEF j
    <3>1. Part(k, 0, PlayerNodes) \in 0 .. PlayerNodes /\ (k # 0 => Part(k, 0, PlayerNodes) > 0)
      <4>1. 0 \in Nat /\ PlayerNodes \in Nat /\ PlayerNodes > 0
        BY Sizes
      <4>2. Part(k, 0, PlayerNodes) \in 0 .. PlayerNodes
        BY <4>1, PartFacts
      <4>3. k > 0 => Part(k, 0, PlayerNodes) > 0
        BY <4>1, PartFacts
      <4>4. QED
        BY <4>2, <4>3
    <3>2. Part(k, j.base, PlayerRefs) \in 0 .. PlayerRefs
      BY <1>8, PartFacts, Sizes
    <3>3. QED
      BY <3>1, <3>2, Sizes
  <2>2. j.hood \in Nat
    <3> HIDE DEF j
    <3>1. QED
      BY <1>5, <1>8
  <2> HIDE DEF j
  <2>3. QED
    BY <1>7, <2>1, <2>2, Sizes DEF PlayerRecords
<1> HIDE DEF rec, j, pl, ags, srv
<1>13. /\ pl \in Seq(PlayerRecords)
       /\ \A p \in DOMAIN players : p \in DOMAIN pl /\ pl[p] = players[p]
       /\ \A p \in DOMAIN pl : p \notin DOMAIN players => p = P /\ pl[p] = rec
       /\ k # 0 => P \in DOMAIN pl /\ pl[P] = rec
  <2>1. CASE k = 0
    BY <1>1, <1>6, <2>1 DEF pl
  <2>2. CASE k # 0
    <3>1. pl = Append(players, rec) /\ rec \in PlayerRecords
      BY <1>1, <1>12, <2>2 DEF pl
    <3>2. QED
      BY <1>6, <3>1
  <2>3. QED
    BY <2>1, <2>2
<1> HIDE DEF P
<1>14. OwnersFacts(ags, pl)
  <2>1. ASSUME NEW i \in DOMAIN ags
        PROVE  ags[i].owners \subseteq DOMAIN pl /\ (ags[i].owners # {} => Has(ags[i], "AgeInfo-Owners"))
    <3>1. CASE i \in DOMAIN ages
      <4>1. ags[i] = ages[i]
        BY <1>9, <3>1 DEF More
      <4>2. DOMAIN players \subseteq DOMAIN pl
        BY <1>13
      <4>3. /\ ages[i].owners \subseteq DOMAIN players
            /\ ages[i].owners # {} => Has(ages[i], "AgeInfo-Owners")
        BY <1>2, <3>1 DEF OwnersFacts
      <4>4. QED
        BY <4>1, <4>2, <4>3
    <3>2. CASE i \notin DOMAIN ages /\ ags[i].owners # {}
      <4>1. ags[i].owners = {P} /\ k >= OwnedAt /\ WholeAge(ags[i])
        BY <1>9, <3>2, Sizes
      <4>2. ags[i].done \in 1 .. AgeLength
        <5>1. ags[i] \in AgeRecords
          BY <1>5
        <5>2. QED
          BY <5>1 DEF AgeRecords
      <4>3. k # 0
        BY <4>1, Sizes
      <4>4. QED
        BY <1>13, <4>1, <4>2, <4>3, HasFacts
    <3>3. QED
      BY <3>1, <3>2
  <2>2. QED
    BY <2>1 DEF OwnersFacts
<1>15. PlayersFacts(ags, pl)
  <2>1. ASSUME NEW p \in DOMAIN pl
        PROVE  /\ pl[p].relto # 0 => pl[p].relto \in DOMAIN ags /\ ags[pl[p].relto].file = "Personal"
               /\ pl[p].hood # 0 => pl[p].hood \in DOMAIN ags /\ ags[pl[p].hood].file = "Neighborhood"
    <3>1. CASE p \in DOMAIN players
      BY <1>2, <1>9, <1>13, <3>1 DEF PlayersFacts, More
    <3>2. CASE p \notin DOMAIN players
      <4>1. pl[p] = rec
        BY <1>13, <3>2
      <4>2. QED
        BY <1>8, <1>9, <1>10, <1>11, <4>1
    <3>3. QED
      BY <3>1, <3>2
  <2>2. QED
    BY <1>13, <2>1 DEF PlayersFacts
<1>16. RowsFacts(ags, pl, rows)
  <2>1. ASSUME NEW p, WholePlayer(ages, players, p)
        PROVE  WholePlayer(ags, pl, p)
    <3>1. p \in DOMAIN players /\ players[p].relto \in DOMAIN ages
      BY <1>2, <2>1 DEF WholePlayer, PlayersFacts
    <3>2. p \in DOMAIN pl /\ pl[p] = players[p]
      BY <1>13, <3>1
    <3>3. ags[players[p].relto] = ages[players[p].relto]
      BY <1>9, <3>1 DEF More
    <3>4. QED
      BY <2>1, <3>2, <3>3 DEF WholePlayer
  <2>2. QED
    BY <1>2, <2>1 DEF RowsFacts
<1>17. VaultFacts(ags, srv, pl, rows)
  BY <1>5, <1>14, <1>15, <1>16 DEF VaultFacts
<1>18. HoodOwners(ags) = HoodOwners(ages)
  <2>1. ASSUME NEW x \in HoodOwners(ags)
        PROVE  x \in HoodOwners(ages)
    <3>1. PICK i \in DOMAIN ags : ags[i].file = "Neighborhood" /\ x \in ags[i].owners
      BY <2>1 DEF HoodOwners
    <3>2. i \in DOMAIN ages /\ ags[i] = ages[i]
      BY <1>9, <3>1 DEF More
    <3>3. QED
      BY <3>1, <3>2 DEF HoodOwners
  <2>2. ASSUME NEW x \in HoodOwners(ages)
        PROVE  x \in HoodOwners(ags)
    <3>1. PICK i \in DOMAIN ages : ages[i].file = "Neighborhood" /\ x \in ages[i].owners
      BY <2>2 DEF HoodOwners
    <3>2. i \in DOMAIN ags /\ ags[i] = ages[i]
      BY <1>9, <3>1 DEF More
    <3>3. QED
      BY <3>1, <3>2 DEF HoodOwners
  <2>3. QED
    BY <2>1, <2>2
<1>19. k >= made.last /\ (\A i \in DOMAIN ages : WholeAge(ages[i])) =>
          \A i \in DOMAIN ags : WholeAge(ags[i])
  <2>1. k >= made.last => k >= j.base /\ k >= OwnedAt
    BY <1>1, <1>8, Sizes
  <2>2. QED
    BY <1>9, <2>1 DEF More
<1>20. made.made => /\ WholePlayer(ags, pl, P)
                    /\ j.hood \in DOMAIN ags /\ ags[j.hood].file = "Neighborhood"
                    /\ ~ j.crashes => Has(ags[j.hood], "AgeInfo-Owners")
  <2>1. SUFFICES ASSUME made.made
                 PROVE  /\ WholePlayer(ags, pl, P)
                        /\ j.hood \in DOMAIN ags /\ ags[j.hood].file = "Neighborhood"
                        /\ ~ j.crashes => Has(ags[j.hood], "AgeInfo-Owners")
    OBVIOUS
  <2>2. city /\ k >= j.base + PlayerRefs
    BY <1>1, <2>1
  <2>3. k > j.base /\ k >= OwnedAt /\ ~ (k < OwnedAt) /\ k > PlayerNodes /\ k # 0
    BY <1>8, <2>2, Sizes
  <2>4. /\ j.hood # 0 /\ j.hood \in DOMAIN ags /\ ags[j.hood].file = "Neighborhood"
        /\ ~ j.crashes => Has(ags[j.hood], "AgeInfo-Owners")
    BY <1>8, <2>3
  <2>5. Part(k, 0, PlayerNodes) = PlayerNodes /\ Part(k, j.base, PlayerRefs) = PlayerRefs
    BY <1>8, <2>2, <2>3, Sizes DEF Part
  <2>6. /\ rec.nodes = PlayerNodes /\ rec.refs = PlayerRefs /\ rec.linked
        /\ rec.relto = Fresh /\ rec.hood = j.hood
    BY <1>11, <2>2, <2>3, <2>5
  <2>7. WholeAge(ags[Fresh]) /\ ags[Fresh].owners = {P}
    BY <1>10, <2>3
  <2>8. WholePlayer(ags, pl, P)
    BY <1>7, <1>13, <2>3, <2>4, <2>6, <2>7 DEF WholePlayer
  <2>9. QED
    BY <2>4, <2>8
<1>21. made.last \in Nat
  BY <1>1, <1>8, Sizes
<1>21a. k >= made.last /\ ~ made.made => Unreferenced(pl)
  <2>1. SUFFICES ASSUME k >= made.last, ~ made.made
                 PROVE  Unreferenced(pl)
    OBVIOUS
  <2>2. ~ city /\ k # 0
    BY <1>1, <1>8, <2>1, Sizes
  <2>3. pl[P].refs = 0 /\ P \in DOMAIN pl
    BY <1>11, <1>13, <2>2
  <2>4. QED
    BY <2>3 DEF Unreferenced
<1>22. made.ages = ags /\ made.servers = srv /\ made.players = pl /\ made.hood = j.hood
       /\ made.crashes = j.crashes
  BY <1>1 DEF ags, srv, pl
<1>23. QED
  BY <1>13, <1>17, <1>18, <1>19, <1>20, <1>21, <1>21a, <1>22 DEF PlayerMade, P

\* A player joins the owners of a hood.
Joined(ags, h, p) == [ags EXCEPT ![h].owners = @ \cup {p}]

LEMMA JoinHolds ==
    ASSUME NEW ags, NEW srv, NEW pl, NEW rs, VaultFacts(ags, srv, pl, rs),
           NEW h \in DOMAIN ags, ags[h].file = "Neighborhood", Has(ags[h], "AgeInfo-Owners"),
           NEW p \in DOMAIN pl,
           NEW new, new = Joined(ags, h, p)
    PROVE  /\ VaultFacts(new, srv, pl, rs)
           /\ \A q : WholePlayer(ags, pl, q) => WholePlayer(new, pl, q)
           /\ HoodOwners(new) = HoodOwners(ags) \cup {p}
           /\ DOMAIN new = DOMAIN ags /\ \A i \in DOMAIN ags : WholeAge(new[i]) <=> WholeAge(ags[i])
<1>1. /\ AgesFacts(ags, srv) /\ OwnersFacts(ags, pl) /\ PlayersFacts(ags, pl) /\ RowsFacts(ags, pl, rs)
      /\ ags \in Seq(AgeRecords) /\ pl \in Seq(PlayerRecords)
  BY DEF VaultFacts, AgesFacts, PlayersFacts
<1>2. /\ new = [i \in DOMAIN ags |-> new[i]]
      /\ new[h] = [ags[h] EXCEPT !.owners = @ \cup {p}]
      /\ \A i \in DOMAIN ags : i # h => new[i] = ags[i]
  BY DEF Joined
<1>3. \A i \in DOMAIN ags : ags[i] \in AgeRecords
  BY <1>1
<1>4. p \in Nat
  BY <1>1
<1>5. ags[h] \in AgeRecords
  BY <1>3
<1>6. /\ new[h] \in AgeRecords /\ new[h].owners = ags[h].owners \cup {p}
      /\ new[h].uuid = ags[h].uuid /\ new[h].done = ags[h].done /\ new[h].file = ags[h].file
  BY <1>2, <1>4, <1>5 DEF AgeRecords
<1>7. \A i \in DOMAIN ags :
         /\ new[i] \in AgeRecords
         /\ new[i].uuid = ags[i].uuid /\ new[i].done = ags[i].done /\ new[i].file = ags[i].file
  BY <1>2, <1>3, <1>6
<1>8. AgesFacts(new, srv) /\ DOMAIN new = DOMAIN ags
  <2> DEFINE a == new
  <2>1. /\ a = [i \in DOMAIN ags |-> a[i]]
        /\ \A i \in DOMAIN ags : /\ a[i] \in AgeRecords
                                 /\ a[i].uuid = ags[i].uuid /\ a[i].done = ags[i].done
    BY <1>2, <1>7
  <2> HIDE DEF a
  <2>2. AgesFacts(a, srv) /\ DOMAIN a = DOMAIN ags
    BY <1>1, <2>1, SameAges
  <2>3. QED
    BY <2>2 DEF a
<1>9. \A i \in DOMAIN ags : /\ WholeAge(new[i]) <=> WholeAge(ags[i])
                            /\ \A s : Has(new[i], s) <=> Has(ags[i], s)
  BY <1>7 DEF WholeAge, Has
<1>10. OwnersFacts(new, pl)
  <2>1. ASSUME NEW i \in DOMAIN ags
        PROVE  new[i].owners \subseteq DOMAIN pl /\ (new[i].owners # {} => Has(new[i], "AgeInfo-Owners"))
    <3>1. ags[i].owners \subseteq DOMAIN pl /\ (ags[i].owners # {} => Has(ags[i], "AgeInfo-Owners"))
      BY <1>1 DEF OwnersFacts
    <3>2. CASE i = h
      BY <1>6, <1>9, <3>1, <3>2
    <3>3. CASE i # h
      BY <1>2, <3>1, <3>3
    <3>4. QED
      BY <3>2, <3>3
  <2>2. QED
    BY <1>8, <2>1 DEF OwnersFacts
<1>11. PlayersFacts(new, pl)
  BY <1>1, <1>7, <1>8 DEF PlayersFacts
<1>12. ASSUME NEW q, WholePlayer(ags, pl, q)
       PROVE  WholePlayer(new, pl, q)
  <2>1. q \in DOMAIN pl /\ pl[q].relto \in DOMAIN ags /\ ags[pl[q].relto].file = "Personal"
    BY <1>1, <1>12 DEF WholePlayer, PlayersFacts
  <2>2. pl[q].relto # h
    BY <2>1
  <2>3. QED
    BY <1>2, <1>12, <2>1, <2>2 DEF WholePlayer
<1>13. RowsFacts(new, pl, rs)
  BY <1>1, <1>12 DEF RowsFacts
<1>14. HoodOwners(new) = HoodOwners(ags) \cup {p}
  <2>1. ASSUME NEW x \in HoodOwners(new)
        PROVE  x \in HoodOwners(ags) \cup {p}
    <3>1. PICK i \in DOMAIN new : new[i].file = "Neighborhood" /\ x \in new[i].owners
      BY <2>1 DEF HoodOwners
    <3>2. i \in DOMAIN ags /\ ags[i].file = "Neighborhood" /\ x \in ags[i].owners \cup {p}
      BY <1>2, <1>6, <1>7, <1>8, <3>1
    <3>3. QED
      BY <3>2 DEF HoodOwners
  <2>2. ASSUME NEW x \in HoodOwners(ags)
        PROVE  x \in HoodOwners(new)
    <3>1. PICK i \in DOMAIN ags : ags[i].file = "Neighborhood" /\ x \in ags[i].owners
      BY <2>2 DEF HoodOwners
    <3>2. i \in DOMAIN new /\ new[i].file = "Neighborhood" /\ x \in new[i].owners
      BY <1>2, <1>6, <1>7, <1>8, <3>1
    <3>3. QED
      BY <3>2 DEF HoodOwners
  <2>3. p \in HoodOwners(new)
    BY <1>6, <1>8 DEF HoodOwners
  <2>4. QED
    BY <2>1, <2>2, <2>3
<1>15. VaultFacts(new, srv, pl, rs)
  BY <1>8, <1>10, <1>11, <1>13 DEF VaultFacts
<1>16. QED
  BY <1>8, <1>9, <1>12, <1>14, <1>15

\* A player is forgotten: no age has it as an owner, and its rows are gone.
Disowned(ags, p) == [i \in DOMAIN ags |-> [ags[i] EXCEPT !.owners = @ \ {p}]]
Unlinked(pl, p) == [pl EXCEPT ![p].linked = FALSE]
Without(rs, p) == {r \in rs : r.player # p}

LEMMA ForgetHolds ==
    ASSUME NEW ags, NEW srv, NEW pl, NEW rs, VaultFacts(ags, srv, pl, rs),
           NEW p \in DOMAIN pl,
           NEW new, new = Disowned(ags, p),
           NEW left, left = Unlinked(pl, p)
    PROVE  /\ VaultFacts(new, srv, left, Without(rs, p))
           /\ HoodOwners(new) = HoodOwners(ags) \ {p}
           /\ DOMAIN new = DOMAIN ags /\ \A i \in DOMAIN ags : WholeAge(new[i]) <=> WholeAge(ags[i])
           /\ DOMAIN left = DOMAIN pl /\ (Unreferenced(pl) => Unreferenced(left))
<1>1. /\ AgesFacts(ags, srv) /\ OwnersFacts(ags, pl) /\ PlayersFacts(ags, pl) /\ RowsFacts(ags, pl, rs)
      /\ ags \in Seq(AgeRecords) /\ pl \in Seq(PlayerRecords)
  BY DEF VaultFacts, AgesFacts, PlayersFacts
<1>2. /\ new = [i \in DOMAIN ags |-> new[i]]
      /\ \A i \in DOMAIN ags : new[i] = [ags[i] EXCEPT !.owners = @ \ {p}]
  BY DEF Disowned
<1>3. \A i \in DOMAIN ags : ags[i] \in AgeRecords
  BY <1>1
<1>4. ASSUME NEW i \in DOMAIN ags
      PROVE  /\ new[i] \in AgeRecords /\ new[i].owners = ags[i].owners \ {p}
             /\ new[i].uuid = ags[i].uuid /\ new[i].done = ags[i].done /\ new[i].file = ags[i].file
  <2>1. ags[i] \in AgeRecords
    BY <1>3
  <2>2. QED
    BY <1>2, <2>1 DEF AgeRecords
<1>5. AgesFacts(new, srv) /\ DOMAIN new = DOMAIN ags
  <2> DEFINE a == new
  <2>1. /\ a = [i \in DOMAIN ags |-> a[i]]
        /\ \A i \in DOMAIN ags : /\ a[i] \in AgeRecords
                                 /\ a[i].uuid = ags[i].uuid /\ a[i].done = ags[i].done
    BY <1>2, <1>4
  <2> HIDE DEF a
  <2>2. AgesFacts(a, srv) /\ DOMAIN a = DOMAIN ags
    BY <1>1, <2>1, SameAges
  <2>3. QED
    BY <2>2 DEF a
<1>6. \A i \in DOMAIN ags : /\ WholeAge(new[i]) <=> WholeAge(ags[i])
                            /\ \A s : Has(new[i], s) <=> Has(ags[i], s)
  BY <1>4 DEF WholeAge, Has
<1>7. /\ left = [q \in DOMAIN pl |-> left[q]] /\ DOMAIN left = DOMAIN pl
      /\ left[p] = [pl[p] EXCEPT !.linked = FALSE]
      /\ \A q \in DOMAIN pl : q # p => left[q] = pl[q]
  BY DEF Unlinked
<1>8. \A q \in DOMAIN pl : pl[q] \in PlayerRecords
  BY <1>1
<1>9. /\ left[p] \in PlayerRecords
      /\ left[p].relto = pl[p].relto /\ left[p].hood = pl[p].hood /\ left[p].refs = pl[p].refs
  <2>1. pl[p] \in PlayerRecords
    BY <1>8
  <2>2. QED
    BY <1>7, <2>1 DEF PlayerRecords
<1>10. \A q \in DOMAIN pl : /\ left[q] \in PlayerRecords
                            /\ left[q].relto = pl[q].relto /\ left[q].hood = pl[q].hood
                            /\ left[q].refs = pl[q].refs
  BY <1>7, <1>8, <1>9
<1>11. left \in Seq(PlayerRecords)
  BY <1>1, <1>7, <1>10, SameLength
<1>12. OwnersFacts(new, left)
  <2>1. ASSUME NEW i \in DOMAIN ags
        PROVE  new[i].owners \subseteq DOMAIN left /\ (new[i].owners # {} => Has(new[i], "AgeInfo-Owners"))
    <3>1. ags[i].owners \subseteq DOMAIN pl /\ (ags[i].owners # {} => Has(ags[i], "AgeInfo-Owners"))
      BY <1>1 DEF OwnersFacts
    <3>2. new[i].owners \subseteq ags[i].owners
      BY <1>4
    <3>3. QED
      BY <1>6, <1>7, <3>1, <3>2
  <2>2. QED
    BY <1>5, <2>1 DEF OwnersFacts
<1>13. PlayersFacts(new, left)
  <2>1. ASSUME NEW q \in DOMAIN pl
        PROVE  /\ left[q].relto # 0 => left[q].relto \in DOMAIN new /\ new[left[q].relto].file = "Personal"
               /\ left[q].hood # 0 => left[q].hood \in DOMAIN new /\ new[left[q].hood].file = "Neighborhood"
    <3>1. /\ pl[q].relto # 0 => pl[q].relto \in DOMAIN ags /\ ags[pl[q].relto].file = "Personal"
          /\ pl[q].hood # 0 => pl[q].hood \in DOMAIN ags /\ ags[pl[q].hood].file = "Neighborhood"
      BY <1>1 DEF PlayersFacts
    <3>2. QED
      BY <1>4, <1>5, <1>10, <3>1
  <2>2. QED
    BY <1>7, <1>11, <2>1 DEF PlayersFacts
<1>14. ASSUME NEW q, q # p, WholePlayer(ags, pl, q)
       PROVE  WholePlayer(new, left, q)
  <2>1. q \in DOMAIN pl /\ pl[q].relto \in DOMAIN ags /\ ags[pl[q].relto].owners = {q}
    BY <1>1, <1>14 DEF WholePlayer, PlayersFacts
  <2>2. left[q] = pl[q] /\ q \in DOMAIN left
    BY <1>7, <1>14, <2>1
  <2>3. new[pl[q].relto].owners = {q} /\ (WholeAge(new[pl[q].relto]) <=> WholeAge(ags[pl[q].relto]))
    BY <1>4, <1>6, <1>14, <2>1
  <2>4. QED
    BY <1>14, <2>1, <2>2, <2>3 DEF WholePlayer
<1>15. RowsFacts(new, left, Without(rs, p))
  BY <1>1, <1>14 DEF RowsFacts, Without
<1>16. HoodOwners(new) = HoodOwners(ags) \ {p}
  <2>1. ASSUME NEW x \in HoodOwners(new)
        PROVE  x \in HoodOwners(ags) \ {p}
    <3>1. PICK i \in DOMAIN new : new[i].file = "Neighborhood" /\ x \in new[i].owners
      BY <2>1 DEF HoodOwners
    <3>2. i \in DOMAIN ags /\ ags[i].file = "Neighborhood" /\ x \in ags[i].owners \ {p}
      BY <1>4, <1>5, <3>1
    <3>3. QED
      BY <3>2 DEF HoodOwners
  <2>2. ASSUME NEW x \in HoodOwners(ags), x # p
        PROVE  x \in HoodOwners(new)
    <3>1. PICK i \in DOMAIN ags : ags[i].file = "Neighborhood" /\ x \in ags[i].owners
      BY <2>2 DEF HoodOwners
    <3>2. i \in DOMAIN new /\ new[i].file = "Neighborhood" /\ x \in new[i].owners
      BY <1>4, <1>5, <2>2, <3>1
    <3>3. QED
      BY <3>2 DEF HoodOwners
  <2>3. QED
    BY <2>1, <2>2
<1>17. VaultFacts(new, srv, left, Without(rs, p))
  BY <1>5, <1>12, <1>13, <1>15 DEF VaultFacts
<1>18. Unreferenced(pl) => Unreferenced(left)
  BY <1>7, <1>10 DEF Unreferenced
<1>19. QED
  BY <1>5, <1>6, <1>7, <1>16, <1>17, <1>18

VaultTables == VaultFacts(ages, servers, players, rows)

\* An id in the rows is that of a player.
LEMMA NamedPlayersFacts ==
    ASSUME NEW ags, NEW pl, NEW rs, RowsFacts(ags, pl, rs)
    PROVE  NamedPlayers(rs) \subseteq DOMAIN pl
  BY DEF RowsFacts, NamedPlayers, WholePlayer

\* No state has more than one folder.
LEMMA OneFolder ==
    ASSUME NEW all, NEW S, all = <<>> \/ all = <<S>>
    PROVE  /\ \A listed \in Range(all) : listed = S
           /\ all # <<>> => S \in Range(all) /\ all[1] = S
<1>1. CASE all = <<>>
  <2>1. DOMAIN all = {}
    BY <1>1
  <2>2. QED
    BY <1>1, <2>1 DEF Range
<1>2. CASE all = <<S>>
  <2>1. DOMAIN all = {1} /\ all[1] = S
    BY <1>2
  <2>2. QED
    BY <2>1 DEF Range
<1>3. QED
  BY <1>1, <1>2

LEMMA CreatePlayerHolds ==
    ASSUME VaultInv, phase = "up", NEW name \in Names, NEW k \in Nat, NEW later \in BOOLEAN,
           CreatePlayer(name, v_create_player(k, later), k, later)
    PROVE  VaultInv'
<1> DEFINE made == v_create_player(k, later)
           P == Len(players) + 1
           p == IF made.made THEN P ELSE 0
           Then(n) == IF k < made.last THEN later
                      ELSE made.last + n <= k \/ (later /\ made.last + n > k + 1)
           S == allPlayers[1]
<1>1. VaultTables /\ FolderInv /\ ListsInv
  BY DEF VaultInv, VaultTables, VaultFacts
<1>2. PlayerMade(made, k)
  BY <1>1, PlayerHolds DEF VaultTables
<1>3. /\ k <= made.last + 3 /\ (k < made.last + 3 \/ later)
      /\ Counts(k < made.last + 3)
      /\ \/ phase' = phase /\ dm_auth_createPlayer(name, made, k, later)
         \/ phase' = "down" /\ createPlayer_crashes(name, made)
  BY DEF CreatePlayer, Survives
<1> HIDE DEF made
<1>4. P \in Nat /\ P # 0 /\ players \in Seq(PlayerRecords)
  BY <1>1 DEF VaultTables, VaultFacts, PlayersFacts
<1>5. allPlayers # <<>> /\ S \in SUBSET ({0} \cup DOMAIN players) /\ allPlayers = <<S>>
  <2>1. PICK listed \in SUBSET ({0} \cup DOMAIN players) : allPlayers = <<listed>>
    BY <1>1 DEF FolderInv
  <2>2. QED
    BY <2>1
<1>6. /\ VaultFacts(made.ages, made.servers, made.players, rows)
      /\ DOMAIN players \subseteq DOMAIN made.players
      /\ HoodOwners(made.ages) = HoodOwners(ages)
      /\ Unreferenced(players) => Unreferenced(made.players)
      /\ k >= made.last /\ ~ made.made => Unreferenced(made.players)
      /\ made.last \in Nat
      /\ made.made => /\ WholePlayer(made.ages, made.players, P)
                      /\ made.hood \in DOMAIN made.ages
                      /\ made.ages[made.hood].file = "Neighborhood"
                      /\ ~ made.crashes => Has(made.ages[made.hood], "AgeInfo-Owners")
  BY <1>2 DEF PlayerMade, Unreferenced
<1>7. /\ failures' \in Nat
      /\ failures' = 0 => /\ failures = 0 /\ ~ (k < made.last + 3) /\ later
  BY <1>1, <1>3 DEF Counts, ListsInv
<1>8. failures' = 0 => /\ Agreed(ages, rows, allPlayers)
                       /\ Stray(zeroRef, allPlayers) => Unreferenced(made.players)
                       /\ \A i \in DOMAIN made.ages : WholeAge(made.ages[i])
  <2>1. ~ (k < made.last + 3) => k >= made.last
    BY <1>6
  <2>2. QED
    BY <1>1, <1>2, <1>6, <1>7, <2>1 DEF ListsInv, Agreed, PlayerMade
<1>9. CASE phase' = "down" /\ createPlayer_crashes(name, made)
  <2>1. /\ players' = made.players /\ servers' = made.servers /\ ages' = made.ages
        /\ UNCHANGED <<sys, rows, allPlayers, watchers, zeroRef>>
    BY <1>9 DEF createPlayer_crashes
  <2>2. FolderInv'
    BY <1>1, <1>5, <1>6, <1>9, <2>1 DEF FolderInv
  <2>3. failures' = 0 => Agreed(ages', rows', allPlayers')
    BY <1>6, <1>8, <2>1 DEF Agreed
  <2>4. VaultTables'
    BY <1>6, <2>1 DEF VaultTables
  <2>5. failures' = 0 /\ Stray(zeroRef', allPlayers') => Unreferenced(players')
    BY <1>8, <2>1
  <2>6. QED
    BY <1>7, <2>2, <2>3, <2>4, <2>5 DEF VaultInv, VaultTables, VaultFacts, ListsInv
<1>10. CASE phase' = phase /\ dm_auth_createPlayer(name, made, k, later)
  <2>1. /\ ~ \E r \in rows : r.name = name
        /\ ~ made.crashes
        /\ players' = made.players /\ servers' = made.servers
        /\ ages' = IF p # 0 /\ Then(1)
                   THEN [made.ages EXCEPT ![made.hood].owners = @ \cup {p}]
                   ELSE made.ages
        /\ zeroRef' = (zeroRef \/ (p = 0 /\ Then(1)))
        /\ allPlayers' = IF Then(2) /\ allPlayers # <<>> THEN <<S \cup {p}>> ELSE allPlayers
        /\ rows' = IF Then(3) THEN rows \cup {[name |-> name, player |-> p]} ELSE rows
        /\ sys' = sys /\ watchers' = watchers
    BY <1>10 DEF dm_auth_createPlayer
  <2>2. p # 0 <=> made.made
    BY <1>4
  <2>3. made.made => p = P /\ P \in DOMAIN made.players
    BY <1>6 DEF WholePlayer
  <2>4. failures' = 0 => Then(1) /\ Then(2) /\ Then(3)
    BY <1>6, <1>7
  <2> HIDE DEF Then, p, P
  \* The ages.
  <2>5. /\ VaultFacts(ages', servers', players', rows)
        /\ made.made => WholePlayer(ages', players', p)
        /\ HoodOwners(ages') = HoodOwners(ages) \cup (IF made.made /\ Then(1) THEN {p} ELSE {})
        /\ failures' = 0 => \A i \in DOMAIN ages' : WholeAge(ages'[i])
    <3>1. CASE made.made /\ Then(1)
      <4> DEFINE new == [made.ages EXCEPT ![made.hood].owners = @ \cup {p}]
      <4>1. ages' = new
        BY <2>1, <2>2, <3>1
      <4>2. /\ VaultFacts(made.ages, made.servers, made.players, rows)
            /\ made.hood \in DOMAIN made.ages /\ made.ages[made.hood].file = "Neighborhood"
            /\ Has(made.ages[made.hood], "AgeInfo-Owners")
            /\ p \in DOMAIN made.players
        BY <1>6, <2>1, <2>3, <3>1
      <4>3. /\ VaultFacts(new, made.servers, made.players, rows)
            /\ \A q : WholePlayer(made.ages, made.players, q) => WholePlayer(new, made.players, q)
            /\ HoodOwners(new) = HoodOwners(made.ages) \cup {p}
            /\ DOMAIN new = DOMAIN made.ages
            /\ \A i \in DOMAIN made.ages : WholeAge(new[i]) <=> WholeAge(made.ages[i])
        <5> DEFINE ags == made.ages
                   srv == made.servers
                   pl  == made.players
                   h   == made.hood
        <5>1. new = Joined(ags, h, p)
          BY DEF Joined
        <5> HIDE DEF ags, srv, pl, h, new
        <5>2. /\ VaultFacts(ags, srv, pl, rows)
              /\ h \in DOMAIN ags /\ ags[h].file = "Neighborhood"
              /\ Has(ags[h], "AgeInfo-Owners") /\ p \in DOMAIN pl
          BY <4>2 DEF ags, srv, pl, h
        <5>3. /\ VaultFacts(new, srv, pl, rows)
              /\ \A q : WholePlayer(ags, pl, q) => WholePlayer(new, pl, q)
              /\ HoodOwners(new) = HoodOwners(ags) \cup {p}
              /\ DOMAIN new = DOMAIN ags /\ \A i \in DOMAIN ags : WholeAge(new[i]) <=> WholeAge(ags[i])
          BY <5>1, <5>2, JoinHolds
        <5>4. QED
          BY <5>3 DEF ags, srv, pl
      <4> HIDE DEF new
      <4>4. QED
        BY <1>6, <1>8, <2>1, <2>3, <3>1, <4>1, <4>3
    <3>2. CASE ~ (made.made /\ Then(1))
      <4>1. ages' = made.ages
        BY <2>1, <2>2, <3>2
      <4>2. QED
        BY <1>6, <1>8, <2>1, <2>3, <3>2, <4>1
    <3>3. QED
      BY <3>1, <3>2
  \* The row.
  <2>6. VaultTables'
    <3>1. CASE ~ Then(3)
      BY <2>1, <2>5, <3>1 DEF VaultTables
    <3>2. CASE Then(3)
      <4> DEFINE r == [name |-> name, player |-> p]
      <4>1. rows' = rows \cup {r}
        BY <2>1, <3>2
      <4>2. r \in RowRecords /\ r.name = name /\ r.player = p
        <5>1. p \in Nat
          BY <1>4 DEF p
        <5>2. QED
          BY <5>1 DEF RowRecords
      <4> HIDE DEF r
      <4>3. RowsFacts(ages', players', rows)
        BY <2>5 DEF VaultFacts
      <4>4. r.player # 0 => WholePlayer(ages', players', r.player)
        BY <2>2, <2>5, <4>2
      <4>5. \A s \in rows : s.name # name
        BY <2>1
      <4>6. RowsFacts(ages', players', rows')
        BY <4>1, <4>2, <4>3, <4>4, <4>5 DEF RowsFacts
      <4>7. QED
        BY <2>5, <4>6 DEF VaultFacts, VaultTables
    <3>3. QED
      BY <3>1, <3>2
  <2>7. FolderInv'
    <3>1. DOMAIN players \subseteq DOMAIN players'
      BY <1>6, <2>1
    <3>2. \E listed \in SUBSET ({0} \cup DOMAIN players') : allPlayers' = <<listed>>
      <4>1. CASE Then(2)
        <5>1. allPlayers' = <<S \cup {p}>> /\ S \cup {p} \in SUBSET ({0} \cup DOMAIN players')
          BY <1>5, <2>1, <2>2, <2>3, <3>1, <4>1
        <5>2. QED
          BY <5>1
      <4>2. CASE ~ Then(2)
        <5>1. allPlayers' = <<S>> /\ S \in SUBSET ({0} \cup DOMAIN players')
          BY <1>5, <2>1, <3>1, <4>2
        <5>2. QED
          BY <5>1
      <4>3. QED
        BY <4>1, <4>2
    <3>3. allPlayers' # <<>>
      BY <3>2
    <3>4. zeroRef' \in BOOLEAN
      BY <2>1
    <3>5. QED
      BY <1>1, <2>1, <3>1, <3>2, <3>3, <3>4 DEF FolderInv
  <2>8. failures' = 0 => Agreed(ages', rows', allPlayers')
    <3>1. SUFFICES ASSUME failures' = 0
                   PROVE  Agreed(ages', rows', allPlayers')
      OBVIOUS
    <3>2. /\ Then(1) /\ Then(2) /\ Then(3)
          /\ rows' = rows \cup {[name |-> name, player |-> p]}
      BY <2>1, <2>4, <3>1
    <3>3. NamedPlayers(rows') = NamedPlayers(rows) \cup ({p} \ {0})
      <4> DEFINE r == [name |-> name, player |-> p]
      <4>1. r.player = p
        OBVIOUS
      <4>2. rows' = rows \cup {r}
        BY <3>2
      <4> HIDE DEF r
      <4>3. {s.player : s \in rows'} = {s.player : s \in rows} \cup {p}
        BY <4>1, <4>2
      <4>4. QED
        BY <4>3 DEF NamedPlayers
    <3>4. HoodOwners(ages') = HoodOwners(ages) \cup ({p} \ {0})
      BY <2>2, <2>5, <3>2
    <3>5. NamedPlayers(rows) = HoodOwners(ages) /\ S \ {0} = NamedPlayers(rows)
      <4>1. Agreed(ages, rows, allPlayers)
        BY <1>8, <3>1
      <4>2. S \in Range(allPlayers)
        BY <1>5, OneFolder
      <4>3. QED
        BY <4>1, <4>2 DEF Agreed
    <3>6. allPlayers' = <<S \cup {p}>>
      BY <1>5, <2>1, <3>2
    <3>7. \A listed \in Range(allPlayers') : listed \ {0} = NamedPlayers(rows')
      <4>1. \A listed \in Range(allPlayers') : listed = S \cup {p}
        BY <3>6, OneFolder
      <4>2. QED
        BY <3>3, <3>5, <4>1
    <3>8. QED
      BY <2>5, <3>1, <3>3, <3>4, <3>5, <3>7 DEF Agreed
  <2>9. failures' = 0 /\ Stray(zeroRef', allPlayers') => Unreferenced(players')
    <3>1. SUFFICES ASSUME failures' = 0, Stray(zeroRef', allPlayers')
                   PROVE  Unreferenced(made.players)
      BY <2>1
    <3>2. CASE made.made
      <4>1. p # 0 /\ zeroRef' = zeroRef
        BY <1>1, <2>1, <2>2, <3>2 DEF FolderInv
      <4>2. \A listed \in Range(allPlayers') : 0 \in listed => 0 \in S
        <5>1. allPlayers' = <<S \cup {p}>> \/ allPlayers' = <<S>>
          BY <1>5, <2>1
        <5>2. QED
          BY <4>1, <5>1, OneFolder
      <4>3. S \in Range(allPlayers)
        BY <1>5, OneFolder
      <4>4. Stray(zeroRef, allPlayers)
        BY <3>1, <4>1, <4>2, <4>3 DEF Stray
      <4>5. QED
        BY <1>8, <3>1, <4>4
    <3>3. CASE ~ made.made
      <4>1. k >= made.last
        BY <1>6, <1>7, <3>1
      <4>2. QED
        BY <1>6, <3>3, <4>1
    <3>4. QED
      BY <3>2, <3>3
  <2>10. QED
    BY <1>7, <2>6, <2>7, <2>8, <2>9 DEF VaultInv, VaultTables, VaultFacts, ListsInv
<1>11. QED
  BY <1>3, <1>9, <1>10

LEMMA DeleteHolds ==
    ASSUME VaultInv, phase = "up", phase' = phase, NEW row \in rows, NEW k \in 0 .. 2,
           Counts(k < 2), dm_auth_deletePlayer(row, k)
    PROVE  VaultInv'
<1> DEFINE p == row.player
           S == allPlayers[1]
<1>1. VaultTables /\ FolderInv /\ ListsInv /\ RowsFacts(ages, players, rows)
  BY DEF VaultInv, VaultTables, VaultFacts
<1>2. allPlayers # <<>> /\ S \in SUBSET ({0} \cup DOMAIN players) /\ allPlayers = <<S>>
  <2>1. PICK listed \in SUBSET ({0} \cup DOMAIN players) : allPlayers = <<listed>>
    BY <1>1 DEF FolderInv
  <2>2. QED
    BY <2>1
<1>3. /\ failures' \in Nat
      /\ failures' = 0 => failures = 0 /\ k = 2
  BY <1>1 DEF Counts, ListsInv
<1>4. failures' = 0 => Agreed(ages, rows, allPlayers)
  BY <1>1, <1>3 DEF ListsInv
<1>5. servers' = servers /\ sys' = sys /\ watchers' = watchers /\ zeroRef' = zeroRef
  BY DEF dm_auth_deletePlayer
<1>6. rows' = (IF k = 0 THEN rows ELSE Without(rows, p))
  BY DEF dm_auth_deletePlayer, Without
<1>7. NamedPlayers(Without(rows, p)) = NamedPlayers(rows) \ {p}
  BY DEF NamedPlayers, Without
<1>8. CASE k = 2 /\ p # 0
  <2>1. /\ ages' = Disowned(ages, p) /\ players' = Unlinked(players, p)
        /\ allPlayers' = <<S \ {p}>> /\ rows' = Without(rows, p)
    BY <1>2, <1>6, <1>8 DEF dm_auth_deletePlayer, Disowned, Unlinked
  <2>2. p \in DOMAIN players
    BY <1>1, <1>8 DEF RowsFacts, WholePlayer
  <2> HIDE DEF p
  <2>3. /\ VaultFacts(ages', servers, players', Without(rows, p))
        /\ HoodOwners(ages') = HoodOwners(ages) \ {p}
        /\ DOMAIN ages' = DOMAIN ages /\ \A i \in DOMAIN ages : WholeAge(ages'[i]) <=> WholeAge(ages[i])
        /\ DOMAIN players' = DOMAIN players
        /\ Unreferenced(players) => Unreferenced(players')
    BY <1>1, <2>1, <2>2, ForgetHolds DEF VaultTables
  <2>4. VaultTables'
    BY <1>5, <2>1, <2>3 DEF VaultTables
  <2>5. FolderInv'
    <3>1. S \ {p} \in SUBSET ({0} \cup DOMAIN players') /\ allPlayers' = <<S \ {p}>>
      BY <1>2, <2>1, <2>3
    <3>2. allPlayers' # <<>>
      BY <3>1
    <3>3. QED
      BY <1>1, <1>5, <2>3, <3>1, <3>2 DEF FolderInv
  <2>6. failures' = 0 => Agreed(ages', rows', allPlayers')
    <3>1. SUFFICES ASSUME failures' = 0
                   PROVE  Agreed(ages', rows', allPlayers')
      OBVIOUS
    <3>2. NamedPlayers(rows) = HoodOwners(ages) /\ S \ {0} = NamedPlayers(rows)
          /\ \A i \in DOMAIN ages : WholeAge(ages[i])
      <4>1. S \in Range(allPlayers)
        BY <1>2, OneFolder
      <4>2. QED
        BY <1>4, <3>1, <4>1 DEF Agreed
    <3>3. \A listed \in Range(allPlayers') : listed \ {0} = NamedPlayers(rows')
      <4>1. \A listed \in Range(allPlayers') : listed = S \ {p}
        BY <2>1, OneFolder
      <4>2. QED
        BY <1>7, <2>1, <3>2, <4>1
    <3>4. QED
      BY <1>7, <2>1, <2>3, <3>2, <3>3 DEF Agreed
  <2>7. failures' = 0 /\ Stray(zeroRef', allPlayers') => Unreferenced(players')
    <3>1. SUFFICES ASSUME failures' = 0, Stray(zeroRef', allPlayers')
                   PROVE  Unreferenced(players')
      OBVIOUS
    <3>2. S \in Range(allPlayers) /\ \A listed \in Range(allPlayers') : listed = S \ {p}
      BY <1>2, <2>1, OneFolder
    <3>3. Stray(zeroRef, allPlayers)
      BY <1>5, <3>1, <3>2 DEF Stray
    <3>4. QED
      BY <1>1, <1>3, <2>3, <3>1, <3>3 DEF ListsInv
  <2>8. QED
    BY <1>3, <2>4, <2>5, <2>6, <2>7 DEF VaultInv, VaultTables, VaultFacts, ListsInv
<1>9. CASE ~ (k = 2 /\ p # 0)
  <2>1. ages' = ages /\ players' = players /\ allPlayers' = allPlayers
    BY <1>9 DEF dm_auth_deletePlayer
  <2>2. RowsFacts(ages, players, rows')
    BY <1>1, <1>6 DEF RowsFacts, Without
  <2>3. VaultTables'
    BY <1>1, <1>5, <2>1, <2>2 DEF VaultTables, VaultFacts
  <2>4. FolderInv'
    BY <1>1, <1>5, <2>1 DEF FolderInv
  <2>5. failures' = 0 => Agreed(ages', rows', allPlayers')
    <3>1. SUFFICES ASSUME failures' = 0
                   PROVE  Agreed(ages', rows', allPlayers')
      OBVIOUS
    <3>2. p = 0 /\ k = 2
      BY <1>3, <1>9, <3>1
    <3>3. rows' = Without(rows, p)
      BY <1>6, <3>2
    <3>4. 0 \notin NamedPlayers(rows)
      BY DEF NamedPlayers
    <3>5. NamedPlayers(rows') = NamedPlayers(rows)
      BY <1>7, <3>2, <3>3, <3>4
    <3>6. QED
      BY <1>4, <2>1, <3>1, <3>5 DEF Agreed
  <2>6. failures' = 0 /\ Stray(zeroRef', allPlayers') => Unreferenced(players')
    BY <1>1, <1>3, <1>5, <2>1 DEF ListsInv
  <2>7. QED
    BY <1>3, <2>3, <2>4, <2>5, <2>6 DEF VaultInv, VaultTables, VaultFacts, ListsInv
<1>10. QED
  BY <1>8, <1>9

\* A step that is about the ages only.
LEMMA AgesStep ==
    ASSUME VaultInv, VaultFacts(ages', servers', players, rows),
           sys' = sys, players' = players, rows' = rows, allPlayers' = allPlayers,
           watchers' = watchers, zeroRef' = zeroRef, phase' = "up" => phase = "up",
           NEW fails \in BOOLEAN, Counts(fails),
           Agreed(ages, rows, allPlayers) /\ ~ fails => Agreed(ages', rows, allPlayers)
    PROVE  VaultInv'
<1>1. VaultTables'
  BY DEF VaultTables
<1>2. FolderInv'
  BY DEF VaultInv, FolderInv
<1>3. failures' \in Nat /\ (failures' = 0 => failures = 0 /\ ~ fails)
  BY DEF VaultInv, ListsInv, Counts
<1>4. failures' = 0 => /\ Agreed(ages', rows', allPlayers')
                       /\ Stray(zeroRef', allPlayers') => Unreferenced(players')
  BY <1>3 DEF VaultInv, ListsInv
<1>5. QED
  BY <1>1, <1>2, <1>3, <1>4 DEF VaultInv, VaultTables, VaultFacts, ListsInv

\* A step of the process that leaves the tables alone.
LEMMA SameVault ==
    ASSUME VaultInv, UNCHANGED vaultVars, phase' = "up" => phase = "up",
           failures' \in Nat, failures' = 0 => failures = 0
    PROVE  VaultInv'
  BY DEF VaultInv, AgesFacts, OwnersFacts, PlayersFacts, RowsFacts, FolderInv, ListsInv, vaultVars

LEMMA StartVaultHolds ==
    ASSUME VaultInv, StartVault
    PROVE  VaultInv'
<1>1. PICK k \in 0 .. 3 : /\ Counts(k < 3) /\ dm_vault_init(k)
                          /\ phase' = IF k = 3 THEN "sdl" ELSE "ended"
  BY DEF StartVault
<1>2. VaultTables /\ FolderInv /\ ListsInv
  BY DEF VaultInv, VaultTables, VaultFacts
<1>3. /\ UNCHANGED <<ages, servers, players, rows, allPlayers, watchers, zeroRef>>
      /\ sys' \in 0 .. 3 /\ phase' # "up"
  BY <1>1, <1>2 DEF dm_vault_init, FolderInv
<1>4. failures' \in Nat /\ (failures' = 0 => failures = 0)
  BY <1>1, <1>2 DEF ListsInv, Counts
<1>5. VaultTables'
  BY <1>2, <1>3 DEF VaultTables
<1>6. FolderInv'
  BY <1>2, <1>3 DEF FolderInv
<1>7. ListsInv'
  BY <1>2, <1>3, <1>4 DEF ListsInv
<1>8. QED
  BY <1>5, <1>6, <1>7 DEF VaultInv, VaultTables, VaultFacts

LEMMA StartAgesHolds ==
    ASSUME VaultInv, StartAges
    PROVE  VaultInv'
<1>1. VaultFacts(ages, servers, players, rows) /\ Len(StaticAges) \in Nat
      /\ DOMAIN StaticAges = 1 .. Len(StaticAges)
  BY UuidAssumption DEF VaultInv, VaultFacts
<1>2. PICK n \in 1 .. Len(StaticAges) + 1, k \in 0 .. AgeLength, missed \in Nat, fails \in BOOLEAN :
         /\ dm_check_static_ages(n, k, missed) /\ Counts(fails) /\ phase' # "up"
         /\ ~ fails => n > Len(StaticAges)
  <2> DEFINE past == Len(StaticAges) + 1
  <2>1. past \in 1 .. Len(StaticAges) + 1 /\ past > Len(StaticAges) /\ 0 \in 0 .. AgeLength
    BY <1>1, StatementOrder
  <2>2. CASE /\ Counts(FALSE) /\ dm_check_static_ages(past, 0, 0)
             /\ phase' = "allPlayers"
    BY <2>1, <2>2
  <2>3. CASE \E missed \in DOMAIN StaticAges :
                Counts(TRUE) /\ dm_check_static_ages(past, 0, missed) /\ phase' = "allPlayers"
    <3>1. PICK missed \in DOMAIN StaticAges :
                Counts(TRUE) /\ dm_check_static_ages(past, 0, missed) /\ phase' = "allPlayers"
      BY <2>3
    <3>2. missed \in Nat
      BY <1>1
    <3>3. QED
      BY <2>1, <3>1, <3>2
  <2>4. CASE \E n \in DOMAIN StaticAges, k \in AgeStops : \E missed \in {0, n} :
                Counts(TRUE) /\ dm_check_static_ages(n, k, missed) /\ phase' = "ended"
    <3>1. PICK n \in DOMAIN StaticAges, k \in AgeStops : \E missed \in {0, n} :
                Counts(TRUE) /\ dm_check_static_ages(n, k, missed) /\ phase' = "ended"
      BY <2>4
    <3>2. n \in 1 .. Len(StaticAges) + 1 /\ k \in 0 .. AgeLength /\ {0, n} \subseteq Nat
      BY <1>1, BoundsAssumption, StatementOrder
    <3>3. QED
      BY <3>1, <3>2
  <2>5. QED
    BY <2>2, <2>3, <2>4 DEF StartAges
<1>3. /\ VaultFacts(ages', servers', players, rows)
      /\ Agreed(ages, rows, allPlayers) /\ n > Len(StaticAges) => Agreed(ages', rows, allPlayers)
  BY <1>1, <1>2, StaticAgesHold
<1>4. UNCHANGED <<sys, players, rows, allPlayers, watchers, zeroRef>>
  BY <1>2 DEF dm_check_static_ages
<1>5. QED
  BY <1>2, <1>3, <1>4, AgesStep

LEMMA StartAllPlayersHolds ==
    ASSUME VaultInv, StartAllPlayers
    PROVE  VaultInv'
<1>1. PICK k \in 0 .. 2 : /\ Counts(k < 2) /\ dm_all_players_init(k)
                          /\ k = 0 => phase' # "up"
  BY DEF StartAllPlayers
<1>2. VaultTables /\ FolderInv /\ ListsInv /\ RowsFacts(ages, players, rows)
  BY DEF VaultInv, VaultTables, VaultFacts
<1>3. UNCHANGED <<sys, ages, servers, players, rows, watchers, zeroRef>>
  BY <1>1 DEF dm_all_players_init
<1>4. failures' \in Nat /\ (failures' = 0 => failures = 0 /\ k = 2)
  BY <1>1, <1>2 DEF ListsInv, Counts
<1>5. VaultTables'
  BY <1>2, <1>3 DEF VaultTables
<1>6. CASE allPlayers' = allPlayers /\ (allPlayers # <<>> \/ phase' # "up")
  <2>1. FolderInv'
    BY <1>2, <1>3, <1>6 DEF FolderInv
  <2>2. ListsInv'
    BY <1>2, <1>3, <1>4, <1>6 DEF ListsInv
  <2>3. QED
    BY <1>5, <2>1, <2>2 DEF VaultInv, VaultTables, VaultFacts
<1>7. CASE allPlayers = <<>> /\ k # 0
  <2> DEFINE infos == {p \in DOMAIN players : players[p].nodes >= 2}
             S == IF k = 1 THEN {} ELSE infos
  <2>1. allPlayers' = <<S>>
    BY <1>1, <1>7 DEF dm_all_players_init
  <2>2. DOMAIN players = {}
    BY <1>2, <1>7 DEF FolderInv
  <2>3. S = {}
    BY <2>2
  <2> HIDE DEF S
  <2>4. FolderInv'
    <3>1. allPlayers' # <<>> /\ S \in SUBSET ({0} \cup DOMAIN players')
      BY <2>1, <2>3
    <3>2. QED
      BY <1>2, <1>3, <2>1, <3>1 DEF FolderInv
  <2>5. NamedPlayers(rows) = {}
    BY <1>2, <2>2, NamedPlayersFacts
  <2>6. \A listed \in Range(allPlayers') : listed \ {0} = NamedPlayers(rows) /\ 0 \notin listed
    BY <2>1, <2>3, <2>5, OneFolder
  <2>7. ListsInv'
    BY <1>2, <1>3, <1>4, <2>6 DEF ListsInv, Agreed, Stray
  <2>8. QED
    BY <1>5, <2>4, <2>7 DEF VaultInv, VaultTables, VaultFacts
<1>8. QED
  BY <1>1, <1>6, <1>7 DEF dm_all_players_init

LEMMA AgeRequestHolds ==
    ASSUME VaultInv, AgeRequest
    PROVE  VaultInv'
<1>1. VaultFacts(ages, servers, players, rows) /\ AgesFacts(ages, servers)
  BY DEF VaultInv, VaultFacts
<1>2. ASSUME NEW uuid \in ClientUuids, NEW k \in AgeStops \cup {AgeLength},
             Counts(k < AgeLength), Survives, dm_auth_createAge(uuid, k)
      PROVE  VaultInv'
  <2>1. k \in 0 .. AgeLength /\ (k < AgeLength) \in BOOLEAN /\ (~ (k < AgeLength) => k = AgeLength)
    BY BoundsAssumption, StatementOrder
  <2>2. /\ VaultFacts(ages', servers', players, rows)
        /\ Agreed(ages, rows, allPlayers) /\ k = AgeLength => Agreed(ages', rows, allPlayers)
    BY <1>1, <1>2, <2>1, CreateAgeHolds
  <2>3. UNCHANGED <<sys, players, rows, allPlayers, watchers, zeroRef>>
    BY <1>2 DEF dm_auth_createAge
  <2>4. QED
    BY <1>2, <2>1, <2>2, <2>3, AgesStep DEF Survives
<1>3. ASSUME NEW uuid \in ClientUuids, Counts(FALSE), Survives, dm_auth_findAge(uuid)
      PROVE  VaultInv'
  <2>1. AgesFacts(ages, servers')
    BY <1>1, <1>3, FindAgeHolds
  <2>2. UNCHANGED <<sys, ages, players, rows, allPlayers, watchers, zeroRef>>
    BY <1>3 DEF dm_auth_findAge
  <2>3. VaultFacts(ages', servers', players, rows)
    BY <1>1, <2>1, <2>2 DEF VaultFacts
  <2>4. QED
    BY <1>3, <2>2, <2>3, AgesStep DEF Survives
<1>4. ASSUME NEW i \in DOMAIN servers, Counts(FALSE), Survives, DropTemporary(i)
      PROVE  VaultInv'
  <2>1. AgesFacts(ages, servers')
    BY <1>1, <1>4, DropHolds
  <2>2. UNCHANGED <<sys, ages, players, rows, allPlayers, watchers, zeroRef>>
    BY <1>4 DEF DropTemporary
  <2>3. VaultFacts(ages', servers', players, rows)
    BY <1>1, <2>1, <2>2 DEF VaultFacts
  <2>4. QED
    BY <1>4, <2>2, <2>3, AgesStep DEF Survives
<1>5. ASSUME NEW i \in DOMAIN ages, NEW public \in BOOLEAN, Counts(FALSE), Survives,
             dm_auth_set_pub_priv(i, public)
      PROVE  VaultInv'
  <2>1. /\ VaultFacts(ages', servers', players, rows)
        /\ Agreed(ages, rows, allPlayers) => Agreed(ages', rows, allPlayers)
    BY <1>1, <1>5, PublicHolds
  <2>2. UNCHANGED <<sys, players, rows, allPlayers, watchers, zeroRef>>
    BY <1>5 DEF dm_auth_set_pub_priv
  <2>3. QED
    BY <1>5, <2>1, <2>2, AgesStep DEF Survives
<1>6. QED
  BY <1>2, <1>3, <1>4, <1>5 DEF AgeRequest

LEMMA PlayerRequestHolds ==
    ASSUME VaultInv, phase = "up", PlayerRequest
    PROVE  VaultInv'
<1>1. ASSUME NEW name \in Names, NEW k \in PlayerStops, NEW later \in BOOLEAN,
             CreatePlayer(name, v_create_player(k, later), k, later)
      PROVE  VaultInv'
  <2>1. PlayerStops \subseteq Nat
    BY Sizes, StatementOrder, BoundsAssumption DEF PlayerStops
  <2>2. QED
    BY <1>1, <2>1, CreatePlayerHolds
<1>2. ASSUME NEW row \in rows, NEW k \in 0 .. 2, Counts(k < 2), Survives,
             dm_auth_deletePlayer(row, k)
      PROVE  VaultInv'
  BY <1>2, DeleteHolds DEF Survives
<1>3. ASSUME NEW row \in {r \in rows : r.player # 0}, Counts(FALSE), Survives,
             dm_auth_addAllPlayers(row.player)
      PROVE  VaultInv'
  <2>1. VaultTables /\ FolderInv /\ ListsInv /\ RowsFacts(ages, players, rows)
    BY DEF VaultInv, VaultTables, VaultFacts
  <2>2. row.player \in DOMAIN players
    BY <1>3, <2>1 DEF RowsFacts, WholePlayer
  <2>3. /\ UNCHANGED <<sys, ages, servers, players, rows, allPlayers, zeroRef>>
        /\ watchers' \subseteq watchers \cup {row.player}
    BY <1>3 DEF dm_auth_addAllPlayers
  <2>4. VaultTables'
    BY <2>1, <2>3 DEF VaultTables
  <2>5. FolderInv'
    BY <1>3, <2>1, <2>2, <2>3 DEF FolderInv, Survives
  <2>6. ListsInv'
    BY <1>3, <2>1, <2>3 DEF ListsInv, Counts
  <2>7. QED
    BY <2>4, <2>5, <2>6 DEF VaultInv, VaultTables, VaultFacts
<1>4. QED
  BY <1>1, <1>2, <1>3 DEF PlayerRequest

\* The steps that the vault has no part in: no process comes up by one of them.
LEMMA OtherHolds ==
    ASSUME VaultInv, [Next]_vars,
           ~ (StartVault \/ StartAges \/ StartAllPlayers \/ VaultRequest)
    PROVE  VaultInv'
<1>1. failures \in Nat
  BY DEF VaultInv, ListsInv
<1>2. ASSUME UNCHANGED vaultVars, phase' = "up" => phase = "up",
             failures' = failures \/ \E fails \in BOOLEAN : Counts(fails)
      PROVE  VaultInv'
  BY <1>1, <1>2, SameVault DEF Counts
<1>3. CASE Start
  BY <1>2, <1>3 DEF Start
<1>4. CASE StartSdl
  BY <1>2, <1>4 DEF StartSdl
<1>5. CASE Crash
  BY <1>2, <1>5 DEF Crash
<1>6. CASE GlobalRequest
  BY <1>2, <1>6 DEF GlobalRequest, Survives
<1>7. CASE ObjectRequest
  BY <1>2, <1>7 DEF ObjectRequest, Survives
<1>8. CASE HostLife
  BY <1>2, <1>8 DEF HostLife, Survives
<1>9. CASE HostStep
  BY <1>2, <1>9 DEF HostStep
<1>10. CASE ScoreRequest
  BY <1>2, <1>10 DEF ScoreRequest, Survives
<1>11. CASE UNCHANGED vars
  BY <1>2, <1>11 DEF vars
<1>12. QED
  BY <1>3, <1>4, <1>5, <1>6, <1>7, <1>8, <1>9, <1>10, <1>11 DEF Next

\* Whatever statement fails, and wherever the process ends, the next start and
\* the next request find the tables like this (AuthVault.cpp, AuthDaemon.cpp).
THEOREM VaultInvariant == Spec => []VaultInv
<1>1. ASSUME Init
      PROVE  VaultInv
  <2>1. /\ sys = 0 /\ ages = <<>> /\ servers = <<>> /\ players = <<>> /\ rows = {}
        /\ allPlayers = <<>> /\ watchers = {} /\ zeroRef = FALSE /\ failures = 0 /\ phase = "down"
    BY <1>1 DEF Init, VaultInit
  <2>2. DOMAIN ages = {} /\ DOMAIN servers = {} /\ DOMAIN players = {} /\ Range(allPlayers) = {}
    BY <2>1 DEF Range
  <2>3. AgesFacts(ages, servers)
    BY <2>1, <2>2 DEF AgesFacts, UuidsSound, ServersSound
  <2>4. OwnersFacts(ages, players) /\ PlayersFacts(ages, players) /\ RowsFacts(ages, players, rows)
    BY <2>1, <2>2 DEF OwnersFacts, PlayersFacts, RowsFacts
  <2>5. FolderInv
    <3>1. watchers \subseteq DOMAIN players /\ sys \in 0 .. 3
      BY <2>1
    <3>1a. zeroRef \in BOOLEAN
      BY <2>1, Zenon
    <3>2. allPlayers = <<>> /\ players = <<>> /\ phase # "up"
      BY <2>1
    <3>3. allPlayers = <<>> \/ \E listed \in SUBSET ({0} \cup DOMAIN players) : allPlayers = <<listed>>
      BY <3>2
    <3>4. allPlayers = <<>> => players = <<>> /\ phase # "up"
      BY <3>2
    <3>5. QED
      BY <3>1, <3>1a, <3>3, <3>4 DEF FolderInv
  <2>6. NamedPlayers(rows) = {} /\ HoodOwners(ages) = {}
    BY <2>1, <2>2 DEF NamedPlayers, HoodOwners
  <2>7. ListsInv
    BY <2>1, <2>2, <2>6 DEF ListsInv, Agreed, Stray
  <2>8. QED
    BY <2>3, <2>4, <2>5, <2>7 DEF VaultInv
<1>2. ASSUME VaultInv, [Next]_vars
      PROVE  VaultInv'
  <2>1. CASE VaultRequest
    BY <1>2, <2>1, AgeRequestHolds, PlayerRequestHolds DEF VaultRequest, Serves
  <2>2. QED
    BY <1>2, <2>1, StartVaultHolds, StartAgesHolds, StartAllPlayersHolds, OtherHolds
<1>3. QED
  BY <1>1, <1>2, PTL DEF Spec

\* The values in the tables are those the statements write, and an id in one of
\* them is that of a row that is there (v_create_age, v_create_player).
THEOREM VaultTypesCorrect == Spec => []VaultTypeOK
<1>1. ASSUME VaultInv
      PROVE  VaultTypeOK
  <2>1. AgesFacts(ages, servers) /\ OwnersFacts(ages, players) /\ PlayersFacts(ages, players)
        /\ RowsFacts(ages, players, rows) /\ FolderInv
    BY <1>1 DEF VaultInv
  <2>2. ASSUME NEW i \in DOMAIN ages
        PROVE  ages[i].done \in 1 .. AgeLength
    <3>1. ages[i] \in AgeRecords
      BY <2>1 DEF AgesFacts
    <3>2. QED
      BY <3>1 DEF AgeRecords
  <2>3. \A i \in DOMAIN ages : /\ ages[i].owners \subseteq DOMAIN players
                               /\ ages[i].owners # {} => Has(ages[i], "AgeInfo-Owners")
    BY <2>1 DEF OwnersFacts
  <2>4. \A i \in DOMAIN servers : servers[i].age \in {0} \cup DOMAIN ages
    BY <2>1 DEF AgesFacts, ServersSound
  <2>5. ASSUME NEW p \in DOMAIN players
        PROVE  /\ {players[p].relto, players[p].hood} \subseteq {0} \cup DOMAIN ages
               /\ players[p].nodes \in 1 .. PlayerNodes
               /\ players[p].refs \in 0 .. PlayerRefs
    <3>1. players[p] \in PlayerRecords
      BY <2>1 DEF PlayersFacts
    <3>2. players[p].nodes \in 1 .. PlayerNodes /\ players[p].refs \in 0 .. PlayerRefs
      BY <3>1 DEF PlayerRecords
    <3>3. {players[p].relto, players[p].hood} \subseteq {0} \cup DOMAIN ages
      BY <2>1 DEF PlayersFacts
    <3>4. QED
      BY <3>2, <3>3
  <2>6. \A r \in rows : r.name \in Names /\ r.player \in {0} \cup DOMAIN players
    BY <2>1 DEF RowsFacts, RowRecords, WholePlayer
  <2>7. \A all \in Range(allPlayers) : all \subseteq {0} \cup DOMAIN players
    <3>1. PICK S \in SUBSET ({0} \cup DOMAIN players) : allPlayers = <<>> \/ allPlayers = <<S>>
      BY <2>1 DEF FolderInv
    <3>2. \A all \in Range(allPlayers) : all = S
      BY <3>1, OneFolder
    <3>3. QED
      BY <3>2
  <2>8. sys \in 0 .. 3 /\ watchers \subseteq DOMAIN players /\ zeroRef \in BOOLEAN
    BY <2>1 DEF FolderInv
  <2>9. QED
    BY <2>2, <2>3, <2>4, <2>5, <2>6, <2>7, <2>8 DEF VaultTypeOK
<1>2. QED
  BY <1>1, VaultInvariant, PTL

\* game.Servers has one lasting row for each age whose statements were all done,
\* and only a configured age may be there twice (v_create_age,
\* dm_check_static_ages, dm_auth_createAge, dm_auth_findAge).
THEOREM AgesAreSound == Spec => []AgesSound
<1>1. ASSUME VaultInv
      PROVE  AgesSound
  <2>1. UuidsSound(ages) /\ ServersSound(ages, servers) /\ 0 \notin DOMAIN ages
    BY <1>1 DEF VaultInv, AgesFacts
  <2> DEFINE rowsOfAges == {servers[i].age : i \in {x \in DOMAIN servers : ~ servers[x].temp}}
             whole == {i \in DOMAIN ages : WholeAge(ages[i])}
  <2>2. ASSUME NEW i \in rowsOfAges
        PROVE  i \in whole
    BY <2>1 DEF ServersSound
  <2>3. ASSUME NEW i \in whole
        PROVE  i \in rowsOfAges
    BY <2>1 DEF ServersSound
  <2>4. rowsOfAges = whole
    BY <2>2, <2>3
  <2>5. \A i, j \in DOMAIN servers :
           i # j /\ servers[i].age = servers[j].age => servers[i].temp /\ servers[j].temp
    BY <2>1 DEF ServersSound
  <2>6. QED
    BY <2>1, <2>4, <2>5 DEF AgesSound, UuidsSound
<1>2. QED
  BY <1>1, VaultInvariant, PTL

\* A name that can be logged in with is that of a whole player with its own relto
\* and a hood, wherever earlier creations failed (v_create_player,
\* dm_auth_createPlayer, dm_auth_deletePlayer).
THEOREM PlayersAreWhole == Spec => []PlayerRowsSound
<1>1. ASSUME VaultInv
      PROVE  PlayerRowsSound
  <2>1. PlayersFacts(ages, players) /\ RowsFacts(ages, players, rows)
    BY <1>1 DEF VaultInv
  <2>2. ASSUME NEW r \in rows, r.player # 0
        PROVE  WholePlayer(ages, players, r.player) /\ ages[players[r.player].hood].file = "Neighborhood"
    BY <2>1, <2>2 DEF RowsFacts, PlayersFacts, WholePlayer
  <2>3. QED
    BY <2>1, <2>2 DEF PlayerRowsSound, RowsFacts, WholePlayer
<1>2. QED
  BY <1>1, VaultInvariant, PTL

\* Until a statement fails, auth.Players, the owners of the hoods and the folder of
\* all players name the same players, and no age is there in part
\* (dm_auth_createPlayer, dm_auth_deletePlayer, dm_all_players_init).
THEOREM ListsDoAgree == Spec => []ListsAgree
<1>1. ASSUME VaultInv
      PROVE  ListsAgree
  <2>1. SUFFICES ASSUME failures = 0, phase = "up"
                 PROVE  /\ NamedPlayers(rows) = (UNION Range(allPlayers)) \ {0}
                        /\ NamedPlayers(rows) = HoodOwners(ages)
                        /\ \A i \in DOMAIN ages : WholeAge(ages[i])
                        /\ zeroRef \/ 0 \in UNION Range(allPlayers) =>
                              \E p \in DOMAIN players : players[p].refs = 0
    BY DEF ListsAgree, NamedPlayers, HoodOwners
  <2>2. Agreed(ages, rows, allPlayers) /\ allPlayers # <<>>
    BY <1>1, <2>1 DEF VaultInv, ListsInv, FolderInv
  <2>3. PICK S \in SUBSET ({0} \cup DOMAIN players) : allPlayers = <<S>>
    BY <1>1, <2>2 DEF VaultInv, FolderInv
  <2>4. Range(allPlayers) = {S}
    BY <2>3, OneFolder
  <2>5. S \ {0} = NamedPlayers(rows)
    BY <2>2, <2>4 DEF Agreed
  <2>6. zeroRef \/ 0 \in S => Unreferenced(players)
    BY <1>1, <2>1, <2>4 DEF VaultInv, ListsInv, Stray
  <2>7. UNION Range(allPlayers) = S
    BY <2>4
  <2>8. NamedPlayers(rows) = HoodOwners(ages) /\ \A i \in DOMAIN ages : WholeAge(ages[i])
    BY <2>2 DEF Agreed
  <2>9. zeroRef \/ 0 \in UNION Range(allPlayers) => \E p \in DOMAIN players : players[p].refs = 0
    BY <2>6, <2>7 DEF Unreferenced
  <2>10. QED
    BY <2>5, <2>7, <2>8, <2>9
<1>2. QED
  BY <1>1, VaultInvariant, PTL
=============================================================================

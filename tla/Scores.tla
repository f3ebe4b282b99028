------------------------------- MODULE Scores -------------------------------
(***************************************************************************)
(* The table of scores and the auth daemon's operations on it              *)
(* (AuthDaemon.cpp, functions.sql).  The database functions lock the row   *)
(* they read, and the daemon is their only caller, so that each is one     *)
(* step.  Points are 32-bit integers, of which the model keeps the range   *)
(* -IntMax - 1 .. IntMax: arithmetic that leaves it is an error of the     *)
(* statement, and so is an amount that does not fit.                       *)
(***************************************************************************)
EXTENDS Integers, Sequences, FiniteSets

CONSTANTS
    ScoreOwners,  \* owners of scores: node ids
    ScoreNames,   \* names of scores
    Amounts,      \* points in requests, as int32_t
    IntMax        \* the largest value of the column

ASSUME IntMaxAssumption == IntMax \in Nat /\ Amounts \subseteq -IntMax - 1 .. IntMax

VARIABLES
    scores,   \* auth.Scores: [owner, name, type, points], by score id
    answer    \* the last reply: [result, rows]

scoreVars == <<scores, answer>>

ScoreTypes == {"Fixed", "Football", "Golf"}

\* Variant: the arithmetic wraps nothing and fails nowhere.
Fits_always(n) == n \in Int

Fits(n) == n \in -IntMax - 1 .. IntMax

Answer(result, list) == answer' = [result |-> result, rows |-> list]

ScoreInit == scores = <<>> /\ answer = [result |-> "none", rows |-> {}]

\* auth.create_score: one score per owner and name.
dm_auth_createScore(owner, name, type, points) ==
    IF \E i \in DOMAIN scores : scores[i].owner = owner /\ scores[i].name = name
    THEN Answer("AlreadyExists", {}) /\ UNCHANGED scores
    ELSE /\ scores' = Append(scores, [owner |-> owner, name |-> name,
                                      type |-> type, points |-> points])
         /\ Answer("Success", {Len(scores) + 1})

dm_auth_getScores(owner, name) ==
    /\ Answer("Success", {i \in DOMAIN scores : scores[i].owner = owner /\ scores[i].name = name})
    /\ UNCHANGED scores

\* Variant: the bound at zero is missing.
dm_auth_addScorePoints_unbounded(id, points) ==
    /\ id \in DOMAIN scores /\ scores[id].type # "Fixed"
    /\ Fits(scores[id].points + points)
    /\ scores' = [scores EXCEPT ![id].points = @ + points]
    /\ Answer("Success", {})

\* auth.add_score_points: a score that may not be negative stops at zero.
dm_auth_addScorePoints(id, points) ==
    IF id \notin DOMAIN scores THEN Answer("NoDataFound", {}) /\ UNCHANGED scores
    ELSE IF scores[id].type = "Fixed" THEN Answer("WrongType", {}) /\ UNCHANGED scores
    ELSE LET sum == scores[id].points + points
         IN  IF ~ Fits(sum) THEN Answer("InternalError", {}) /\ UNCHANGED scores
             ELSE /\ scores' = [scores EXCEPT ![id].points =
                                  IF sum >= 0 \/ scores[id].type = "Golf" THEN sum ELSE 0]
                  /\ Answer("Success", {})

\* auth.transfer_score_points.  Its result is a boolean, which arrives as the
\* text t or f: neither is a number, so the reply is always the same.
dm_auth_transferScorePoints(src, dst, points) ==
    LET types == {scores[src].type, scores[dst].type}
        left  == scores[src].points - points
        right == scores[dst].points + points
        moves == left >= 0 \/ types = {"Golf"}
    IN  IF ~ {src, dst} \subseteq DOMAIN scores \/ src = dst
        THEN Answer("NoDataFound", {}) /\ UNCHANGED scores
        ELSE IF "Fixed" \in types THEN Answer("WrongType", {}) /\ UNCHANGED scores
        ELSE IF ~ Fits(points) \/ ~ Fits(left) \/ (moves /\ ~ Fits(right))
        THEN Answer("InternalError", {}) /\ UNCHANGED scores
        ELSE /\ scores' = IF moves THEN [scores EXCEPT ![src].points = left, ![dst].points = right]
                                   ELSE scores
             /\ Answer("NotEnoughPoints", {})

dm_auth_setScorePoints(id, points) ==
    IF id \notin DOMAIN scores THEN Answer("NoDataFound", {}) /\ UNCHANGED scores
    ELSE IF scores[id].type # "Fixed" THEN Answer("WrongType", {}) /\ UNCHANGED scores
    ELSE /\ scores' = [scores EXCEPT ![id].points = points]
         /\ Answer("Success", {})

Named(name) == {i \in DOMAIN scores : scores[i].name = name}

\* dm_auth_getHighScores of the players who own an age: the first max rows, in
\* whatever order the table has them.
dm_auth_getHighScores(name, owners, max) ==
    /\ \E list \in SUBSET {i \in Named(name) : scores[i].owner \in owners} :
          /\ Cardinality(list) =
                IF Cardinality({i \in Named(name) : scores[i].owner \in owners}) < max
                THEN Cardinality({i \in Named(name) : scores[i].owner \in owners}) ELSE max
          /\ Answer("Success", list)
    /\ UNCHANGED scores

\* With owner 0 the query returns four columns and five are read: the fifth of a
\* row is a null pointer that strtoul follows.
getHighScores_crashes(name, max) == Named(name) # {} /\ max > 0

----------------------------------------------------------------------------
ScoresTypeOK ==
    \A i \in DOMAIN scores :
        /\ scores[i] \in [owner : ScoreOwners, name : ScoreNames,
                          type : ScoreTypes, points : -IntMax - 1 .. IntMax]
        /\ \A j \in DOMAIN scores :
              i # j => <<scores[i].owner, scores[i].name>> # <<scores[j].owner, scores[j].name>>

\* No request takes points from nowhere: a step that changes two scores keeps
\* their sum, none touches more than two, and none takes a score that is not
\* negative and not of the golf kind below zero, except where the client sets
\* a fixed one (auth.add_score_points, auth.transfer_score_points at the ends
\* of the integer range).
ScoresSafe ==
    [][LET moved == {i \in DOMAIN scores : scores'[i].points # scores[i].points}
       IN  /\ DOMAIN scores \subseteq DOMAIN scores'
           /\ Cardinality(moved) <= 2
           /\ \A i, j \in moved : i # j =>
                 scores'[i].points + scores'[j].points = scores[i].points + scores[j].points
           /\ \A i \in moved : scores[i].type = "Football" /\ scores[i].points >= 0
                              => scores'[i].points >= 0]_scoreVars
=============================================================================

---------------------------- MODULE MCGameHost ----------------------------
(* GameHost on a small instance: every connection has a player of its own, and *)
(* connections and hosts are interchangeable.  The liveness run uses no         *)
(* symmetry.                                                                    *)
EXTENDS GameHost, TLC

PlayerOfConn == [c \in Conns |-> c]

\* Three connections for members and mastership; two for locks, and for the scene
\* with two or three kinds of messages at a time.
MCTalks == {[kinds |-> {}, conns |-> 3]} \cup
    [kinds : {{"lock", "unlock", "members", "other"},
              {"loadClone", "unloadClone", "members"},
              {"loadAvatar", "unloadAvatar", "members"},
              {"loadAvatar", "sdlBCast"},
              {"loadAvatar", "sdl", "state"}},
     conns : {2}]

\* Three connections and no list: what is left open is the leaver's answer.
LockTalks == {[kinds |-> {"lock", "unlock", "other"}, conns |-> 3]}

HostSymmetry == Permutations(Conns) \cup Permutations(Hosts)
=============================================================================

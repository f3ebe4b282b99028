--------------------------- MODULE MCAuthSession ---------------------------
(* AuthSession on a small instance.  Connections are interchangeable, and so  *)
(* are players; liveness runs use no symmetry.                                *)
EXTENDS AuthSession, TLC

SessionSymmetry == Permutations(Clients) \cup Permutations(Players)
=============================================================================

---------------------------- MODULE MCVaultSync ----------------------------
(* VaultSync on a small vault: player p1 has an inbox and may see the           *)
(* AllPlayers folder, player p2 has only the age.  The PlayerInfo x may be      *)
(* below both the inbox and the age.                                            *)
EXTENDS VaultSync, TLC

CONSTANTS c1, c2, p1, p2, inbox, all, age, x

MCPlayer == (c1 :> p1 @@ c2 :> p2)
MCLinks == {<<p1, inbox>>, <<inbox, x>>, <<p1, all>>, <<age, x>>}
MCOldRefs == {<<p1, inbox>>}
=============================================================================

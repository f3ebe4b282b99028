---------------------------- MODULE MCMsgChannel ----------------------------
(* MsgChannel on a small instance: several senders, one owner.               *)
EXTENDS MsgChannel
=============================================================================

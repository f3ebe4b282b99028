---------------------------- MODULE FifoChannel ----------------------------
(***************************************************************************)
(* What the callers of DS::MsgChannel rely on: one atomic put, one atomic   *)
(* get that returns the oldest message not yet returned, nothing lost,      *)
(* nothing duplicated, nothing invented.  Every server thread of DIRTSAND   *)
(* (auth daemon, game hosts, client workers) is written against this        *)
(* contract; MsgChannel.tla is the eventfd + mutex implementation of it.    *)
(***************************************************************************)
EXTENDS Naturals, Sequences

CONSTANT Messages  \* the <<m_messageType, m_payload>> pairs, as opaque values

VARIABLES sent,      \* every message put so far, oldest first
          delivered  \* every message returned by a get so far, oldest first

vars == <<sent, delivered>>

Init == sent = <<>> /\ delivered = <<>>

Put(m) ==
    /\ sent' = Append(sent, m)
    /\ UNCHANGED delivered

Get ==
    /\ Len(delivered) < Len(sent)
    /\ delivered' = Append(delivered, sent[Len(delivered) + 1])
    /\ UNCHANGED sent

Next == Get \/ \E m \in Messages : Put(m)

Spec == Init /\ [][Next]_vars
=============================================================================

---------------------------- MODULE FileTransfer ----------------------------
(***************************************************************************)
(* What a download promises its client: the chunks of the file it asked    *)
(* for, each once and in their order, until the last or until the          *)
(* connection breaks.  Transfers do not touch each other.                  *)
(***************************************************************************)
EXTENDS Naturals, Sequences

CONSTANTS Transfers, Sizes

VARIABLES
    size,    \* chunks of the file asked for
    got,     \* the chunks received, by position
    broken   \* nothing more can be relied on

vars == <<size, got, broken>>

Init ==
    /\ size = [x \in Transfers |-> 0]
    /\ got = [x \in Transfers |-> <<>>]
    /\ broken = [x \in Transfers |-> FALSE]

\* A new file is asked for when the last one is there; its first chunk may
\* come with the answer.
Begin(x) ==
    /\ Len(got[x]) = size[x]
    /\ size'[x] \in Sizes
    /\ got'[x] = <<>> \/ (got'[x] = <<0>> /\ size'[x] > 0)
    /\ ~broken'[x]

Chunk(x) ==
    /\ Len(got[x]) < size[x]
    /\ got'[x] = Append(got[x], Len(got[x]))
    /\ size'[x] = size[x]
    /\ ~broken'[x]

Wait(x) ==
    /\ size'[x] = size[x] /\ got'[x] = got[x]
    /\ ~broken'[x]

\* A broken transfer stays broken; a whole one goes on or breaks.
Next ==
    \A x \in Transfers :
        broken'[x] \/ (~broken[x] /\ (Begin(x) \/ Chunk(x) \/ Wait(x)))

Spec == Init /\ [][Next]_vars
=============================================================================

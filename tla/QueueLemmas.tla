---------------------------- MODULE QueueLemmas ----------------------------
(***************************************************************************)
(* What the provers need to know of a message queue (DS::MsgChannel as the    *)
(* daemons and hosts use it): the positions after a message is appended, and   *)
(* after the first one is taken; and induction, for the loops of the code.     *)
(***************************************************************************)
EXTENDS Naturals, Sequences, WellFoundedInduction, TLAPS

\* putMessage appends: the queued messages keep their positions.
LEMMA AppendFacts ==
    ASSUME NEW S, NEW q \in Seq(S), NEW e \in S
    PROVE  /\ Append(q, e) \in Seq(S)
           /\ Len(Append(q, e)) = Len(q) + 1
           /\ \A i \in 1 .. Len(q) : Append(q, e)[i] = q[i]
           /\ Append(q, e)[Len(q) + 1] = e
  OBVIOUS

\* getMessage takes the first message: the others move up one position.
LEMMA TailFacts ==
    ASSUME NEW S, NEW q \in Seq(S), Len(q) > 0
    PROVE  /\ Tail(q) \in Seq(S)
           /\ Len(Tail(q)) = Len(q) - 1
           /\ \A i \in 1 .. Len(q) - 1 : Tail(q)[i] = q[i + 1]
           /\ Head(q) = q[1]
           /\ Head(q) \in S
  OBVIOUS

\* A queue that is not empty has a first message.
LEMMA HeadFacts ==
    ASSUME NEW S, NEW q \in Seq(S), q # <<>>
    PROVE  /\ Len(q) \in Nat \ {0}
           /\ 1 \in 1 .. Len(q)
           /\ Head(q) = q[1]
           /\ Head(q) \in S
           /\ Tail(q) \in Seq(S)
  OBVIOUS

\* A queue without messages is the empty sequence.
LEMMA NoneQueued ==
    ASSUME NEW S, NEW q \in Seq(S), Len(q) = 0
    PROVE  q = <<>>
  OBVIOUS

\* Nothing is left of a queue of one message.
LEMMA LastTaken ==
    ASSUME NEW S, NEW q \in Seq(S), Len(q) = 1
    PROVE  Tail(q) = <<>>
<1>1. Tail(q) \in Seq(S) /\ Len(Tail(q)) = 0
  OBVIOUS
<1>2. QED
  BY <1>1, NoneQueued

\* Induction over the natural numbers, for a set.
LEMMA Induction ==
    ASSUME NEW S, 0 \in S, \A n \in Nat : n \in S => n + 1 \in S
    PROVE  Nat \subseteq S
<1> SUFFICES ASSUME Nat \ S # {}
             PROVE  FALSE
  OBVIOUS
<1>1. PICK x \in Nat \ S : \A y \in Nat \ S : ~(<<y, x>> \in OpToRel(<, Nat))
  BY NatLessThanWellFounded, WFMin
<1>2. x # 0 /\ x - 1 \in Nat
  OBVIOUS
<1>3. x - 1 \in S
  <2>1. <<x - 1, x>> \in {p \in Nat \X Nat : p[1] < p[2]}
    BY <1>2
  <2>2. QED
    BY <1>1, <1>2, <2>1 DEF OpToRel
<1>4. QED
  BY <1>2, <1>3
=============================================================================

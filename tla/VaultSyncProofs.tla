-------------------------- MODULE VaultSyncProofs --------------------------
(***************************************************************************)
(* Proofs about VaultSync, for any vault, any clients and any number of        *)
(* changes.                                                                    *)
(*                                                                             *)
(* The reference count of every broadcast buffer: a buffer waits at most once  *)
(* in a channel, because a channel holds the buffers in the order of their     *)
(* creation (QueuedInv); so its count is the number of clients that have it    *)
(* waiting, one more while the daemon sends it (CountInv).                     *)
(*                                                                             *)
(* A client at rest has missed nothing (InStep): whatever its trees hold is    *)
(* known, or is in a tree that it will still fetch (Pending), or will still be *)
(* told of (VersionsFollow, RefsFollow).  A broadcast may be older than a tree *)
(* that came before it; a removal that has been taken back is harmless,        *)
(* because its opposite comes after it, or a tree that has the reference does  *)
(* (RemovalsFollow).  The tree of the age is fetched once the age is set, and  *)
(* may be overtaken by a removal in a node that the player's tree has as well; *)
(* the nodes of the player's tree are therefore excepted (Watched).            *)
(***************************************************************************)
EXTENDS VaultSync, QueueLemmas, FiniteSetTheorems, WellFoundedInduction, TLAPS

\* The types of what the broadcasts are made of.
ChannelTypes ==
    /\ changes \in 0 .. MaxChanges
    /\ m_refs \in [Buffers -> Int]
    /\ bcast \in [msg : Broadcasts, left : SUBSET Clients]
    /\ s_authClients \subseteq Clients
    /\ m_broadcast \in [Clients -> Seq(Broadcasts)]

\* The daemon is idle, or sends the newest buffer.
SendingInv ==
    \/ DaemonIdle
    \/ bcast.msg.buf = changes /\ changes # 0

\* A channel holds buffers in the order of their creation, and not the one that the
\* daemon has not yet put there.
QueuedInv ==
    \A c \in Clients :
        /\ \A i \in 1 .. Len(m_broadcast[c]) :
              /\ i <= m_broadcast[c][i].buf /\ m_broadcast[c][i].buf <= changes
              /\ c \in bcast.left => m_broadcast[c][i].buf # bcast.msg.buf
        /\ \A i, j \in 1 .. Len(m_broadcast[c]) :
              i < j => m_broadcast[c][i].buf < m_broadcast[c][j].buf

Waits(c, b) == \E i \in 1 .. Len(m_broadcast[c]) : m_broadcast[c][i].buf = b

\* The clients that have the buffer waiting.
Holders(b) == {c \in Clients : Waits(c, b)}

CountInv ==
    \A b \in Buffers :
        /\ IsFiniteSet(Holders(b))
        /\ m_refs[b] = Cardinality(Holders(b)) + (IF bcast.msg.buf = b THEN 1 ELSE 0)

\* The inductive invariant.
IInv == ChannelTypes /\ SendingInv /\ QueuedInv /\ CountInv

-----------------------------------------------------------------------------
(* Effects on the channels.                                                  *)

\* Nothing that the invariant speaks of has changed.
LEMMA SameKeeps ==
    ASSUME IInv, UNCHANGED <<bufferVars, m_broadcast>>, s_authClients' \subseteq Clients
    PROVE  IInv'
  BY DEF IInv, ChannelTypes, SendingInv, DaemonIdle, QueuedInv, CountInv, Holders, Waits,
         bufferVars

\* A new buffer, with the daemon's reference.
LEMMA AnnounceKeeps ==
    ASSUME IInv, DaemonIdle, NEW kind \in {"added", "removed", "changed"},
           NEW p \in Nodes \cup {NoNode}, NEW n \in Nodes, Announce(kind, p, n)
    PROVE  IInv'
<1> DEFINE new == changes + 1
<1>1. /\ changes \in Nat /\ new \in Buffers /\ changes' = new
      /\ MaxChanges \in Nat
  BY ChangesAssumption DEF IInv, ChannelTypes, Announce, Buffers
<1>2. /\ bcast' = [msg |-> Broadcast(new, kind, p, n), left |-> s_authClients]
      /\ m_refs' = [m_refs EXCEPT ![new] = 1] /\ UNCHANGED <<m_broadcast, s_authClients>>
  BY DEF Announce
<1>3. bcast'.msg.buf = new /\ bcast'.left = s_authClients
  BY <1>2 DEF Broadcast
<1>4. bcast.msg.buf = 0
  BY DEF DaemonIdle, Quiet, Broadcast
<1>5. ChannelTypes'
  <2>1. Broadcast(new, kind, p, n) \in Broadcasts
    BY <1>1 DEF Broadcast, Broadcasts
  <2>2. QED
    BY <1>1, <1>2, <2>1 DEF IInv, ChannelTypes, Buffers
<1>6. SendingInv'
  BY <1>1, <1>3 DEF SendingInv
<1>7. \A c \in Clients : \A i \in 1 .. Len(m_broadcast[c]) :
         /\ m_broadcast[c][i].buf \in Nat /\ i <= m_broadcast[c][i].buf
         /\ m_broadcast[c][i].buf <= changes
  <2>1. \A c \in Clients : \A i \in 1 .. Len(m_broadcast[c]) : m_broadcast[c][i] \in Broadcasts
    BY DEF IInv, ChannelTypes
  <2>2. QED
    BY <2>1, <1>1 DEF IInv, QueuedInv, Broadcasts, Buffers
<1>8. QueuedInv'
  BY <1>1, <1>2, <1>3, <1>7 DEF IInv, QueuedInv
<1>9. \A b : Holders(b)' = Holders(b)
  BY <1>2 DEF Holders, Waits
<1>10. Holders(new) = {}
  BY <1>1, <1>7 DEF Holders, Waits
<1>11. CountInv'
  <2> SUFFICES ASSUME NEW b \in Buffers
               PROVE  /\ IsFiniteSet(Holders(b))
                      /\ m_refs'[b] = Cardinality(Holders(b)) + (IF new = b THEN 1 ELSE 0)
    BY <1>3, <1>9 DEF CountInv
  <2>1. /\ IsFiniteSet(Holders(b)) /\ b # 0
        /\ m_refs[b] = Cardinality(Holders(b)) + (IF bcast.msg.buf = b THEN 1 ELSE 0)
    BY DEF IInv, CountInv, Buffers
  <2>2. CASE b = new
    <3>1. Cardinality(Holders(b)) = 0
      BY <1>10, <2>2, FS_EmptySet
    <3>2. m_refs'[b] = 1
      BY <1>1, <1>2, <2>2 DEF IInv, ChannelTypes
    <3>3. QED
      BY <2>1, <2>2, <3>1, <3>2
  <2>3. CASE b # new
    <3>1. m_refs'[b] = m_refs[b]
      BY <1>2, <2>3 DEF IInv, ChannelTypes
    <3>2. QED
      BY <1>4, <2>1, <2>3, <3>1
  <2>4. QED
    BY <2>2, <2>3
<1>12. QED
  BY <1>5, <1>6, <1>8, <1>11 DEF IInv

\* The oldest broadcast leaves a channel with its reference.
LEMMA UnrefKeeps ==
    ASSUME IInv, NEW c \in Clients, m_broadcast[c] # <<>>,
           m_broadcast' = [m_broadcast EXCEPT ![c] = Tail(m_broadcast[c])],
           m_refs' = [m_refs EXCEPT ![Head(m_broadcast[c]).buf] =
                                       m_refs[Head(m_broadcast[c]).buf] - 1],
           UNCHANGED <<changes, bcast, s_authClients>>
    PROVE  IInv'
<1> DEFINE q == m_broadcast[c]
           rest == Tail(q)
           old == Head(q).buf
<1>1. q \in Seq(Broadcasts) /\ q # <<>>
  BY DEF IInv, ChannelTypes
<1>2. Len(q) \in Nat \ {0} /\ 1 \in 1 .. Len(q) /\ Head(q) = q[1] /\ Head(q) \in Broadcasts
  BY <1>1, HeadFacts
<1>3. /\ rest \in Seq(Broadcasts) /\ Len(rest) = Len(q) - 1
      /\ \A i \in 1 .. Len(q) - 1 : rest[i] = q[i + 1]
  BY <1>1, <1>2, TailFacts
<1>4. /\ changes \in Nat /\ MaxChanges \in Nat /\ changes <= MaxChanges
      /\ \A i \in 1 .. Len(q) : q[i].buf \in Int
  <2>1. \A i \in 1 .. Len(q) : q[i] \in Broadcasts
    BY <1>1
  <2>2. QED
    BY <2>1, ChangesAssumption DEF IInv, ChannelTypes, Broadcasts, Buffers
<1>5. /\ \A i \in 1 .. Len(q) :
            /\ i <= q[i].buf /\ q[i].buf <= changes
            /\ c \in bcast.left => q[i].buf # bcast.msg.buf
      /\ \A i, j \in 1 .. Len(q) : i < j => q[i].buf < q[j].buf
  BY DEF IInv, QueuedInv
<1>6. old \in Buffers /\ old = q[1].buf
  BY <1>2, <1>4, <1>5 DEF Buffers
<1>7. /\ m_broadcast'[c] = rest
      /\ \A d \in Clients : d # c => m_broadcast'[d] = m_broadcast[d]
  BY DEF IInv, ChannelTypes
<1>8. m_refs[old] \in Int /\ m_refs' = [m_refs EXCEPT ![old] = m_refs[old] - 1]
  BY <1>6 DEF IInv, ChannelTypes
<1>9. m_broadcast' = [m_broadcast EXCEPT ![c] = rest]
  OBVIOUS
<1> HIDE DEF q, rest, old
<1>10. ChannelTypes'
  <2>1. m_broadcast' \in [Clients -> Seq(Broadcasts)]
    BY <1>3, <1>9 DEF IInv, ChannelTypes
  <2>2. m_refs' \in [Buffers -> Int]
    BY <1>6, <1>8 DEF IInv, ChannelTypes
  <2>3. QED
    BY <2>1, <2>2 DEF IInv, ChannelTypes
<1>11. SendingInv'
  BY DEF IInv, SendingInv, DaemonIdle
<1>12. \A i \in 1 .. Len(rest) :
         i \in 1 .. Len(q) - 1 /\ i + 1 \in 1 .. Len(q) /\ i \in 1 .. Len(q)
  BY <1>2, <1>3
<1>13. QueuedInv'
  <2>1. \A i \in 1 .. Len(rest) :
              /\ i <= rest[i].buf /\ rest[i].buf <= changes
              /\ c \in bcast.left => rest[i].buf # bcast.msg.buf
    <3> SUFFICES ASSUME NEW i \in 1 .. Len(rest)
                 PROVE  /\ i <= rest[i].buf /\ rest[i].buf <= changes
                        /\ c \in bcast.left => rest[i].buf # bcast.msg.buf
      OBVIOUS
    <3>1. rest[i] = q[i + 1] /\ i + 1 \in 1 .. Len(q)
      BY <1>3, <1>12
    <3>2. QED
      BY <1>2, <1>4, <1>5, <3>1
  <2>2. \A i, j \in 1 .. Len(rest) : i < j => rest[i].buf < rest[j].buf
    <3> SUFFICES ASSUME NEW i \in 1 .. Len(rest), NEW j \in 1 .. Len(rest), i < j
                 PROVE  rest[i].buf < rest[j].buf
      OBVIOUS
    <3>1. /\ rest[i] = q[i + 1] /\ i + 1 \in 1 .. Len(q)
          /\ rest[j] = q[j + 1] /\ j + 1 \in 1 .. Len(q) /\ i + 1 < j + 1
      BY <1>3, <1>12
    <3>2. QED
      BY <1>5, <3>1
  <2> SUFFICES ASSUME NEW d \in Clients
               PROVE  /\ \A i \in 1 .. Len(m_broadcast'[d]) :
                            /\ i <= m_broadcast'[d][i].buf /\ m_broadcast'[d][i].buf <= changes
                            /\ d \in bcast.left => m_broadcast'[d][i].buf # bcast.msg.buf
                      /\ \A i, j \in 1 .. Len(m_broadcast'[d]) :
                            i < j => m_broadcast'[d][i].buf < m_broadcast'[d][j].buf
    BY DEF QueuedInv
  <2>3. CASE d = c
    BY <1>7, <2>1, <2>2, <2>3
  <2>4. CASE d # c
    <3>1. m_broadcast'[d] = m_broadcast[d]
      BY <1>7, <2>4
    <3>2. QED
      BY <3>1 DEF IInv, QueuedInv
  <2>5. QED
    BY <2>3, <2>4
<1>14. \A b : (\E i \in 1 .. Len(rest) : rest[i].buf = b)
                 <=> (b # old /\ \E i \in 1 .. Len(q) : q[i].buf = b)
  <2>1. ASSUME NEW b, NEW i \in 1 .. Len(rest), rest[i].buf = b
        PROVE  b # old /\ \E j \in 1 .. Len(q) : q[j].buf = b
    <3>1. q[i + 1].buf = b /\ i + 1 \in 1 .. Len(q) /\ 1 < i + 1
      BY <1>3, <1>12, <2>1
    <3>2. old < q[i + 1].buf
      BY <1>2, <1>5, <1>6, <3>1
    <3>3. QED
      BY <1>4, <1>6, <3>1, <3>2, <1>2
  <2>2. ASSUME NEW b, b # old, NEW i \in 1 .. Len(q), q[i].buf = b
        PROVE  \E j \in 1 .. Len(rest) : rest[j].buf = b
    <3>1. i # 1
      BY <1>6, <2>2
    <3>2. i - 1 \in 1 .. Len(rest) /\ (i - 1) + 1 = i
      BY <1>2, <1>3, <3>1
    <3>3. rest[i - 1].buf = b
      BY <1>3, <2>2, <3>2
    <3>4. QED
      BY <3>2, <3>3
  <2>3. QED
    BY <2>1, <2>2
<1>15. \A b : /\ Waits(c, b)' <=> (b # old /\ Waits(c, b))
              /\ \A d \in Clients : d # c => (Waits(d, b)' <=> Waits(d, b))
  <2>1. \A b : \A d \in Clients : d # c => (Waits(d, b)' <=> Waits(d, b))
    BY <1>7 DEF Waits
  <2>2. \A b : Waits(c, b)' <=> \E i \in 1 .. Len(rest) : rest[i].buf = b
    BY <1>7 DEF Waits
  <2>3. \A b : Waits(c, b) <=> \E i \in 1 .. Len(q) : q[i].buf = b
    BY DEF Waits, q
  <2>4. QED
    BY <1>14, <2>1, <2>2, <2>3
<1>16. Waits(c, old)
  BY <1>2, <1>6 DEF Waits, q
<1>17. CountInv'
  <2> SUFFICES ASSUME NEW b \in Buffers
               PROVE  /\ IsFiniteSet(Holders(b)')
                      /\ m_refs'[b] = Cardinality(Holders(b)')
                                        + (IF bcast.msg.buf = b THEN 1 ELSE 0)
    BY DEF CountInv
  <2>1. /\ IsFiniteSet(Holders(b))
        /\ m_refs[b] = Cardinality(Holders(b)) + (IF bcast.msg.buf = b THEN 1 ELSE 0)
    BY DEF IInv, CountInv
  <2>2. Cardinality(Holders(b)) \in Nat
    BY <2>1, FS_CardinalityType
  <2>3. CASE b = old
    <3>1. Holders(b)' = Holders(b) \ {c} /\ c \in Holders(b)
      BY <1>15, <1>16, <2>3 DEF Holders
    <3>2. /\ IsFiniteSet(Holders(b) \ {c})
          /\ Cardinality(Holders(b) \ {c}) = Cardinality(Holders(b)) - 1
      BY <2>1, <3>1, FS_RemoveElement
    <3>3. m_refs'[b] = m_refs[b] - 1
      BY <1>6, <1>8, <2>3 DEF IInv, ChannelTypes
    <3>4. QED
      BY <2>1, <2>2, <3>1, <3>2, <3>3
  <2>4. CASE b # old
    <3>1. Holders(b)' = Holders(b)
      BY <1>15, <2>4 DEF Holders
    <3>2. m_refs'[b] = m_refs[b]
      BY <1>8, <2>4 DEF IInv, ChannelTypes
    <3>3. QED
      BY <2>1, <3>1, <3>2
  <2>5. QED
    BY <2>3, <2>4
<1>18. QED
  BY <1>10, <1>11, <1>13, <1>17 DEF IInv

\* The daemon passes over a client that does not hold the node ...
LEMMA SkipKeeps ==
    ASSUME IInv, NEW c \in bcast.left,
           bcast' = [bcast EXCEPT !.left = bcast.left \ {c}],
           UNCHANGED <<changes, m_refs, m_broadcast, s_authClients>>
    PROVE  IInv'
<1>1. /\ bcast \in [msg : Broadcasts, left : SUBSET Clients]
      /\ bcast'.msg = bcast.msg /\ bcast'.left = bcast.left \ {c}
      /\ bcast' \in [msg : Broadcasts, left : SUBSET Clients]
  BY DEF IInv, ChannelTypes
<1>2. ~DaemonIdle
  BY DEF DaemonIdle, Quiet
<1>3. ChannelTypes' /\ SendingInv'
  BY <1>1, <1>2 DEF IInv, ChannelTypes, SendingInv
<1>4. QueuedInv'
  BY <1>1 DEF IInv, QueuedInv
<1>5. CountInv'
  BY <1>1 DEF IInv, CountInv, Holders, Waits
<1>6. QED
  BY <1>3, <1>4, <1>5 DEF IInv

\* ... and refs the buffer for one that does.
LEMMA SendKeeps ==
    ASSUME IInv, NEW c \in bcast.left,
           bcast' = [bcast EXCEPT !.left = bcast.left \ {c}],
           m_refs' = [m_refs EXCEPT ![bcast.msg.buf] = m_refs[bcast.msg.buf] + 1],
           m_broadcast' = [m_broadcast EXCEPT ![c] = Append(m_broadcast[c], bcast.msg)],
           UNCHANGED <<changes, s_authClients>>
    PROVE  IInv'
<1> DEFINE q == m_broadcast[c]
           more == Append(q, bcast.msg)
           new == bcast.msg.buf
           n == Len(q) + 1
<1>1. /\ bcast \in [msg : Broadcasts, left : SUBSET Clients] /\ c \in Clients
      /\ bcast.msg \in Broadcasts
      /\ bcast'.msg = bcast.msg /\ bcast'.left = bcast.left \ {c}
      /\ bcast' \in [msg : Broadcasts, left : SUBSET Clients]
  BY DEF IInv, ChannelTypes
<1>2. /\ new = changes /\ changes # 0 /\ changes \in Nat
      /\ MaxChanges \in Nat /\ changes <= MaxChanges
  BY ChangesAssumption DEF IInv, ChannelTypes, SendingInv, DaemonIdle, Quiet
<1>3. new \in Buffers
  BY <1>2 DEF Buffers
<1>4. q \in Seq(Broadcasts) /\ Len(q) \in Nat /\ \A i \in 1 .. Len(q) : q[i] \in Broadcasts
  <2>1. q \in Seq(Broadcasts)
    BY <1>1 DEF IInv, ChannelTypes
  <2>2. QED
    BY <2>1
<1>5. /\ more \in Seq(Broadcasts) /\ Len(more) = n
      /\ \A i \in 1 .. Len(q) : more[i] = q[i]
      /\ more[n] = bcast.msg
  BY <1>1, <1>4, AppendFacts
<1>6. \A i \in 1 .. Len(q) : q[i].buf \in Int
  BY <1>4, <1>2 DEF Broadcasts, Buffers
<1>7. /\ \A i \in 1 .. Len(q) : i <= q[i].buf /\ q[i].buf <= changes /\ q[i].buf # new
      /\ \A i, j \in 1 .. Len(q) : i < j => q[i].buf < q[j].buf
  BY <1>1 DEF IInv, QueuedInv
<1>8. /\ m_broadcast'[c] = more
      /\ \A d \in Clients : d # c => m_broadcast'[d] = m_broadcast[d]
      /\ m_broadcast' = [m_broadcast EXCEPT ![c] = more]
  BY <1>1 DEF IInv, ChannelTypes
<1>9. m_refs[new] \in Int /\ m_refs' = [m_refs EXCEPT ![new] = m_refs[new] + 1]
  BY <1>3 DEF IInv, ChannelTypes
<1>10. ~DaemonIdle
  BY DEF DaemonIdle, Quiet
<1>11. \A i \in 1 .. n : i \in 1 .. Len(q) \/ i = n
  BY <1>4
<1>12. n <= new
  <2>1. CASE Len(q) = 0
    BY <1>2, <2>1
  <2>2. CASE Len(q) # 0
    <3>1. Len(q) \in 1 .. Len(q)
      BY <1>4, <2>2
    <3>2. QED
      BY <1>2, <1>4, <1>6, <1>7, <3>1
  <2>3. QED
    BY <2>1, <2>2
<1> HIDE DEF q, more, new, n
<1>13. ChannelTypes' /\ SendingInv'
  <2>1. m_broadcast' \in [Clients -> Seq(Broadcasts)]
    BY <1>5, <1>8 DEF IInv, ChannelTypes
  <2>2. m_refs' \in [Buffers -> Int]
    BY <1>3, <1>9 DEF IInv, ChannelTypes
  <2>3. QED
    BY <1>1, <1>10, <2>1, <2>2 DEF IInv, ChannelTypes, SendingInv
<1>14. /\ \A i \in 1 .. n : i <= more[i].buf /\ more[i].buf <= changes
       /\ \A i, j \in 1 .. n : i < j => more[i].buf < more[j].buf
  <2>1. more[n].buf = new
    BY <1>5 DEF new
  <2>2. \A i \in 1 .. Len(q) : more[i].buf = q[i].buf /\ more[i].buf < new
    BY <1>2, <1>5, <1>6, <1>7
  <2>3. \A i, j \in 1 .. n : i < j => i \in 1 .. Len(q)
    BY <1>4, <1>11 DEF n
  <2>4. \A i \in 1 .. n : i <= more[i].buf /\ more[i].buf <= changes
    BY <1>2, <1>7, <1>11, <1>12, <2>1, <2>2
  <2>5. ASSUME NEW i \in 1 .. n, NEW j \in 1 .. n, i < j
        PROVE  more[i].buf < more[j].buf
    <3>1. i \in 1 .. Len(q)
      BY <2>3, <2>5
    <3>2. CASE j = n
      BY <2>1, <2>2, <3>1, <3>2
    <3>3. CASE j \in 1 .. Len(q)
      BY <1>7, <2>2, <2>5, <3>1, <3>3
    <3>4. QED
      BY <1>11, <3>2, <3>3
  <2>6. QED
    BY <2>4, <2>5
<1>15. QueuedInv'
  <2> SUFFICES ASSUME NEW d \in Clients
               PROVE  /\ \A i \in 1 .. Len(m_broadcast'[d]) :
                            /\ i <= m_broadcast'[d][i].buf /\ m_broadcast'[d][i].buf <= changes
                            /\ d \in bcast'.left => m_broadcast'[d][i].buf # bcast'.msg.buf
                      /\ \A i, j \in 1 .. Len(m_broadcast'[d]) :
                            i < j => m_broadcast'[d][i].buf < m_broadcast'[d][j].buf
    BY DEF QueuedInv
  <2>1. CASE d = c
    BY <1>1, <1>5, <1>8, <1>14, <2>1
  <2>2. CASE d # c
    <3>1. m_broadcast'[d] = m_broadcast[d] /\ (d \in bcast'.left => d \in bcast.left)
      BY <1>1, <1>8, <2>2
    <3>2. QED
      BY <1>1, <3>1 DEF IInv, QueuedInv
  <2>3. QED
    BY <2>1, <2>2
<1>16. \A b : /\ Waits(c, b)' <=> (b = new \/ Waits(c, b))
              /\ \A d \in Clients : d # c => (Waits(d, b)' <=> Waits(d, b))
  <2>1. \A b : \A d \in Clients : d # c => (Waits(d, b)' <=> Waits(d, b))
    BY <1>8 DEF Waits
  <2>2. \A b : Waits(c, b)' <=> \E i \in 1 .. n : more[i].buf = b
    BY <1>5, <1>8 DEF Waits
  <2>3. \A b : Waits(c, b) <=> \E i \in 1 .. Len(q) : q[i].buf = b
    BY DEF Waits, q
  <2>4. more[n].buf = new /\ n \in 1 .. n /\ \A i \in 1 .. Len(q) : i \in 1 .. n
    BY <1>4, <1>5 DEF new, n
  <2>5. \A b : (\E i \in 1 .. n : more[i].buf = b)
                 <=> (b = new \/ \E i \in 1 .. Len(q) : q[i].buf = b)
    BY <1>5, <1>11, <2>4
  <2>6. QED
    BY <2>1, <2>2, <2>3, <2>5
<1>17. ~Waits(c, new)
  BY <1>7 DEF Waits, q
<1>18. CountInv'
  <2> SUFFICES ASSUME NEW b \in Buffers
               PROVE  /\ IsFiniteSet(Holders(b)')
                      /\ m_refs'[b] = Cardinality(Holders(b)') + (IF new = b THEN 1 ELSE 0)
    BY <1>1 DEF CountInv, new
  <2>1. /\ IsFiniteSet(Holders(b))
        /\ m_refs[b] = Cardinality(Holders(b)) + (IF new = b THEN 1 ELSE 0)
    BY DEF IInv, CountInv, new
  <2>2. Cardinality(Holders(b)) \in Nat
    BY <2>1, FS_CardinalityType
  <2>3. CASE b = new
    <3>1. Holders(b)' = Holders(b) \cup {c} /\ c \notin Holders(b)
      BY <1>1, <1>16, <1>17, <2>3 DEF Holders
    <3>2. /\ IsFiniteSet(Holders(b) \cup {c})
          /\ Cardinality(Holders(b) \cup {c}) = Cardinality(Holders(b)) + 1
      BY <2>1, <3>1, FS_AddElement
    <3>3. m_refs'[b] = m_refs[b] + 1
      BY <1>3, <1>9, <2>3 DEF IInv, ChannelTypes
    <3>4. QED
      BY <2>1, <2>2, <3>1, <3>2, <3>3
  <2>4. CASE b # new
    <3>1. Holders(b)' = Holders(b)
      BY <1>16, <2>4 DEF Holders
    <3>2. m_refs'[b] = m_refs[b]
      BY <1>9, <2>4 DEF IInv, ChannelTypes
    <3>3. QED
      BY <2>1, <3>1, <3>2
  <2>5. QED
    BY <2>3, <2>4
<1>19. QED
  BY <1>13, <1>15, <1>18 DEF IInv

\* The daemon drops its own reference.
LEMMA DropKeeps ==
    ASSUME IInv, ~DaemonIdle, bcast' = Quiet,
           m_refs' = [m_refs EXCEPT ![bcast.msg.buf] = m_refs[bcast.msg.buf] - 1],
           UNCHANGED <<changes, m_broadcast, s_authClients>>
    PROVE  IInv'
<1> DEFINE old == bcast.msg.buf
<1>1. old \in Buffers /\ old # 0
  BY ChangesAssumption DEF IInv, ChannelTypes, SendingInv, Buffers
<1>2. m_refs[old] \in Int /\ m_refs' = [m_refs EXCEPT ![old] = m_refs[old] - 1]
  BY <1>1 DEF IInv, ChannelTypes
<1>3. bcast'.msg.buf = 0 /\ bcast'.left = {}
  BY DEF Quiet, Broadcast
<1>4. Quiet \in [msg : Broadcasts, left : SUBSET Clients]
  BY DEF Quiet, Broadcast, Broadcasts
<1>5. \A b : Holders(b)' = Holders(b)
  BY DEF Holders, Waits
<1>6. \A b \in Buffers : b # 0
  BY DEF Buffers
<1>7. \A b \in Buffers : /\ IsFiniteSet(Holders(b)) /\ Cardinality(Holders(b)) \in Nat
                         /\ m_refs[b] = Cardinality(Holders(b)) + (IF old = b THEN 1 ELSE 0)
  BY FS_CardinalityType DEF IInv, CountInv
<1> HIDE DEF old
<1>8. ChannelTypes' /\ SendingInv'
  BY <1>1, <1>2, <1>4 DEF IInv, ChannelTypes, SendingInv, DaemonIdle
<1>9. QueuedInv'
  BY <1>3 DEF IInv, QueuedInv
<1>10. CountInv'
  <2> SUFFICES ASSUME NEW b \in Buffers
               PROVE  IsFiniteSet(Holders(b)) /\ m_refs'[b] = Cardinality(Holders(b))
    BY <1>3, <1>5, <1>6, <1>7 DEF CountInv
  <2>1. CASE b = old
    <3>1. m_refs'[b] = m_refs[b] - 1
      BY <1>1, <1>2, <2>1 DEF IInv, ChannelTypes
    <3>2. QED
      BY <1>7, <2>1, <3>1
  <2>2. CASE b # old
    <3>1. m_refs'[b] = m_refs[b]
      BY <1>2, <2>2 DEF IInv, ChannelTypes
    <3>2. QED
      BY <1>7, <2>2, <3>1
  <2>3. QED
    BY <2>1, <2>2
<1>11. QED
  BY <1>8, <1>9, <1>10 DEF IInv

-----------------------------------------------------------------------------
(* Theorems.                                                                 *)

\* There are no buffers at the start.
LEMMA InitHolds == Init => IInv
<1> SUFFICES ASSUME Init
             PROVE  IInv
  OBVIOUS
<1>1. bcast.msg.buf = 0 /\ \A b \in Buffers : b # 0
  BY DEF Init, Quiet, Broadcast, Buffers
<1>2. \A c \in Clients : m_broadcast[c] = <<>>
  BY DEF Init
<1>3. Quiet \in [msg : Broadcasts, left : SUBSET Clients]
  BY DEF Quiet, Broadcast, Broadcasts
<1>4. ChannelTypes
  BY <1>3, ChangesAssumption DEF Init, ChannelTypes
<1>5. SendingInv
  BY DEF Init, SendingInv, DaemonIdle
<1>6. QueuedInv
  BY <1>2 DEF QueuedInv
<1>7. \A b \in Buffers : Holders(b) = {}
  BY <1>2 DEF Holders, Waits
<1>8. CountInv
  <2>1. \A b \in Buffers : IsFiniteSet(Holders(b)) /\ Cardinality(Holders(b)) = 0
    BY <1>7, FS_EmptySet
  <2>2. \A b \in Buffers : m_refs[b] = 0 /\ bcast.msg.buf # b
    BY <1>1 DEF Init
  <2>3. QED
    BY <2>1, <2>2 DEF CountInv
<1>9. QED
  BY <1>4, <1>5, <1>6, <1>8 DEF IInv

\* Who changes the vault announces it, or tells nobody; who takes a broadcast drops
\* its reference.
LEMMA StepHolds ==
    ASSUME IInv, [Next]_vars
    PROVE  IInv'
<1>1. ASSUME NEW p, NEW n, v_ref_node(p, n)
      PROVE  IInv'
  <2>1. p \in Nodes /\ n \in Nodes /\ DaemonIdle /\ Announce("added", p, n)
    BY <1>1, NodeAssumption DEF v_ref_node
  <2>2. QED
    BY <2>1, AnnounceKeeps
<1>2. ASSUME NEW p, NEW n, v_unref_node(p, n)
      PROVE  IInv'
  <2>1. p \in Nodes /\ n \in Nodes /\ DaemonIdle /\ Announce("removed", p, n)
    BY <1>2, NodeAssumption DEF v_unref_node
  <2>2. QED
    BY <2>1, AnnounceKeeps
<1>3. ASSUME NEW c \in Clients, NEW n \in Nodes, v_send_node(Player[c], n)
      PROVE  IInv'
  BY <1>1, <1>3 DEF v_send_node
<1>4. ASSUME NEW n \in Nodes, v_update_node(n)
      PROVE  IInv'
  BY <1>4, AnnounceKeeps DEF v_update_node
<1>5. ASSUME NEW c \in Clients, dm_auth_addAllPlayers(Player[c])
      PROVE  IInv'
  BY <1>1, <1>2, <1>5 DEF dm_auth_addAllPlayers
<1>6. ASSUME NEW n \in PlayerInfos, dm_auth_deletePlayer(n)
      PROVE  IInv'
  BY <1>6, SameKeeps DEF dm_auth_deletePlayer, IInv, ChannelTypes
<1>7. ASSUME NEW c \in Clients, dm_auth_bcast(c)
      PROVE  IInv'
  <2>1. /\ c \in bcast.left /\ bcast' = [bcast EXCEPT !.left = bcast.left \ {c}]
        /\ UNCHANGED <<changes, s_authClients>>
    BY <1>7 DEF dm_auth_bcast
  <2>2. CASE UNCHANGED <<m_refs, m_broadcast>>
    BY <2>1, <2>2, SkipKeeps
  <2>3. CASE /\ m_refs' = [m_refs EXCEPT ![bcast.msg.buf] = m_refs[bcast.msg.buf] + 1]
             /\ m_broadcast' = [m_broadcast EXCEPT ![c] = Append(m_broadcast[c], bcast.msg)]
    BY <2>1, <2>3, SendKeeps
  <2>4. QED
    BY <1>7, <2>2, <2>3 DEF dm_auth_bcast
<1>8. CASE dm_auth_bcast_end
  BY <1>8, DropKeeps DEF dm_auth_bcast_end
<1>9. ASSUME NEW c \in Clients, NEW a \in Ages, dm_auth_updateAgeSrv(c, a)
      PROVE  IInv'
  BY <1>9, SameKeeps DEF dm_auth_updateAgeSrv, IInv, ChannelTypes
<1>10. ASSUME NEW c \in Clients, Connect(c)
       PROVE  IInv'
  BY <1>10, SameKeeps DEF Connect, IInv, ChannelTypes
<1>11. ASSUME NEW c \in Clients, cb_sockRead(c)
       PROVE  IInv'
  BY <1>11, SameKeeps DEF cb_sockRead, IInv, ChannelTypes
<1>12. ASSUME NEW c \in Clients, NEW n \in Nodes, cb_nodeTree(c, n)
       PROVE  IInv'
  BY <1>12, SameKeeps DEF cb_nodeTree, Serve, IInv, ChannelTypes
<1>13. ASSUME NEW c \in Clients, NEW n \in Nodes, cb_nodeFetch(c, n)
       PROVE  IInv'
  BY <1>13, SameKeeps DEF cb_nodeFetch, Serve, IInv, ChannelTypes
<1>14. ASSUME NEW c \in Clients, cb_broadcast(c)
       PROVE  IInv'
  <2>1. /\ m_broadcast[c] # <<>>
        /\ m_broadcast' = [m_broadcast EXCEPT ![c] = Tail(m_broadcast[c])]
        /\ m_refs' = [m_refs EXCEPT ![Head(m_broadcast[c]).buf] =
                                        m_refs[Head(m_broadcast[c]).buf] - 1]
        /\ UNCHANGED <<changes, bcast, s_authClients>>
    BY <1>14 DEF cb_broadcast, Unref
  <2>2. QED
    BY <2>1, UnrefKeeps
<1>15. ASSUME NEW c \in Clients, Remove(c)
       PROVE  IInv'
  BY <1>15, SameKeeps DEF Remove, IInv, ChannelTypes
<1>16. ASSUME NEW c \in Clients, Drain(c)
       PROVE  IInv'
  <2>1. /\ m_broadcast[c] # <<>>
        /\ m_broadcast' = [m_broadcast EXCEPT ![c] = Tail(m_broadcast[c])]
        /\ m_refs' = [m_refs EXCEPT ![Head(m_broadcast[c]).buf] =
                                        m_refs[Head(m_broadcast[c]).buf] - 1]
        /\ UNCHANGED <<changes, bcast, s_authClients>>
    BY <1>16 DEF Drain, Unref
  <2>2. QED
    BY <2>1, UnrefKeeps
<1>17. ASSUME NEW c \in Clients, End(c)
       PROVE  IInv'
  BY <1>17, SameKeeps DEF End, IInv, ChannelTypes
<1>18. CASE UNCHANGED vars
  BY <1>18, SameKeeps DEF vars, IInv, ChannelTypes
<1>19. QED
  BY <1>1, <1>2, <1>3, <1>4, <1>5, <1>6, <1>7, <1>8, <1>9, <1>10, <1>11, <1>12, <1>13,
     <1>14, <1>15, <1>16, <1>17, <1>18
     DEF Next

\* The order in the channels and the counts are an inductive invariant.
THEOREM InductiveInvariant == Spec => []IInv
<1>1. IInv /\ [Next]_vars => IInv'
  BY StepHolds
<1>2. QED
  BY <1>1, InitHolds, PTL DEF Spec

\* A client has a buffer waiting at one place of its channel, so the places are as
\* many as the clients.
LEMMA PlacesCounted ==
    ASSUME IInv, NEW b \in Buffers
    PROVE  Cardinality({x \in Clients \X Buffers :
                           /\ x[2] <= Len(m_broadcast[x[1]])
                           /\ m_broadcast[x[1]][x[2]].buf = b})
             = Cardinality(Holders(b))
<1> DEFINE P == {x \in Clients \X Buffers : /\ x[2] <= Len(m_broadcast[x[1]])
                                            /\ m_broadcast[x[1]][x[2]].buf = b}
           f == [c \in Holders(b) |->
                   <<c, CHOOSE i \in 1 .. Len(m_broadcast[c]) : m_broadcast[c][i].buf = b>>]
<1>1. MaxChanges \in Nat /\ changes \in Nat /\ changes <= MaxChanges
  BY ChangesAssumption DEF IInv, ChannelTypes
<1>2. \A c \in Clients :
        /\ Len(m_broadcast[c]) \in Nat
        /\ \A i \in 1 .. Len(m_broadcast[c]) :
              /\ m_broadcast[c][i].buf \in Int
              /\ i <= m_broadcast[c][i].buf /\ m_broadcast[c][i].buf <= changes
        /\ \A i, j \in 1 .. Len(m_broadcast[c]) :
              i < j => m_broadcast[c][i].buf < m_broadcast[c][j].buf
  <2>1. \A c \in Clients : \A i \in 1 .. Len(m_broadcast[c]) : m_broadcast[c][i] \in Broadcasts
    BY DEF IInv, ChannelTypes
  <2>2. \A c \in Clients : Len(m_broadcast[c]) \in Nat
    BY DEF IInv, ChannelTypes
  <2>3. \A m \in Broadcasts : m.buf \in Int
    BY <1>1 DEF Broadcasts, Buffers
  <2>4. QED
    BY <2>1, <2>2, <2>3 DEF IInv, QueuedInv
<1>3. \A c \in Clients : \A i \in 1 .. Len(m_broadcast[c]) : i \in Buffers
  BY <1>1, <1>2 DEF Buffers
<1>4. \A c \in Clients : \A i, j \in 1 .. Len(m_broadcast[c]) :
        m_broadcast[c][i].buf = b /\ m_broadcast[c][j].buf = b => i = j
  BY <1>2
<1>5. ASSUME NEW c \in Holders(b)
      PROVE  /\ f[c][1] = c /\ f[c][2] \in 1 .. Len(m_broadcast[c]) /\ c \in Clients
             /\ m_broadcast[c][f[c][2]].buf = b /\ f[c] \in P
  <2> DEFINE k == CHOOSE i \in 1 .. Len(m_broadcast[c]) : m_broadcast[c][i].buf = b
  <2>1. c \in Clients /\ \E i \in 1 .. Len(m_broadcast[c]) : m_broadcast[c][i].buf = b
    BY DEF Holders, Waits
  <2>2. k \in 1 .. Len(m_broadcast[c]) /\ m_broadcast[c][k].buf = b
    BY <2>1
  <2>3. f[c] = <<c, k>>
    OBVIOUS
  <2> HIDE DEF k, f
  <2>4. k \in Buffers /\ k <= Len(m_broadcast[c])
    BY <1>2, <1>3, <2>1, <2>2
  <2>5. QED
    BY <2>1, <2>2, <2>3, <2>4
<1>6. ASSUME NEW x \in P
      PROVE  \E c \in Holders(b) : f[c] = x
  <2>1. /\ x = <<x[1], x[2]>> /\ x[1] \in Clients /\ x[2] \in Buffers
        /\ x[2] <= Len(m_broadcast[x[1]]) /\ m_broadcast[x[1]][x[2]].buf = b
    OBVIOUS
  <2>2. x[2] \in 1 .. Len(m_broadcast[x[1]])
    BY <1>1, <1>2, <2>1 DEF Buffers
  <2>3. x[1] \in Holders(b)
    BY <2>1, <2>2 DEF Holders, Waits
  <2>4. f[x[1]][1] = x[1] /\ f[x[1]][2] = x[2] /\ f[x[1]] \in Clients \X Buffers
    BY <1>4, <1>5, <2>1, <2>2, <2>3
  <2> HIDE DEF f
  <2>5. f[x[1]] = x
    BY <2>1, <2>4
  <2>6. QED
    BY <2>3, <2>5
<1>7. f \in Bijection(Holders(b), P)
  <2>1. f \in [Holders(b) -> P]
    BY <1>5
  <2>2. \A c, d \in Holders(b) : f[c] = f[d] => c = d
    BY <1>5
  <2> HIDE DEF f, P
  <2>3. QED
    BY <1>6, <2>1, <2>2 DEF Bijection, Injection, IsInjective, Surjection
<1>8. ExistsBijection(Holders(b), P) /\ IsFiniteSet(Holders(b))
  BY <1>7 DEF ExistsBijection, IInv, CountInv
<1> HIDE DEF P
<1>9. Cardinality(P) = Cardinality(Holders(b))
  BY <1>8, FS_Bijection
<1>10. QED
  BY <1>9 DEF P

\* A buffer is neither freed before its last reader nor leaked by a worker that ends
\* (streams.h:177-182, AuthServer.cpp:1096-1104, 1162-1167).
THEOREM BuffersExact == Spec => []BuffersCounted
<1>1. IInv => BuffersCounted
  BY PlacesCounted DEF IInv, CountInv, BuffersCounted
<1>2. QED
  BY <1>1, InductiveInvariant, PTL

-----------------------------------------------------------------------------
(* Trees.                                                                    *)

\* The levels that Tree computes are what its recursion says.
LEMMA TreeLevels ==
    ASSUME NEW R \in SUBSET (Nodes \X Nodes), NEW n \in Nodes
    PROVE  \E f \in [0 .. Cardinality(Nodes) -> SUBSET Nodes] :
              /\ f[0] = {n}
              /\ \A i \in 1 .. Cardinality(Nodes) :
                    f[i] = f[i - 1] \cup {e[2] : e \in {r \in R : r[1] \in f[i - 1]}}
              /\ Tree(R, n) = f[Cardinality(Nodes)]
<1> DEFINE N == Cardinality(Nodes)
           Below(A) == {e[2] : e \in {r \in R : r[1] \in A}}
           Good(k, f) == f[0] = {n} /\ \A i \in 1 .. k : f[i] = f[i - 1] \cup Below(f[i - 1])
           Level(f) == [i \in 0 .. N |-> IF i = 0 THEN {n} ELSE f[i - 1] \cup Below(f[i - 1])]
           Reach == CHOOSE f : f = Level(f)
<1>1. N \in Nat
  BY NodeAssumption, FS_CardinalityType
<1>2. \A A \in SUBSET Nodes : A \cup Below(A) \in SUBSET Nodes
  OBVIOUS
<1>3. {n} \in SUBSET Nodes
  OBVIOUS
<1> DEFINE L == {k \in Nat : \E f \in [0 .. k -> SUBSET Nodes] : Good(k, f)}
<1>4. 0 \in L
  <2>1. [i \in 0 .. 0 |-> {n}] \in [0 .. 0 -> SUBSET Nodes] /\ Good(0, [i \in 0 .. 0 |-> {n}])
    OBVIOUS
  <2>2. QED
    BY <2>1
<1>5. ASSUME NEW k \in Nat, k \in L
      PROVE  k + 1 \in L
  <2>1. PICK f \in [0 .. k -> SUBSET Nodes] : Good(k, f)
    BY <1>5
  <2> DEFINE last == f[k] \cup Below(f[k])
             g == [i \in 0 .. k + 1 |-> IF i = k + 1 THEN last ELSE f[i]]
  <2>2. last \in SUBSET Nodes
    BY <1>2, <2>1
  <2>3. g \in [0 .. k + 1 -> SUBSET Nodes]
    BY <2>2
  <2>4. g[0] = {n}
    BY <2>1
  <2>5. ASSUME NEW i \in 1 .. k + 1
        PROVE  g[i] = g[i - 1] \cup Below(g[i - 1])
    <3>1. CASE i = k + 1
      <4>1. i - 1 = k /\ k \in 0 .. k + 1 /\ k # k + 1 /\ i \in 0 .. k + 1
        BY <3>1
      <4> HIDE DEF Below
      <4>2. g[i] = last /\ g[i - 1] = f[k]
        BY <3>1, <4>1
      <4>3. QED
        BY <4>2
    <3>2. CASE i # k + 1
      <4>1. i \in 1 .. k /\ i - 1 \in 0 .. k
        BY <3>2
      <4>2. f[i] = f[i - 1] \cup Below(f[i - 1])
        BY <2>1, <4>1
      <4>3. g[i] = f[i] /\ g[i - 1] = f[i - 1]
        BY <4>1
      <4>4. QED
        BY <4>2, <4>3
    <3>3. QED
      BY <3>1, <3>2
  <2>6. Good(k + 1, g)
    BY <2>4, <2>5
  <2> HIDE DEF g, Good
  <2>7. QED
    BY <2>3, <2>6
<1>6. PICK f \in [0 .. N -> SUBSET Nodes] : Good(N, f)
  <2> HIDE DEF L
  <2>1. Nat \subseteq L
    BY <1>4, <1>5, Induction
  <2>2. QED
    BY <1>1, <2>1 DEF L
<1>7. f = Level(f)
  <2>1. \A i \in 0 .. N : f[i] = Level(f)[i]
    BY <1>1, <1>6
  <2> HIDE DEF Below
  <2>2. QED
    BY <2>1
<1>8. Reach = Level(Reach)
  <2> HIDE DEF Level
  <2>1. QED
    BY <1>7
<1>9. Tree(R, n) = Reach[N]
  BY DEF Tree
<1> DEFINE h == Reach
<1>10. h = [i \in 0 .. N |-> IF i = 0 THEN {n} ELSE h[i - 1] \cup Below(h[i - 1])]
  BY <1>8
<1> HIDE DEF h
<1>11. h[0] = {n} /\ \A i \in 1 .. N : h[i] = h[i - 1] \cup Below(h[i - 1])
  <2>1. 0 \in 0 .. N /\ \A i \in 1 .. N : i \in 0 .. N /\ i # 0
    BY <1>1
  <2> HIDE DEF Below, N
  <2>2. QED
    BY <1>10, <2>1
<1> DEFINE S == {i \in Nat : i \in 0 .. N => h[i] \in SUBSET Nodes}
<1>12. 0 \in S
  BY <1>3, <1>11
<1>13. ASSUME NEW i \in Nat, i \in S
       PROVE  i + 1 \in S
  <2> SUFFICES ASSUME i + 1 \in 0 .. N
               PROVE  h[i + 1] \in SUBSET Nodes
    OBVIOUS
  <2>1. i \in 0 .. N /\ i + 1 \in 1 .. N /\ (i + 1) - 1 = i
    BY <1>1
  <2>2. h[i + 1] = h[i] \cup Below(h[i]) /\ h[i] \in SUBSET Nodes
    BY <1>11, <1>13, <2>1
  <2>3. QED
    BY <1>2, <2>2
<1>14. \A i \in 0 .. N : h[i] \in SUBSET Nodes
  <2> HIDE DEF S
  <2>1. Nat \subseteq S
    BY <1>12, <1>13, Induction
  <2>2. QED
    BY <1>1, <2>1 DEF S
<1>15. h \in [0 .. N -> SUBSET Nodes]
  <2> DEFINE E(i) == IF i = 0 THEN {n} ELSE h[i - 1] \cup Below(h[i - 1])
  <2>1. h = [i \in 0 .. N |-> E(i)]
    BY <1>10
  <2> HIDE DEF E, N
  <2>2. QED
    BY <1>14, <2>1
<1>16. Tree(R, n) = h[N]
  BY <1>9 DEF h
<1>17. QED
  BY <1>11, <1>15, <1>16

\* The tree is the least set that has the node and, with every node, its children: the
\* levels grow until one is closed, so as many levels as there are nodes are enough.
LEMMA TreeClosure ==
    ASSUME NEW R \in SUBSET (Nodes \X Nodes), NEW n \in Nodes
    PROVE  /\ n \in Tree(R, n) /\ Tree(R, n) \subseteq Nodes
           /\ \A e \in R : e[1] \in Tree(R, n) => e[2] \in Tree(R, n)
           /\ \A C : n \in C /\ (\A e \in R : e[1] \in C => e[2] \in C) => Tree(R, n) \subseteq C
<1> DEFINE N == Cardinality(Nodes)
           Below(A) == {e[2] : e \in {r \in R : r[1] \in A}}
           Closed(A) == \A e \in R : e[1] \in A => e[2] \in A
<1>1. N \in Nat /\ IsFiniteSet(Nodes)
  BY NodeAssumption, FS_CardinalityType
<1>2. PICK f \in [0 .. N -> SUBSET Nodes] :
         /\ f[0] = {n}
         /\ \A i \in 1 .. N : f[i] = f[i - 1] \cup Below(f[i - 1])
         /\ Tree(R, n) = f[N]
  BY TreeLevels
<1> HIDE DEF N, Below
<1>3. \A i \in Nat : i + 1 \in 0 .. N => /\ i \in 0 .. N /\ f[i] \in SUBSET Nodes /\ f[i + 1] \in SUBSET Nodes
                                        /\ f[i + 1] = f[i] \cup Below(f[i])
  <2> SUFFICES ASSUME NEW i \in Nat, i + 1 \in 0 .. N
               PROVE  /\ i \in 0 .. N /\ f[i] \in SUBSET Nodes /\ f[i + 1] \in SUBSET Nodes
                      /\ f[i + 1] = f[i] \cup Below(f[i])
    OBVIOUS
  <2>1. i \in 0 .. N /\ i + 1 \in 1 .. N /\ (i + 1) - 1 = i
    BY <1>1
  <2>2. QED
    BY <1>2, <2>1
<1>4. ASSUME NEW C, n \in C, Closed(C)
      PROVE  Tree(R, n) \subseteq C
  <2> DEFINE S == {i \in Nat : i \in 0 .. N => f[i] \subseteq C}
  <2>1. 0 \in S
    BY <1>2, <1>4
  <2>2. ASSUME NEW i \in Nat, i \in S
        PROVE  i + 1 \in S
    BY <1>3, <1>4, <2>2 DEF Below
  <2> HIDE DEF S
  <2>3. Nat \subseteq S
    BY <2>1, <2>2, Induction
  <2>4. QED
    BY <1>1, <1>2, <2>3 DEF S
<1>5. n \in Tree(R, n)
  <2> DEFINE S == {i \in Nat : i \in 0 .. N => n \in f[i]}
  <2>1. 0 \in S
    BY <1>2
  <2>2. ASSUME NEW i \in Nat, i \in S
        PROVE  i + 1 \in S
    BY <1>3, <2>2
  <2> HIDE DEF S
  <2>3. Nat \subseteq S
    BY <2>1, <2>2, Induction
  <2>4. QED
    BY <1>1, <1>2, <2>3 DEF S
<1>6. Tree(R, n) \subseteq Nodes
  BY <1>1, <1>2
<1>7. Closed(Tree(R, n))
  <2> DEFINE S == {i \in Nat : i \in 0 .. N => Closed(f[i]) \/ Cardinality(f[i]) >= i + 1}
  <2>1. 0 \in S
    <3>1. Cardinality({n}) = 1
      BY FS_Singleton
    <3>2. Cardinality(f[0]) >= 0 + 1
      BY <1>2, <3>1
    <3> HIDE DEF Closed
    <3>3. QED
      BY <3>2
  <2>2. ASSUME NEW i \in Nat, i \in S
        PROVE  i + 1 \in S
    <3> SUFFICES ASSUME i + 1 \in 0 .. N
                 PROVE  Closed(f[i + 1]) \/ Cardinality(f[i + 1]) >= (i + 1) + 1
      OBVIOUS
    <3>1. /\ i \in 0 .. N /\ f[i] \in SUBSET Nodes /\ f[i + 1] \in SUBSET Nodes
          /\ f[i + 1] = f[i] \cup Below(f[i])
      BY <1>3
    <3>2. CASE Closed(f[i])
      <4>1. f[i + 1] = f[i]
        BY <3>1, <3>2 DEF Below
      <4>2. QED
        BY <3>2, <4>1
    <3>3. CASE ~Closed(f[i])
      <4>1. f[i] # f[i + 1] /\ f[i] \subseteq f[i + 1]
        BY <3>1, <3>3 DEF Below
      <4>2. /\ IsFiniteSet(f[i]) /\ IsFiniteSet(f[i + 1])
            /\ Cardinality(f[i]) \in Nat /\ Cardinality(f[i + 1]) \in Nat
        BY <1>1, <3>1, FS_Subset, FS_CardinalityType
      <4>3. Cardinality(f[i]) < Cardinality(f[i + 1])
        BY <4>1, <4>2, FS_Subset
      <4>4. Cardinality(f[i]) >= i + 1
        BY <2>2, <3>1, <3>3
      <4>5. QED
        BY <4>2, <4>3, <4>4
    <3>4. QED
      BY <3>2, <3>3
  <2> HIDE DEF S
  <2>3. Nat \subseteq S
    BY <2>1, <2>2, Induction
  <2>4. Closed(f[N]) \/ Cardinality(f[N]) >= N + 1
    BY <1>1, <2>3 DEF S
  <2>5. Cardinality(f[N]) <= N /\ Cardinality(f[N]) \in Nat
    BY <1>1, <1>2, FS_Subset, FS_CardinalityType DEF N
  <2>6. QED
    BY <1>1, <1>2, <2>4, <2>5
<1>8. QED
  BY <1>4, <1>5, <1>6, <1>7

-----------------------------------------------------------------------------
(* The requests of the game clients.                                         *)

Elements(s) == {s[i] : i \in 1 .. Len(s)}

\* The nodes and the references are finitely many requests.
LEMMA FetchesFinite == IsFiniteSet(Fetches)
<1> DEFINE pairs == {"tree", "node"} \X Nodes
           f == [x \in Fetches |-> <<x.kind, x.node>>]
<1>1. IsFiniteSet({"tree", "node"})
  <2>1. IsFiniteSet({"tree"}) /\ IsFiniteSet({"tree"} \cup {"node"})
    BY FS_Singleton, FS_AddElement
  <2>2. {"tree", "node"} = {"tree"} \cup {"node"}
    OBVIOUS
  <2>3. QED
    BY <2>1, <2>2
<1>2. IsFiniteSet(pairs)
  BY <1>1, NodeAssumption, FS_Product
<1>3. f \in Injection(Fetches, pairs)
  <2>1. f \in [Fetches -> pairs]
    BY DEF Fetches
  <2>2. \A x, y \in Fetches : f[x] = f[y] => x = y
    BY DEF Fetches
  <2> HIDE DEF f, pairs
  <2>3. QED
    BY <2>1, <2>2 DEF Injection, IsInjective
<1>4. QED
  BY <1>2, <1>3, FS_Injection

\* What the client asks for is put in some order.
LEMMA InSomeOrder ==
    ASSUME NEW S \in SUBSET Fetches
    PROVE  /\ Seqs!SetToSeq(S) \in Seq(Fetches)
           /\ Elements(Seqs!SetToSeq(S)) = S
<1> DEFINE D == 1 .. Cardinality(S)
           s == Seqs!SetToSeq(S)
<1>1. IsFiniteSet(S) /\ Cardinality(S) \in Nat /\ ExistsBijection(D, S)
  BY FetchesFinite, FS_Subset, FS_CardinalityType
<1>2. PICK g \in Bijection(D, S) : TRUE
  BY <1>1 DEF ExistsBijection
<1>3. g \in [D -> S] /\ Seqs!IsInjective(g)
  BY <1>2 DEF Bijection, Injection, IsInjective, Seqs!IsInjective
<1>4. s \in [D -> S] /\ Seqs!IsInjective(s)
  <2>1. Seqs!Cardinality(S) = Cardinality(S)
    BY DEF Seqs!Cardinality, Cardinality
  <2>2. s = CHOOSE f \in [D -> S] : Seqs!IsInjective(f)
    BY <2>1 DEF Seqs!SetToSeq
  <2> HIDE DEF s, D
  <2>3. QED
    BY <1>3, <2>2
<1>5. IsFiniteSet(D) /\ Cardinality(D) = Cardinality(S)
  BY <1>1, FS_Interval
<1> HIDE DEF s
<1>6. DOMAIN s = D /\ \A i, j \in D : s[i] = s[j] => i = j
  BY <1>4 DEF Seqs!IsInjective
<1>7. s \in Injection(D, S)
  <2> HIDE DEF D
  <2> QED
    BY <1>4, <1>6 DEF Injection, IsInjective
<1>8. s \in Surjection(D, S)
  BY <1>1, <1>5, <1>7, FS_Injection
<1>9. s \in Seq(Fetches) /\ Len(s) = Cardinality(S)
  BY <1>1, <1>4
<1>10. {s[i] : i \in D} = S
  BY <1>4, <1>8 DEF Surjection
<1>11. QED
  BY <1>9, <1>10 DEF s, Elements

\* The requests on the socket of a client.
Asked(c) == Elements(requests[c])

\* The elements of a sequence that is put after another.
LEMMA Concatenated ==
    ASSUME NEW S, NEW s \in Seq(S), NEW t \in Seq(S)
    PROVE  /\ s \o t \in Seq(S)
           /\ Elements(s \o t) = Elements(s) \cup Elements(t)
<1>1. /\ s \o t \in Seq(S) /\ Len(s) \in Nat /\ Len(t) \in Nat
      /\ Len(s \o t) = Len(s) + Len(t)
      /\ \A i \in 1 .. Len(s) : (s \o t)[i] = s[i]
      /\ \A i \in 1 .. Len(s) + Len(t) : i > Len(s) => (s \o t)[i] = t[i - Len(s)]
  OBVIOUS
<1> DEFINE u == s \o t
<1> HIDE DEF u
<1>2. ASSUME NEW i \in 1 .. Len(u)
      PROVE  u[i] \in {s[k] : k \in 1 .. Len(s)} \cup {t[k] : k \in 1 .. Len(t)}
  <2>1. CASE i <= Len(s)
    BY <1>1, <2>1 DEF u
  <2>2. CASE i > Len(s)
    <3>1. i - Len(s) \in 1 .. Len(t) /\ u[i] = t[i - Len(s)]
      BY <1>1, <2>2 DEF u
    <3>2. QED
      BY <3>1
  <2>3. QED
    BY <1>1, <2>1, <2>2 DEF u
<1>3. ASSUME NEW i \in 1 .. Len(s)
      PROVE  s[i] \in {u[k] : k \in 1 .. Len(u)}
  <2>1. i \in 1 .. Len(u) /\ u[i] = s[i]
    BY <1>1 DEF u
  <2>2. QED
    BY <2>1
<1>4. ASSUME NEW i \in 1 .. Len(t)
      PROVE  t[i] \in {u[k] : k \in 1 .. Len(u)}
  <2>1. Len(s) + i \in 1 .. Len(u) /\ Len(s) + i > Len(s) /\ (Len(s) + i) - Len(s) = i
    BY <1>1 DEF u
  <2>2. u[Len(s) + i] = t[i]
    BY <1>1, <2>1 DEF u
  <2>3. QED
    BY <2>1, <2>2
<1>5. {u[i] : i \in 1 .. Len(u)} = {s[i] : i \in 1 .. Len(s)} \cup {t[i] : i \in 1 .. Len(t)}
  BY <1>2, <1>3, <1>4
<1>6. QED
  BY <1>1, <1>5 DEF u, Elements

\* The client's requests after it has asked for the fetches F.
LEMMA AskFacts ==
    ASSUME requests \in [Clients -> Seq(Fetches)], NEW c \in Clients,
           NEW w \in Seq(Fetches), NEW F \in SUBSET Fetches, Ask(c, w, F)
    PROVE  /\ requests' \in [Clients -> Seq(Fetches)]
           /\ \A d \in Clients : d # c => requests'[d] = requests[d]
           /\ Asked(c)' = Elements(w) \cup F
<1> DEFINE W == Elements(w)
           t == Seqs!SetToSeq(F \ W)
<1>1. W = {w[i] : i \in DOMAIN w}
  BY DEF Elements
<1>2. requests' = [requests EXCEPT ![c] = w \o t]
  BY <1>1 DEF Ask
<1>3. t \in Seq(Fetches) /\ Elements(t) = F \ W
  BY InSomeOrder
<1> HIDE DEF t
<1>4. w \o t \in Seq(Fetches) /\ Elements(w \o t) = W \cup Elements(t)
  BY <1>3, Concatenated
<1> HIDE DEF W
<1>5. Elements(w \o t) = W \cup F
  BY <1>3, <1>4
<1>6. requests' \in [Clients -> Seq(Fetches)] /\ requests'[c] = w \o t
      /\ \A d \in Clients : d # c => requests'[d] = requests[d]
  BY <1>2, <1>4
<1>7. Asked(c)' = W \cup F
  BY <1>5, <1>6 DEF Asked
<1>8. QED
  BY <1>6, <1>7 DEF W

\* The oldest request is taken.
LEMMA Taken ==
    ASSUME NEW S, NEW q \in Seq(S), q # <<>>
    PROVE  /\ Tail(q) \in Seq(S)
           /\ Elements(q) = {Head(q)} \cup Elements(Tail(q))
<1>1. Len(q) \in Nat \ {0} /\ 1 \in 1 .. Len(q) /\ Head(q) = q[1]
  BY HeadFacts
<1>2. /\ Tail(q) \in Seq(S) /\ Len(Tail(q)) = Len(q) - 1
      /\ \A i \in 1 .. Len(q) - 1 : Tail(q)[i] = q[i + 1]
  BY <1>1, TailFacts
<1> DEFINE t == Tail(q)
<1> HIDE DEF t
<1>3. ASSUME NEW i \in 1 .. Len(q), i # 1
      PROVE  q[i] \in {t[k] : k \in 1 .. Len(t)}
  <2>1. i - 1 \in 1 .. Len(t) /\ (i - 1) + 1 = i /\ i - 1 \in 1 .. Len(q) - 1
    BY <1>1, <1>2, <1>3 DEF t
  <2>2. t[i - 1] = q[i]
    BY <1>2, <2>1 DEF t
  <2>3. QED
    BY <2>1, <2>2
<1>4. ASSUME NEW k \in 1 .. Len(t)
      PROVE  t[k] \in {q[i] : i \in 1 .. Len(q)}
  <2>1. k \in 1 .. Len(q) - 1 /\ k + 1 \in 1 .. Len(q)
    BY <1>1, <1>2 DEF t
  <2>2. t[k] = q[k + 1]
    BY <1>2, <2>1 DEF t
  <2>3. QED
    BY <2>1, <2>2
<1>5. {q[i] : i \in 1 .. Len(q)} = {Head(q)} \cup {t[i] : i \in 1 .. Len(t)}
  BY <1>1, <1>3, <1>4
<1>6. QED
  BY <1>2, <1>5 DEF t, Elements

-----------------------------------------------------------------------------
(* Types.                                                                    *)

\* The types of the vault, the workers and their game clients.
StateTypes ==
    /\ refs \subseteq Links
    /\ version \in [Nodes -> 0 .. MaxChanges]
    /\ wpc \in [Clients -> {"out", "drain"} \cup Looping]
    /\ m_ageNodeId \in [Clients -> Ages \cup {NoNode}]
    /\ view \in [Clients -> SUBSET Links]
    /\ known \in [Clients -> [Nodes -> Unknown .. MaxChanges]]
    /\ requests \in [Clients -> Seq(Fetches)]

\* NodeAdded and NodeRemoved are about a reference, NodeChanged about a node.
Sound(msg) ==
    \/ msg.kind \in {"added", "removed"} /\ <<msg.parent, msg.child>> \in Links
    \/ msg.kind = "changed" /\ msg.parent = NoNode /\ msg.child \in Nodes

MessagesInv ==
    /\ DaemonIdle \/ Sound(bcast.msg)
    /\ \A c \in Clients : \A i \in 1 .. Len(m_broadcast[c]) : Sound(m_broadcast[c][i])

\* Only the clients whose workers loop are in the list; a worker that has taken a
\* request has one; a new worker has a new structure.
WorkerInv ==
    /\ s_authClients = {c \in Clients : wpc[c] \in Looping}
    /\ bcast.left \subseteq s_authClients
    /\ \A c \in Clients :
          /\ wpc[c] \in {"request", "both"} => requests[c] # <<>>
          /\ wpc[c] = "out" => m_broadcast[c] = <<>> /\ m_ageNodeId[c] = NoNode

RestInv == StateTypes /\ MessagesInv /\ WorkerInv

\* A tree stays among the nodes.
LEMMA TreeNodes ==
    ASSUME StateTypes, NEW n \in Nodes
    PROVE  Tree(refs, n) \subseteq Nodes
<1>1. refs \in SUBSET (Nodes \X Nodes)
  BY NodeAssumption DEF StateTypes
<1>2. QED
  BY <1>1, TreeClosure

\* A change of the vault that is announced.
LEMMA AnnounceRest ==
    ASSUME IInv, RestInv, DaemonIdle, NEW kind, NEW p, NEW n, Announce(kind, p, n),
           Sound(Broadcast(changes + 1, kind, p, n)),
           refs' \subseteq Links, version' \in [Nodes -> 0 .. MaxChanges]
    PROVE  RestInv'
<1>1. /\ bcast' = [msg |-> Broadcast(changes + 1, kind, p, n), left |-> s_authClients]
      /\ UNCHANGED <<s_authClients, wpc, m_broadcast, m_ageNodeId, view, known, requests>>
  BY DEF Announce, clientVars
<1>2. bcast'.msg = Broadcast(changes + 1, kind, p, n) /\ bcast'.left = s_authClients
  BY <1>1
<1>3. StateTypes'
  BY <1>1 DEF RestInv, StateTypes
<1>4. MessagesInv'
  <2>1. Sound(bcast'.msg)
    BY <1>2
  <2>2. QED
    BY <1>1, <2>1 DEF RestInv, MessagesInv, Sound
<1>5. WorkerInv'
  BY <1>1, <1>2 DEF RestInv, WorkerInv
<1>6. QED
  BY <1>3, <1>4, <1>5 DEF RestInv

\* The daemon goes on with its visit; what is put on a channel is its message.
LEMMA VisitRest ==
    ASSUME IInv, RestInv, ~DaemonIdle,
           bcast' = Quiet \/ (bcast'.msg = bcast.msg /\ bcast'.left \subseteq bcast.left),
           \A c \in Clients : \/ m_broadcast'[c] = m_broadcast[c]
                              \/ /\ m_broadcast'[c] = Append(m_broadcast[c], bcast.msg)
                                 /\ c \in bcast.left,
           UNCHANGED <<vaultVars, s_authClients, wpc, m_ageNodeId, clientVars>>
    PROVE  RestInv'
<1>1. /\ StateTypes' /\ UNCHANGED <<s_authClients, wpc, m_ageNodeId, requests>>
  BY DEF RestInv, StateTypes, vaultVars, clientVars
<1>2. \A c \in bcast.left : Sound(bcast.msg) /\ wpc[c] \in Looping
  BY DEF RestInv, MessagesInv, WorkerInv, DaemonIdle, Quiet
<1>3. \A c \in Clients : \A i \in 1 .. Len(m_broadcast'[c]) : Sound(m_broadcast'[c][i])
  <2> SUFFICES ASSUME NEW c \in Clients, NEW i \in 1 .. Len(m_broadcast'[c])
               PROVE  Sound(m_broadcast'[c][i])
    OBVIOUS
  <2>1. m_broadcast[c] \in Seq(Broadcasts) /\ Len(m_broadcast[c]) \in Nat
        /\ bcast.msg \in Broadcasts
        /\ \A j \in 1 .. Len(m_broadcast[c]) : Sound(m_broadcast[c][j])
    BY DEF IInv, ChannelTypes, RestInv, MessagesInv
  <2>2. CASE m_broadcast'[c] = m_broadcast[c]
    BY <2>1, <2>2
  <2>3. CASE m_broadcast'[c] = Append(m_broadcast[c], bcast.msg) /\ c \in bcast.left
    <3>1. Len(m_broadcast'[c]) = Len(m_broadcast[c]) + 1
      BY <2>1, <2>3, AppendFacts
    <3>2. CASE i \in 1 .. Len(m_broadcast[c])
      BY <2>1, <2>3, <3>2, AppendFacts
    <3>3. CASE i = Len(m_broadcast[c]) + 1
      <4>1. m_broadcast'[c][i] = bcast.msg
        BY <2>1, <2>3, <3>3, AppendFacts
      <4>2. QED
        BY <1>2, <2>3, <4>1
    <3>4. QED
      BY <2>1, <3>1, <3>2, <3>3
  <2>4. QED
    BY <2>2, <2>3
<1>4. MessagesInv'
  <2>1. DaemonIdle' \/ Sound(bcast'.msg)
    BY DEF RestInv, MessagesInv, DaemonIdle, Sound
  <2>2. QED
    BY <1>3, <2>1 DEF MessagesInv, Sound
<1>5. WorkerInv'
  <2>1. bcast'.left \subseteq s_authClients
    BY DEF RestInv, WorkerInv, Quiet
  <2>2. \A c \in Clients : wpc[c] = "out" => m_broadcast'[c] = m_broadcast[c]
    BY <1>2 DEF Looping
  <2>3. QED
    BY <1>1, <2>1, <2>2 DEF RestInv, WorkerInv
<1>6. QED
  BY <1>1, <1>4, <1>5 DEF RestInv

\* A step of the worker or the game client of c, or of the daemon for c.
LEMMA ClientRest ==
    ASSUME IInv, RestInv, NEW c \in Clients,
           UNCHANGED <<refs, version, bcast>>,
           wpc' \in [Clients -> {"out", "drain"} \cup Looping],
           m_ageNodeId' \in [Clients -> Ages \cup {NoNode}],
           view' \in [Clients -> SUBSET Links],
           known' \in [Clients -> [Nodes -> Unknown .. MaxChanges]],
           requests' \in [Clients -> Seq(Fetches)],
           \A d \in Clients : d # c => /\ wpc'[d] = wpc[d] /\ m_ageNodeId'[d] = m_ageNodeId[d]
                                       /\ requests'[d] = requests[d]
                                       /\ m_broadcast'[d] = m_broadcast[d],
           \/ m_broadcast'[c] = m_broadcast[c]
           \/ m_broadcast[c] # <<>> /\ m_broadcast'[c] = Tail(m_broadcast[c]),
           s_authClients' = {d \in Clients : wpc'[d] \in Looping},
           bcast.left = {} \/ s_authClients' = s_authClients,
           wpc'[c] \in {"request", "both"} => requests'[c] # <<>>,
           wpc'[c] = "out" => m_broadcast'[c] = <<>> /\ m_ageNodeId'[c] = NoNode
    PROVE  RestInv'
<1>1. StateTypes'
  BY DEF RestInv, StateTypes
<1>2. \A d \in Clients : \A i \in 1 .. Len(m_broadcast'[d]) : Sound(m_broadcast'[d][i])
  <2> SUFFICES ASSUME NEW d \in Clients, NEW i \in 1 .. Len(m_broadcast'[d])
               PROVE  Sound(m_broadcast'[d][i])
    OBVIOUS
  <2>1. m_broadcast[d] \in Seq(Broadcasts)
        /\ \A j \in 1 .. Len(m_broadcast[d]) : Sound(m_broadcast[d][j])
    BY DEF IInv, ChannelTypes, RestInv, MessagesInv
  <2>2. CASE m_broadcast'[d] = m_broadcast[d]
    BY <2>1, <2>2
  <2>3. CASE m_broadcast[d] # <<>> /\ m_broadcast'[d] = Tail(m_broadcast[d])
    <3>1. Len(m_broadcast[d]) \in Nat \ {0}
      BY <2>1, <2>3, HeadFacts
    <3>2. /\ Len(m_broadcast'[d]) = Len(m_broadcast[d]) - 1
          /\ \A j \in 1 .. Len(m_broadcast[d]) - 1 : m_broadcast'[d][j] = m_broadcast[d][j + 1]
      BY <2>1, <2>3, <3>1, TailFacts
    <3>3. i + 1 \in 1 .. Len(m_broadcast[d]) /\ i \in 1 .. Len(m_broadcast[d]) - 1
      BY <3>1, <3>2
    <3>4. QED
      BY <2>1, <3>2, <3>3
  <2>4. QED
    BY <2>2, <2>3
<1>3. MessagesInv'
  BY <1>2 DEF RestInv, MessagesInv, DaemonIdle, Sound
<1>4. WorkerInv'
  BY DEF RestInv, WorkerInv
<1>5. QED
  BY <1>1, <1>3, <1>4 DEF RestInv

-----------------------------------------------------------------------------
(* What the steps of a client do to its requests.                            *)

LEMMA JoinAsks ==
    ASSUME StateTypes, NEW c \in Clients, NEW a \in Ages, dm_auth_updateAgeSrv(c, a)
    PROVE  /\ requests' \in [Clients -> Seq(Fetches)]
           /\ \A d \in Clients : d # c => requests'[d] = requests[d]
           /\ Asked(c)' = Asked(c) \cup {Fetch("tree", a)}
<1>1. /\ {Fetch("tree", a)} \in SUBSET Fetches /\ requests[c] \in Seq(Fetches)
      /\ requests \in [Clients -> Seq(Fetches)]
  <2>1. a \in Nodes
    BY NodeAssumption
  <2>2. Fetch("tree", a) \in Fetches
    BY <2>1 DEF Fetch, Fetches
  <2>3. QED
    BY <2>2 DEF StateTypes
<1>2. Ask(c, requests[c], {Fetch("tree", a)})
  BY DEF dm_auth_updateAgeSrv
<1>3. QED
  BY <1>1, <1>2, AskFacts DEF Asked

LEMMA ConnectAsks ==
    ASSUME StateTypes, NEW c \in Clients, Connect(c)
    PROVE  /\ requests' \in [Clients -> Seq(Fetches)]
           /\ \A d \in Clients : d # c => requests'[d] = requests[d]
           /\ Asked(c)' = Asked(c) \cup {Fetch("tree", Player[c])}
<1>1. /\ {Fetch("tree", Player[c])} \in SUBSET Fetches /\ requests[c] \in Seq(Fetches)
      /\ requests \in [Clients -> Seq(Fetches)]
  <2>1. Player[c] \in Nodes
    BY NodeAssumption
  <2>2. Fetch("tree", Player[c]) \in Fetches
    BY <2>1 DEF Fetch, Fetches
  <2>3. QED
    BY <2>2 DEF StateTypes
<1>2. Ask(c, requests[c], {Fetch("tree", Player[c])})
  BY DEF Connect
<1>3. QED
  BY <1>1, <1>2, AskFacts DEF Asked

\* The worker answers the oldest request.
LEMMA ServeTakes ==
    ASSUME StateTypes, WorkerInv, NEW c \in Clients, NEW f, Serve(c, f)
    PROVE  /\ Tail(requests[c]) \in Seq(Fetches)
           /\ Asked(c) = {f} \cup Elements(Tail(requests[c]))
<1>1. requests[c] \in Seq(Fetches) /\ requests[c] # <<>> /\ Head(requests[c]) = f
  BY DEF StateTypes, WorkerInv, Serve
<1>2. QED
  BY <1>1, Taken DEF Asked

LEMMA TreeAsks ==
    ASSUME StateTypes, WorkerInv, NEW c \in Clients, NEW n \in Nodes, cb_nodeTree(c, n)
    PROVE  /\ requests' \in [Clients -> Seq(Fetches)]
           /\ \A d \in Clients : d # c => requests'[d] = requests[d]
           /\ \E F : /\ Asked(c) = {Fetch("tree", n)} \cup F
                     /\ Asked(c)' = F \cup FetchNodes(Tree(refs, n))
<1> DEFINE rest == Tail(requests[c])
<1>1. Serve(c, Fetch("tree", n)) /\ Ask(c, rest, FetchNodes(Tree(refs, n)))
  BY DEF cb_nodeTree
<1>2. rest \in Seq(Fetches) /\ Asked(c) = {Fetch("tree", n)} \cup Elements(rest)
  BY <1>1, ServeTakes
<1>3. requests \in [Clients -> Seq(Fetches)]
  BY DEF StateTypes
<1>4. FetchNodes(Tree(refs, n)) \in SUBSET Fetches
  BY TreeNodes DEF FetchNodes, Fetch, Fetches
<1> HIDE DEF rest
<1>5. /\ requests' \in [Clients -> Seq(Fetches)]
      /\ \A d \in Clients : d # c => requests'[d] = requests[d]
      /\ Asked(c)' = Elements(rest) \cup FetchNodes(Tree(refs, n))
  BY <1>1, <1>2, <1>3, <1>4, AskFacts
<1>6. QED
  BY <1>2, <1>5

LEMMA NodeAsks ==
    ASSUME StateTypes, WorkerInv, NEW c \in Clients, NEW n \in Nodes, cb_nodeFetch(c, n)
    PROVE  /\ requests' \in [Clients -> Seq(Fetches)]
           /\ \A d \in Clients : d # c => requests'[d] = requests[d]
           /\ Asked(c) = {Fetch("node", n)} \cup Asked(c)'
<1> DEFINE rest == Tail(requests[c])
<1>1. Serve(c, Fetch("node", n)) /\ Ask(c, rest, {})
  BY DEF cb_nodeFetch
<1>2. rest \in Seq(Fetches) /\ Asked(c) = {Fetch("node", n)} \cup Elements(rest)
  BY <1>1, ServeTakes
<1>3. requests \in [Clients -> Seq(Fetches)] /\ {} \in SUBSET Fetches
  BY DEF StateTypes
<1> HIDE DEF rest
<1>4. /\ requests' \in [Clients -> Seq(Fetches)]
      /\ \A d \in Clients : d # c => requests'[d] = requests[d]
      /\ Asked(c)' = Elements(rest) \cup {}
  BY <1>1, <1>2, <1>3, AskFacts
<1>5. QED
  BY <1>2, <1>4

\* What the client asks for when it gets a broadcast.
Wanted(msg) == CASE msg.kind = "added" -> {Fetch("tree", msg.child)}
                 [] msg.kind = "changed" -> {Fetch("node", msg.child)}
                 [] OTHER -> {}

LEMMA BroadcastAsks ==
    ASSUME IInv, StateTypes, MessagesInv, NEW c \in Clients, cb_broadcast(c)
    PROVE  /\ requests' \in [Clients -> Seq(Fetches)]
           /\ \A d \in Clients : d # c => requests'[d] = requests[d]
           /\ Asked(c)' = Asked(c) \cup Wanted(Head(m_broadcast[c]))
           /\ Sound(Head(m_broadcast[c])) /\ Head(m_broadcast[c]) \in Broadcasts
<1> DEFINE m == Head(m_broadcast[c])
<1>1. Ask(c, requests[c], Wanted(m)) /\ m_broadcast[c] # <<>>
  BY DEF cb_broadcast, Wanted
<1>2. m_broadcast[c] \in Seq(Broadcasts)
  BY DEF IInv, ChannelTypes
<1>3. m \in Broadcasts /\ Sound(m)
  BY <1>1, <1>2, HeadFacts DEF MessagesInv
<1> HIDE DEF m
<1>4. m.kind \in {"added", "changed"} => m.child \in Nodes
  BY <1>3, NodeAssumption DEF Sound
<1>5. Wanted(m) \in SUBSET Fetches
  BY <1>4 DEF Wanted, Fetch, Fetches
<1>6. requests[c] \in Seq(Fetches) /\ requests \in [Clients -> Seq(Fetches)]
  BY DEF StateTypes
<1>7. /\ requests' \in [Clients -> Seq(Fetches)]
      /\ \A d \in Clients : d # c => requests'[d] = requests[d]
      /\ Asked(c)' = Elements(requests[c]) \cup Wanted(m)
  BY <1>1, <1>5, <1>6, AskFacts
<1>8. QED
  BY <1>3, <1>7 DEF Asked, m

LEMMA RestInit == Init => RestInv
<1> SUFFICES ASSUME Init
             PROVE  RestInv
  OBVIOUS
<1>1. 0 \in 0 .. MaxChanges /\ Unknown \in Unknown .. MaxChanges
  BY ChangesAssumption DEF Unknown
<1>2. <<>> \in Seq(Fetches)
  OBVIOUS
<1>3. StateTypes
  BY <1>1, <1>2, NodeAssumption DEF Init, StateTypes
<1>4. MessagesInv
  BY DEF Init, MessagesInv, DaemonIdle
<1>5. WorkerInv
  BY DEF Init, WorkerInv, Looping, Quiet
<1>6. QED
  BY <1>3, <1>4, <1>5 DEF RestInv

LEMMA RestStep ==
    ASSUME IInv, RestInv, [Next]_vars
    PROVE  RestInv'
<1>1. changes \in Nat /\ MaxChanges \in Nat /\ \A n \in Nodes : NoNode # n
  BY ChangesAssumption, NodeAssumption DEF IInv, ChannelTypes
<1>2. ASSUME NEW p, NEW n, v_ref_node(p, n)
      PROVE  RestInv'
  <2>1. /\ DaemonIdle /\ <<p, n>> \in Links /\ Announce("added", p, n)
        /\ refs' \subseteq Links /\ version' \in [Nodes -> 0 .. MaxChanges]
    BY <1>2 DEF v_ref_node, RestInv, StateTypes
  <2>2. Sound(Broadcast(changes + 1, "added", p, n))
    BY <2>1 DEF Sound, Broadcast
  <2>3. QED
    BY <2>1, <2>2, AnnounceRest
<1>3. ASSUME NEW p, NEW n, v_unref_node(p, n)
      PROVE  RestInv'
  <2>1. /\ DaemonIdle /\ <<p, n>> \in Links /\ Announce("removed", p, n)
        /\ refs' \subseteq Links /\ version' \in [Nodes -> 0 .. MaxChanges]
    BY <1>3 DEF v_unref_node, RestInv, StateTypes
  <2>2. Sound(Broadcast(changes + 1, "removed", p, n))
    BY <2>1 DEF Sound, Broadcast
  <2>3. QED
    BY <2>1, <2>2, AnnounceRest
<1>4. ASSUME NEW c \in Clients, NEW n \in Nodes, v_send_node(Player[c], n)
      PROVE  RestInv'
  BY <1>2, <1>4 DEF v_send_node
<1>5. ASSUME NEW n \in Nodes, v_update_node(n)
      PROVE  RestInv'
  <2>1. /\ DaemonIdle /\ Announce("changed", NoNode, n) /\ UNCHANGED refs
        /\ version' = [version EXCEPT ![n] = changes + 1] /\ changes < MaxChanges
    BY <1>5 DEF v_update_node, Announce
  <2>2. changes + 1 \in 0 .. MaxChanges
    BY <1>1, <2>1
  <2>3. refs' \subseteq Links /\ version' \in [Nodes -> 0 .. MaxChanges]
    BY <2>1, <2>2 DEF RestInv, StateTypes
  <2>4. Sound(Broadcast(changes + 1, "changed", NoNode, n))
    BY DEF Sound, Broadcast
  <2>5. QED
    BY <2>1, <2>3, <2>4, AnnounceRest
<1>6. ASSUME NEW c \in Clients, dm_auth_addAllPlayers(Player[c])
      PROVE  RestInv'
  BY <1>2, <1>3, <1>6 DEF dm_auth_addAllPlayers
<1>7. ASSUME NEW n \in PlayerInfos, dm_auth_deletePlayer(n)
      PROVE  RestInv'
  BY <1>7 DEF dm_auth_deletePlayer, RestInv, StateTypes, MessagesInv, WorkerInv, bufferVars,
              clientVars, DaemonIdle, Sound
<1>8. ASSUME NEW c \in Clients, dm_auth_bcast(c)
      PROVE  RestInv'
  <2>1. /\ c \in bcast.left /\ bcast' = [bcast EXCEPT !.left = bcast.left \ {c}]
        /\ UNCHANGED <<vaultVars, s_authClients, wpc, m_ageNodeId, clientVars>>
        /\ \/ UNCHANGED m_broadcast
           \/ m_broadcast' = [m_broadcast EXCEPT ![c] = Append(m_broadcast[c], bcast.msg)]
    BY <1>8 DEF dm_auth_bcast
  <2>2. bcast'.msg = bcast.msg /\ bcast'.left \subseteq bcast.left /\ ~DaemonIdle
    BY <2>1 DEF IInv, ChannelTypes, DaemonIdle, Quiet
  <2>3. \A d \in Clients : \/ m_broadcast'[d] = m_broadcast[d]
                           \/ /\ m_broadcast'[d] = Append(m_broadcast[d], bcast.msg)
                              /\ d \in bcast.left
    BY <2>1 DEF IInv, ChannelTypes
  <2>4. QED
    BY <2>1, <2>2, <2>3, VisitRest
<1>9. ASSUME dm_auth_bcast_end
      PROVE  RestInv'
  BY <1>9, VisitRest DEF dm_auth_bcast_end
<1>10. ASSUME NEW c \in Clients, NEW a \in Ages, dm_auth_updateAgeSrv(c, a)
       PROVE  RestInv'
  <2>1. /\ DaemonIdle /\ m_ageNodeId' = [m_ageNodeId EXCEPT ![c] = a]
        /\ wpc[c] \in Looping
        /\ Ask(c, requests[c], {Fetch("tree", a)})
        /\ UNCHANGED <<refs, version, bcast, s_authClients, wpc, m_broadcast, view, known>>
    BY <1>10 DEF dm_auth_updateAgeSrv, vaultVars, bufferVars, RestInv, WorkerInv
  <2>2. /\ requests' \in [Clients -> Seq(Fetches)]
        /\ \A d \in Clients : d # c => requests'[d] = requests[d]
        /\ Asked(c)' = Asked(c) \cup {Fetch("tree", a)}
    BY <1>10, JoinAsks DEF RestInv
  <2>5. requests'[c] # <<>>
    <3>1. Elements(requests'[c]) # {}
      BY <2>2 DEF Asked
    <3>2. QED
      BY <3>1 DEF Elements
  <2>6. m_ageNodeId' \in [Clients -> Ages \cup {NoNode}]
        /\ \A d \in Clients : d # c => m_ageNodeId'[d] = m_ageNodeId[d]
    BY <2>1 DEF RestInv, StateTypes
  <2>7. bcast.left = {}
    BY <2>1 DEF DaemonIdle, Quiet
  <2>8. QED
    BY <2>1, <2>2, <2>5, <2>6, <2>7, ClientRest DEF RestInv, StateTypes, WorkerInv, Looping
<1>11. ASSUME NEW c \in Clients, Connect(c)
       PROVE  RestInv'
  <2>1. /\ DaemonIdle /\ wpc[c] = "out" /\ wpc' = [wpc EXCEPT ![c] = "idle"]
        /\ s_authClients' = s_authClients \cup {c}
        /\ UNCHANGED <<refs, version, bcast, m_broadcast, m_ageNodeId, view, known>>
    BY <1>11 DEF Connect, vaultVars, bufferVars
  <2>2. /\ requests' \in [Clients -> Seq(Fetches)]
        /\ \A d \in Clients : d # c => requests'[d] = requests[d]
    BY <1>11, ConnectAsks DEF RestInv
  <2>3. /\ wpc' \in [Clients -> {"out", "drain"} \cup Looping] /\ wpc'[c] = "idle"
        /\ \A d \in Clients : d # c => wpc'[d] = wpc[d]
    BY <2>1 DEF RestInv, StateTypes, Looping
  <2>4. s_authClients' = {d \in Clients : wpc'[d] \in Looping}
    BY <2>1, <2>3 DEF RestInv, WorkerInv, Looping
  <2>5. bcast.left = {}
    BY <2>1 DEF DaemonIdle, Quiet
  <2>6. QED
    BY <2>1, <2>2, <2>3, <2>4, <2>5, ClientRest DEF RestInv, StateTypes
<1>12. ASSUME NEW c \in Clients, cb_sockRead(c)
       PROVE  RestInv'
  <2>1. /\ wpc[c] = "idle" /\ requests[c] # <<>>
        /\ wpc' = [wpc EXCEPT ![c] = IF m_broadcast[c] = <<>> THEN "request" ELSE "both"]
        /\ UNCHANGED <<refs, version, bcast, s_authClients, m_broadcast, m_ageNodeId, view,
                       known, requests>>
    BY <1>12 DEF cb_sockRead, vaultVars, bufferVars, clientVars
  <2>2. /\ wpc' \in [Clients -> {"out", "drain"} \cup Looping] /\ wpc'[c] \in {"request", "both"}
        /\ \A d \in Clients : d # c => wpc'[d] = wpc[d]
    BY <2>1 DEF RestInv, StateTypes, Looping
  <2>3. s_authClients = {d \in Clients : wpc'[d] \in Looping}
    BY <2>1, <2>2 DEF RestInv, WorkerInv, Looping
  <2>4. QED
    BY <2>1, <2>2, <2>3, ClientRest DEF RestInv, StateTypes
<1>13. ASSUME NEW c \in Clients, NEW f, Serve(c, f), UNCHANGED m_broadcast
       PROVE  /\ UNCHANGED <<refs, version, bcast, s_authClients, m_ageNodeId>>
              /\ wpc' \in [Clients -> {"out", "drain"} \cup Looping]
              /\ wpc'[c] \in {"idle", "broadcast"}
              /\ \A d \in Clients : d # c => wpc'[d] = wpc[d]
              /\ s_authClients' = {d \in Clients : wpc'[d] \in Looping}
  <2>1. /\ wpc[c] \in {"request", "both"}
        /\ wpc' = [wpc EXCEPT ![c] = IF wpc[c] = "both" THEN "broadcast" ELSE "idle"]
        /\ UNCHANGED <<refs, version, bcast, s_authClients, m_ageNodeId>>
    BY <1>13 DEF Serve, vaultVars, bufferVars
  <2>2. /\ wpc' \in [Clients -> {"out", "drain"} \cup Looping] /\ wpc'[c] \in {"idle", "broadcast"}
        /\ \A d \in Clients : d # c => wpc'[d] = wpc[d]
    BY <2>1 DEF RestInv, StateTypes, Looping
  <2>3. s_authClients = {d \in Clients : wpc'[d] \in Looping}
    BY <2>1, <2>2 DEF RestInv, WorkerInv, Looping
  <2>4. QED
    BY <2>1, <2>2, <2>3
<1>14. ASSUME NEW c \in Clients, NEW n \in Nodes, cb_nodeTree(c, n)
       PROVE  RestInv'
  <2>1. /\ Serve(c, Fetch("tree", n)) /\ UNCHANGED <<m_broadcast, known>>
        /\ view' = [view EXCEPT ![c] = view[c] \cup {e \in refs : e[1] \in Tree(refs, n)}]
    BY <1>14 DEF cb_nodeTree, Serve
  <2>2. /\ requests' \in [Clients -> Seq(Fetches)]
        /\ \A d \in Clients : d # c => requests'[d] = requests[d]
    BY <1>14, TreeAsks DEF RestInv
  <2>3. view' \in [Clients -> SUBSET Links]
    BY <2>1 DEF RestInv, StateTypes
  <2>4. QED
    BY <1>13, <2>1, <2>2, <2>3, ClientRest DEF RestInv, StateTypes
<1>15. ASSUME NEW c \in Clients, NEW n \in Nodes, cb_nodeFetch(c, n)
       PROVE  RestInv'
  <2>1. /\ Serve(c, Fetch("node", n)) /\ UNCHANGED <<m_broadcast, view>>
        /\ known' = [known EXCEPT ![c][n] = version[n]]
    BY <1>15 DEF cb_nodeFetch, Serve
  <2>2. /\ requests' \in [Clients -> Seq(Fetches)]
        /\ \A d \in Clients : d # c => requests'[d] = requests[d]
    BY <1>15, NodeAsks DEF RestInv
  <2>3. version[n] \in Unknown .. MaxChanges
    BY <1>1 DEF RestInv, StateTypes, Unknown
  <2>4. known' \in [Clients -> [Nodes -> Unknown .. MaxChanges]]
    BY <2>1, <2>3 DEF RestInv, StateTypes
  <2>5. QED
    BY <1>13, <2>1, <2>2, <2>4, ClientRest DEF RestInv, StateTypes
<1>16. ASSUME NEW c \in Clients, cb_broadcast(c)
       PROVE  RestInv'
  <2> DEFINE m == Head(m_broadcast[c])
             e == <<m.parent, m.child>>
  <2>1. /\ wpc[c] \in {"idle", "broadcast"} /\ m_broadcast[c] # <<>>
        /\ wpc' = [wpc EXCEPT ![c] = "idle"]
        /\ m_broadcast' = [m_broadcast EXCEPT ![c] = Tail(m_broadcast[c])]
        /\ view' = [view EXCEPT ![c] = CASE m.kind = "added" -> view[c] \cup {e}
                                          [] m.kind = "removed" -> view[c] \ {e}
                                          [] OTHER -> view[c]]
        /\ UNCHANGED <<refs, version, bcast, s_authClients, m_ageNodeId, known>>
    BY <1>16 DEF cb_broadcast, vaultVars
  <2>2. /\ requests' \in [Clients -> Seq(Fetches)]
        /\ \A d \in Clients : d # c => requests'[d] = requests[d]
        /\ Sound(m)
    BY <1>16, BroadcastAsks DEF RestInv
  <2> HIDE DEF m
  <2>3. m.kind = "added" => e \in Links
    BY <2>2 DEF Sound
  <2>4. view' \in [Clients -> SUBSET Links]
    BY <2>1, <2>3 DEF RestInv, StateTypes
  <2>5. /\ wpc' \in [Clients -> {"out", "drain"} \cup Looping] /\ wpc'[c] = "idle"
        /\ \A d \in Clients : d # c => wpc'[d] = wpc[d]
    BY <2>1 DEF RestInv, StateTypes, Looping
  <2>6. s_authClients = {d \in Clients : wpc'[d] \in Looping}
    BY <2>1, <2>5 DEF RestInv, WorkerInv, Looping
  <2>7. /\ m_broadcast'[c] = Tail(m_broadcast[c])
        /\ \A d \in Clients : d # c => m_broadcast'[d] = m_broadcast[d]
    BY <2>1 DEF IInv, ChannelTypes
  <2>8. QED
    BY <2>1, <2>2, <2>4, <2>5, <2>6, <2>7, ClientRest DEF RestInv, StateTypes
<1>17. ASSUME NEW c \in Clients, Remove(c)
       PROVE  RestInv'
  <2>1. /\ DaemonIdle /\ wpc' = [wpc EXCEPT ![c] = "drain"]
        /\ s_authClients' = s_authClients \ {c}
        /\ view' = [view EXCEPT ![c] = {}]
        /\ known' = [known EXCEPT ![c] = [n \in Nodes |-> Unknown]]
        /\ requests' = [requests EXCEPT ![c] = <<>>]
        /\ UNCHANGED <<refs, version, bcast, m_broadcast, m_ageNodeId>>
    BY <1>17 DEF Remove, vaultVars, bufferVars
  <2>2. [n \in Nodes |-> Unknown] \in [Nodes -> Unknown .. MaxChanges] /\ <<>> \in Seq(Fetches)
    BY <1>1 DEF Unknown
  <2>3. /\ view' \in [Clients -> SUBSET Links]
        /\ known' \in [Clients -> [Nodes -> Unknown .. MaxChanges]]
        /\ requests' \in [Clients -> Seq(Fetches)]
        /\ \A d \in Clients : d # c => requests'[d] = requests[d]
    BY <2>1, <2>2 DEF RestInv, StateTypes
  <2>4. /\ wpc' \in [Clients -> {"out", "drain"} \cup Looping] /\ wpc'[c] = "drain"
        /\ \A d \in Clients : d # c => wpc'[d] = wpc[d]
    BY <2>1 DEF RestInv, StateTypes
  <2>5. s_authClients' = {d \in Clients : wpc'[d] \in Looping}
    BY <2>1, <2>4 DEF RestInv, WorkerInv, Looping
  <2>6. bcast.left = {}
    BY <2>1 DEF DaemonIdle, Quiet
  <2>7. QED
    BY <2>1, <2>3, <2>4, <2>5, <2>6, ClientRest DEF RestInv, StateTypes
<1>18. ASSUME NEW c \in Clients, Drain(c)
       PROVE  RestInv'
  <2>1. /\ wpc[c] = "drain" /\ m_broadcast[c] # <<>>
        /\ m_broadcast' = [m_broadcast EXCEPT ![c] = Tail(m_broadcast[c])]
        /\ UNCHANGED <<refs, version, bcast, s_authClients, wpc, m_ageNodeId, view, known,
                       requests>>
    BY <1>18 DEF Drain, vaultVars, clientVars
  <2>2. /\ m_broadcast'[c] = Tail(m_broadcast[c])
        /\ \A d \in Clients : d # c => m_broadcast'[d] = m_broadcast[d]
    BY <2>1 DEF IInv, ChannelTypes
  <2>3. QED
    BY <2>1, <2>2, ClientRest DEF RestInv, StateTypes, WorkerInv
<1>19. ASSUME NEW c \in Clients, End(c)
       PROVE  RestInv'
  <2>1. /\ wpc[c] = "drain" /\ m_broadcast[c] = <<>>
        /\ wpc' = [wpc EXCEPT ![c] = "out"]
        /\ m_ageNodeId' = [m_ageNodeId EXCEPT ![c] = NoNode]
        /\ UNCHANGED <<refs, version, bcast, s_authClients, m_broadcast, view, known, requests>>
    BY <1>19 DEF End, Forget, vaultVars, bufferVars, clientVars
  <2>2. /\ wpc' \in [Clients -> {"out", "drain"} \cup Looping] /\ wpc'[c] = "out"
        /\ \A d \in Clients : d # c => wpc'[d] = wpc[d]
        /\ m_ageNodeId' \in [Clients -> Ages \cup {NoNode}] /\ m_ageNodeId'[c] = NoNode
        /\ \A d \in Clients : d # c => m_ageNodeId'[d] = m_ageNodeId[d]
    BY <2>1 DEF RestInv, StateTypes
  <2>3. s_authClients = {d \in Clients : wpc'[d] \in Looping}
    BY <2>1, <2>2 DEF RestInv, WorkerInv, Looping
  <2>4. QED
    BY <2>1, <2>2, <2>3, ClientRest DEF RestInv, StateTypes
<1>20. CASE UNCHANGED vars
  BY <1>20 DEF vars, vaultVars, bufferVars, clientVars, RestInv, StateTypes, MessagesInv, WorkerInv,
               DaemonIdle, Sound
<1>21. QED
  BY <1>2, <1>3, <1>4, <1>5, <1>6, <1>7, <1>8, <1>9, <1>10, <1>11, <1>12, <1>14, <1>15, <1>16,
     <1>17, <1>18, <1>19, <1>20
     DEF Next

\* Types, messages and the workers' places are an inductive invariant.
THEOREM RestInvariant == Spec => [](IInv /\ RestInv)
<1>1. IInv /\ RestInv /\ [Next]_vars => (IInv /\ RestInv)'
  BY StepHolds, RestStep
<1>2. QED
  BY <1>1, InitHolds, RestInit, PTL DEF Spec

\* A buffer's count is a number of clients and one.
LEMMA CountBounded ==
    ASSUME IInv, NEW b \in Buffers
    PROVE  m_refs[b] \in 0 .. Cardinality(Clients) + 1
<1>1. Holders(b) \in SUBSET Clients /\ IsFiniteSet(Clients)
  BY NodeAssumption DEF Holders
<1>2. /\ Cardinality(Holders(b)) <= Cardinality(Clients)
      /\ Cardinality(Clients) \in Nat /\ Cardinality(Holders(b)) \in Nat
  BY <1>1, FS_Subset, FS_CardinalityType
<1>3. m_refs[b] = Cardinality(Holders(b)) + (IF bcast.msg.buf = b THEN 1 ELSE 0)
  BY DEF IInv, CountInv
<1>4. QED
  BY <1>2, <1>3

\* The vault, the buffers, the workers' queues and the requests of the clients keep their
\* types; a buffer is referenced by at most the daemon and one channel of each client
\* (AuthDaemon.cpp:204-266, AuthServer.cpp:1106-1174).
THEOREM TypeCorrect == Spec => []TypeOK
<1>1. IInv /\ RestInv => TypeOK
  <2> SUFFICES ASSUME IInv, RestInv
               PROVE  TypeOK
    OBVIOUS
  <2>1. m_refs \in [Buffers -> 0 .. Cardinality(Clients) + 1]
    BY CountBounded DEF IInv, ChannelTypes
  <2>2. QED
    BY <2>1 DEF IInv, ChannelTypes, RestInv, StateTypes, TypeOK
<1>2. QED
  BY <1>1, RestInvariant, PTL

-----------------------------------------------------------------------------
(* What the clients follow.                                                  *)

\* The nodes below the root r along references R, where a tree that is still to be
\* fetched or told of (one with its root in P) is left out.
Below(R, r, P) ==
    IF r = NoNode \/ r \in P THEN {} ELSE Tree({e \in R : e[2] \notin P}, r)

\* What a client with this player and this age must know the contents of ...
Reached(R, player, ageNode, P) == Below(R, player, P) \cup Below(R, ageNode, P)

\* ... and the references of.
Watched(R, player, ageNode, P) ==
    Below(R, player, P) \cup (Below(R, ageNode, P) \ Tree(Links, player))

\* The broadcasts of q after the place k: whether the message is among them, and the
\* nodes that they add.
After(q, k, kind, p, n) ==
    \E j \in 1 .. Len(q) : j > k /\ q[j].kind = kind /\ q[j].parent = p /\ q[j].child = n
Added(q, k) == {q[j].child : j \in {i \in 1 .. Len(q) : i > k /\ q[i].kind = "added"}}

\* The trees that are still to be fetched or told of, when q is coming and the
\* requests A wait.
Pending(q, A) == Added(q, 0) \cup {n \in Nodes : Fetch("tree", n) \in A}

\* The contents of a node are known, or will be fetched.
VersionsFollow(R, ver, player, ageNode, q, A, kn) ==
    \A n \in Reached(R, player, ageNode, Pending(q, A)) :
        \/ kn[n] = ver[n]
        \/ Fetch("node", n) \in A
        \/ After(q, 0, "changed", NoNode, n)

\* A reference is known, or will be told of.
RefsFollow(R, player, ageNode, q, A, vw) ==
    \A e \in R : e[1] \in Watched(R, player, ageNode, Pending(q, A)) =>
        e \in vw \/ After(q, 0, "added", e[1], e[2])

\* A removal that is no longer true will be followed by its opposite, or by the tree
\* that has the reference.
RemovalsFollow(R, player, ageNode, q) ==
    \A i \in 1 .. Len(q) :
        q[i].kind = "removed" /\ <<q[i].parent, q[i].child>> \in R =>
            \/ After(q, i, "added", q[i].parent, q[i].child)
            \/ q[i].parent \notin Watched(R, player, ageNode, Added(q, i))

\* Before the client is in an age, all it is told of is in its player's tree.
PlayerFirst(player, ageNode, q) ==
    ageNode = NoNode =>
        \A i \in 1 .. Len(q) : q[i].kind = "removed" => q[i].parent \in Tree(Links, player)

\* What a client follows.
ClientFollows(R, ver, player, ageNode, q, A, vw, kn) ==
    /\ VersionsFollow(R, ver, player, ageNode, q, A, kn)
    /\ RefsFollow(R, player, ageNode, q, A, vw)
    /\ RemovalsFollow(R, player, ageNode, q)
    /\ PlayerFirst(player, ageNode, q)

\* The broadcasts that a client has not got: the one that the daemon will still put on
\* its channel is the last.
Coming(c) ==
    IF c \in bcast.left /\ Holds(c, Subject(bcast.msg))
    THEN Append(m_broadcast[c], bcast.msg)
    ELSE m_broadcast[c]

Follows(c) ==
    ClientFollows(refs, version, Player[c], m_ageNodeId[c], Coming(c), Asked(c), view[c], known[c])

FollowInv == \A c \in Clients : wpc[c] \in Looping => Follows(c)

-----------------------------------------------------------------------------
(* Lemmas.                                                                   *)

\* What the tree below r is when some trees are left out.
LEMMA BelowFacts ==
    ASSUME NEW R \in SUBSET Links, NEW r \in Nodes \cup {NoNode}, NEW P
    PROVE  /\ Below(R, r, P) \subseteq Nodes
           /\ r \in Nodes /\ r \notin P => r \in Below(R, r, P)
           /\ \A e \in R : e[1] \in Below(R, r, P) /\ e[2] \notin P => e[2] \in Below(R, r, P)
<1> DEFINE Q == {e \in R : e[2] \notin P}
<1>1. Q \in SUBSET (Nodes \X Nodes) /\ NoNode \notin Nodes
  BY NodeAssumption
<1>2. CASE r = NoNode \/ r \in P
  BY <1>1, <1>2 DEF Below
<1>3. CASE ~(r = NoNode \/ r \in P)
  <2>1. Below(R, r, P) = Tree(Q, r) /\ r \in Nodes
    BY <1>3 DEF Below
  <2> HIDE DEF Q
  <2>2. /\ r \in Tree(Q, r) /\ Tree(Q, r) \subseteq Nodes
        /\ \A e \in Q : e[1] \in Tree(Q, r) => e[2] \in Tree(Q, r)
    BY <1>1, <2>1, TreeClosure
  <2>3. \A e : e \in Q <=> e \in R /\ e[2] \notin P
    BY DEF Q
  <2>4. QED
    BY <2>1, <2>2, <2>3
<1>4. QED
  BY <1>2, <1>3

\* It is the least such set.
LEMMA BelowLeast ==
    ASSUME NEW R \in SUBSET Links, NEW r \in Nodes \cup {NoNode}, NEW P, NEW S,
           r \in Nodes /\ r \notin P => r \in S,
           \A e \in R : e[1] \in S /\ e[2] \notin P => e[2] \in S
    PROVE  Below(R, r, P) \subseteq S
<1> DEFINE Q == {e \in R : e[2] \notin P}
<1>1. Q \in SUBSET (Nodes \X Nodes) /\ NoNode \notin Nodes
  BY NodeAssumption
<1>2. CASE r = NoNode \/ r \in P
  BY <1>2 DEF Below
<1>3. CASE ~(r = NoNode \/ r \in P)
  <2>1. Below(R, r, P) = Tree(Q, r) /\ r \in Nodes /\ r \in S
    BY <1>3 DEF Below
  <2>2. \A e \in Q : e[1] \in S => e[2] \in S
    OBVIOUS
  <2> HIDE DEF Q
  <2>3. \A C : r \in C /\ (\A e \in Q : e[1] \in C => e[2] \in C) => Tree(Q, r) \subseteq C
    BY <1>1, <2>1, TreeClosure
  <2>4. QED
    BY <2>1, <2>2, <2>3
<1>4. QED
  BY <1>2, <1>3

\* With all trees counted it is the tree.
LEMMA BelowTree ==
    ASSUME NEW R \in SUBSET Links, NEW r \in Nodes \cup {NoNode}, NEW P
    PROVE  /\ r \in Nodes => Below(R, r, P) \subseteq Tree(R, r)
           /\ r = NoNode => Below(R, r, P) = {}
           /\ Below(R, r, {}) = IF r = NoNode THEN {} ELSE Tree(R, r)
<1>1. R \in SUBSET (Nodes \X Nodes)
  BY NodeAssumption
<1>2. r \in Nodes => Below(R, r, P) \subseteq Tree(R, r)
  <2> SUFFICES ASSUME r \in Nodes
               PROVE  Below(R, r, P) \subseteq Tree(R, r)
    OBVIOUS
  <2>1. r \in Tree(R, r) /\ \A e \in R : e[1] \in Tree(R, r) => e[2] \in Tree(R, r)
    BY <1>1, TreeClosure
  <2>2. QED
    BY <2>1, BelowLeast
<1>3. {e \in R : e[2] \notin {}} = R
  OBVIOUS
<1>4. QED
  BY <1>2, <1>3 DEF Below

\* The tree does not grow when the references that come in lie elsewhere, or lead to a
\* tree that is left out.
LEMMA BelowShrinks ==
    ASSUME NEW R \in SUBSET Links, NEW R2 \in SUBSET Links, NEW r \in Nodes \cup {NoNode},
           NEW P, NEW P2, P \subseteq P2,
           \A e \in R2 : e \in R \/ e[1] \notin Below(R, r, P) \/ e[2] \in P2
    PROVE  Below(R2, r, P2) \subseteq Below(R, r, P)
<1> DEFINE S == Below(R, r, P)
<1>1. /\ r \in Nodes /\ r \notin P => r \in S
      /\ \A e \in R : e[1] \in S /\ e[2] \notin P => e[2] \in S
  BY BelowFacts
<1> HIDE DEF S
<1>2. /\ r \in Nodes /\ r \notin P2 => r \in S
      /\ \A e \in R2 : e[1] \in S /\ e[2] \notin P2 => e[2] \in S
  BY <1>1 DEF S
<1>3. Below(R2, r, P2) \subseteq S
  BY <1>2, BelowLeast
<1>4. QED
  BY <1>3 DEF S

\* A tree along fewer references is smaller.
LEMMA TreeShrinks ==
    ASSUME NEW R2 \in SUBSET Links, NEW R \in SUBSET R2, NEW n \in Nodes
    PROVE  Tree(R, n) \subseteq Tree(R2, n)
<1>1. R \in SUBSET (Nodes \X Nodes) /\ R2 \in SUBSET (Nodes \X Nodes)
  BY NodeAssumption
<1>2. n \in Tree(R2, n) /\ \A e \in R2 : e[1] \in Tree(R2, n) => e[2] \in Tree(R2, n)
  BY <1>1, TreeClosure
<1>3. \A C : n \in C /\ (\A e \in R : e[1] \in C => e[2] \in C) => Tree(R, n) \subseteq C
  BY <1>1, TreeClosure
<1>4. QED
  BY <1>2, <1>3

\* A broadcast more.
LEMMA AppendMessage ==
    ASSUME NEW q \in Seq(Broadcasts), NEW m \in Broadcasts
    PROVE  /\ Len(Append(q, m)) = Len(q) + 1 /\ Len(q) \in Nat
           /\ Append(q, m) \in Seq(Broadcasts)
           /\ \A i \in 1 .. Len(q) : Append(q, m)[i] = q[i]
           /\ Append(q, m)[Len(q) + 1] = m
           /\ \A k \in 0 .. Len(q) :
                 /\ Added(Append(q, m), k)
                      = Added(q, k) \cup (IF m.kind = "added" THEN {m.child} ELSE {})
                 /\ \A kind, p, n :
                       After(Append(q, m), k, kind, p, n)
                         <=> \/ After(q, k, kind, p, n)
                             \/ m.kind = kind /\ m.parent = p /\ m.child = n
<1> DEFINE t == Append(q, m)
           l == Len(q) + 1
<1>1. /\ Len(t) = l /\ Len(q) \in Nat /\ t \in Seq(Broadcasts)
      /\ \A i \in 1 .. Len(q) : t[i] = q[i]
      /\ t[l] = m
  BY AppendFacts
<1> HIDE DEF t
<1>2. \A i : i \in 1 .. Len(t) <=> i \in 1 .. Len(q) \/ i = l
  BY <1>1
<1> SUFFICES ASSUME NEW k \in 0 .. Len(q)
             PROVE  /\ Added(t, k) = Added(q, k) \cup (IF m.kind = "added" THEN {m.child} ELSE {})
                    /\ \A kind, p, n :
                          After(t, k, kind, p, n)
                            <=> \/ After(q, k, kind, p, n)
                                \/ m.kind = kind /\ m.parent = p /\ m.child = n
  BY <1>1 DEF t
<1>3. l > k
  BY <1>1
<1> HIDE DEF l
<1>4. \A x : x \in Added(t, k) <=> x \in Added(q, k) \/ (m.kind = "added" /\ x = m.child)
  <2>1. \A x : x \in Added(t, k)
                 <=> \E i \in 1 .. Len(t) : i > k /\ t[i].kind = "added" /\ x = t[i].child
    BY DEF Added
  <2>2. \A x : x \in Added(q, k)
                 <=> \E i \in 1 .. Len(q) : i > k /\ q[i].kind = "added" /\ x = q[i].child
    BY DEF Added
  <2>3. QED
    BY <1>1, <1>2, <1>3, <2>1, <2>2
<1>5. ASSUME NEW kind, NEW p, NEW n
      PROVE  After(t, k, kind, p, n)
               <=> \/ After(q, k, kind, p, n)
                   \/ m.kind = kind /\ m.parent = p /\ m.child = n
  BY <1>1, <1>2, <1>3 DEF After
<1>6. QED
  BY <1>4, <1>5

\* The first broadcast is taken.
LEMMA TailMessage ==
    ASSUME NEW q \in Seq(Broadcasts), q # <<>>
    PROVE  /\ Len(q) \in Nat \ {0} /\ Len(Tail(q)) = Len(q) - 1
           /\ Tail(q) \in Seq(Broadcasts) /\ Head(q) = q[1] /\ Head(q) \in Broadcasts
           /\ \A i \in 1 .. Len(Tail(q)) : i + 1 \in 1 .. Len(q) /\ Tail(q)[i] = q[i + 1]
           /\ \A k \in 0 .. Len(Tail(q)) :
                 /\ Added(Tail(q), k) = Added(q, k + 1)
                 /\ \A kind, p, n : After(Tail(q), k, kind, p, n) <=> After(q, k + 1, kind, p, n)
           /\ Added(q, 0) = Added(q, 1) \cup (IF Head(q).kind = "added" THEN {Head(q).child} ELSE {})
           /\ \A kind, p, n :
                 After(q, 0, kind, p, n)
                   <=> \/ After(q, 1, kind, p, n)
                       \/ Head(q).kind = kind /\ Head(q).parent = p /\ Head(q).child = n
<1> DEFINE t == Tail(q)
<1>1. /\ Len(q) \in Nat \ {0} /\ 1 \in 1 .. Len(q) /\ Head(q) = q[1] /\ Head(q) \in Broadcasts
  BY HeadFacts
<1>2. /\ t \in Seq(Broadcasts) /\ Len(t) = Len(q) - 1
      /\ \A i \in 1 .. Len(q) - 1 : t[i] = q[i + 1]
  BY <1>1, TailFacts
<1> HIDE DEF t
<1>3. \A i \in 1 .. Len(t) : i + 1 \in 1 .. Len(q) /\ t[i] = q[i + 1]
  BY <1>1, <1>2
<1>4. \A i \in 1 .. Len(q) : i # 1 => i - 1 \in 1 .. Len(t) /\ t[i - 1] = q[i]
  <2> SUFFICES ASSUME NEW i \in 1 .. Len(q), i # 1
               PROVE  i - 1 \in 1 .. Len(t) /\ t[i - 1] = q[i]
    OBVIOUS
  <2>1. i - 1 \in 1 .. Len(t) /\ i - 1 \in 1 .. Len(q) - 1 /\ (i - 1) + 1 = i
    BY <1>1, <1>2
  <2>2. QED
    BY <1>2, <2>1
<1>5. ASSUME NEW k \in 0 .. Len(t)
      PROVE  /\ Added(t, k) = Added(q, k + 1)
             /\ \A kind, p, n : After(t, k, kind, p, n) <=> After(q, k + 1, kind, p, n)
  <2>1. \A i \in 1 .. Len(t) : i > k => i + 1 > k + 1
    BY <1>2
  <2>2. \A i \in 1 .. Len(q) : i > k + 1 => i # 1 /\ i - 1 > k
    BY <1>1, <1>2
  <2>3. ASSUME NEW x, x \in Added(t, k)
        PROVE  x \in Added(q, k + 1)
    <3>1. PICK i \in 1 .. Len(t) : i > k /\ t[i].kind = "added" /\ x = t[i].child
      BY <2>3 DEF Added
    <3>2. i + 1 \in 1 .. Len(q) /\ i + 1 > k + 1 /\ q[i + 1].kind = "added" /\ x = q[i + 1].child
      BY <1>3, <2>1, <3>1
    <3>3. QED
      BY <3>2 DEF Added
  <2>4. ASSUME NEW x, x \in Added(q, k + 1)
        PROVE  x \in Added(t, k)
    <3>1. PICK i \in 1 .. Len(q) : i > k + 1 /\ q[i].kind = "added" /\ x = q[i].child
      BY <2>4 DEF Added
    <3>2. i - 1 \in 1 .. Len(t) /\ i - 1 > k /\ t[i - 1].kind = "added" /\ x = t[i - 1].child
      BY <1>4, <2>2, <3>1
    <3>3. QED
      BY <3>2 DEF Added
  <2>5. ASSUME NEW kind, NEW p, NEW n, After(t, k, kind, p, n)
        PROVE  After(q, k + 1, kind, p, n)
    <3>1. PICK i \in 1 .. Len(t) : i > k /\ t[i].kind = kind /\ t[i].parent = p /\ t[i].child = n
      BY <2>5 DEF After
    <3>2. /\ i + 1 \in 1 .. Len(q) /\ i + 1 > k + 1
          /\ q[i + 1].kind = kind /\ q[i + 1].parent = p /\ q[i + 1].child = n
      BY <1>3, <2>1, <3>1
    <3>3. QED
      BY <3>2 DEF After
  <2>6. ASSUME NEW kind, NEW p, NEW n, After(q, k + 1, kind, p, n)
        PROVE  After(t, k, kind, p, n)
    <3>1. PICK i \in 1 .. Len(q) : i > k + 1 /\ q[i].kind = kind /\ q[i].parent = p /\ q[i].child = n
      BY <2>6 DEF After
    <3>2. /\ i - 1 \in 1 .. Len(t) /\ i - 1 > k
          /\ t[i - 1].kind = kind /\ t[i - 1].parent = p /\ t[i - 1].child = n
      BY <1>4, <2>2, <3>1
    <3>3. QED
      BY <3>2 DEF After
  <2>7. QED
    BY <2>3, <2>4, <2>5, <2>6
<1>6. \A i \in 1 .. Len(q) : i > 0 /\ (i > 1 <=> i # 1)
  BY <1>1
<1>7. Added(q, 0) = Added(q, 1) \cup (IF q[1].kind = "added" THEN {q[1].child} ELSE {})
  BY <1>1, <1>6 DEF Added
<1>8. ASSUME NEW kind, NEW p, NEW n
      PROVE  After(q, 0, kind, p, n)
               <=> \/ After(q, 1, kind, p, n)
                   \/ q[1].kind = kind /\ q[1].parent = p /\ q[1].child = n
  BY <1>1, <1>6 DEF After
<1>9. QED
  BY <1>1, <1>2, <1>3, <1>5, <1>7, <1>8 DEF t

\* What is added after a place is added.
LEMMA AddedLess ==
    ASSUME NEW q \in Seq(Broadcasts), NEW i \in 1 .. Len(q)
    PROVE  Added(q, i) \subseteq Added(q, 0)
<1>1. \A j \in 1 .. Len(q) : j > i => j > 0
  OBVIOUS
<1>2. QED
  BY <1>1 DEF Added

LEMMA WatchedShrinks ==
    ASSUME NEW R \in SUBSET Links, NEW R2 \in SUBSET Links, NEW player \in Nodes,
           NEW ageNode \in Nodes \cup {NoNode}, NEW P, NEW P2, P \subseteq P2,
           \A e \in R2 : \/ e \in R \/ e[2] \in P2
                         \/ e[1] \notin Reached(R, player, ageNode, P)
    PROVE  /\ Watched(R2, player, ageNode, P2) \subseteq Watched(R, player, ageNode, P)
           /\ Reached(R2, player, ageNode, P2) \subseteq Reached(R, player, ageNode, P)
           /\ Watched(R, player, ageNode, P) \subseteq Reached(R, player, ageNode, P)
<1>1. /\ \A e \in R2 : e \in R \/ e[1] \notin Below(R, player, P) \/ e[2] \in P2
      /\ \A e \in R2 : e \in R \/ e[1] \notin Below(R, ageNode, P) \/ e[2] \in P2
  BY DEF Reached
<1>2. Below(R2, player, P2) \subseteq Below(R, player, P)
  BY <1>1, BelowShrinks
<1>3. Below(R2, ageNode, P2) \subseteq Below(R, ageNode, P)
  BY <1>1, BelowShrinks
<1>4. QED
  BY <1>2, <1>3 DEF Watched, Reached

\* References are removed.
LEMMA FewerRefs ==
    ASSUME NEW R \in SUBSET Links, NEW R2 \in SUBSET R, NEW player \in Nodes,
           NEW ageNode \in Nodes \cup {NoNode}, NEW ver, NEW q, NEW A, NEW vw, NEW kn,
           ClientFollows(R, ver, player, ageNode, q, A, vw, kn)
    PROVE  ClientFollows(R2, ver, player, ageNode, q, A, vw, kn)
<1>1. ASSUME NEW P
      PROVE  /\ Watched(R2, player, ageNode, P) \subseteq Watched(R, player, ageNode, P)
             /\ Reached(R2, player, ageNode, P) \subseteq Reached(R, player, ageNode, P)
  <2>1. R2 \in SUBSET Links /\ \A e \in R2 : e \in R
    OBVIOUS
  <2>2. QED
    BY <2>1, WatchedShrinks
<1>2. VersionsFollow(R2, ver, player, ageNode, q, A, kn)
  BY <1>1 DEF ClientFollows, VersionsFollow
<1>3. RefsFollow(R2, player, ageNode, q, A, vw)
  BY <1>1 DEF ClientFollows, RefsFollow
<1>4. RemovalsFollow(R2, player, ageNode, q)
  BY <1>1 DEF ClientFollows, RemovalsFollow
<1>5. QED
  BY <1>2, <1>3, <1>4 DEF ClientFollows

\* The client is told of something that is so.
LEMMA Told ==
    ASSUME NEW R \in SUBSET Links, NEW player \in Nodes, NEW ageNode \in Nodes \cup {NoNode},
           NEW q \in Seq(Broadcasts), NEW m \in Broadcasts, NEW ver, NEW A, NEW vw, NEW kn,
           ClientFollows(R, ver, player, ageNode, q, A, vw, kn),
           m.kind = "removed" => /\ <<m.parent, m.child>> \notin R
                                 /\ ageNode = NoNode => m.parent \in Tree(Links, player)
    PROVE  ClientFollows(R, ver, player, ageNode, Append(q, m), A, vw, kn)
<1> DEFINE t == Append(q, m)
<1>1. /\ Len(t) = Len(q) + 1 /\ Len(q) \in Nat
      /\ \A i \in 1 .. Len(q) : t[i] = q[i]
      /\ t[Len(q) + 1] = m
  BY AppendMessage
<1>2. \A k \in 0 .. Len(q) :
         /\ Added(q, k) \subseteq Added(t, k)
         /\ \A kind, p, n : After(q, k, kind, p, n) => After(t, k, kind, p, n)
  BY AppendMessage
<1> HIDE DEF t
<1>3. 0 \in 0 .. Len(q) /\ \A i \in 1 .. Len(q) : i \in 0 .. Len(q)
  BY <1>1
<1>4. Pending(q, A) \subseteq Pending(t, A)
  BY <1>2, <1>3 DEF Pending
<1>5. ASSUME NEW P, NEW P2, P \subseteq P2
      PROVE  /\ Watched(R, player, ageNode, P2) \subseteq Watched(R, player, ageNode, P)
             /\ Reached(R, player, ageNode, P2) \subseteq Reached(R, player, ageNode, P)
  BY <1>5, WatchedShrinks
<1>6. /\ Watched(R, player, ageNode, Pending(t, A)) \subseteq Watched(R, player, ageNode, Pending(q, A))
      /\ Reached(R, player, ageNode, Pending(t, A)) \subseteq Reached(R, player, ageNode, Pending(q, A))
  BY <1>4, <1>5
<1>7. VersionsFollow(R, ver, player, ageNode, t, A, kn)
  BY <1>2, <1>3, <1>6 DEF ClientFollows, VersionsFollow
<1>8. RefsFollow(R, player, ageNode, t, A, vw)
  BY <1>2, <1>3, <1>6 DEF ClientFollows, RefsFollow
<1>9. \A i \in 1 .. Len(t) : i \in 1 .. Len(q) \/ i = Len(q) + 1
  BY <1>1
<1>10. RemovalsFollow(R, player, ageNode, t)
  <2> SUFFICES ASSUME NEW i \in 1 .. Len(t), t[i].kind = "removed",
                      <<t[i].parent, t[i].child>> \in R
               PROVE  \/ After(t, i, "added", t[i].parent, t[i].child)
                      \/ t[i].parent \notin Watched(R, player, ageNode, Added(t, i))
    BY DEF RemovalsFollow
  <2>1. i \in 1 .. Len(q) /\ t[i] = q[i]
    BY <1>1, <1>9
  <2>2. \/ After(q, i, "added", q[i].parent, q[i].child)
        \/ q[i].parent \notin Watched(R, player, ageNode, Added(q, i))
    BY <2>1 DEF ClientFollows, RemovalsFollow
  <2>3. Watched(R, player, ageNode, Added(t, i)) \subseteq Watched(R, player, ageNode, Added(q, i))
    BY <1>2, <1>3, <1>5, <2>1
  <2>4. QED
    BY <1>2, <1>3, <2>1, <2>2, <2>3
<1>11. PlayerFirst(player, ageNode, t)
  BY <1>1, <1>9 DEF ClientFollows, PlayerFirst
<1>12. QED
  BY <1>7, <1>8, <1>10, <1>11 DEF ClientFollows, t

\* A reference is added, and the client is told.
LEMMA AddedTold ==
    ASSUME NEW R \in SUBSET Links, NEW player \in Nodes, NEW ageNode \in Nodes \cup {NoNode},
           NEW q \in Seq(Broadcasts), NEW m \in Broadcasts, NEW ver, NEW A, NEW vw, NEW kn,
           ClientFollows(R, ver, player, ageNode, q, A, vw, kn),
           m.kind = "added", <<m.parent, m.child>> \in Links
    PROVE  ClientFollows(R \cup {<<m.parent, m.child>>}, ver, player, ageNode, Append(q, m), A,
                         vw, kn)
<1> DEFINE t == Append(q, m)
           new == <<m.parent, m.child>>
           R2 == R \cup {new}
<1>1. ClientFollows(R, ver, player, ageNode, t, A, vw, kn)
  BY Told
<1>2. /\ Len(t) = Len(q) + 1 /\ Len(q) \in Nat /\ t[Len(q) + 1] = m
      /\ \A k \in 0 .. Len(q) : /\ m.child \in Added(t, k)
                                /\ After(t, k, "added", m.parent, m.child)
  BY AppendMessage
<1>3. R2 \in SUBSET Links /\ \A e \in R2 : e \in R \/ e = new
  OBVIOUS
<1>4. new[1] = m.parent /\ new[2] = m.child
  OBVIOUS
<1> HIDE DEF t, new, R2
<1>5. ASSUME NEW P, m.child \in P
      PROVE  /\ Watched(R2, player, ageNode, P) \subseteq Watched(R, player, ageNode, P)
             /\ Reached(R2, player, ageNode, P) \subseteq Reached(R, player, ageNode, P)
  <2>1. \A e \in R2 : e \in R \/ e[2] \in P
    BY <1>3, <1>4, <1>5
  <2>2. QED
    BY <1>3, <2>1, WatchedShrinks
<1>6. 0 \in 0 .. Len(q) /\ \A i \in 1 .. Len(t) : i \in 0 .. Len(q) \/ i = Len(q) + 1
  BY <1>2
<1>7. m.child \in Pending(t, A)
  BY <1>2, <1>6 DEF Pending
<1>8. VersionsFollow(R2, ver, player, ageNode, t, A, kn)
  BY <1>1, <1>5, <1>7 DEF ClientFollows, VersionsFollow
<1>9. RefsFollow(R2, player, ageNode, t, A, vw)
  <2> SUFFICES ASSUME NEW e \in R2, e[1] \in Watched(R2, player, ageNode, Pending(t, A))
               PROVE  e \in vw \/ After(t, 0, "added", e[1], e[2])
    BY DEF RefsFollow
  <2>1. CASE e \in R
    BY <1>1, <1>5, <1>7, <2>1 DEF ClientFollows, RefsFollow
  <2>2. CASE e = new
    BY <1>2, <1>4, <1>6, <2>2
  <2>3. QED
    BY <1>3, <2>1, <2>2
<1>10. RemovalsFollow(R2, player, ageNode, t)
  <2> SUFFICES ASSUME NEW i \in 1 .. Len(t), t[i].kind = "removed",
                      <<t[i].parent, t[i].child>> \in R2
               PROVE  \/ After(t, i, "added", t[i].parent, t[i].child)
                      \/ t[i].parent \notin Watched(R2, player, ageNode, Added(t, i))
    BY DEF RemovalsFollow
  <2>1. i \in 0 .. Len(q)
    BY <1>2, <1>6
  <2>2. Watched(R2, player, ageNode, Added(t, i)) \subseteq Watched(R, player, ageNode, Added(t, i))
    BY <1>2, <1>5, <2>1
  <2>3. CASE <<t[i].parent, t[i].child>> \in R
    BY <1>1, <2>2, <2>3 DEF ClientFollows, RemovalsFollow
  <2>4. CASE <<t[i].parent, t[i].child>> = new
    <3>1. t[i].parent = m.parent /\ t[i].child = m.child
      BY <2>4 DEF new
    <3>2. QED
      BY <1>2, <2>1, <3>1
  <2>5. QED
    BY <1>3, <2>3, <2>4
<1>11. PlayerFirst(player, ageNode, t)
  BY <1>1 DEF ClientFollows
<1>12. QED
  BY <1>8, <1>9, <1>10, <1>11 DEF ClientFollows, t, R2, new

\* A reference is added that is in none of the client's trees.
LEMMA AddedElsewhere ==
    ASSUME NEW R \in SUBSET Links, NEW player \in Nodes, NEW ageNode \in Nodes \cup {NoNode},
           NEW q \in Seq(Broadcasts), NEW ver, NEW A, NEW vw, NEW kn, NEW p, NEW n,
           ClientFollows(R, ver, player, ageNode, q, A, vw, kn), <<p, n>> \in Links,
           p \notin Tree(R, player), ageNode # NoNode => p \notin Tree(R, ageNode)
    PROVE  ClientFollows(R \cup {<<p, n>>}, ver, player, ageNode, q, A, vw, kn)
<1> DEFINE new == <<p, n>>
           R2 == R \cup {new}
<1>1. R2 \in SUBSET Links /\ (\A e \in R2 : e \in R \/ e = new) /\ new[1] = p
  OBVIOUS
<1> HIDE DEF new, R2
<1>2. ASSUME NEW P
      PROVE  /\ Watched(R2, player, ageNode, P) \subseteq Watched(R, player, ageNode, P)
             /\ Reached(R2, player, ageNode, P) \subseteq Reached(R, player, ageNode, P)
             /\ p \notin Reached(R, player, ageNode, P)
             /\ p \notin Watched(R2, player, ageNode, P)
  <2>1. p \notin Below(R, player, P) /\ p \notin Below(R, ageNode, P)
    BY BelowTree
  <2>2. p \notin Reached(R, player, ageNode, P)
    BY <2>1 DEF Reached
  <2>3. \A e \in R2 : e \in R \/ e[1] \notin Reached(R, player, ageNode, P)
    BY <1>1, <2>2
  <2>4. /\ Watched(R2, player, ageNode, P) \subseteq Watched(R, player, ageNode, P)
        /\ Reached(R2, player, ageNode, P) \subseteq Reached(R, player, ageNode, P)
        /\ Watched(R, player, ageNode, P) \subseteq Reached(R, player, ageNode, P)
    BY <1>1, <2>3, WatchedShrinks
  <2>5. QED
    BY <2>2, <2>4
<1>3. VersionsFollow(R2, ver, player, ageNode, q, A, kn)
  BY <1>2 DEF ClientFollows, VersionsFollow
<1>4. RefsFollow(R2, player, ageNode, q, A, vw)
  <2> SUFFICES ASSUME NEW e \in R2, e[1] \in Watched(R2, player, ageNode, Pending(q, A))
               PROVE  e \in vw \/ After(q, 0, "added", e[1], e[2])
    BY DEF RefsFollow
  <2>1. e \in R
    BY <1>1, <1>2
  <2>2. QED
    BY <1>2, <2>1 DEF ClientFollows, RefsFollow
<1>5. RemovalsFollow(R2, player, ageNode, q)
  <2> SUFFICES ASSUME NEW i \in 1 .. Len(q), q[i].kind = "removed",
                      <<q[i].parent, q[i].child>> \in R2
               PROVE  \/ After(q, i, "added", q[i].parent, q[i].child)
                      \/ q[i].parent \notin Watched(R2, player, ageNode, Added(q, i))
    BY DEF RemovalsFollow
  <2>1. CASE <<q[i].parent, q[i].child>> \in R
    BY <1>2, <2>1 DEF ClientFollows, RemovalsFollow
  <2>2. CASE <<q[i].parent, q[i].child>> = new
    <3>1. q[i].parent = p
      BY <2>2 DEF new
    <3>2. QED
      BY <1>2, <3>1
  <2>3. QED
    BY <1>1, <2>1, <2>2
<1>6. QED
  BY <1>3, <1>4, <1>5 DEF ClientFollows, R2, new

\* The contents of a node change, and the client is told or does not have the node.
LEMMA ChangedTold ==
    ASSUME NEW R \in SUBSET Links, NEW player \in Nodes, NEW ageNode \in Nodes \cup {NoNode},
           NEW q \in Seq(Broadcasts), NEW ver, NEW ver2, NEW A, NEW vw, NEW kn, NEW n,
           ClientFollows(R, ver, player, ageNode, q, A, vw, kn),
           \A x \in Nodes : x # n => ver2[x] = ver[x],
           \/ After(q, 0, "changed", NoNode, n)
           \/ n \notin Tree(R, player) /\ (ageNode # NoNode => n \notin Tree(R, ageNode))
    PROVE  ClientFollows(R, ver2, player, ageNode, q, A, vw, kn)
<1>1. Reached(R, player, ageNode, Pending(q, A)) \subseteq Nodes
  BY BelowFacts DEF Reached
<1>2. \/ After(q, 0, "changed", NoNode, n)
      \/ n \notin Reached(R, player, ageNode, Pending(q, A))
  BY BelowTree DEF Reached
<1>3. VersionsFollow(R, ver2, player, ageNode, q, A, kn)
  BY <1>1, <1>2 DEF ClientFollows, VersionsFollow
<1>4. QED
  BY <1>3 DEF ClientFollows

\* The client comes into an age, and asks for its tree.
LEMMA Joined ==
    ASSUME NEW R \in SUBSET Links, NEW player \in Nodes, NEW age \in Nodes,
           NEW q \in Seq(Broadcasts), NEW ver, NEW A, NEW vw, NEW kn,
           ClientFollows(R, ver, player, NoNode, q, A, vw, kn)
    PROVE  ClientFollows(R, ver, player, age, q, A \cup {Fetch("tree", age)}, vw, kn)
<1> DEFINE A2 == A \cup {Fetch("tree", age)}
           P2 == Pending(q, A2)
<1>1. Pending(q, A) \subseteq P2 /\ age \in P2
  BY DEF Pending
<1> HIDE DEF P2
<1>2. Below(R, age, P2) = {} /\ NoNode \in Nodes \cup {NoNode} /\ age # NoNode
  BY <1>1, NodeAssumption DEF Below
<1>3. Below(R, player, P2) \subseteq Below(R, player, Pending(q, A))
  BY <1>1, BelowShrinks
<1>4. /\ Reached(R, player, age, P2) \subseteq Reached(R, player, NoNode, Pending(q, A))
      /\ Watched(R, player, age, P2) \subseteq Watched(R, player, NoNode, Pending(q, A))
  BY <1>2, <1>3 DEF Reached, Watched
<1>5. VersionsFollow(R, ver, player, age, q, A2, kn)
  BY <1>4 DEF ClientFollows, VersionsFollow, P2
<1>6. RefsFollow(R, player, age, q, A2, vw)
  BY <1>4 DEF ClientFollows, RefsFollow, P2
<1>7. RemovalsFollow(R, player, age, q)
  <2> SUFFICES ASSUME NEW i \in 1 .. Len(q), q[i].kind = "removed",
                      <<q[i].parent, q[i].child>> \in R
               PROVE  \/ After(q, i, "added", q[i].parent, q[i].child)
                      \/ q[i].parent \notin Watched(R, player, age, Added(q, i))
    BY DEF RemovalsFollow
  <2>1. \/ After(q, i, "added", q[i].parent, q[i].child)
        \/ q[i].parent \notin Watched(R, player, NoNode, Added(q, i))
    BY DEF ClientFollows, RemovalsFollow
  <2>2. q[i].parent \in Tree(Links, player)
    BY DEF ClientFollows, PlayerFirst
  <2>3. q[i].parent \in Watched(R, player, age, Added(q, i)) => q[i].parent \in Below(R, player, Added(q, i))
    BY <2>2 DEF Watched
  <2>4. QED
    BY <2>1, <2>3 DEF Watched
<1>8. PlayerFirst(player, age, q)
  BY <1>2 DEF PlayerFirst
<1>9. QED
  BY <1>5, <1>6, <1>7, <1>8 DEF ClientFollows

\* When the tree below n is no longer to come, what a client must know grows by it.
LEMMA TreeComes ==
    ASSUME NEW R \in SUBSET Links, NEW r \in Nodes \cup {NoNode}, NEW n \in Nodes, NEW P, NEW P2,
           \A x \in P : x \in P2 \/ x = n
    PROVE  Below(R, r, P2) \subseteq Below(R, r, P) \cup Tree(R, n)
<1> DEFINE T == Tree(R, n)
           S == Below(R, r, P) \cup T
<1>1. n \in T /\ \A e \in R : e[1] \in T => e[2] \in T
  <2>1. R \in SUBSET (Nodes \X Nodes)
    BY NodeAssumption
  <2>2. QED
    BY <2>1, TreeClosure
<1>2. /\ r \in Nodes /\ r \notin P => r \in Below(R, r, P)
      /\ \A e \in R : e[1] \in Below(R, r, P) /\ e[2] \notin P => e[2] \in Below(R, r, P)
  BY BelowFacts
<1> HIDE DEF T
<1>3. r \in Nodes /\ r \notin P2 => r \in S
  BY <1>1, <1>2
<1>4. \A e \in R : e[1] \in S /\ e[2] \notin P2 => e[2] \in S
  BY <1>1, <1>2
<1> HIDE DEF S
<1>5. Below(R, r, P2) \subseteq S
  BY <1>3, <1>4, BelowLeast
<1>6. QED
  BY <1>5 DEF S, T

\* The client gets the broadcast m.
LEMMA BroadcastGot ==
    ASSUME NEW R \in SUBSET Links, NEW player \in Nodes, NEW ageNode \in Nodes \cup {NoNode},
           NEW q \in Seq(Broadcasts), q # <<>>, NEW ver, NEW A, NEW vw, NEW vw2, NEW kn,
           ClientFollows(R, ver, player, ageNode, q, A, vw, kn), Sound(Head(q)),
           vw2 = CASE Head(q).kind = "added" -> vw \cup {<<Head(q).parent, Head(q).child>>}
                   [] Head(q).kind = "removed" -> vw \ {<<Head(q).parent, Head(q).child>>}
                   [] OTHER -> vw
    PROVE  ClientFollows(R, ver, player, ageNode, Tail(q), A \cup Wanted(Head(q)), vw2, kn)
<1> DEFINE t == Tail(q)
           m == Head(q)
           A2 == A \cup Wanted(m)
<1>1. /\ Len(q) \in Nat \ {0} /\ Len(t) = Len(q) - 1 /\ m = q[1]
      /\ \A i \in 1 .. Len(t) : i + 1 \in 1 .. Len(q) /\ t[i] = q[i + 1]
  BY TailMessage
<1>2. \A k \in 0 .. Len(t) :
         /\ Added(t, k) = Added(q, k + 1)
         /\ \A kind, p, n : After(t, k, kind, p, n) <=> After(q, k + 1, kind, p, n)
  BY TailMessage
<1>3. /\ Added(q, 0) = Added(q, 1) \cup (IF m.kind = "added" THEN {m.child} ELSE {})
      /\ \A kind, p, n :
            After(q, 0, kind, p, n)
              <=> \/ After(q, 1, kind, p, n)
                  \/ m.kind = kind /\ m.parent = p /\ m.child = n
  BY TailMessage
<1>4. /\ Sound(m)
      /\ vw2 = CASE m.kind = "added" -> vw \cup {<<m.parent, m.child>>}
                 [] m.kind = "removed" -> vw \ {<<m.parent, m.child>>}
                 [] OTHER -> vw
  OBVIOUS
<1> HIDE DEF t, m
<1>5. m.kind \in {"added", "changed"} => m.child \in Nodes
  BY <1>4, NodeAssumption DEF Sound
<1>6. 0 \in 0 .. Len(t) /\ \A i \in 1 .. Len(t) : i \in 0 .. Len(t)
  BY <1>1
<1>7. /\ Added(t, 0) = Added(q, 1)
      /\ \A kind, p, n : After(t, 0, kind, p, n) <=> After(q, 1, kind, p, n)
  <2>1. 0 + 1 = 1
    OBVIOUS
  <2>2. QED
    BY <1>2, <1>6, <2>1
<1>8. /\ \A x : Fetch("tree", x) \in A2
                   <=> Fetch("tree", x) \in A \/ (m.kind = "added" /\ x = m.child)
      /\ \A x : Fetch("node", x) \in A2
                   <=> Fetch("node", x) \in A \/ (m.kind = "changed" /\ x = m.child)
  BY DEF Wanted, Fetch
<1> HIDE DEF A2
<1>9. Pending(t, A2) = Pending(q, A)
  BY <1>3, <1>5, <1>7, <1>8 DEF Pending
<1>10. m.kind = "changed" => m.parent = NoNode
  BY <1>4 DEF Sound
<1>11. VersionsFollow(R, ver, player, ageNode, t, A2, kn)
  <2> SUFFICES ASSUME NEW x \in Reached(R, player, ageNode, Pending(q, A))
               PROVE  \/ kn[x] = ver[x]
                      \/ Fetch("node", x) \in A2
                      \/ After(t, 0, "changed", NoNode, x)
    BY <1>9 DEF VersionsFollow
  <2>1. \/ kn[x] = ver[x]
        \/ Fetch("node", x) \in A
        \/ After(q, 0, "changed", NoNode, x)
    BY DEF ClientFollows, VersionsFollow
  <2>2. QED
    BY <1>3, <1>7, <1>8, <2>1
<1>12. RefsFollow(R, player, ageNode, t, A2, vw2)
  <2> SUFFICES ASSUME NEW e \in R, e[1] \in Watched(R, player, ageNode, Pending(q, A))
               PROVE  e \in vw2 \/ After(t, 0, "added", e[1], e[2])
    BY <1>9 DEF RefsFollow
  <2>1. e \in vw \/ After(q, 0, "added", e[1], e[2])
    BY DEF ClientFollows, RefsFollow
  <2>2. e = <<e[1], e[2]>>
    BY NodeAssumption
  <2>3. CASE After(q, 0, "added", e[1], e[2])
    <3>1. CASE After(q, 1, "added", e[1], e[2])
      BY <1>7, <3>1
    <3>2. CASE m.kind = "added" /\ m.parent = e[1] /\ m.child = e[2]
      BY <1>4, <2>2, <3>2
    <3>3. QED
      BY <1>3, <2>3, <3>1, <3>2
  <2>4. CASE e \in vw /\ ~(m.kind = "removed" /\ e = <<m.parent, m.child>>)
    BY <1>4, <2>4
  <2>5. CASE m.kind = "removed" /\ e = <<m.parent, m.child>>
    <3>1. q[1].kind = "removed" /\ q[1].parent = e[1] /\ q[1].child = e[2] /\ 1 \in 1 .. Len(q)
      BY <1>1, <2>5
    <3>2. \/ After(q, 1, "added", e[1], e[2])
          \/ e[1] \notin Watched(R, player, ageNode, Added(q, 1))
      BY <2>2, <3>1 DEF ClientFollows, RemovalsFollow
    <3>3. Added(q, 1) \subseteq Pending(q, A)
      BY <1>3 DEF Pending
    <3>4. Watched(R, player, ageNode, Pending(q, A)) \subseteq Watched(R, player, ageNode, Added(q, 1))
      BY <3>3, WatchedShrinks
    <3>5. QED
      BY <1>7, <3>2, <3>4
  <2>6. QED
    BY <2>1, <2>3, <2>4, <2>5
<1>13. RemovalsFollow(R, player, ageNode, t)
  <2> SUFFICES ASSUME NEW i \in 1 .. Len(t), t[i].kind = "removed",
                      <<t[i].parent, t[i].child>> \in R
               PROVE  \/ After(t, i, "added", t[i].parent, t[i].child)
                      \/ t[i].parent \notin Watched(R, player, ageNode, Added(t, i))
    BY DEF RemovalsFollow
  <2>1. i + 1 \in 1 .. Len(q) /\ t[i] = q[i + 1] /\ i \in 0 .. Len(t)
    BY <1>1, <1>6
  <2>2. \/ After(q, i + 1, "added", t[i].parent, t[i].child)
        \/ t[i].parent \notin Watched(R, player, ageNode, Added(q, i + 1))
    BY <2>1 DEF ClientFollows, RemovalsFollow
  <2>3. QED
    BY <1>2, <2>1, <2>2
<1>14. PlayerFirst(player, ageNode, t)
  BY <1>1 DEF ClientFollows, PlayerFirst
<1>15. QED
  BY <1>11, <1>12, <1>13, <1>14 DEF ClientFollows, t, m, A2

-----------------------------------------------------------------------------
(* The steps.                                                                *)

LEMMA Places ==
    ASSUME StateTypes, NEW c \in Clients
    PROVE  /\ Player[c] \in Nodes /\ Player[c] # NoNode
           /\ m_ageNodeId[c] \in Nodes \cup {NoNode}
           /\ refs \in SUBSET Links
  BY NodeAssumption DEF StateTypes

LEMMA ComingTypes ==
    ASSUME IInv, NEW c \in Clients
    PROVE  /\ Coming(c) \in Seq(Broadcasts)
           /\ bcast.left = {} => Coming(c) = m_broadcast[c]
<1>1. m_broadcast[c] \in Seq(Broadcasts) /\ bcast.msg \in Broadcasts
  BY DEF IInv, ChannelTypes
<1>2. Append(m_broadcast[c], bcast.msg) \in Seq(Broadcasts)
  BY <1>1, AppendMessage
<1>3. QED
  BY <1>1, <1>2 DEF Coming

\* Nothing of what the client is told has changed.
LEMMA ComingSame ==
    ASSUME NEW c \in Clients, UNCHANGED <<refs, bcast>>, m_broadcast'[c] = m_broadcast[c],
           m_ageNodeId'[c] = m_ageNodeId[c]
    PROVE  Coming(c)' = Coming(c)
  BY DEF Coming, Holds, v_has_node

\* The daemon's visit does not change what a client will be told.
LEMMA ComingVisit ==
    ASSUME IInv, NEW c \in bcast.left, dm_auth_bcast(c), NEW d \in Clients
    PROVE  Coming(d)' = Coming(d)
<1>1. /\ UNCHANGED <<refs, m_ageNodeId>> /\ bcast' = [bcast EXCEPT !.left = bcast.left \ {c}]
      /\ IF Holds(c, Subject(bcast.msg))
         THEN m_broadcast' = [m_broadcast EXCEPT ![c] = Append(m_broadcast[c], bcast.msg)]
         ELSE UNCHANGED m_broadcast
  BY DEF dm_auth_bcast, vaultVars
<1>2. /\ bcast'.msg = bcast.msg /\ bcast'.left = bcast.left \ {c}
      /\ m_broadcast \in [Clients -> Seq(Broadcasts)] /\ c \in Clients
  BY <1>1 DEF IInv, ChannelTypes
<1>3. \A x : Holds(d, x)' <=> Holds(d, x)
  BY <1>1 DEF Holds, v_has_node
<1>4. Holds(d, Subject(bcast.msg))' <=> Holds(d, Subject(bcast.msg))
  BY <1>1, <1>2 DEF Holds, v_has_node, Subject
<1>5. CASE d = c
  <2>1. Coming(d)' = m_broadcast'[d]
    BY <1>2, <1>5 DEF Coming
  <2>2. CASE Holds(c, Subject(bcast.msg))
    BY <1>1, <1>2, <1>5, <2>1, <2>2 DEF Coming
  <2>3. CASE ~Holds(c, Subject(bcast.msg))
    BY <1>1, <1>2, <1>5, <2>1, <2>3 DEF Coming
  <2>4. QED
    BY <2>2, <2>3
<1>6. CASE d # c
  <2>1. m_broadcast'[d] = m_broadcast[d]
    BY <1>1, <1>2, <1>6
  <2>2. QED
    BY <1>2, <1>4, <1>6, <2>1 DEF Coming
<1>7. QED
  BY <1>5, <1>6

LEMMA TailAppend ==
    ASSUME NEW q \in Seq(Broadcasts), q # <<>>, NEW m \in Broadcasts
    PROVE  Tail(Append(q, m)) = Append(Tail(q), m) /\ Head(Append(q, m)) = Head(q)
  OBVIOUS

\* A change that is announced: who is told.
LEMMA ComingAnnounced ==
    ASSUME IInv, RestInv, DaemonIdle, NEW kind \in {"added", "removed", "changed"},
           NEW p \in Nodes \cup {NoNode}, NEW n \in Nodes, Announce(kind, p, n),
           NEW c \in Clients, wpc[c] \in Looping,
           NEW m, m = Broadcast(changes + 1, kind, p, n)
    PROVE  /\ m \in Broadcasts /\ Coming(c) = m_broadcast[c]
           /\ m_broadcast[c] \in Seq(Broadcasts)
           /\ UNCHANGED <<wpc, m_ageNodeId, view, known, Asked(c)>>
           /\ Coming(c)' = IF \/ m_ageNodeId[c] # NoNode /\ Subject(m) \in Tree(refs', m_ageNodeId[c])
                              \/ Subject(m) \in Tree(refs', Player[c])
                           THEN Append(m_broadcast[c], m)
                           ELSE m_broadcast[c]
<1>1. /\ bcast' = [msg |-> m, left |-> s_authClients]
      /\ UNCHANGED <<wpc, m_broadcast, m_ageNodeId, view, known, requests>>
      /\ changes + 1 \in Buffers
  BY ChangesAssumption DEF Announce, clientVars, IInv, ChannelTypes, Buffers
<1>2. m \in Broadcasts
  BY <1>1 DEF Broadcast, Broadcasts
<1>3. Coming(c) = m_broadcast[c] /\ m_broadcast[c] \in Seq(Broadcasts)
  BY DEF Coming, DaemonIdle, Quiet, IInv, ChannelTypes
<1>4. bcast'.msg = m /\ bcast'.left = s_authClients /\ c \in s_authClients
  BY <1>1 DEF RestInv, WorkerInv
<1>5. Player[c] # NoNode
  BY NodeAssumption
<1>6. Holds(c, Subject(bcast.msg))'
        <=> \/ m_ageNodeId[c] # NoNode /\ Subject(m) \in Tree(refs', m_ageNodeId[c])
            \/ Subject(m) \in Tree(refs', Player[c])
  BY <1>1, <1>4, <1>5 DEF Holds, v_has_node, Subject
<1>7. Coming(c)' = IF Holds(c, Subject(bcast.msg))' THEN Append(m_broadcast[c], m)
                                                    ELSE m_broadcast[c]
  BY <1>1, <1>4 DEF Coming
<1>8. Asked(c)' = Asked(c)
  BY <1>1 DEF Asked
<1>9. QED
  BY <1>1, <1>2, <1>3, <1>6, <1>7, <1>8

\* What a client follows, after a step that is not about it.
LEMMA NotAbout ==
    ASSUME FollowInv, NEW c \in Clients, wpc'[c] \in Looping => wpc[c] \in Looping,
           UNCHANGED <<refs, version>>, Coming(c)' = Coming(c), requests'[c] = requests[c],
           m_ageNodeId'[c] = m_ageNodeId[c], view'[c] = view[c], known'[c] = known[c]
    PROVE  wpc'[c] \in Looping => Follows(c)'
<1>1. Asked(c)' = Asked(c)
  BY DEF Asked
<1>2. wpc'[c] \in Looping => Follows(c)
  BY DEF FollowInv
<1>3. QED
  BY <1>1, <1>2 DEF Follows

\* e_VaultRefNode
LEMMA RefFollows ==
    ASSUME IInv, RestInv, FollowInv, NEW p, NEW n, v_ref_node(p, n),
           NEW c \in Clients, wpc'[c] \in Looping
    PROVE  Follows(c)'
<1> DEFINE m == Broadcast(changes + 1, "added", p, n)
           q == m_broadcast[c]
<1>1. /\ DaemonIdle /\ <<p, n>> \in Links /\ Announce("added", p, n)
      /\ refs' = refs \cup {<<p, n>>} /\ UNCHANGED version
  BY DEF v_ref_node
<1>2. p \in Nodes /\ n \in Nodes /\ wpc[c] \in Looping
  BY <1>1, NodeAssumption DEF Announce
<1>3. /\ m \in Broadcasts /\ Coming(c) = q /\ q \in Seq(Broadcasts)
      /\ UNCHANGED <<m_ageNodeId, view, known, Asked(c)>>
      /\ Coming(c)' = IF \/ m_ageNodeId[c] # NoNode /\ Subject(m) \in Tree(refs', m_ageNodeId[c])
                         \/ Subject(m) \in Tree(refs', Player[c])
                      THEN Append(q, m)
                      ELSE q
  BY <1>1, <1>2, ComingAnnounced
<1>4. m.kind = "added" /\ m.parent = p /\ m.child = n /\ Subject(m) = p
  BY DEF Broadcast, Subject
<1>5. /\ Player[c] \in Nodes /\ m_ageNodeId[c] \in Nodes \cup {NoNode} /\ refs \in SUBSET Links
  BY Places DEF RestInv
<1>6. Follows(c)
  BY <1>2 DEF FollowInv
<1> HIDE DEF m, q
<1>7. CASE Coming(c)' = Append(q, m)
  BY <1>1, <1>3, <1>4, <1>5, <1>6, <1>7, AddedTold DEF Follows
<1>8. CASE /\ Coming(c)' = q /\ p \notin Tree(refs', Player[c])
           /\ m_ageNodeId[c] # NoNode => p \notin Tree(refs', m_ageNodeId[c])
  <2>1. refs' \in SUBSET Links /\ refs \in SUBSET refs'
    BY <1>1, <1>5
  <2>2. \A r \in Nodes : Tree(refs, r) \subseteq Tree(refs', r)
    BY <2>1, TreeShrinks
  <2>3. /\ p \notin Tree(refs, Player[c])
        /\ m_ageNodeId[c] # NoNode => p \notin Tree(refs, m_ageNodeId[c])
    BY <1>5, <1>8, <2>2
  <2>4. QED
    BY <1>1, <1>3, <1>5, <1>6, <1>8, <2>3, AddedElsewhere DEF Follows
<1>9. QED
  BY <1>3, <1>4, <1>7, <1>8

\* e_VaultUnrefNode
LEMMA UnrefFollows ==
    ASSUME IInv, RestInv, FollowInv, NEW p, NEW n, v_unref_node(p, n),
           NEW c \in Clients, wpc'[c] \in Looping
    PROVE  Follows(c)'
<1> DEFINE m == Broadcast(changes + 1, "removed", p, n)
           q == m_broadcast[c]
<1>1. /\ DaemonIdle /\ <<p, n>> \in Links /\ Announce("removed", p, n)
      /\ refs' = refs \ {<<p, n>>} /\ UNCHANGED version
  BY DEF v_unref_node
<1>2. p \in Nodes /\ n \in Nodes /\ wpc[c] \in Looping
  BY <1>1, NodeAssumption DEF Announce
<1>3. /\ m \in Broadcasts /\ Coming(c) = q /\ q \in Seq(Broadcasts)
      /\ UNCHANGED <<m_ageNodeId, view, known, Asked(c)>>
      /\ Coming(c)' = IF \/ m_ageNodeId[c] # NoNode /\ Subject(m) \in Tree(refs', m_ageNodeId[c])
                         \/ Subject(m) \in Tree(refs', Player[c])
                      THEN Append(q, m)
                      ELSE q
  BY <1>1, <1>2, ComingAnnounced
<1>4. m.kind = "removed" /\ m.parent = p /\ m.child = n /\ Subject(m) = p
  BY DEF Broadcast, Subject
<1>5. /\ Player[c] \in Nodes /\ m_ageNodeId[c] \in Nodes \cup {NoNode} /\ refs \in SUBSET Links
  BY Places DEF RestInv
<1>6. Follows(c)
  BY <1>2 DEF FollowInv
<1> HIDE DEF m, q
<1>7. refs' \in SUBSET refs /\ refs' \in SUBSET Links /\ <<p, n>> \notin refs'
  BY <1>1, <1>5
<1>8. ClientFollows(refs', version, Player[c], m_ageNodeId[c], q, Asked(c), view[c], known[c])
  BY <1>3, <1>5, <1>6, <1>7, FewerRefs DEF Follows
<1>9. CASE /\ Coming(c)' = Append(q, m)
           /\ \/ m_ageNodeId[c] # NoNode /\ p \in Tree(refs', m_ageNodeId[c])
              \/ p \in Tree(refs', Player[c])
  <2>1. m_ageNodeId[c] = NoNode => p \in Tree(Links, Player[c])
    <3>1. Links \in SUBSET Links /\ refs' \in SUBSET Links
      BY <1>7
    <3>2. Tree(refs', Player[c]) \subseteq Tree(Links, Player[c])
      BY <1>5, <3>1, TreeShrinks
    <3>3. QED
      BY <1>9, <3>2
  <2>2. <<m.parent, m.child>> \notin refs'
    BY <1>4, <1>7
  <2>3. ClientFollows(refs', version, Player[c], m_ageNodeId[c], Append(q, m), Asked(c), view[c],
                      known[c])
    BY <1>3, <1>4, <1>5, <1>7, <1>8, <2>1, <2>2, Told
  <2>4. QED
    BY <1>1, <1>3, <1>9, <2>3 DEF Follows
<1>10. CASE Coming(c)' = q
  BY <1>1, <1>3, <1>8, <1>10 DEF Follows
<1>11. QED
  BY <1>3, <1>4, <1>9, <1>10

\* e_VaultUpdateNode
LEMMA UpdateFollows ==
    ASSUME IInv, RestInv, FollowInv, NEW n \in Nodes, v_update_node(n),
           NEW c \in Clients, wpc'[c] \in Looping
    PROVE  Follows(c)'
<1> DEFINE m == Broadcast(changes + 1, "changed", NoNode, n)
           q == m_broadcast[c]
<1>1. /\ DaemonIdle /\ Announce("changed", NoNode, n)
      /\ version' = [version EXCEPT ![n] = changes + 1] /\ UNCHANGED refs
  BY DEF v_update_node
<1>2. wpc[c] \in Looping
  BY <1>1 DEF Announce
<1>3. /\ m \in Broadcasts /\ Coming(c) = q /\ q \in Seq(Broadcasts)
      /\ UNCHANGED <<m_ageNodeId, view, known, Asked(c)>>
      /\ Coming(c)' = IF \/ m_ageNodeId[c] # NoNode /\ Subject(m) \in Tree(refs', m_ageNodeId[c])
                         \/ Subject(m) \in Tree(refs', Player[c])
                      THEN Append(q, m)
                      ELSE q
  BY <1>1, <1>2, ComingAnnounced
<1>4. m.kind = "changed" /\ m.parent = NoNode /\ m.child = n /\ Subject(m) = n
  BY DEF Broadcast, Subject
<1>5. /\ Player[c] \in Nodes /\ m_ageNodeId[c] \in Nodes \cup {NoNode} /\ refs \in SUBSET Links
  BY Places DEF RestInv
<1>6. ClientFollows(refs, version, Player[c], m_ageNodeId[c], q, Asked(c), view[c], known[c])
  BY <1>2, <1>3 DEF FollowInv, Follows
<1>7. \A x \in Nodes : x # n => version'[x] = version[x]
  BY <1>1 DEF RestInv, StateTypes
<1> HIDE DEF m, q
<1>8. CASE Coming(c)' = Append(q, m)
  <2>1. ClientFollows(refs, version, Player[c], m_ageNodeId[c], Append(q, m), Asked(c), view[c],
                      known[c])
    BY <1>3, <1>4, <1>5, <1>6, Told
  <2>2. Append(q, m) \in Seq(Broadcasts) /\ 0 \in 0 .. Len(q)
        /\ \A k \in 0 .. Len(q) : \A kind, x, y :
              After(Append(q, m), k, kind, x, y)
                <=> After(q, k, kind, x, y) \/ (m.kind = kind /\ m.parent = x /\ m.child = y)
    BY <1>3, AppendMessage
  <2>3. After(Append(q, m), 0, "changed", NoNode, n)
    BY <1>4, <2>2
  <2>4. ClientFollows(refs, version', Player[c], m_ageNodeId[c], Append(q, m), Asked(c), view[c],
                      known[c])
    BY <1>5, <1>7, <2>1, <2>2, <2>3, ChangedTold
  <2>5. QED
    BY <1>1, <1>3, <1>8, <2>4 DEF Follows
<1>9. CASE /\ Coming(c)' = q /\ n \notin Tree(refs', Player[c])
           /\ m_ageNodeId[c] # NoNode => n \notin Tree(refs', m_ageNodeId[c])
  <2>1. ClientFollows(refs, version', Player[c], m_ageNodeId[c], q, Asked(c), view[c], known[c])
    BY <1>1, <1>3, <1>5, <1>6, <1>7, <1>9, ChangedTold
  <2>2. QED
    BY <1>1, <1>3, <1>9, <2>1 DEF Follows
<1>10. QED
  BY <1>3, <1>4, <1>8, <1>9

\* dm_auth_deletePlayer
LEMMA DeleteFollows ==
    ASSUME IInv, RestInv, FollowInv, NEW info, dm_auth_deletePlayer(info),
           NEW c \in Clients, wpc'[c] \in Looping
    PROVE  Follows(c)'
<1>1. /\ bcast.left = {} /\ refs' \in SUBSET refs /\ wpc[c] \in Looping
      /\ UNCHANGED <<version, bcast, m_broadcast, m_ageNodeId, view, known, requests>>
  BY DEF dm_auth_deletePlayer, DaemonIdle, Quiet, bufferVars, clientVars
<1>2. Coming(c)' = Coming(c)
  BY <1>1 DEF Coming
<1>3. Asked(c)' = Asked(c)
  BY <1>1 DEF Asked
<1>4. Follows(c)
  BY <1>1 DEF FollowInv
<1>5. /\ Player[c] \in Nodes /\ m_ageNodeId[c] \in Nodes \cup {NoNode} /\ refs \in SUBSET Links
  BY Places DEF RestInv
<1>6. ClientFollows(refs', version, Player[c], m_ageNodeId[c], Coming(c), Asked(c), view[c],
                    known[c])
  BY <1>1, <1>4, <1>5, FewerRefs DEF Follows
<1>7. QED
  BY <1>1, <1>2, <1>3, <1>6 DEF Follows

\* dm_auth_updateAgeSrv
LEMMA JoinFollows ==
    ASSUME IInv, RestInv, FollowInv, NEW c \in Clients, NEW a \in Ages,
           dm_auth_updateAgeSrv(c, a)
    PROVE  Follows(c)'
<1>1. /\ bcast.left = {} /\ m_ageNodeId[c] = NoNode /\ wpc[c] \in Looping
      /\ m_ageNodeId' = [m_ageNodeId EXCEPT ![c] = a]
      /\ UNCHANGED <<refs, version, bcast, m_broadcast, view, known>>
  BY DEF dm_auth_updateAgeSrv, DaemonIdle, Quiet, vaultVars, bufferVars, RestInv, WorkerInv
<1>2. m_ageNodeId'[c] = a /\ a \in Nodes
  BY <1>1, NodeAssumption DEF RestInv, StateTypes
<1>3. Coming(c)' = Coming(c) /\ Coming(c) \in Seq(Broadcasts)
  BY <1>1, ComingTypes DEF Coming
<1>4. Asked(c)' = Asked(c) \cup {Fetch("tree", a)}
  BY JoinAsks DEF RestInv
<1>5. Player[c] \in Nodes /\ refs \in SUBSET Links
  BY Places DEF RestInv
<1>6. ClientFollows(refs, version, Player[c], NoNode, Coming(c), Asked(c), view[c], known[c])
  BY <1>1 DEF FollowInv, Follows
<1>7. ClientFollows(refs, version, Player[c], a, Coming(c), Asked(c) \cup {Fetch("tree", a)},
                    view[c], known[c])
  BY <1>2, <1>3, <1>5, <1>6, Joined
<1>8. QED
  BY <1>1, <1>2, <1>3, <1>4, <1>7 DEF Follows

\* A client that has just been connected waits for its player's tree.
LEMMA ConnectFollows ==
    ASSUME IInv, RestInv, FollowInv, NEW c \in Clients, Connect(c)
    PROVE  Follows(c)'
<1>1. /\ bcast.left = {} /\ wpc[c] = "out"
      /\ UNCHANGED <<refs, version, bcast, m_broadcast, m_ageNodeId, view, known>>
  BY DEF Connect, DaemonIdle, Quiet, vaultVars, bufferVars
<1>2. m_ageNodeId[c] = NoNode /\ m_broadcast[c] = <<>>
  BY <1>1 DEF RestInv, WorkerInv
<1>3. Coming(c)' = <<>>
  BY <1>1, <1>2 DEF Coming
<1>4. Fetch("tree", Player[c]) \in Asked(c)' /\ Player[c] \in Nodes
  BY ConnectAsks, NodeAssumption DEF RestInv
<1>5. Player[c] \in Pending(Coming(c)', Asked(c)')
  BY <1>4 DEF Pending
<1>6. /\ Reached(refs, Player[c], NoNode, Pending(Coming(c)', Asked(c)')) = {}
      /\ Watched(refs, Player[c], NoNode, Pending(Coming(c)', Asked(c)')) = {}
  BY <1>5 DEF Reached, Watched, Below
<1>7. ClientFollows(refs, version, Player[c], NoNode, Coming(c)', Asked(c)', view[c], known[c])
  BY <1>3, <1>6 DEF ClientFollows, VersionsFollow, RefsFollow, RemovalsFollow, PlayerFirst
<1>8. QED
  BY <1>1, <1>2, <1>7 DEF Follows

\* cb_nodeTree
LEMMA TreeFollows ==
    ASSUME IInv, RestInv, FollowInv, NEW c \in Clients, NEW n \in Nodes, cb_nodeTree(c, n)
    PROVE  Follows(c)'
<1>1. /\ wpc[c] \in Looping
      /\ view' = [view EXCEPT ![c] = view[c] \cup {e \in refs : e[1] \in Tree(refs, n)}]
      /\ UNCHANGED <<refs, version, bcast, m_broadcast, m_ageNodeId, known>>
  BY DEF cb_nodeTree, Serve, vaultVars, bufferVars, Looping
<1>2. view'[c] = view[c] \cup {e \in refs : e[1] \in Tree(refs, n)}
  BY <1>1 DEF RestInv, StateTypes
<1>3. Coming(c)' = Coming(c) /\ Coming(c) \in Seq(Broadcasts)
  BY <1>1, ComingTypes, ComingSame
<1>4. PICK F : /\ Asked(c) = {Fetch("tree", n)} \cup F
               /\ Asked(c)' = F \cup FetchNodes(Tree(refs, n))
  BY TreeAsks DEF RestInv
<1>5. /\ Player[c] \in Nodes /\ m_ageNodeId[c] \in Nodes \cup {NoNode} /\ refs \in SUBSET Links
  BY Places DEF RestInv
<1>6. ClientFollows(refs, version, Player[c], m_ageNodeId[c], Coming(c), Asked(c), view[c],
                    known[c])
  BY <1>1 DEF FollowInv, Follows
<1> DEFINE T == Tree(refs, n)
           q == Coming(c)
           A == Asked(c)
           A2 == Asked(c)'
           player == Player[c]
           ageNode == m_ageNodeId[c]
<1>7. A = {Fetch("tree", n)} \cup F /\ A2 = F \cup FetchNodes(T)
  BY <1>4
<1>8. /\ \A x : Fetch("node", x) \in A => Fetch("node", x) \in A2
      /\ \A x \in T : Fetch("node", x) \in A2
      /\ \A x : Fetch("tree", x) \in A => Fetch("tree", x) \in A2 \/ x = n
  BY <1>7 DEF Fetch, FetchNodes
<1>9. \A x \in Pending(q, A) : x \in Pending(q, A2) \/ x = n
  BY <1>8 DEF Pending
<1> HIDE DEF A, A2, q, player, ageNode, T
<1>10. /\ Below(refs, player, Pending(q, A2)) \subseteq Below(refs, player, Pending(q, A)) \cup T
       /\ Below(refs, ageNode, Pending(q, A2)) \subseteq Below(refs, ageNode, Pending(q, A)) \cup T
  BY <1>5, <1>9, TreeComes DEF player, ageNode, T
<1>11. /\ Reached(refs, player, ageNode, Pending(q, A2))
            \subseteq Reached(refs, player, ageNode, Pending(q, A)) \cup T
       /\ Watched(refs, player, ageNode, Pending(q, A2))
            \subseteq Watched(refs, player, ageNode, Pending(q, A)) \cup T
  BY <1>10 DEF Reached, Watched
<1>12. ClientFollows(refs, version, player, ageNode, q, A, view[c], known[c])
  BY <1>6 DEF q, A, player, ageNode
<1>13. VersionsFollow(refs, version, player, ageNode, q, A2, known[c])
  BY <1>8, <1>11, <1>12 DEF ClientFollows, VersionsFollow
<1>14. \A e \in refs : (e[1] \in T => e \in view'[c]) /\ (e \in view[c] => e \in view'[c])
  BY <1>2 DEF T
<1>15. RefsFollow(refs, player, ageNode, q, A2, view'[c])
  BY <1>11, <1>12, <1>14 DEF ClientFollows, RefsFollow
<1>16. ClientFollows(refs, version, player, ageNode, q, A2, view'[c], known[c])
  BY <1>12, <1>13, <1>15 DEF ClientFollows
<1>17. QED
  BY <1>1, <1>3, <1>16 DEF Follows, q, A2, player, ageNode

\* cb_nodeFetch
LEMMA NodeFollows ==
    ASSUME IInv, RestInv, FollowInv, NEW c \in Clients, NEW n \in Nodes, cb_nodeFetch(c, n)
    PROVE  Follows(c)'
<1>1. /\ wpc[c] \in Looping /\ known' = [known EXCEPT ![c][n] = version[n]]
      /\ UNCHANGED <<refs, version, bcast, m_broadcast, m_ageNodeId, view>>
  BY DEF cb_nodeFetch, Serve, vaultVars, bufferVars, Looping
<1>2. \A x \in Nodes : known'[c][x] = IF x = n THEN version[n] ELSE known[c][x]
  BY <1>1 DEF RestInv, StateTypes
<1>3. Coming(c)' = Coming(c) /\ Coming(c) \in Seq(Broadcasts)
  BY <1>1, ComingTypes, ComingSame
<1>4. Asked(c) = {Fetch("node", n)} \cup Asked(c)'
  BY NodeAsks DEF RestInv
<1>5. /\ Player[c] \in Nodes /\ m_ageNodeId[c] \in Nodes \cup {NoNode} /\ refs \in SUBSET Links
  BY Places DEF RestInv
<1>6. ClientFollows(refs, version, Player[c], m_ageNodeId[c], Coming(c), Asked(c), view[c],
                    known[c])
  BY <1>1 DEF FollowInv, Follows
<1> DEFINE q == Coming(c)
           A == Asked(c)
           A2 == Asked(c)'
           player == Player[c]
           ageNode == m_ageNodeId[c]
<1>7. /\ \A x : Fetch("tree", x) \in A <=> Fetch("tree", x) \in A2
      /\ \A x : Fetch("node", x) \in A => Fetch("node", x) \in A2 \/ x = n
  BY <1>4 DEF Fetch
<1> HIDE DEF A, A2, q, player, ageNode
<1>8. Pending(q, A2) = Pending(q, A)
  BY <1>7 DEF Pending
<1>9. Reached(refs, player, ageNode, Pending(q, A)) \subseteq Nodes
  BY <1>5, BelowFacts DEF Reached, player, ageNode
<1>10. ClientFollows(refs, version, player, ageNode, q, A, view[c], known[c])
  BY <1>6 DEF q, A, player, ageNode
<1>11. VersionsFollow(refs, version, player, ageNode, q, A2, known'[c])
  BY <1>2, <1>7, <1>8, <1>9, <1>10 DEF ClientFollows, VersionsFollow
<1>12. ClientFollows(refs, version, player, ageNode, q, A2, view[c], known'[c])
  BY <1>8, <1>10, <1>11 DEF ClientFollows, RefsFollow
<1>13. QED
  BY <1>1, <1>3, <1>12 DEF Follows, q, A2, player, ageNode

\* cb_broadcast
LEMMA BroadcastFollows ==
    ASSUME IInv, RestInv, FollowInv, NEW c \in Clients, cb_broadcast(c)
    PROVE  Follows(c)'
<1> DEFINE q == Coming(c)
           m == Head(m_broadcast[c])
           e == <<m.parent, m.child>>
           vw2 == CASE m.kind = "added" -> view[c] \cup {e}
                    [] m.kind = "removed" -> view[c] \ {e}
                    [] OTHER -> view[c]
<1>1. /\ wpc[c] \in Looping /\ m_broadcast[c] # <<>> /\ view' = [view EXCEPT ![c] = vw2]
      /\ m_broadcast' = [m_broadcast EXCEPT ![c] = Tail(m_broadcast[c])]
      /\ UNCHANGED <<refs, version, bcast, m_ageNodeId, known>>
  BY DEF cb_broadcast, vaultVars, Looping
<1>2. view'[c] = vw2 /\ m_broadcast'[c] = Tail(m_broadcast[c])
  BY <1>1 DEF RestInv, StateTypes, IInv, ChannelTypes
<1>3. m_broadcast[c] \in Seq(Broadcasts) /\ bcast.msg \in Broadcasts
  BY DEF IInv, ChannelTypes
<1>4. Coming(c)' = Tail(q) /\ Head(q) = m /\ q # <<>> /\ q \in Seq(Broadcasts)
  <2>1. Holds(c, Subject(bcast.msg))' <=> Holds(c, Subject(bcast.msg))
    BY <1>1 DEF Holds, v_has_node
  <2>2. CASE c \in bcast.left /\ Holds(c, Subject(bcast.msg))
    <3>1. q = Append(m_broadcast[c], bcast.msg) /\ q \in Seq(Broadcasts)
      BY <2>2, ComingTypes DEF Coming
    <3>2. Coming(c)' = Append(Tail(m_broadcast[c]), bcast.msg)
      BY <1>1, <1>2, <2>1, <2>2 DEF Coming
    <3>3. Tail(q) = Append(Tail(m_broadcast[c]), bcast.msg) /\ Head(q) = m
      BY <1>1, <1>3, <3>1, TailAppend
    <3>4. Len(q) = Len(m_broadcast[c]) + 1 /\ Len(m_broadcast[c]) \in Nat
      BY <1>3, <3>1, AppendMessage
    <3>5. q # <<>>
      BY <3>4
    <3>6. QED
      BY <3>1, <3>2, <3>3, <3>5
  <2>3. CASE ~(c \in bcast.left /\ Holds(c, Subject(bcast.msg)))
    BY <1>1, <1>2, <1>3, <2>1, <2>3 DEF Coming
  <2>4. QED
    BY <2>2, <2>3
<1>5. Asked(c)' = Asked(c) \cup Wanted(m) /\ Sound(m)
  BY BroadcastAsks DEF RestInv
<1>6. /\ Player[c] \in Nodes /\ m_ageNodeId[c] \in Nodes \cup {NoNode} /\ refs \in SUBSET Links
  BY Places DEF RestInv
<1>7. ClientFollows(refs, version, Player[c], m_ageNodeId[c], q, Asked(c), view[c], known[c])
  BY <1>1 DEF FollowInv, Follows
<1> HIDE DEF q, m
<1>8. ClientFollows(refs, version, Player[c], m_ageNodeId[c], Tail(q),
                    Asked(c) \cup Wanted(Head(q)), vw2, known[c])
  <2>1. vw2 = CASE Head(q).kind = "added" -> view[c] \cup {<<Head(q).parent, Head(q).child>>}
                [] Head(q).kind = "removed" -> view[c] \ {<<Head(q).parent, Head(q).child>>}
                [] OTHER -> view[c]
    BY <1>4
  <2> HIDE DEF vw2
  <2>2. Sound(Head(q))
    BY <1>4, <1>5
  <2>3. QED
    BY <1>4, <1>6, <1>7, <2>1, <2>2, BroadcastGot
<1> HIDE DEF vw2
<1>9. QED
  BY <1>1, <1>2, <1>4, <1>5, <1>8 DEF Follows

LEMMA FollowStep ==
    ASSUME IInv, RestInv, FollowInv, [Next]_vars
    PROVE  FollowInv'
<1> SUFFICES ASSUME NEW d \in Clients, wpc'[d] \in Looping
             PROVE  Follows(d)'
  BY DEF FollowInv
<1>1. ASSUME NEW c \in Clients, NEW n \in Nodes, v_send_node(Player[c], n)
      PROVE  Follows(d)'
  BY <1>1, RefFollows DEF v_send_node
<1>2. ASSUME NEW c \in Clients, dm_auth_addAllPlayers(Player[c])
      PROVE  Follows(d)'
  BY <1>2, RefFollows, UnrefFollows DEF dm_auth_addAllPlayers
<1>3. ASSUME NEW c \in Clients, dm_auth_bcast(c)
      PROVE  Follows(d)'
  <2>1. c \in bcast.left /\ UNCHANGED <<refs, version, wpc, m_ageNodeId, view, known, requests>>
    BY <1>3 DEF dm_auth_bcast, vaultVars, clientVars
  <2>2. Coming(d)' = Coming(d)
    BY <1>3, <2>1, ComingVisit
  <2>3. QED
    BY <2>1, <2>2, NotAbout
<1>4. ASSUME dm_auth_bcast_end
      PROVE  Follows(d)'
  <2>1. /\ bcast.left = {} /\ bcast'.left = {}
        /\ UNCHANGED <<refs, version, wpc, m_broadcast, m_ageNodeId, view, known, requests>>
    BY <1>4 DEF dm_auth_bcast_end, vaultVars, clientVars, Quiet
  <2>2. Coming(d)' = Coming(d)
    BY <2>1 DEF Coming
  <2>3. QED
    BY <2>1, <2>2, NotAbout
<1>5. ASSUME NEW c \in Clients, c # d, UNCHANGED <<refs, version, bcast>>,
             \A x \in Clients : x # c => /\ wpc'[x] = wpc[x] /\ m_broadcast'[x] = m_broadcast[x]
                                         /\ m_ageNodeId'[x] = m_ageNodeId[x]
                                         /\ requests'[x] = requests[x]
                                         /\ view'[x] = view[x] /\ known'[x] = known[x]
      PROVE  Follows(d)'
  <2>1. Coming(d)' = Coming(d)
    BY <1>5, ComingSame
  <2>2. QED
    BY <1>5, <2>1, NotAbout
<1>6. ASSUME NEW c \in Clients, NEW a \in Ages, dm_auth_updateAgeSrv(c, a)
      PROVE  Follows(d)'
  <2>1. \A x \in Clients : x # c => requests'[x] = requests[x]
    BY <1>6, JoinAsks DEF RestInv
  <2>2. \A x \in Clients : x # c => m_ageNodeId'[x] = m_ageNodeId[x]
    BY <1>6 DEF dm_auth_updateAgeSrv, RestInv, StateTypes
  <2>3. UNCHANGED <<refs, version, bcast, wpc, m_broadcast, view, known>>
    BY <1>6 DEF dm_auth_updateAgeSrv, vaultVars, bufferVars
  <2>4. QED
    BY <1>5, <1>6, <2>1, <2>2, <2>3, JoinFollows
<1>7. ASSUME NEW c \in Clients, Connect(c)
      PROVE  Follows(d)'
  <2>1. \A x \in Clients : x # c => requests'[x] = requests[x]
    BY <1>7, ConnectAsks DEF RestInv
  <2>2. \A x \in Clients : x # c => wpc'[x] = wpc[x]
    BY <1>7 DEF Connect, RestInv, StateTypes
  <2>3. UNCHANGED <<refs, version, bcast, m_broadcast, m_ageNodeId, view, known>>
    BY <1>7 DEF Connect, vaultVars, bufferVars
  <2>4. QED
    BY <1>5, <1>7, <2>1, <2>2, <2>3, ConnectFollows
<1>8. ASSUME NEW c \in Clients, cb_sockRead(c)
      PROVE  Follows(d)'
  <2>1. /\ UNCHANGED <<refs, version, bcast, m_broadcast, m_ageNodeId, view, known, requests>>
        /\ wpc[c] \in Looping
    BY <1>8 DEF cb_sockRead, vaultVars, bufferVars, clientVars, Looping
  <2>2. wpc'[d] \in Looping => wpc[d] \in Looping
    BY <1>8, <2>1 DEF cb_sockRead, RestInv, StateTypes
  <2>3. Coming(d)' = Coming(d)
    BY <2>1, ComingSame
  <2>4. QED
    BY <2>1, <2>2, <2>3, NotAbout
<1>9. ASSUME NEW c \in Clients, NEW n \in Nodes, cb_nodeTree(c, n)
      PROVE  Follows(d)'
  <2>1. \A x \in Clients : x # c => requests'[x] = requests[x]
    BY <1>9, TreeAsks DEF RestInv
  <2>2. \A x \in Clients : x # c => wpc'[x] = wpc[x] /\ view'[x] = view[x]
    BY <1>9 DEF cb_nodeTree, Serve, RestInv, StateTypes
  <2>3. UNCHANGED <<refs, version, bcast, m_broadcast, m_ageNodeId, known>>
    BY <1>9 DEF cb_nodeTree, Serve, vaultVars, bufferVars
  <2>4. QED
    BY <1>5, <1>9, <2>1, <2>2, <2>3, TreeFollows
<1>10. ASSUME NEW c \in Clients, NEW n \in Nodes, cb_nodeFetch(c, n)
       PROVE  Follows(d)'
  <2>1. \A x \in Clients : x # c => requests'[x] = requests[x]
    BY <1>10, NodeAsks DEF RestInv
  <2>2. \A x \in Clients : x # c => wpc'[x] = wpc[x] /\ known'[x] = known[x]
    BY <1>10 DEF cb_nodeFetch, Serve, RestInv, StateTypes
  <2>3. UNCHANGED <<refs, version, bcast, m_broadcast, m_ageNodeId, view>>
    BY <1>10 DEF cb_nodeFetch, Serve, vaultVars, bufferVars
  <2>4. QED
    BY <1>5, <1>10, <2>1, <2>2, <2>3, NodeFollows
<1>11. ASSUME NEW c \in Clients, cb_broadcast(c)
       PROVE  Follows(d)'
  <2>1. \A x \in Clients : x # c => requests'[x] = requests[x]
    BY <1>11, BroadcastAsks DEF RestInv
  <2>2. \A x \in Clients : x # c => wpc'[x] = wpc[x] /\ view'[x] = view[x]
    BY <1>11 DEF cb_broadcast, RestInv, StateTypes
  <2>3. /\ UNCHANGED <<refs, version, bcast, m_ageNodeId, known>>
        /\ m_broadcast' = [m_broadcast EXCEPT ![c] = Tail(m_broadcast[c])]
    BY <1>11 DEF cb_broadcast, vaultVars
  <2>4. \A x \in Clients : x # c => m_broadcast'[x] = m_broadcast[x]
    BY <2>3 DEF IInv, ChannelTypes
  <2>5. QED
    BY <1>5, <1>11, <2>1, <2>2, <2>3, <2>4, BroadcastFollows
<1>12. ASSUME NEW c \in Clients, Remove(c)
       PROVE  Follows(d)'
  <2>1. wpc' = [wpc EXCEPT ![c] = "drain"] /\ UNCHANGED <<refs, version, bcast, m_broadcast,
                                                          m_ageNodeId>>
    BY <1>12 DEF Remove, vaultVars, bufferVars
  <2>2. c # d /\ \A x \in Clients : x # c => wpc'[x] = wpc[x]
    BY <2>1 DEF RestInv, StateTypes, Looping
  <2>3. \A x \in Clients : x # c => /\ view'[x] = view[x] /\ known'[x] = known[x]
                                    /\ requests'[x] = requests[x]
    BY <1>12 DEF Remove, RestInv, StateTypes
  <2>4. QED
    BY <1>5, <2>1, <2>2, <2>3
<1>13. ASSUME NEW c \in Clients, Drain(c)
       PROVE  Follows(d)'
  <2>1. /\ wpc[c] = "drain" /\ m_broadcast' = [m_broadcast EXCEPT ![c] = Tail(m_broadcast[c])]
        /\ UNCHANGED <<refs, version, bcast, wpc, m_ageNodeId, view, known, requests>>
    BY <1>13 DEF Drain, vaultVars, clientVars
  <2>2. c # d /\ \A x \in Clients : x # c => m_broadcast'[x] = m_broadcast[x]
    BY <2>1 DEF IInv, ChannelTypes, Looping
  <2>3. QED
    BY <1>5, <2>1, <2>2
<1>14. ASSUME NEW c \in Clients, End(c)
       PROVE  Follows(d)'
  <2>1. /\ wpc' = [wpc EXCEPT ![c] = "out"] /\ m_ageNodeId' = [m_ageNodeId EXCEPT ![c] = NoNode]
        /\ UNCHANGED <<refs, version, bcast, m_broadcast, view, known, requests>>
    BY <1>14 DEF End, Forget, vaultVars, bufferVars, clientVars
  <2>2. c # d /\ \A x \in Clients : x # c => wpc'[x] = wpc[x] /\ m_ageNodeId'[x] = m_ageNodeId[x]
    BY <2>1 DEF RestInv, StateTypes, Looping
  <2>3. QED
    BY <1>5, <2>1, <2>2
<1>15. CASE UNCHANGED vars
  <2>1. UNCHANGED <<refs, version, bcast, wpc, m_broadcast, m_ageNodeId, view, known, requests>>
    BY <1>15 DEF vars, vaultVars, bufferVars, clientVars
  <2>2. Coming(d)' = Coming(d)
    BY <2>1, ComingSame
  <2>3. QED
    BY <2>1, <2>2, NotAbout
<1>16. QED
  BY <1>1, <1>2, <1>3, <1>4, <1>6, <1>7, <1>8, <1>9, <1>10, <1>11, <1>12, <1>13, <1>14, <1>15,
     RefFollows, UnrefFollows, UpdateFollows, DeleteFollows
     DEF Next

\* What every client follows is an inductive invariant.
THEOREM FollowInvariant == Spec => [](IInv /\ RestInv /\ FollowInv)
<1>1. Init => FollowInv
  BY DEF Init, FollowInv, Looping
<1>2. IInv /\ RestInv /\ FollowInv /\ [Next]_vars => (IInv /\ RestInv /\ FollowInv)'
  BY StepHolds, RestStep, FollowStep
<1>3. QED
  BY <1>1, <1>2, InitHolds, RestInit, PTL DEF Spec

\* A client at rest has missed nothing of what is below its player and its age, although
\* the trees it fetched were read before and after the changes it was told of
\* (AuthDaemon.cpp:204-266, AuthServer.cpp:1096-1104, 1118-1137).
THEOREM ClientsInStep == Spec => []InStep
<1>1. IInv /\ RestInv /\ FollowInv => InStep
  <2> SUFFICES ASSUME IInv, RestInv, FollowInv, NEW c \in Clients, AtRest(c)
               PROVE  LET below(n) == IF n = NoNode THEN {} ELSE Tree(refs, n)
                          mine == below(Player[c])
                          age  == below(m_ageNodeId[c])
                      IN  /\ \A n \in mine \cup age : known[c][n] = version[n]
                          /\ \A e \in refs :
                               e[1] \in mine \cup (age \ Tree(Links, Player[c])) => e \in view[c]
    BY DEF InStep
  <2> DEFINE below(n) == IF n = NoNode THEN {} ELSE Tree(refs, n)
             mine == below(Player[c])
             age  == below(m_ageNodeId[c])
  <2>1. Follows(c) /\ Coming(c) = <<>> /\ Asked(c) = {}
    BY DEF FollowInv, AtRest, Looping, Coming, Asked, Elements
  <2>2. \A kind, p, n : ~After(<<>>, 0, kind, p, n)
    BY DEF After
  <2>3. Pending(<<>>, {}) = {}
    BY DEF Pending, Added
  <2>4. /\ Player[c] \in Nodes /\ m_ageNodeId[c] \in Nodes \cup {NoNode} /\ refs \in SUBSET Links
    BY Places DEF RestInv
  <2>5. Below(refs, Player[c], {}) = mine /\ Below(refs, m_ageNodeId[c], {}) = age
    BY <2>4, BelowTree
  <2> HIDE DEF mine, age
  <2>6. Reached(refs, Player[c], m_ageNodeId[c], {}) = mine \cup age
    BY <2>5 DEF Reached
  <2>7. Watched(refs, Player[c], m_ageNodeId[c], {}) = mine \cup (age \ Tree(Links, Player[c]))
    BY <2>5 DEF Watched
  <2>8. VersionsFollow(refs, version, Player[c], m_ageNodeId[c], <<>>, {}, known[c])
    BY <2>1 DEF Follows, ClientFollows
  <2>9. RefsFollow(refs, Player[c], m_ageNodeId[c], <<>>, {}, view[c])
    BY <2>1 DEF Follows, ClientFollows
  <2>10. \A n \in mine \cup age : known[c][n] = version[n]
    BY <2>2, <2>3, <2>6, <2>8 DEF VersionsFollow
  <2>11. \A e \in refs : e[1] \in mine \cup (age \ Tree(Links, Player[c])) => e \in view[c]
    BY <2>2, <2>3, <2>7, <2>9 DEF RefsFollow
  <2>12. QED
    BY <2>10, <2>11 DEF mine, age
<1>2. QED
  BY <1>1, FollowInvariant, PTL
=============================================================================

-------------------------- MODULE MsgChannelProofs --------------------------
(***************************************************************************)
(* Machine-checked proofs about MsgChannel, for any finite sets of sending   *)
(* and receiving threads and any number of messages: type correctness, the   *)
(* accounting of the semaphore, and that the two-step put and get implement  *)
(* the atomic FIFO channel.                                                  *)
(***************************************************************************)
EXTENDS MsgChannel, QueueLemmas, FiniteSetTheorems, TLAPS

\* The sets whose sizes Conservation counts are finite.
LEMMA CountsAreNat ==
    /\ IsFiniteSet(Putting) /\ Cardinality(Putting) \in Nat
    /\ IsFiniteSet(Popping) /\ Cardinality(Popping) \in Nat
<1>1. Putting \in SUBSET Producers /\ Popping \in SUBSET Consumers
  BY DEF Putting, Popping
<1>2. IsFiniteSet(Putting) /\ IsFiniteSet(Popping)
  BY <1>1, FS_Subset, ThreadAssumption
<1>3. QED
  BY <1>2, FS_CardinalityType

\* A thread that is about to pop finds a message: NoPopFromEmpty is a
\* consequence of the accounting (MsgChannel.cpp:66-77).
LEMMA PopFindsMessage ==
    ASSUME IInv, NEW c \in Consumers, pc[c] = "pop"
    PROVE  m_queue # <<>> /\ Len(m_queue) > 0
<1>1. c \in Popping
  BY DEF Popping
<1>2. Cardinality(Popping) # 0
  BY <1>1, CountsAreNat, FS_EmptySet
<1>3. Signalled \in Nat
  BY DEF IInv, TypeOK, Signalled, NoFd
<1>4. Len(m_queue) > 0
  BY <1>2, <1>3, CountsAreNat DEF IInv, Conservation
<1>5. QED
  BY <1>4

\* Every step keeps the variables in their types (MsgChannel.h:43-46).
LEMMA TypeStep == IInv /\ [Next]_vars => TypeOK'
<1> SUFFICES ASSUME IInv, [Next]_vars
             PROVE  TypeOK'
  OBVIOUS
<1> USE DEF IInv, TypeOK, NoFd
<1>1. ASSUME NEW p \in Producers, NEW m \in Messages, PutPush(p, m)
      PROVE  TypeOK'
  BY <1>1 DEF PutPush, Threads
<1>2. ASSUME NEW t \in Threads, Fd(t)
      PROVE  /\ events' \in Seq(Nat)
             /\ m_semaphore' \in {NoFd} \cup (1 .. Len(events'))
             /\ fdOf' \in [Threads -> {NoFd} \cup (1 .. Len(events'))]
  <2>1. CASE m_semaphore # NoFd
    BY <1>2, <2>1 DEF Fd
  <2>2. CASE m_semaphore = NoFd
    <3>1. /\ events' = Append(events, 0)
          /\ m_semaphore' = Len(events) + 1
          /\ fdOf' = [fdOf EXCEPT ![t] = Len(events) + 1]
      BY <1>2, <2>2 DEF Fd
    <3>2. events' \in Seq(Nat) /\ Len(events') = Len(events) + 1
      BY <3>1
    <3>3. m_semaphore' \in 1 .. Len(events')
      BY <3>1, <3>2
    <3>4. QED
      BY <3>1, <3>2, <3>3
  <2>3. QED
    BY <2>1, <2>2
<1>3. ASSUME NEW p \in Producers, PutFd(p)
      PROVE  TypeOK'
  BY <1>2, <1>3 DEF PutFd, Threads
<1>4. ASSUME NEW p \in Producers, PutWrite(p)
      PROVE  TypeOK'
  BY <1>4 DEF PutWrite, Threads, DescriptorAgrees
<1>5. ASSUME NEW c \in Consumers, GetCall(c)
      PROVE  TypeOK'
  BY <1>5 DEF GetCall, Threads
<1>6. ASSUME NEW c \in Consumers, HasMessage(c)
      PROVE  TypeOK'
  BY <1>6 DEF HasMessage, Threads
<1>7. ASSUME NEW c \in Consumers, GetFd(c)
      PROVE  TypeOK'
  BY <1>2, <1>7 DEF GetFd, Threads
<1>8. ASSUME NEW c \in Consumers, GetRead(c)
      PROVE  TypeOK'
  BY <1>8 DEF GetRead, Threads, DescriptorAgrees
<1>9. ASSUME NEW c \in Consumers, GetPop(c)
      PROVE  TypeOK'
  <2>1. m_queue # <<>> /\ Len(m_queue) > 0
    BY <1>9, PopFindsMessage DEF GetPop
  <2>2. /\ m_queue' = Tail(m_queue)
        /\ delivered' = Append(delivered, Head(m_queue))
    BY <1>9, <2>1 DEF GetPop
  <2>3. m_queue' \in Seq(Messages) /\ delivered' \in Seq(Messages)
    BY <2>1, <2>2
  <2>4. pc' \in [Threads -> {"idle", "pushed", "write", "get", "read", "pop", "drain"}]
    BY <1>9 DEF GetPop, Threads
  <2>5. UNCHANGED <<undefined, m_semaphore, events, fdOf, alive, sent>>
    BY <1>9, <2>1 DEF GetPop
  <2>6. QED
    BY <2>3, <2>4, <2>5
<1>10. CASE Destroy
  BY <1>10 DEF Destroy
<1>11. CASE UNCHANGED vars
  BY <1>11 DEF vars
<1>12. QED
  BY <1>1, <1>3, <1>4, <1>5, <1>6, <1>7, <1>8, <1>9, <1>10, <1>11 DEF Next

\* Descriptors stay in agreement: fd() creates at most one eventfd because it
\* tests the member inside the mutex (MsgChannel.cpp:38-49).
LEMMA DescriptorStep == IInv /\ [Next]_vars => RoleInv' /\ DescriptorAgrees'
<1> SUFFICES ASSUME IInv, [Next]_vars
             PROVE  RoleInv' /\ DescriptorAgrees'
  OBVIOUS
<1> USE ThreadAssumption DEF IInv, TypeOK, RoleInv, DescriptorAgrees, NoFd, Threads
<1>1. ASSUME NEW p \in Producers, NEW m \in Messages, PutPush(p, m)
      PROVE  RoleInv' /\ DescriptorAgrees'
  BY <1>1 DEF PutPush
<1>2. ASSUME NEW t \in Threads, Fd(t)
      PROVE  /\ m_semaphore' # NoFd
             /\ m_semaphore # NoFd => m_semaphore' = m_semaphore
             /\ fdOf'[t] = m_semaphore'
             /\ \A u \in Threads : u # t => fdOf'[u] = fdOf[u]
  BY <1>2 DEF Fd
<1>3. ASSUME NEW p \in Producers, PutFd(p)
      PROVE  RoleInv' /\ DescriptorAgrees'
  BY <1>2, <1>3 DEF PutFd
<1>4. ASSUME NEW p \in Producers, PutWrite(p)
      PROVE  RoleInv' /\ DescriptorAgrees'
  BY <1>4 DEF PutWrite
<1>5. ASSUME NEW c \in Consumers, GetCall(c)
      PROVE  RoleInv' /\ DescriptorAgrees'
  BY <1>5 DEF GetCall
<1>6. ASSUME NEW c \in Consumers, HasMessage(c)
      PROVE  RoleInv' /\ DescriptorAgrees'
  BY <1>6 DEF HasMessage
<1>7. ASSUME NEW c \in Consumers, GetFd(c)
      PROVE  RoleInv' /\ DescriptorAgrees'
  BY <1>2, <1>7 DEF GetFd
<1>8. ASSUME NEW c \in Consumers, GetRead(c)
      PROVE  RoleInv' /\ DescriptorAgrees'
  BY <1>8 DEF GetRead
<1>9. ASSUME NEW c \in Consumers, GetPop(c)
      PROVE  RoleInv' /\ DescriptorAgrees'
  BY <1>9 DEF GetPop
<1>10. CASE Destroy
  BY <1>10 DEF Destroy
<1>11. CASE UNCHANGED vars
  BY <1>11 DEF vars
<1>12. QED
  BY <1>1, <1>3, <1>4, <1>5, <1>6, <1>7, <1>8, <1>9, <1>10, <1>11 DEF Next

\* Every step keeps the accounting (MsgChannel.cpp:51-77): the one lemma the
\* others need, one case per critical section.
LEMMA ConservationStep == IInv /\ [Next]_vars => Conservation'
<1> SUFFICES ASSUME IInv, [Next]_vars
             PROVE  Conservation'
  OBVIOUS
<1> USE CountsAreNat, ThreadAssumption DEF IInv, TypeOK, RoleInv, NoFd, Threads
<1>0. Signalled \in Nat /\ Len(m_queue) = Signalled + Cardinality(Putting) + Cardinality(Popping)
  BY DEF Conservation, Signalled
<1>1. ASSUME NEW p \in Producers, NEW m \in Messages, PutPush(p, m)
      PROVE  Conservation'
  <2>1. Putting' = Putting \cup {p} /\ p \notin Putting /\ Popping' = Popping
    BY <1>1 DEF PutPush, Putting, Popping
  <2>2. Cardinality(Putting') = Cardinality(Putting) + 1
    BY <2>1, FS_AddElement
  <2>3. Len(m_queue') = Len(m_queue) + 1 /\ Signalled' = Signalled
    BY <1>1 DEF PutPush, Signalled
  <2>4. QED
    BY <1>0, <2>1, <2>2, <2>3 DEF Conservation
<1>2. ASSUME NEW t \in Threads, Fd(t)
      PROVE  Signalled' = Signalled
  BY <1>2 DEF Fd, Signalled
<1>3. ASSUME NEW p \in Producers, PutFd(p)
      PROVE  Conservation'
  <2>1. Putting' = Putting /\ Popping' = Popping /\ m_queue' = m_queue
    BY <1>3 DEF PutFd, Putting, Popping
  <2>2. Signalled' = Signalled
    BY <1>2, <1>3 DEF PutFd
  <2>3. QED
    BY <2>1, <2>2, <1>0 DEF Conservation
<1>4. ASSUME NEW p \in Producers, PutWrite(p)
      PROVE  Conservation'
  <2>1. Putting' = Putting \ {p} /\ p \in Putting /\ Popping' = Popping
    BY <1>4 DEF PutWrite, Putting, Popping
  <2>2. Cardinality(Putting') = Cardinality(Putting) - 1
    BY <2>1, FS_RemoveElement
  <2>3. m_semaphore # NoFd /\ fdOf[p] = m_semaphore /\ m_semaphore \in 1 .. Len(events)
    BY <1>4 DEF PutWrite, DescriptorAgrees
  <2>4. Signalled' = Signalled + 1 /\ m_queue' = m_queue
    BY <1>4, <2>3 DEF PutWrite, Signalled
  <2>5. QED
    BY <1>0, <2>1, <2>2, <2>4 DEF Conservation
<1>5. ASSUME NEW c \in Consumers, GetCall(c)
      PROVE  Conservation'
  <2>1. Putting' = Putting /\ Popping' = Popping /\ m_queue' = m_queue /\ Signalled' = Signalled
    BY <1>5 DEF GetCall, Putting, Popping, Signalled
  <2>2. QED
    BY <2>1, <1>0 DEF Conservation
<1>6. ASSUME NEW c \in Consumers, HasMessage(c)
      PROVE  Conservation'
  <2>1. Putting' = Putting /\ Popping' = Popping /\ m_queue' = m_queue /\ Signalled' = Signalled
    BY <1>6 DEF HasMessage, Putting, Popping, Signalled
  <2>2. QED
    BY <2>1, <1>0 DEF Conservation
<1>7. ASSUME NEW c \in Consumers, GetFd(c)
      PROVE  Conservation'
  <2>1. Putting' = Putting /\ Popping' = Popping /\ m_queue' = m_queue
    BY <1>7 DEF GetFd, Putting, Popping
  <2>2. Signalled' = Signalled
    BY <1>2, <1>7 DEF GetFd
  <2>3. QED
    BY <2>1, <2>2, <1>0 DEF Conservation
<1>8. ASSUME NEW c \in Consumers, GetRead(c)
      PROVE  Conservation'
  <2>1. Popping' = Popping \cup {c} /\ c \notin Popping /\ Putting' = Putting
    BY <1>8 DEF GetRead, Putting, Popping
  <2>2. Cardinality(Popping') = Cardinality(Popping) + 1
    BY <2>1, FS_AddElement
  <2>3. m_semaphore # NoFd /\ fdOf[c] = m_semaphore /\ m_semaphore \in 1 .. Len(events)
    BY <1>8 DEF GetRead, DescriptorAgrees
  <2>4. Signalled' = Signalled - 1 /\ m_queue' = m_queue
    BY <1>8, <2>3 DEF GetRead, Signalled
  <2>5. QED
    BY <1>0, <2>1, <2>2, <2>4 DEF Conservation
<1>9. ASSUME NEW c \in Consumers, GetPop(c)
      PROVE  Conservation'
  <2>1. Popping' = Popping \ {c} /\ c \in Popping /\ Putting' = Putting
    BY <1>9 DEF GetPop, Putting, Popping
  <2>2. Cardinality(Popping') = Cardinality(Popping) - 1
    BY <2>1, FS_RemoveElement
  <2>3. m_queue # <<>> /\ Len(m_queue) > 0
    BY <1>9, PopFindsMessage DEF GetPop
  <2>4. Len(m_queue') = Len(m_queue) - 1
    BY <1>9, <2>3 DEF GetPop
  <2>5. Signalled' = Signalled
    BY <1>9 DEF GetPop, Signalled
  <2>6. QED
    BY <1>0, <2>1, <2>2, <2>4, <2>5 DEF Conservation
<1>10. CASE Destroy
  <2>1. Putting' = Putting /\ Popping' = Popping /\ m_queue' = m_queue /\ Signalled' = Signalled
    BY <1>10 DEF Destroy, Putting, Popping, Signalled
  <2>2. QED
    BY <2>1, <1>0 DEF Conservation
<1>11. CASE UNCHANGED vars
  <2>1. Putting' = Putting /\ Popping' = Popping /\ m_queue' = m_queue /\ Signalled' = Signalled
    BY <1>11 DEF vars, Putting, Popping, Signalled
  <2>2. QED
    BY <2>1, <1>0 DEF Conservation
<1>12. QED
  BY <1>1, <1>3, <1>4, <1>5, <1>6, <1>7, <1>8, <1>9, <1>10, <1>11 DEF Next

\* The queue stays the undelivered tail of the history, the channel is destroyed
\* only after its last message, and no pop runs on an empty queue.
LEMMA HistoryStep == IInv /\ [Next]_vars => QueueIsPending' /\ LifeInv' /\ NoPopFromEmpty'
<1> SUFFICES ASSUME IInv, [Next]_vars
             PROVE  QueueIsPending' /\ LifeInv' /\ NoPopFromEmpty'
  OBVIOUS
<1>0. /\ m_queue \in Seq(Messages) /\ sent \in Seq(Messages) /\ delivered \in Seq(Messages)
      /\ Len(m_queue) \in Nat /\ Len(sent) \in Nat /\ Len(delivered) \in Nat
      /\ QueueIsPending /\ LifeInv /\ NoPopFromEmpty
  BY DEF IInv, TypeOK
<1>1. ASSUME NEW p \in Producers, NEW m \in Messages, PutPush(p, m)
      PROVE  QueueIsPending' /\ LifeInv' /\ NoPopFromEmpty'
  <2>1. /\ m_queue' = Append(m_queue, m)
        /\ sent' = Append(sent, m)
        /\ alive' = alive /\ undefined' = undefined /\ delivered' = delivered
        /\ Len(sent) < MaxPuts
    BY <1>1 DEF PutPush
  <2>2. Len(sent') = Len(sent) + 1 /\ Len(m_queue') = Len(m_queue) + 1
    BY <1>0, <2>1, AppendFacts
  <2>3. ASSUME NEW i \in 1 .. Len(m_queue')
        PROVE  m_queue'[i] = sent'[Len(delivered) + i]
    <3>1. CASE i \in 1 .. Len(m_queue)
      <4>1. m_queue'[i] = m_queue[i]
        BY <1>0, <2>1, <3>1, AppendFacts
      <4>2. Len(delivered) + i \in 1 .. Len(sent)
        BY <1>0, <3>1 DEF QueueIsPending
      <4>3. sent'[Len(delivered) + i] = sent[Len(delivered) + i]
        BY <1>0, <2>1, <4>2, AppendFacts
      <4>4. QED
        BY <1>0, <3>1, <4>1, <4>3 DEF QueueIsPending
    <3>2. CASE i = Len(m_queue) + 1
      <4>1. m_queue'[i] = m
        BY <1>0, <2>1, <3>2, AppendFacts
      <4>2. Len(delivered) + i = Len(sent) + 1
        BY <1>0, <3>2 DEF QueueIsPending
      <4>3. sent'[Len(sent) + 1] = m
        BY <1>0, <2>1, AppendFacts
      <4>4. QED
        BY <4>1, <4>2, <4>3
    <3>3. QED
      BY <1>0, <2>2, <3>1, <3>2
  <2>4. QueueIsPending'
    <3>1. delivered' = delivered
      BY <2>1
    <3>2. Len(sent') = Len(delivered') + Len(m_queue')
      BY <1>0, <2>2, <3>1 DEF QueueIsPending
    <3>3. \A i \in 1 .. Len(m_queue') : m_queue'[i] = sent'[Len(delivered') + i]
      BY <2>3, <3>1
    <3>4. QED
      BY <3>2, <3>3 DEF QueueIsPending
  <2>5. LifeInv'
    BY <1>0, <2>1, <2>2, MaxPutsAssumption DEF LifeInv, QueueIsPending
  <2>6. NoPopFromEmpty'
    BY <1>0, <2>1 DEF NoPopFromEmpty
  <2>7. QED
    BY <2>4, <2>5, <2>6
<1>2. ASSUME UNCHANGED <<m_queue, sent, delivered, alive, undefined>>
      PROVE  QueueIsPending' /\ LifeInv' /\ NoPopFromEmpty'
  BY <1>0, <1>2 DEF QueueIsPending, LifeInv, NoPopFromEmpty
<1>3. ASSUME NEW c \in Consumers, GetPop(c)
      PROVE  QueueIsPending' /\ LifeInv' /\ NoPopFromEmpty'
  <2>1. m_queue # <<>> /\ Len(m_queue) > 0
    BY <1>3, PopFindsMessage DEF GetPop
  <2>2. /\ m_queue' = Tail(m_queue)
        /\ delivered' = Append(delivered, Head(m_queue))
        /\ alive' = alive /\ undefined' = undefined /\ sent' = sent
    BY <1>3, <2>1 DEF GetPop
  <2>3. Len(delivered') = Len(delivered) + 1 /\ Len(m_queue') = Len(m_queue) - 1
    BY <1>0, <2>1, <2>2, AppendFacts, TailFacts
  <2>4. ASSUME NEW i \in 1 .. Len(m_queue')
        PROVE  m_queue'[i] = sent'[Len(delivered') + i]
    <3>1. i \in 1 .. Len(m_queue) - 1 /\ i + 1 \in 1 .. Len(m_queue)
      BY <1>0, <2>3
    <3>2. m_queue'[i] = m_queue[i + 1]
      BY <1>0, <2>1, <2>2, <3>1, TailFacts
    <3>3. m_queue[i + 1] = sent[Len(delivered) + (i + 1)]
      BY <1>0, <3>1 DEF QueueIsPending
    <3>4. Len(delivered) + (i + 1) = Len(delivered') + i
      BY <1>0, <2>3, <3>1
    <3>5. QED
      BY <2>2, <3>2, <3>3, <3>4
  <2>5. QueueIsPending'
    <3>1. sent' = sent
      BY <2>2
    <3>2. Len(sent') = Len(delivered') + Len(m_queue')
      <4>1. Len(sent) = Len(delivered) + Len(m_queue)
        BY <1>0 DEF QueueIsPending
      <4>2. Len(m_queue) \in Nat /\ Len(delivered) \in Nat
        BY <1>0
      <4>3. Len(sent') = Len(sent)
        BY <3>1
      <4>4. QED
        BY <2>3, <4>1, <4>2, <4>3
    <3>3. \A i \in 1 .. Len(m_queue') : m_queue'[i] = sent'[Len(delivered') + i]
      BY <2>4
    <3>4. QED
      BY <3>2, <3>3 DEF QueueIsPending
  <2>6. alive
    BY <1>0, <2>1 DEF LifeInv, QueueIsPending
  <2>7. LifeInv' /\ NoPopFromEmpty'
    BY <1>0, <2>2, <2>6 DEF LifeInv, NoPopFromEmpty
  <2>8. QED
    BY <2>5, <2>7
<1>4. CASE Destroy
  BY <1>0, <1>4 DEF Destroy, QueueIsPending, LifeInv, NoPopFromEmpty
<1>5. QED
  BY <1>1, <1>2, <1>3, <1>4
     DEF Next, vars, PutFd, PutWrite, GetCall, HasMessage, GetFd, GetRead

\* The channel starts empty, without an eventfd.
LEMMA InitIInv == Init => IInv
<1> SUFFICES ASSUME Init
             PROVE  IInv
  OBVIOUS
<1> USE DEF Init, NoFd, Threads
<1>1. TypeOK
  <2>1. /\ m_queue \in Seq(Messages) /\ events \in Seq(Nat)
        /\ sent \in Seq(Messages) /\ delivered \in Seq(Messages)
    OBVIOUS
  <2>2. pc \in [Threads -> {"idle", "pushed", "write", "get", "read", "pop", "drain"}]
    OBVIOUS
  <2>3. fdOf \in [Threads -> {NoFd} \cup (1 .. Len(events))]
    OBVIOUS
  <2>4. QED
    BY <2>1, <2>2, <2>3 DEF TypeOK
<1>2. RoleInv /\ DescriptorAgrees /\ QueueIsPending /\ LifeInv /\ NoPopFromEmpty
  BY MaxPutsAssumption DEF RoleInv, DescriptorAgrees, QueueIsPending, LifeInv, NoPopFromEmpty
<1>3. Conservation
  <2>1. Putting = {} /\ Popping = {}
    BY DEF Putting, Popping
  <2>2. Cardinality(Putting) = 0 /\ Cardinality(Popping) = 0
    BY <2>1, FS_EmptySet
  <2>3. QED
    BY <2>2 DEF Conservation, Signalled
<1>4. QED
  BY <1>1, <1>2, <1>3 DEF IInv

\* The inductive invariant holds in every reachable state, whatever the number
\* of threads and messages.
THEOREM InductiveInvariant == Spec => []IInv
<1>1. IInv /\ [Next]_vars => IInv'
  BY TypeStep, DescriptorStep, ConservationStep, HistoryStep DEF IInv
<1>2. QED
  BY InitIInv, <1>1, PTL DEF Spec

\* The members of the channel keep their types.
THEOREM TypeCorrect == Spec => []TypeOK
<1>1. IInv => TypeOK
  BY DEF IInv
<1>2. QED
  BY <1>1, InductiveInvariant, PTL

\* Every queued message is counted once by the semaphore or by a thread between
\* its two critical sections (MsgChannel.cpp:51-77).
THEOREM SemaphoreAccounting == Spec => []Conservation
<1>1. IInv => Conservation
  BY DEF IInv
<1>2. QED
  BY <1>1, InductiveInvariant, PTL

\* getMessage never calls front() on an empty queue.
THEOREM PopIsDefined == Spec => []NoPopFromEmpty
<1>1. IInv => NoPopFromEmpty
  BY DEF IInv
<1>2. QED
  BY <1>1, InductiveInvariant, PTL

\* The poll loops of the workers miss no message.
THEOREM WakeupNotLost == Spec => []NoLostWakeup
<1>1. IInv => NoLostWakeup
  <2> SUFFICES ASSUME IInv, Putting = {}, Popping = {}, m_queue # <<>>
               PROVE  m_semaphore # NoFd /\ events[m_semaphore] > 0
    BY DEF NoLostWakeup
  <2>1. Cardinality(Putting) = 0 /\ Cardinality(Popping) = 0
    BY FS_EmptySet
  <2>2. Len(m_queue) > 0
    BY DEF IInv, TypeOK
  <2>3. Signalled > 0
    BY <2>1, <2>2 DEF IInv, TypeOK, Conservation, Signalled, NoFd
  <2>4. QED
    BY <2>3 DEF Signalled
<1>2. QED
  BY <1>1, InductiveInvariant, PTL

\* A channel on the stack of the thread that waits on it can be destroyed as
\* soon as the awaited messages have been received: no sender is still using it
\* (GameHost.cpp:157-168, AuthServer.cpp:1199-1212).
THEOREM DestroyIsSafe == Spec => []NoUseAfterDestroy
<1>1. IInv => NoUseAfterDestroy
  <2> SUFFICES ASSUME IInv, ~alive
               PROVE  Putting = {}
    BY DEF NoUseAfterDestroy
  <2>1. Len(m_queue) = 0
    BY MaxPutsAssumption DEF IInv, TypeOK, LifeInv, QueueIsPending
  <2>2. Signalled \in Nat
    BY DEF IInv, TypeOK, Signalled, NoFd
  <2>3. Cardinality(Putting) = 0
    BY <2>1, <2>2, CountsAreNat DEF IInv, Conservation
  <2>4. QED
    BY <2>3, CountsAreNat, FS_EmptySet
<1>2. QED
  BY <1>1, InductiveInvariant, PTL

\* The eventfd and mutex implementation of putMessage and getMessage implements
\* the atomic FIFO channel the daemons and workers are written against.
THEOREM ImplementsFifo == Spec => FifoSpec
<1>1. Init => Fifo!Init
  BY DEF Init, Fifo!Init
<1>2. IInv /\ [Next]_vars => [Fifo!Next]_(Fifo!vars)
  <2> SUFFICES ASSUME IInv, [Next]_vars
               PROVE  [Fifo!Next]_(Fifo!vars)
    OBVIOUS
  <2>1. ASSUME NEW p \in Producers, NEW m \in Messages, PutPush(p, m)
        PROVE  Fifo!Next
    BY <2>1 DEF PutPush, Fifo!Next, Fifo!Put
  <2>2. ASSUME NEW c \in Consumers, GetPop(c)
        PROVE  Fifo!Next
    <3>1. m_queue # <<>> /\ Len(m_queue) > 0
      BY <2>2, PopFindsMessage DEF GetPop
    <3>2. delivered' = Append(delivered, Head(m_queue)) /\ sent' = sent
      BY <2>2, <3>1 DEF GetPop
    <3>3. Head(m_queue) = sent[Len(delivered) + 1] /\ Len(delivered) < Len(sent)
      BY <3>1 DEF IInv, TypeOK, QueueIsPending
    <3>4. QED
      BY <3>2, <3>3 DEF Fifo!Next, Fifo!Get
  <2>3. ASSUME UNCHANGED <<sent, delivered>>
        PROVE  [Fifo!Next]_(Fifo!vars)
    BY <2>3 DEF Fifo!vars
  <2>4. QED
    BY <2>1, <2>2, <2>3
       DEF Next, vars, PutFd, PutWrite, GetCall, HasMessage, GetFd, GetRead, Destroy
<1>3. QED
  BY <1>1, <1>2, InductiveInvariant, PTL DEF Spec, FifoSpec, Fifo!Spec
=============================================================================

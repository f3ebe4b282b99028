----------------------------- MODULE MsgChannel -----------------------------
(***************************************************************************)
(* DS::MsgChannel (NetIO/MsgChannel.{h,cpp}): a std::queue guarded by a      *)
(* mutex, and a lazily created eventfd used as a counting semaphore.         *)
(* putMessage and getMessage are not atomic: a put pushes under the mutex,   *)
(* obtains the descriptor under the mutex, and only then writes the event;   *)
(* a get reads (and waits on) the event first and pops under the mutex       *)
(* afterwards.  Each of those critical sections is one action here.          *)
(*                                                                           *)
(* The owner of a channel may destroy it once it has received the replies    *)
(* it waits for: AuthServer_RestrictLogins, GameServer_UpdateVaultSDL,       *)
(* dm_local_sdl_update and every client worker keep the channel on their     *)
(* own stack, so the owner's return ends the channel's life while the        *)
(* replying thread may still be inside putMessage.                           *)
(***************************************************************************)
EXTENDS Integers, Sequences, FiniteSets

CONSTANTS
    Producers,  \* threads that put messages (client workers, daemons)
    Consumers,  \* threads that get messages (the owner of the channel)
    Messages,   \* opaque <<type, payload>> pairs
    MaxPuts     \* how many messages the channel carries in its life

ASSUME ThreadAssumption ==
    /\ IsFiniteSet(Producers)
    /\ IsFiniteSet(Consumers)
    /\ Producers \cap Consumers = {}
ASSUME MaxPutsAssumption == MaxPuts \in Nat

Threads == Producers \cup Consumers

VARIABLES
    m_queue,      \* the guarded queue
    m_semaphore,  \* -1, or the descriptor of the eventfd
    events,       \* counter of each eventfd ever created; its index is its fd
    pc,           \* where each thread is inside putMessage/getMessage
    fdOf,         \* the descriptor fd() returned to the thread
    alive,        \* FALSE once the owner has destroyed the channel
    undefined,    \* TRUE once front()/pop() ran on an empty queue
    sent,         \* history: messages in the order they were pushed
    delivered     \* history: messages in the order they were popped

vars == <<m_queue, m_semaphore, events, pc, fdOf, alive, undefined, sent, delivered>>

NoFd == -1

TypeOK ==
    /\ m_queue \in Seq(Messages)
    /\ events \in Seq(Nat)
    /\ m_semaphore \in {NoFd} \cup (1 .. Len(events))
    /\ pc \in [Threads -> {"idle", "pushed", "write", "get", "read", "pop", "drain"}]
    /\ fdOf \in [Threads -> {NoFd} \cup (1 .. Len(events))]
    /\ alive \in BOOLEAN
    /\ undefined \in BOOLEAN
    /\ sent \in Seq(Messages)
    /\ delivered \in Seq(Messages)

Init ==
    /\ m_queue = <<>>
    /\ m_semaphore = NoFd
    /\ events = <<>>
    /\ pc = [t \in Threads |-> "idle"]
    /\ fdOf = [t \in Threads |-> NoFd]
    /\ alive = TRUE
    /\ undefined = FALSE
    /\ sent = <<>>
    /\ delivered = <<>>

-----------------------------------------------------------------------------
\* Wrong variants of the steps below, each a bug this code could plausibly have.
\* They are used only to show that the properties can fail.

\* fd() that does not look at the member again under the mutex.
FdAlwaysCreates(t) ==
    /\ events' = Append(events, 0)
    /\ m_semaphore' = Len(events) + 1
    /\ fdOf' = [fdOf EXCEPT ![t] = Len(events) + 1]

\* A non-blocking eventfd whose EAGAIN is not looked at.
GetReadNoWait(c) ==
    /\ pc[c] = "read"
    /\ events' = [events EXCEPT ![fdOf[c]] = @ - 1]
    /\ pc' = [pc EXCEPT ![c] = "pop"]
    /\ UNCHANGED <<m_queue, m_semaphore, fdOf, alive, undefined, sent, delivered>>

\* eventfd without EFD_SEMAPHORE: one read takes the whole counter.
GetReadTakesAll(c) ==
    /\ pc[c] = "read"
    /\ events[fdOf[c]] > 0
    /\ events' = [events EXCEPT ![fdOf[c]] = 0]
    /\ pc' = [pc EXCEPT ![c] = "pop"]
    /\ UNCHANGED <<m_queue, m_semaphore, fdOf, alive, undefined, sent, delivered>>

\* Waiting with poll() alone: the event is seen and not consumed.
GetReadKeeps(c) ==
    /\ pc[c] = "read"
    /\ events[fdOf[c]] > 0
    /\ pc' = [pc EXCEPT ![c] = "pop"]
    /\ UNCHANGED <<m_queue, m_semaphore, events, fdOf, alive, undefined, sent, delivered>>

\* Waiting on the queue instead of the event.
GetReadLooksAtQueue(c) ==
    /\ pc[c] = "read"
    /\ m_queue # <<>>
    /\ pc' = [pc EXCEPT ![c] = "pop"]
    /\ UNCHANGED <<m_queue, m_semaphore, events, fdOf, alive, undefined, sent, delivered>>

\* A stack in place of the queue.
GetPopNewest(c) ==
    /\ pc[c] = "pop"
    /\ m_queue # <<>>
    /\ m_queue' = SubSeq(m_queue, 1, Len(m_queue) - 1)
    /\ delivered' = Append(delivered, m_queue[Len(m_queue)])
    /\ pc' = [pc EXCEPT ![c] = "idle"]
    /\ UNCHANGED <<m_semaphore, events, fdOf, alive, undefined, sent>>

-----------------------------------------------------------------------------
\* fd(): under m_mutex, create the eventfd with a zero counter if there is none,
\* and return the member.
Fd(t) ==
    IF m_semaphore # NoFd
    THEN /\ fdOf' = [fdOf EXCEPT ![t] = m_semaphore]
         /\ UNCHANGED <<m_semaphore, events>>
    ELSE /\ events' = Append(events, 0)
         /\ m_semaphore' = Len(events) + 1
         /\ fdOf' = [fdOf EXCEPT ![t] = Len(events) + 1]

\* putMessage, first critical section: m_queue.push(msg).
PutPush(p, m) ==
    /\ pc[p] = "idle"
    /\ Len(sent) < MaxPuts
    /\ m_queue' = Append(m_queue, m)
    /\ sent' = Append(sent, m)
    /\ pc' = [pc EXCEPT ![p] = "pushed"]
    /\ UNCHANGED <<m_semaphore, events, fdOf, alive, undefined, delivered>>

\* putMessage, second critical section: the call of fd().
PutFd(p) ==
    /\ pc[p] = "pushed"
    /\ Fd(p)
    /\ pc' = [pc EXCEPT ![p] = "write"]
    /\ UNCHANGED <<m_queue, alive, undefined, sent, delivered>>

\* putMessage, last step: eventfd_write(fd, 1).
PutWrite(p) ==
    /\ pc[p] = "write"
    /\ events' = [events EXCEPT ![fdOf[p]] = @ + 1]
    /\ pc' = [pc EXCEPT ![p] = "idle"]
    /\ UNCHANGED <<m_queue, m_semaphore, fdOf, alive, undefined, sent, delivered>>

\* A worker or daemon loop calls getMessage.
GetCall(c) ==
    /\ pc[c] = "idle"
    /\ alive
    /\ pc' = [pc EXCEPT ![c] = "get"]
    /\ UNCHANGED <<m_queue, m_semaphore, events, fdOf, alive, undefined, sent, delivered>>

\* hasMessage: a worker that drains its broadcast channel calls getMessage only
\* after it has seen the queue non-empty.
HasMessage(c) ==
    /\ pc[c] = "idle"
    /\ alive
    /\ m_queue # <<>>
    /\ pc' = [pc EXCEPT ![c] = "drain"]
    /\ UNCHANGED <<m_queue, m_semaphore, events, fdOf, alive, undefined, sent, delivered>>

\* getMessage, first critical section: the call of fd().
GetFd(c) ==
    /\ pc[c] \in {"get", "drain"}
    /\ Fd(c)
    /\ pc' = [pc EXCEPT ![c] = "read"]
    /\ UNCHANGED <<m_queue, alive, undefined, sent, delivered>>

\* getMessage: eventfd_read blocks while the counter is zero and, in
\* EFD_SEMAPHORE mode, takes exactly one.
GetRead(c) ==
    /\ pc[c] = "read"
    /\ events[fdOf[c]] > 0
    /\ events' = [events EXCEPT ![fdOf[c]] = @ - 1]
    /\ pc' = [pc EXCEPT ![c] = "pop"]
    /\ UNCHANGED <<m_queue, m_semaphore, fdOf, alive, undefined, sent, delivered>>

\* getMessage, last critical section: front() and pop().  On an empty queue both
\* are undefined behaviour.
GetPop(c) ==
    /\ pc[c] = "pop"
    /\ IF m_queue = <<>>
       THEN /\ undefined' = TRUE
            /\ UNCHANGED <<m_queue, delivered>>
       ELSE /\ m_queue' = Tail(m_queue)
            /\ delivered' = Append(delivered, Head(m_queue))
            /\ UNCHANGED undefined
    /\ pc' = [pc EXCEPT ![c] = "idle"]
    /\ UNCHANGED <<m_semaphore, events, fdOf, alive, sent>>

\* ~MsgChannel: the owner has received every reply it waits for and returns.
Destroy ==
    /\ alive
    /\ Len(delivered) = MaxPuts
    /\ \A c \in Consumers : pc[c] = "idle"
    /\ alive' = FALSE
    /\ UNCHANGED <<m_queue, m_semaphore, events, pc, fdOf, undefined, sent, delivered>>

ProducerStep(p) == PutFd(p) \/ PutWrite(p)

ConsumerStep(c) == GetFd(c) \/ GetRead(c) \/ GetPop(c)

Next ==
    \/ \E p \in Producers, m \in Messages : PutPush(p, m)
    \/ \E p \in Producers : PutFd(p)
    \/ \E p \in Producers : PutWrite(p)
    \/ \E c \in Consumers : GetCall(c)
    \/ \E c \in Consumers : HasMessage(c)
    \/ \E c \in Consumers : GetFd(c)
    \/ \E c \in Consumers : GetRead(c)
    \/ \E c \in Consumers : GetPop(c)
    \/ Destroy

Spec == Init /\ [][Next]_vars

\* A thread inside putMessage or getMessage keeps running, and the owner of the
\* channel keeps serving it (dm_authDaemon, dm_gameHost and the poll loop of a
\* worker are infinite loops).  Nobody is obliged to start a put.
Fairness ==
    /\ \A p \in Producers : WF_vars(ProducerStep(p))
    /\ \A c \in Consumers : WF_vars(ConsumerStep(c)) /\ WF_vars(GetCall(c))

FairSpec == Spec /\ Fairness

-----------------------------------------------------------------------------
Putting == {p \in Producers : pc[p] \in {"pushed", "write"}}
Popping == {c \in Consumers : pc[c] = "pop"}

\* The counter of the channel's eventfd, zero before it exists.
Signalled == IF m_semaphore = NoFd THEN 0 ELSE events[m_semaphore]

\* Every queued message is accounted for exactly once: by the semaphore, by a
\* put that has pushed and not yet written, or by a get that has read and not
\* yet popped (MsgChannel.cpp:51-77).
Conservation ==
    Len(m_queue) = Signalled + Cardinality(Putting) + Cardinality(Popping)

\* front() and pop() of getMessage never run on an empty queue
\* (MsgChannel.cpp:73-75 does not test for it).
NoPopFromEmpty == ~undefined

\* No lost wake-up: with no put under way and nobody about to pop, a non-empty
\* queue leaves the eventfd readable, so the poll() of the workers wakes up
\* (AuthServer.cpp:1122-1140 and GameServer.cpp:258-278 poll fd()).
NoLostWakeup ==
    (Putting = {} /\ Popping = {} /\ m_queue # <<>>) =>
        (m_semaphore # NoFd /\ events[m_semaphore] > 0)

\* A channel on its owner's stack is destroyed only when no thread is still
\* inside putMessage on it: the write of the event is the last access.
NoUseAfterDestroy ==
    ~alive => Putting = {}

Fifo == INSTANCE FifoChannel WITH
            Messages <- Messages, sent <- sent, delivered <- delivered

\* The implementation keeps the contract of FifoChannel: a push is the put, a
\* pop is the get, every other step is invisible to the callers.
FifoSpec == Fifo!Spec

\* The inductive invariant of the proofs in MsgChannelProofs.tla: Conservation,
\* and what it rests on.  Every thread that holds a descriptor holds the member's;
\* the queue is the part of the history not yet delivered; the channel is only
\* destroyed after its last message.
DescriptorAgrees ==
    \A t \in Threads : pc[t] \in {"write", "read"} =>
        m_semaphore # NoFd /\ fdOf[t] = m_semaphore
QueueIsPending ==
    /\ Len(sent) = Len(delivered) + Len(m_queue)
    /\ \A i \in 1 .. Len(m_queue) : m_queue[i] = sent[Len(delivered) + i]
LifeInv ==
    /\ Len(sent) <= MaxPuts
    /\ ~alive => Len(delivered) = MaxPuts
RoleInv ==
    /\ \A p \in Producers : pc[p] \in {"idle", "pushed", "write"}
    /\ \A c \in Consumers : pc[c] \in {"idle", "get", "drain", "read", "pop"}
IInv ==
    /\ TypeOK
    /\ RoleInv
    /\ DescriptorAgrees
    /\ Conservation
    /\ QueueIsPending
    /\ LifeInv
    /\ NoPopFromEmpty

\* A drain loop that has seen a message is not left waiting: the put whose push
\* it saw has still to write the event, or has written it (AuthServer.cpp:1164,
\* GameServer.cpp:303).  One consumer per channel, as in the code.
DrainFinishes == \A c \in Consumers : (pc[c] = "drain") ~> (pc[c] = "idle")

\* Every message put is eventually returned to the owner.
EventuallyDelivered ==
    \A n \in 1 .. MaxPuts : (Len(sent) >= n) ~> (Len(delivered) >= n)
=============================================================================

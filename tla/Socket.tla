------------------------------- MODULE Socket -------------------------------
(***************************************************************************)
(* The outgoing half of a crust Socket (src/crust/src/net/socket.rs): the  *)
(* Socket handle feeds an unbounded channel, and a spawned SocketTask moves *)
(* what it finds there into one queue per priority, throws away the queues  *)
(* that have waited too long, and hands the rest to the framed TCP stream.  *)
(*                                                                         *)
(* One poll of SocketTask is split at the points where its loops go round, *)
(* because the handle may be used from another thread and the kernel drains *)
(* the stream at any time; `task` is the place the poll has reached.        *)
(***************************************************************************)
EXTENDS Integers, Sequences

CONSTANTS
  Priorities,         \* the priorities in use, numbers of type u8
  MSG_DROP_PRIORITY,  \* lower-numbered priorities are never dropped
  MAX_MSG_AGE,        \* the age past which a queue is dropped
  WireCapacity,       \* frames the stream holds: kernel buffer and frame slot
  MaxMsgs,            \* bound: messages sent through the socket
  MaxClock            \* bound: ticks of the clock

ASSUME SocketAssumption ==
  /\ Priorities \subseteq Nat
  /\ MSG_DROP_PRIORITY \in Nat
  /\ MAX_MSG_AGE \in Nat
  /\ WireCapacity \in Nat \ {0}
  /\ MaxMsgs \in Nat
  /\ MaxClock \in Nat

VARIABLES
  inner,      \* Socket.inner is Some
  accepted,   \* history: the priority of each message start_send answered Ready
  channel,    \* write_tx/write_rx: message numbers, or Shutdown
  task,       \* where the poll of SocketTask is
  woken,      \* the task has been notified and will be polled
  write_queue,
  stream_rx,  \* the task was given the reading half: it is to shut down
  clock,
  handed,     \* history: messages the framed stream took, in order
  drained,    \* how many of them the kernel and the peer have taken
  expired     \* history: messages dropped for their age

vars == <<inner, accepted, channel, task, woken, write_queue, stream_rx,
          clock, handed, drained, expired>>

\* A message is its number in `accepted`, from 1 on; TaskMsg::Shutdown is 0.
Shutdown == 0

InFlight == Len(handed) - drained
Droppable(p) == p >= MSG_DROP_PRIORITY
Ended == task \in {"done", "failed"}

SeqElements(s) == {s[i] : i \in DOMAIN s}
InChannel == SeqElements(channel) \ {Shutdown}
QueuedAt(p) == {e.msg : e \in SeqElements(write_queue[p])}
InQueue == UNION {QueuedAt(p) : p \in Priorities}
Handed == SeqElements(handed)

\* Socket::wrap_tcp: an empty queue, and a task spawned, hence polled once.
Init ==
  /\ inner = TRUE
  /\ accepted = <<>>
  /\ channel = <<>>
  /\ task = "idle"
  /\ woken = TRUE
  /\ write_queue = [p \in Priorities |-> <<>>]
  /\ stream_rx = FALSE
  /\ clock = 0
  /\ handed = <<>>
  /\ drained = 0
  /\ expired = {}

-----------------------------------------------------------------------------
(* The handle *)

\* unbounded_send, whose error (the task is gone) every caller ignores.
Push(m) ==
  IF Ended
  THEN UNCHANGED <<channel, woken>>
  ELSE channel' = Append(channel, m) /\ woken' = TRUE

\* Sink::start_send: Ready for as long as the socket has not been destroyed.
StartSend(p) ==
  /\ inner
  /\ Len(accepted) < MaxMsgs
  /\ accepted' = Append(accepted, p)
  /\ Push(Len(accepted) + 1)
  /\ UNCHANGED <<inner, task, write_queue, stream_rx, clock, handed, drained, expired>>

\* Inner is dropped: by the owner, or by Stream::poll when reading fails, ends
\* or yields something that does not deserialise.
DropInner ==
  /\ inner
  /\ inner' = FALSE
  /\ Push(Shutdown)
  /\ UNCHANGED <<accepted, task, write_queue, stream_rx, clock, handed, drained, expired>>

-----------------------------------------------------------------------------
(* SocketTask::poll *)

PollStart ==
  /\ task = "idle" /\ woken
  /\ task' = "drain"
  /\ woken' = FALSE
  /\ UNCHANGED <<inner, accepted, channel, write_queue, stream_rx, clock, handed,
                 drained, expired>>

\* TaskMsg::Send: pushed on the queue of its priority with the poll's time.
DrainSend ==
  /\ task = "drain"
  /\ channel # <<>> /\ Head(channel) # Shutdown
  /\ write_queue' = [write_queue EXCEPT ![accepted[Head(channel)]] =
                       Append(@, [at |-> clock, msg |-> Head(channel)])]
  /\ channel' = Tail(channel)
  /\ UNCHANGED <<inner, accepted, task, woken, stream_rx, clock, handed, drained, expired>>

\* TaskMsg::Shutdown ends the draining and arms the shutdown.
DrainShutdown ==
  /\ task = "drain"
  /\ channel # <<>> /\ Head(channel) = Shutdown
  /\ stream_rx' = TRUE
  /\ channel' = Tail(channel)
  /\ task' = "expire"
  /\ UNCHANGED <<inner, accepted, woken, write_queue, clock, handed, drained, expired>>

DrainEmpty ==
  /\ task = "drain" /\ channel = <<>>
  /\ task' = "expire"
  /\ UNCHANGED <<inner, accepted, channel, woken, write_queue, stream_rx, clock,
                 handed, drained, expired>>

\* With a bug: the age of every priority is looked at.
TooOldOfAny(p) == write_queue[p] # <<>> /\ clock - Head(write_queue[p]).at > MAX_MSG_AGE

\* skip_while: the first droppable priority whose front is too old.
TooOld(p) ==
  /\ Droppable(p)
  /\ write_queue[p] # <<>>
  /\ clock - Head(write_queue[p]).at > MAX_MSG_AGE

\* With a bug: only the first such priority.
ExpiredFirst == {p \in Priorities : TooOld(p) /\ \A r \in Priorities : r < p => ~TooOld(r)}

\* ... and every priority from that one on, whatever the age of its messages.
ExpiredKeys == {p \in Priorities : \E r \in Priorities : r <= p /\ TooOld(r)}

Expire ==
  /\ task = "expire"
  /\ write_queue' = [p \in Priorities |->
                       IF p \in ExpiredKeys THEN <<>> ELSE write_queue[p]]
  /\ expired' = expired \union UNION {QueuedAt(p) : p \in ExpiredKeys}
  /\ task' = "send"
  /\ UNCHANGED <<inner, accepted, channel, woken, stream_rx, clock, handed, drained>>

\* The queue the send loop is at: the first, by number, that is not empty.
AtFront(p) ==
  /\ write_queue[p] # <<>>
  /\ \A r \in Priorities : r < p => write_queue[r] = <<>>

SendReady(p) ==
  /\ task = "send" /\ AtFront(p)
  /\ InFlight < WireCapacity
  /\ handed' = Append(handed, Head(write_queue[p]).msg)
  /\ write_queue' = [write_queue EXCEPT ![p] = Tail(@)]
  /\ UNCHANGED <<inner, accepted, channel, task, woken, stream_rx, clock, drained, expired>>

\* With a bug: push_back for push_front.
PutLast(q) == Append(Tail(q), Head(q))

\* With a bug: what the stream refuses is lost.
PutNowhere(q) == Tail(q)

PutBack(q) == <<Head(q)>> \o Tail(q)

\* AsyncSink::NotReady: the message goes back in front, with the time it had.
SendNotReady(p) ==
  /\ task = "send" /\ AtFront(p)
  /\ InFlight = WireCapacity
  /\ write_queue' = [write_queue EXCEPT ![p] = PutBack(@)]
  /\ task' = "complete"
  /\ UNCHANGED <<inner, accepted, channel, woken, stream_rx, clock, handed, drained, expired>>

AllMessagesSent == \A p \in Priorities : write_queue[p] = <<>>

SendDone ==
  /\ task = "send" /\ AllMessagesSent
  /\ task' = "complete"
  /\ UNCHANGED <<inner, accepted, channel, woken, write_queue, stream_rx, clock,
                 handed, drained, expired>>

\* With a bug: the shutdown does not wait for the queues.
FlushedEarly == InFlight < WireCapacity /\ stream_rx

\* With a bug: messages are counted, and expired ones never make up the count.
FlushedCounted ==
  InFlight < WireCapacity /\ Len(handed) = Len(accepted) /\ stream_rx

Flushed == InFlight < WireCapacity /\ AllMessagesSent /\ stream_rx

\* poll_complete is Ready when the frame slot is empty. Then, with all sent and
\* the reading half at hand, the stream is shut down for writing.
Complete ==
  /\ task = "complete"
  /\ task' = IF Flushed THEN "done" ELSE "idle"
  /\ UNCHANGED <<inner, accepted, channel, woken, write_queue, stream_rx, clock,
                 handed, drained, expired>>

\* An I/O error from start_send or poll_complete ends the task, and with it the
\* queues and the receiving end of the channel.
Fail ==
  /\ task \in {"send", "complete"}
  /\ task' = "failed"
  /\ channel' = <<>>
  /\ write_queue' = [p \in Priorities |-> <<>>]
  /\ UNCHANGED <<inner, accepted, woken, stream_rx, clock, handed, drained, expired>>

-----------------------------------------------------------------------------
(* The environment *)

\* The kernel takes a frame. The task waits for this only when the slot was full.
WireDrain ==
  /\ InFlight > 0
  /\ drained' = drained + 1
  /\ woken' = (woken \/ (InFlight = WireCapacity /\ ~Ended))
  /\ UNCHANGED <<inner, accepted, channel, task, write_queue, stream_rx, clock,
                 handed, expired>>

\* Time is counted between polls: one poll is short beside MAX_MSG_AGE_SECS.
Tick ==
  /\ task = "idle"
  /\ clock < MaxClock
  /\ clock' = clock + 1
  /\ UNCHANGED <<inner, accepted, channel, task, woken, write_queue, stream_rx,
                 handed, drained, expired>>

PollStep ==
  \/ PollStart
  \/ DrainSend \/ DrainShutdown \/ DrainEmpty
  \/ Expire
  \/ \E p \in Priorities : SendReady(p) \/ SendNotReady(p)
  \/ SendDone
  \/ Complete

Next ==
  \/ \E p \in Priorities : StartSend(p)
  \/ DropInner
  \/ PollStep
  \/ Fail
  \/ WireDrain
  \/ Tick

Spec == Init /\ [][Next]_vars

\* The event loop polls a notified task to the end, and the peer keeps reading.
Fairness == WF_vars(PollStep) /\ WF_vars(WireDrain)
FairSpec == Spec /\ Fairness

-----------------------------------------------------------------------------
(* Properties *)

Phases == {"idle", "drain", "expire", "send", "complete", "done", "failed"}
Entry == [at : Nat, msg : Nat \ {0}]

\* The types of the socket's and the task's state.
TypeOK ==
  /\ inner \in BOOLEAN
  /\ accepted \in Seq(Priorities)
  /\ channel \in Seq(Nat)
  /\ task \in Phases
  /\ woken \in BOOLEAN
  /\ write_queue \in [Priorities -> Seq(Entry)]
  /\ stream_rx \in BOOLEAN
  /\ clock \in Nat
  /\ handed \in Seq(Nat \ {0})
  /\ drained \in 0..Len(handed)
  /\ expired \in SUBSET (Nat \ {0})

\* "Highest-priority messages ... will never be dropped": while the task lives,
\* every accepted message below MSG_DROP_PRIORITY is waiting or was handed over.
NeverDropped ==
  task # "failed" =>
    \A m \in DOMAIN accepted :
      ~Droppable(accepted[m]) => m \in InChannel \union InQueue \union Handed

\* Whatever is dropped and put back on the way, the stream is given the messages
\* of one priority in the order start_send took them, none of them twice.
InOrderPerPriority ==
  \A i, j \in DOMAIN handed :
    i < j /\ accepted[handed[i]] = accepted[handed[j]] => handed[i] < handed[j]

\* When the send loop runs, no droppable message in any queue is older than
\* MAX_MSG_AGE, though Expire only looks at the front of each queue.
FreshBacklog ==
  task = "send" =>
    \A p \in Priorities : Droppable(p) =>
      \A i \in DOMAIN write_queue[p] : clock - write_queue[p][i].at <= MAX_MSG_AGE

\* No wake-up is lost: with a reading peer, a message that may not be dropped is
\* handed over in the end, unless the stream fails.
HighPriorityHandedOver ==
  \A m \in 1..MaxMsgs :
    (m \in DOMAIN accepted /\ ~Droppable(accepted[m]))
      ~> (m \in Handed \/ task = "failed")

\* A dropped Socket is shut down in the end, whatever was waiting in its queues.
DroppedSocketEnds == ~inner ~> Ended

\* Queues, polls and ages put away, the socket is the message channel its comments
\* describe: what waits is in the task's channel or in one of its queues.
Channel == INSTANCE MessageChannel WITH
  open <- inner,
  waiting <- InChannel \union InQueue,
  delivered <- handed,
  stream <- CASE task = "done" -> "closed" [] task = "failed" -> "broken" [] OTHER -> "up"

ImplementsChannel == Channel!Spec
=============================================================================

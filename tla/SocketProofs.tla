---------------------------- MODULE SocketProofs ----------------------------
(* Proofs about Socket, for any priorities, number of messages, age and    *)
(* capacity of the stream.                                                 *)
EXTENDS Socket, SequenceTheorems, TLAPS

-----------------------------------------------------------------------------
(* Sequences in an order *)

SortedBy(s, R) == \A i, j \in DOMAIN s : i < j => <<s[i], s[j]>> \in R

LEMMA AppendAdds ==
  ASSUME NEW S, NEW s \in Seq(S), NEW x \in S
  PROVE  SeqElements(Append(s, x)) = SeqElements(s) \union {x}
<1> DEFINE t == Append(s, x)
<1>1. /\ Len(s) \in Nat /\ DOMAIN s = 1..Len(s) /\ DOMAIN t = 1..(Len(s) + 1)
      /\ \A i \in 1..Len(s) : t[i] = s[i]
      /\ t[Len(s) + 1] = x
  BY AppendProperties
<1> HIDE DEF t
<1>2. \A i \in DOMAIN t : i \in DOMAIN s \/ i = Len(s) + 1
  BY <1>1
<1>3. SeqElements(t) \subseteq SeqElements(s) \union {x}
  BY <1>1, <1>2 DEF SeqElements
<1>4. SeqElements(s) \subseteq SeqElements(t)
  BY <1>1 DEF SeqElements
<1>5. Len(s) + 1 \in DOMAIN t
  BY <1>1
<1>6. x \in SeqElements(t)
  BY <1>1, <1>5 DEF SeqElements
<1> QED BY <1>3, <1>4, <1>6 DEF t

LEMMA AppendSorts ==
  ASSUME NEW S, NEW R, NEW s \in Seq(S), NEW x \in S,
         SortedBy(s, R), \A y \in SeqElements(s) : <<y, x>> \in R
  PROVE  Append(s, x) \in Seq(S) /\ SortedBy(Append(s, x), R)
<1> DEFINE t == Append(s, x)
<1>1. /\ t \in Seq(S) /\ Len(s) \in Nat /\ DOMAIN s = 1..Len(s) /\ DOMAIN t = 1..(Len(s) + 1)
      /\ \A i \in 1..Len(s) : t[i] = s[i]
      /\ t[Len(s) + 1] = x
  BY AppendProperties
<1> HIDE DEF t
<1>2. \A i \in DOMAIN t : i \in DOMAIN s \/ i = Len(s) + 1
  BY <1>1
<1>3. ASSUME NEW i \in DOMAIN t, NEW j \in DOMAIN t, i < j
      PROVE  <<t[i], t[j]>> \in R
  <2>1. i \in DOMAIN s /\ t[i] = s[i] /\ s[i] \in SeqElements(s)
    BY <1>1, <1>3 DEF SeqElements
  <2>2. CASE j \in DOMAIN s
    BY <1>1, <1>3, <2>1, <2>2 DEF SortedBy
  <2>3. CASE j = Len(s) + 1
    BY <1>1, <2>1, <2>3
  <2> QED BY <1>2, <2>2, <2>3
<1> QED BY <1>1, <1>3 DEF t, SortedBy

LEMMA TailSorts ==
  ASSUME NEW S, NEW R, NEW s \in Seq(S), s # <<>>
  PROVE  /\ Head(s) \in S /\ Tail(s) \in Seq(S) /\ s = <<Head(s)>> \o Tail(s)
         /\ SeqElements(s) = {Head(s)} \union SeqElements(Tail(s))
         /\ SortedBy(s, R) => /\ SortedBy(Tail(s), R)
                              /\ \A y \in SeqElements(Tail(s)) : <<Head(s), y>> \in R
<1> DEFINE t == Tail(s)
<1>1. /\ Head(s) \in S /\ t \in Seq(S) /\ Len(s) \in Nat \ {0} /\ Head(s) = s[1]
      /\ DOMAIN s = 1..Len(s) /\ DOMAIN t = 1..(Len(s) - 1)
      /\ \A i \in 1..(Len(s) - 1) : t[i] = s[i + 1]
  BY HeadTailProperties, EmptySeq
<1>0. s = <<Head(s)>> \o t
  OBVIOUS
<1> HIDE DEF t
<1>2. \A i \in DOMAIN t : i + 1 \in DOMAIN s /\ 1 < i + 1 /\ t[i] = s[i + 1]
  BY <1>1
<1>3. \A i \in DOMAIN s : i = 1 \/ (i - 1 \in DOMAIN t /\ s[i] = t[i - 1])
  BY <1>1
<1>4. 1 \in DOMAIN s
  BY <1>1
<1>5. SeqElements(s) = {Head(s)} \union SeqElements(t)
  <2>1. \A i \in DOMAIN s : s[i] \in {Head(s)} \union SeqElements(t)
    BY <1>1, <1>3 DEF SeqElements
  <2>2. \A i \in DOMAIN t : t[i] \in SeqElements(s)
    BY <1>2 DEF SeqElements
  <2>3. Head(s) \in SeqElements(s)
    BY <1>1, <1>4 DEF SeqElements
  <2> QED BY <2>1, <2>2, <2>3 DEF SeqElements
<1>6. ASSUME SortedBy(s, R)
      PROVE  SortedBy(t, R) /\ \A y \in SeqElements(t) : <<Head(s), y>> \in R
  <2>1. ASSUME NEW i \in DOMAIN t, NEW j \in DOMAIN t, i < j PROVE <<t[i], t[j]>> \in R
    <3>1. i + 1 < j + 1
      BY <1>1, <2>1
    <3> QED BY <1>2, <1>6, <2>1, <3>1 DEF SortedBy
  <2>2. ASSUME NEW i \in DOMAIN t PROVE <<Head(s), t[i]>> \in R
    BY <1>1, <1>2, <1>4, <1>6, <2>2 DEF SortedBy
  <2> QED BY <2>1, <2>2 DEF SortedBy, SeqElements
<1> QED BY <1>0, <1>1, <1>5, <1>6 DEF t

LEMMA EmptySorts ==
  ASSUME NEW R PROVE SeqElements(<<>>) = {} /\ SortedBy(<<>>, R)
BY DEF SeqElements, SortedBy

LEMMA NoElements ==
  ASSUME NEW S, NEW s \in Seq(S), SeqElements(s) = {} PROVE s = <<>>
<1>1. s # <<>> => 1 \in DOMAIN s
  BY EmptySeq, LenProperties
<1> QED BY <1>1 DEF SeqElements

-----------------------------------------------------------------------------
(* Where the messages are *)

\* Of two numbers in the channel the first is the smaller, and nothing follows Shutdown.
Before == {r \in Nat \X Nat : r[1] # Shutdown /\ (r[2] = Shutdown \/ r[1] < r[2])}

\* Of two entries of a queue the first was sent and taken out of the channel first.
Later == {r \in Entry \X Entry : r[1].msg < r[2].msg /\ r[1].at <= r[2].at}

\* Of two messages handed over of one priority the first was sent first.
InTurn == {r \in Nat \X Nat : accepted[r[1]] = accepted[r[2]] => r[1] < r[2]}

\* The channel holds accepted messages in order. Shutdown is sent once, when the handle goes.
ChannelInv ==
  /\ SortedBy(channel, Before)
  /\ InChannel \subseteq DOMAIN accepted
  /\ inner => Shutdown \notin SeqElements(channel)
  /\ stream_rx => ~inner /\ channel = <<>>
  /\ task = "done" => stream_rx /\ AllMessagesSent

\* A queue holds accepted messages of its priority in order, which were all sent before what is
\* still in the channel.
Placed(p, e) ==
  /\ e.msg \in DOMAIN accepted /\ accepted[e.msg] = p /\ e.at <= clock
  /\ \A m \in InChannel : e.msg < m
QueuesInv ==
  \A p \in Priorities :
    SortedBy(write_queue[p], Later) /\ \A e \in SeqElements(write_queue[p]) : Placed(p, e)

\* What is handed over of a priority was sent before all that waits of it.
HandedInv ==
  /\ SortedBy(handed, InTurn)
  /\ Handed \subseteq DOMAIN accepted
  /\ \A m \in Handed :
       /\ \A n \in InChannel : m < n
       /\ \A e \in SeqElements(write_queue[accepted[m]]) : m < e.msg

SocketInv == TypeOK /\ ChannelInv /\ QueuesInv /\ HandedInv /\ NeverDropped /\ FreshBacklog

LEMMA InitiallyInv ==
  ASSUME Init PROVE SocketInv
<1>1. /\ SeqElements(<<>>) = {}
      /\ SortedBy(<<>>, Before) /\ SortedBy(<<>>, Later) /\ SortedBy(<<>>, InTurn)
  BY EmptySorts
<1>2. TypeOK
  <2>1. /\ <<>> \in Seq(Priorities) /\ <<>> \in Seq(Nat) /\ <<>> \in Seq(Entry)
        /\ <<>> \in Seq(Nat \ {0}) /\ Len(<<>>) = 0
    BY EmptySeq
  <2>2. /\ accepted \in Seq(Priorities) /\ channel \in Seq(Nat) /\ handed \in Seq(Nat \ {0})
        /\ write_queue \in [Priorities -> Seq(Entry)] /\ drained \in 0..Len(handed)
    BY <2>1 DEF Init
  <2> QED BY <2>2 DEF Init, TypeOK, Phases
<1>3. ChannelInv /\ QueuesInv /\ HandedInv
  <2>1. InChannel = {} /\ Handed = {}
    BY <1>1 DEF Init, InChannel, Handed
  <2> QED BY <1>1, <2>1 DEF Init, ChannelInv, QueuesInv, HandedInv
<1>4. NeverDropped /\ FreshBacklog
  BY DEF Init, NeverDropped, FreshBacklog
<1> QED BY <1>2, <1>3, <1>4 DEF SocketInv

\* What accepted is, once the prover has it.
LEMMA AcceptedIs ==
  ASSUME TypeOK
  PROVE  /\ DOMAIN accepted = 1..Len(accepted) /\ Len(accepted) \in Nat
         /\ \A m \in DOMAIN accepted : accepted[m] \in Priorities /\ m \in Nat \ {0}
BY ElementOfSeq DEF TypeOK

LEMMA StartSendKeepsInv ==
  ASSUME SocketInv, NEW p \in Priorities, StartSend(p)
  PROVE  SocketInv'
<1> DEFINE n == Len(accepted) + 1
<1> USE DEF SocketInv
<1>1. /\ accepted' = Append(accepted, p)
      /\ UNCHANGED <<inner, task, write_queue, stream_rx, clock, handed, drained, expired>>
      /\ inner /\ Push(n)
  BY DEF StartSend
<1>2. DOMAIN accepted = 1..Len(accepted) /\ Len(accepted) \in Nat /\ n \in Nat \ {0}
  BY AcceptedIs
<1>3. /\ accepted' \in Seq(Priorities) /\ DOMAIN accepted' = DOMAIN accepted \union {n}
      /\ accepted'[n] = p
      /\ \A m \in DOMAIN accepted : accepted'[m] = accepted[m] /\ m < n
  <2>1. accepted \in Seq(Priorities)
    BY DEF TypeOK
  <2>2. 1..n = 1..Len(accepted) \union {n}
    BY <1>2
  <2> QED BY <1>1, <1>2, <2>1, <2>2, AppendProperties
<1> HIDE DEF n
<1>4. ~stream_rx /\ task # "done" /\ Shutdown \notin SeqElements(channel)
  BY <1>1 DEF ChannelInv
<1>5. /\ channel' \in Seq(Nat) /\ woken' \in BOOLEAN
      /\ SortedBy(channel', Before) /\ Shutdown \notin SeqElements(channel')
      /\ InChannel' = InChannel \/ InChannel' = InChannel \union {n}
      /\ task # "failed" => n \in InChannel'
  <2>1. CASE Ended
    BY <1>1, <1>4, <2>1 DEF Push, Ended, TypeOK, ChannelInv, InChannel
  <2>2. CASE ~Ended
    <3>1. channel' = Append(channel, n) /\ woken' = TRUE
      BY <1>1, <2>2 DEF Push
    <3>2. channel \in Seq(Nat)
      BY DEF TypeOK
    <3>3. \A m \in SeqElements(channel) : m \in DOMAIN accepted
      BY <1>4 DEF ChannelInv, InChannel
    <3>4. \A m \in SeqElements(channel) : <<m, n>> \in Before
      BY <1>2, <1>3, <1>4, <3>3 DEF Before, Shutdown
    <3>5. /\ channel' \in Seq(Nat) /\ SortedBy(channel', Before)
          /\ SeqElements(channel') = SeqElements(channel) \union {n}
      BY <1>2, <3>1, <3>2, <3>4, AppendAdds, AppendSorts DEF ChannelInv
    <3> QED BY <1>2, <1>4, <3>1, <3>5 DEF InChannel, Shutdown
  <2> QED BY <2>1, <2>2
<1>6. TypeOK'
  BY <1>1, <1>3, <1>5 DEF TypeOK
<1>7. ChannelInv'
  BY <1>1, <1>3, <1>4, <1>5 DEF ChannelInv
<1>8. QueuesInv'
  BY <1>1, <1>3, <1>5 DEF QueuesInv, Placed
<1>9. HandedInv'
  <2>1. SortedBy(handed', InTurn')
    <3>1. \A i \in DOMAIN handed : handed[i] \in DOMAIN accepted
      BY DEF HandedInv, Handed, SeqElements
    <3>2. SortedBy(handed, InTurn)
      BY DEF HandedInv
    <3>3. \A i, j \in DOMAIN handed : <<handed[i], handed[j]>> \in InTurn => <<handed[i], handed[j]>> \in InTurn'
      BY <1>3, <3>1 DEF InTurn
    <3> QED BY <1>1, <3>2, <3>3 DEF SortedBy
  <2>2. \A m \in Handed : m \in DOMAIN accepted
    BY DEF HandedInv
  <2> QED BY <1>1, <1>3, <1>5, <2>1, <2>2 DEF HandedInv, Handed
<1>10. NeverDropped'
  BY <1>1, <1>3, <1>5 DEF NeverDropped, InQueue, QueuedAt, Handed
<1>11. FreshBacklog'
  BY <1>1 DEF FreshBacklog
<1> QED BY <1>6, <1>7, <1>8, <1>9, <1>10, <1>11

LEMMA DropInnerKeepsInv ==
  ASSUME SocketInv, DropInner
  PROVE  SocketInv'
<1> USE DEF SocketInv
<1>1. /\ inner /\ inner' = FALSE /\ Push(Shutdown)
      /\ UNCHANGED <<accepted, task, write_queue, stream_rx, clock, handed, drained, expired>>
  BY DEF DropInner
<1>2. ~stream_rx /\ task # "done" /\ Shutdown \notin SeqElements(channel)
  BY <1>1 DEF ChannelInv
<1>3. /\ channel' \in Seq(Nat) /\ woken' \in BOOLEAN
      /\ SortedBy(channel', Before) /\ InChannel' = InChannel
  <2>1. CASE Ended
    BY <1>1, <2>1 DEF Push, TypeOK, ChannelInv, InChannel
  <2>2. CASE ~Ended
    <3>1. channel' = Append(channel, Shutdown) /\ woken' = TRUE
      BY <1>1, <2>2 DEF Push
    <3>2. channel \in Seq(Nat) /\ Shutdown \in Nat
      BY DEF TypeOK, Shutdown
    <3>3. \A m \in SeqElements(channel) : <<m, Shutdown>> \in Before
      <4>1. \A m \in SeqElements(channel) : m \in Nat
        BY <3>2, ElementOfSeq, LenProperties DEF SeqElements
      <4> QED BY <1>2, <3>2, <4>1 DEF Before
    <3>4. /\ channel' \in Seq(Nat) /\ SortedBy(channel', Before)
          /\ SeqElements(channel') = SeqElements(channel) \union {Shutdown}
      BY <3>1, <3>2, <3>3, AppendAdds, AppendSorts DEF ChannelInv
    <3> QED BY <3>1, <3>4 DEF InChannel
  <2> QED BY <2>1, <2>2
<1>4. TypeOK' /\ ChannelInv' /\ FreshBacklog'
  BY <1>1, <1>2, <1>3 DEF TypeOK, ChannelInv, FreshBacklog
<1>5. QueuesInv' /\ HandedInv' /\ NeverDropped'
  BY <1>1, <1>3 DEF QueuesInv, Placed, HandedInv, InTurn, Handed, NeverDropped, InQueue, QueuedAt
<1> QED BY <1>4, <1>5

\* A message goes from the channel to the queue of its priority.
LEMMA DrainSendKeepsInv ==
  ASSUME SocketInv, DrainSend
  PROVE  /\ SocketInv'
         /\ InChannel' \union InQueue' = InChannel \union InQueue
<1> DEFINE m == Head(channel)
           p == accepted[m]
           e == [at |-> clock, msg |-> m]
<1> USE DEF SocketInv
<1>1. /\ task = "drain" /\ channel # <<>> /\ m # Shutdown
      /\ write_queue' = [write_queue EXCEPT ![p] = Append(write_queue[p], e)]
      /\ channel' = Tail(channel)
      /\ UNCHANGED <<inner, accepted, task, woken, stream_rx, clock, handed, drained, expired>>
  BY DEF DrainSend
<1>2. channel \in Seq(Nat) /\ SortedBy(channel, Before) /\ ~stream_rx
  BY <1>1 DEF TypeOK, ChannelInv
<1>3. /\ m \in Nat /\ channel' \in Seq(Nat) /\ SortedBy(channel', Before)
      /\ SeqElements(channel) = {m} \union SeqElements(channel')
      /\ \A y \in SeqElements(channel') : <<m, y>> \in Before
  BY <1>1, <1>2, TailSorts
<1>4. /\ InChannel = InChannel' \union {m}
      /\ \A n \in InChannel' : m < n
  BY <1>1, <1>3 DEF InChannel, Before
<1>5. m \in DOMAIN accepted /\ p \in Priorities /\ m \in Nat \ {0} /\ clock \in Nat
  BY <1>4, AcceptedIs DEF ChannelInv, TypeOK
<1>6. e \in Entry /\ e.msg = m /\ e.at = clock
  BY <1>5 DEF Entry
<1> HIDE DEF m, p
<1>7. /\ write_queue \in [Priorities -> Seq(Entry)]
      /\ SortedBy(write_queue[p], Later)
      /\ \A d \in SeqElements(write_queue[p]) : d \in Entry /\ Placed(p, d)
  BY <1>5, ElementOfSeq, LenProperties DEF TypeOK, QueuesInv, SeqElements
<1>8. \A d \in SeqElements(write_queue[p]) : <<d, e>> \in Later
  BY <1>4, <1>6, <1>7 DEF Later, Placed
<1>9. /\ write_queue'[p] \in Seq(Entry) /\ SortedBy(write_queue'[p], Later)
      /\ SeqElements(write_queue'[p]) = SeqElements(write_queue[p]) \union {e}
      /\ \A q \in Priorities \ {p} : write_queue'[q] = write_queue[q]
      /\ write_queue' \in [Priorities -> Seq(Entry)]
  <2>1. /\ Append(write_queue[p], e) \in Seq(Entry) /\ SortedBy(Append(write_queue[p], e), Later)
        /\ SeqElements(Append(write_queue[p], e)) = SeqElements(write_queue[p]) \union {e}
    BY <1>5, <1>6, <1>7, <1>8, AppendAdds, AppendSorts
  <2> HIDE DEF e
  <2> QED BY <1>1, <1>5, <1>7, <2>1
<1> HIDE DEF e
<1>10. TypeOK'
  BY <1>1, <1>3, <1>9 DEF TypeOK
<1>11. ChannelInv'
  BY <1>1, <1>2, <1>3, <1>4 DEF ChannelInv
<1>12. QueuesInv'
  <2>1. ASSUME NEW q \in Priorities, NEW d \in SeqElements(write_queue'[q]) PROVE Placed(q, d)'
    <3>1. CASE d \in SeqElements(write_queue[q])
      BY <1>1, <1>4, <3>1 DEF QueuesInv, Placed
    <3>2. CASE q = p /\ d = e
      BY <1>1, <1>4, <1>5, <1>6, <3>2 DEF Placed, p
    <3> QED BY <1>9, <2>1, <3>1, <3>2
  <2>2. \A q \in Priorities : SortedBy(write_queue'[q], Later)
    BY <1>9 DEF QueuesInv
  <2> QED BY <2>1, <2>2 DEF QueuesInv
<1>13. HandedInv'
  <2>1. SortedBy(handed', InTurn') /\ Handed' = Handed
    BY <1>1 DEF HandedInv, InTurn, Handed
  <2>2. ASSUME NEW h \in Handed, NEW d \in SeqElements(write_queue'[accepted[h]]) PROVE h < d.msg
    <3>1. accepted[h] \in Priorities /\ h < m
      BY <1>4, AcceptedIs DEF HandedInv
    <3>2. CASE d \in SeqElements(write_queue[accepted[h]])
      BY <3>2 DEF HandedInv
    <3>3. CASE d = e
      BY <1>6, <3>1, <3>3
    <3> QED BY <1>9, <2>2, <3>1, <3>2, <3>3
  <2> QED BY <1>1, <1>4, <2>1, <2>2 DEF HandedInv
<1>14. InChannel' \union InQueue' = InChannel \union InQueue
  <2>1. \A x : x \in InQueue <=> \E q \in Priorities : \E d \in SeqElements(write_queue[q]) : x = d.msg
    BY DEF InQueue, QueuedAt
  <2>2. \A x : x \in InQueue' <=> \E q \in Priorities : \E d \in SeqElements(write_queue'[q]) : x = d.msg
    BY DEF InQueue, QueuedAt
  <2>3. InQueue' = InQueue \union {m}
    <3>1. InQueue' \subseteq InQueue \union {m}
      BY <1>6, <1>9, <2>1, <2>2
    <3>2. InQueue \union {m} \subseteq InQueue'
      BY <1>5, <1>6, <1>9, <2>1, <2>2
    <3> QED BY <3>1, <3>2
  <2> QED BY <1>4, <2>3
<1>15. NeverDropped' /\ FreshBacklog'
  BY <1>1, <1>14 DEF NeverDropped, FreshBacklog, Handed
<1> QED BY <1>10, <1>11, <1>12, <1>13, <1>14, <1>15

\* Shutdown is the last thing in the channel.
LEMMA DrainShutdownKeepsInv ==
  ASSUME SocketInv, DrainShutdown
  PROVE  SocketInv' /\ InChannel' = InChannel /\ UNCHANGED write_queue
<1> USE DEF SocketInv
<1>1. /\ task = "drain" /\ task' = "expire" /\ channel # <<>> /\ Head(channel) = Shutdown
      /\ stream_rx' = TRUE /\ channel' = Tail(channel)
      /\ UNCHANGED <<inner, accepted, woken, write_queue, clock, handed, drained, expired>>
  BY DEF DrainShutdown
<1>2. channel \in Seq(Nat) /\ SortedBy(channel, Before)
  BY DEF TypeOK, ChannelInv
<1>3. /\ channel' \in Seq(Nat) /\ SeqElements(channel) = {Shutdown} \union SeqElements(channel')
      /\ \A y \in SeqElements(channel') : <<Shutdown, y>> \in Before
  BY <1>1, <1>2, TailSorts
<1>4. channel' = <<>>
  BY <1>3, NoElements DEF Before
<1>5. ~inner /\ InChannel = {} /\ InChannel' = {} /\ SortedBy(channel', Before)
  <2>1. SeqElements(channel') = {} /\ SortedBy(channel', Before)
    BY <1>4, EmptySorts
  <2> QED BY <1>3, <2>1 DEF ChannelInv, InChannel
<1>6. TypeOK' /\ ChannelInv' /\ FreshBacklog'
  BY <1>1, <1>3, <1>4, <1>5 DEF TypeOK, ChannelInv, FreshBacklog, Phases
<1>7. QueuesInv' /\ HandedInv' /\ NeverDropped'
  BY <1>1, <1>5 DEF QueuesInv, Placed, HandedInv, InTurn, Handed, NeverDropped, InQueue, QueuedAt
<1> QED BY <1>1, <1>5, <1>6, <1>7

LEMMA WhatIsQueued ==
  ASSUME TypeOK, QueuesInv
  PROVE  /\ \A p \in Priorities : \A e \in SeqElements(write_queue[p]) : e \in Entry /\ Placed(p, e)
         /\ \A x : x \in InQueue <=> \E p \in Priorities : \E e \in SeqElements(write_queue[p]) : x = e.msg
BY ElementOfSeq, LenProperties DEF TypeOK, QueuesInv, SeqElements, InQueue, QueuedAt

\* What is given up is droppable, and so is what was sent before it of its priority and waits,
\* which is in the same queue.
Stale == UNION {QueuedAt(p) : p \in ExpiredKeys}

LEMMA ExpireKeepsInv ==
  ASSUME SocketInv, Expire
  PROVE  /\ SocketInv'
         /\ InQueue' = InQueue \ Stale /\ InChannel' = InChannel
         /\ Stale \subseteq InQueue /\ Stale \intersect InChannel = {}
         /\ \A m \in Stale : /\ accepted[m] >= MSG_DROP_PRIORITY
                             /\ \A n \in InChannel \union InQueue :
                                  n < m /\ accepted[n] = accepted[m] => n \in Stale
<1> USE DEF SocketInv
<1>1. /\ task = "expire" /\ task' = "send" /\ expired' = expired \union Stale
      /\ write_queue' = [p \in Priorities |-> IF p \in ExpiredKeys THEN <<>> ELSE write_queue[p]]
      /\ UNCHANGED <<inner, accepted, channel, woken, stream_rx, clock, handed, drained>>
  BY DEF Expire, Stale
<1>2. /\ \A p \in Priorities : \A e \in SeqElements(write_queue[p]) : e \in Entry /\ Placed(p, e)
      /\ \A x : x \in InQueue <=> \E p \in Priorities : \E e \in SeqElements(write_queue[p]) : x = e.msg
  BY WhatIsQueued
<1>3. \A x : x \in Stale <=> \E p \in ExpiredKeys : \E e \in SeqElements(write_queue[p]) : x = e.msg
  BY DEF Stale, QueuedAt
<1>4. \A p \in ExpiredKeys : p \in Priorities /\ p >= MSG_DROP_PRIORITY
  BY SocketAssumption DEF ExpiredKeys, TooOld, Droppable
<1>5. /\ \A p \in ExpiredKeys : write_queue'[p] = <<>>
      /\ \A p \in Priorities \ ExpiredKeys : write_queue'[p] = write_queue[p]
  BY <1>1, <1>4
<1>6. SeqElements(<<>>) = {} /\ SortedBy(<<>>, Later)
  BY EmptySorts
<1>7. \A p \in Priorities : /\ SeqElements(write_queue'[p]) \subseteq SeqElements(write_queue[p])
                            /\ SortedBy(write_queue'[p], Later)
  BY <1>5, <1>6 DEF QueuesInv
<1>8. /\ \A x : x \in InQueue' <=> \E p \in Priorities : \E e \in SeqElements(write_queue'[p]) : x = e.msg
  BY DEF InQueue, QueuedAt
<1>9. InQueue' = InQueue \ Stale
  <2>1. \A x \in InQueue' : x \in InQueue \ Stale
    <3>1. ASSUME NEW p \in Priorities, NEW e \in SeqElements(write_queue'[p]) PROVE e.msg \notin Stale
      <4>1. p \notin ExpiredKeys /\ e \in SeqElements(write_queue[p])
        BY <1>5, <1>6, <1>7, <3>1
      <4> QED BY <1>2, <1>3, <1>4, <4>1 DEF Placed
    <3> QED BY <1>2, <1>7, <1>8, <3>1
  <2>2. \A x \in InQueue \ Stale : x \in InQueue'
    BY <1>2, <1>3, <1>5, <1>8
  <2> QED BY <2>1, <2>2
<1>10. Stale \subseteq InQueue /\ Stale \intersect InChannel = {}
  <2>1. \A x \in Stale : x \in InQueue
    BY <1>2, <1>3, <1>4
  <2>2. \A x \in Stale : x \in InChannel => x < x
    BY <1>2, <1>3, <1>4 DEF Placed
  <2>3. \A x \in Stale : x \in Nat
    BY <1>2, <1>3, <1>4 DEF Entry
  <2> QED BY <2>1, <2>2, <2>3
<1>11. ASSUME NEW m \in Stale
       PROVE  /\ accepted[m] >= MSG_DROP_PRIORITY
              /\ \A n \in InChannel \union InQueue : n < m /\ accepted[n] = accepted[m] => n \in Stale
  <2>1. PICK p \in ExpiredKeys : \E e \in SeqElements(write_queue[p]) : m = e.msg
    BY <1>3
  <2>2. /\ accepted[m] = p /\ m \in Nat
        /\ \A n \in InChannel : m < n /\ n \in Nat
    BY <1>2, <1>4, <2>1, AcceptedIs DEF Placed, Entry, ChannelInv
  <2>3. \A n \in InChannel : ~(n < m)
    BY <2>2
  <2>4. \A n \in InQueue : accepted[n] = p => n \in Stale
    BY <1>2, <1>3 DEF Placed
  <2> QED BY <1>4, <2>2, <2>3, <2>4
<1>12. TypeOK'
  <2>1. write_queue' \in [Priorities -> Seq(Entry)]
    <3>1. <<>> \in Seq(Entry)
      BY EmptySeq
    <3> QED BY <1>1, <3>1 DEF TypeOK
  <2>2. expired' \in SUBSET (Nat \ {0})
    <3>1. \A x \in Stale : x \in Nat \ {0}
      BY <1>2, <1>3, <1>4 DEF Entry
    <3> QED BY <1>1, <3>1 DEF TypeOK
  <2> QED BY <1>1, <2>1, <2>2 DEF TypeOK, Phases
<1>13. ChannelInv' /\ InChannel' = InChannel /\ Handed' = Handed
  BY <1>1 DEF ChannelInv, InChannel, Handed
<1>14. QueuesInv'
  BY <1>1, <1>2, <1>7, <1>13 DEF QueuesInv, Placed
<1>15. HandedInv'
  <2>1. \A h \in Handed : accepted[h] \in Priorities
    BY AcceptedIs DEF HandedInv
  <2> QED BY <1>1, <1>7, <1>13, <2>1 DEF HandedInv, InTurn
<1>16. NeverDropped'
  <2>1. ASSUME NEW m \in DOMAIN accepted, ~Droppable(accepted[m]) PROVE m \notin Stale
    <3>1. accepted[m] \in Nat
      BY AcceptedIs, SocketAssumption
    <3> QED BY <1>11, <2>1, <3>1, SocketAssumption DEF Droppable
  <2> QED BY <1>1, <1>9, <1>13, <2>1 DEF NeverDropped
<1>17. FreshBacklog'
  <2> SUFFICES ASSUME NEW p \in Priorities, Droppable(p), NEW i \in DOMAIN write_queue'[p]
               PROVE  clock - write_queue'[p][i].at <= MAX_MSG_AGE
    BY <1>1 DEF FreshBacklog
  <2>1. p \notin ExpiredKeys
    BY <1>5, <1>6 DEF SeqElements
  <2>2. write_queue'[p] = write_queue[p] /\ write_queue[p] \in Seq(Entry) /\ SortedBy(write_queue[p], Later)
    BY <1>5, <2>1 DEF TypeOK, QueuesInv
  <2>3. ~TooOld(p)
    BY <2>1, SocketAssumption DEF ExpiredKeys
  <2>4. write_queue[p] # <<>> /\ Head(write_queue[p]) = write_queue[p][1] /\ 1 \in DOMAIN write_queue[p]
    BY <2>2
  <2>5. clock - write_queue[p][1].at <= MAX_MSG_AGE
    <3>1. clock \in Nat /\ write_queue[p][1] \in Entry /\ MAX_MSG_AGE \in Nat
      BY <2>2, <2>4, SocketAssumption DEF TypeOK
    <3>2. write_queue[p][1].at \in Nat
      BY <3>1 DEF Entry
    <3> QED BY <2>3, <2>4, <3>1, <3>2 DEF TooOld
  <2>6. CASE i = 1
    BY <2>2, <2>5, <2>6
  <2>7. CASE i # 1
    <3>1. <<write_queue[p][1], write_queue[p][i]>> \in Later
      <4>1. i \in DOMAIN write_queue[p] /\ 1 < i
        BY <2>2, <2>7
      <4> QED BY <2>2, <2>4, <4>1 DEF SortedBy
    <3>2. write_queue[p][1].at <= write_queue[p][i].at
          /\ write_queue[p][1].at \in Nat /\ write_queue[p][i].at \in Nat
      BY <3>1 DEF Later, Entry
    <3> QED BY <2>2, <2>5, <3>2, SocketAssumption DEF TypeOK
  <2> QED BY <2>6, <2>7
<1> QED BY <1>9, <1>10, <1>11, <1>12, <1>13, <1>14, <1>15, <1>16, <1>17

\* What is handed over is the first of its priority that waits.
LEMMA SendReadyKeepsInv ==
  ASSUME SocketInv, NEW p \in Priorities, SendReady(p)
  PROVE  /\ SocketInv'
         /\ \E m \in InQueue :
              /\ handed' = Append(handed, m)
              /\ InQueue' = InQueue \ {m} /\ InChannel' = InChannel /\ m \notin InChannel
              /\ \A n \in InChannel \union InQueue : accepted[n] = accepted[m] => ~(n < m)
<1> USE DEF SocketInv
<1> DEFINE e == Head(write_queue[p])
           m == e.msg
<1>1. /\ task = "send" /\ write_queue[p] # <<>> /\ InFlight < WireCapacity
      /\ handed' = Append(handed, m)
      /\ write_queue' = [write_queue EXCEPT ![p] = Tail(write_queue[p])]
      /\ UNCHANGED <<inner, accepted, channel, task, woken, stream_rx, clock, drained, expired>>
  BY DEF SendReady, AtFront
<1>2. /\ \A q \in Priorities : \A d \in SeqElements(write_queue[q]) : d \in Entry /\ Placed(q, d)
      /\ \A x : x \in InQueue <=> \E q \in Priorities : \E d \in SeqElements(write_queue[q]) : x = d.msg
  BY WhatIsQueued
<1>3. /\ write_queue \in [Priorities -> Seq(Entry)] /\ SortedBy(write_queue[p], Later)
  BY DEF TypeOK, QueuesInv
<1>4. /\ e \in Entry /\ Tail(write_queue[p]) \in Seq(Entry)
      /\ SeqElements(write_queue[p]) = {e} \union SeqElements(Tail(write_queue[p]))
      /\ SortedBy(Tail(write_queue[p]), Later)
      /\ \A d \in SeqElements(Tail(write_queue[p])) : <<e, d>> \in Later
  BY <1>1, <1>3, TailSorts
<1> HIDE DEF e
<1>5. /\ write_queue' \in [Priorities -> Seq(Entry)]
      /\ write_queue'[p] = Tail(write_queue[p])
      /\ \A q \in Priorities \ {p} : write_queue'[q] = write_queue[q]
  BY <1>1, <1>3, <1>4
<1>6. /\ m \in Nat \ {0} /\ e \in SeqElements(write_queue[p]) /\ Placed(p, e)
      /\ m \in DOMAIN accepted /\ accepted[m] = p
      /\ \A n \in InChannel : m < n
  BY <1>2, <1>4 DEF Entry, Placed
<1>7. \A d \in SeqElements(write_queue'[p]) : m < d.msg
  BY <1>4, <1>5 DEF Later
<1>8. /\ \A q \in Priorities : /\ SeqElements(write_queue'[q]) \subseteq SeqElements(write_queue[q])
                               /\ SortedBy(write_queue'[q], Later)
  BY <1>4, <1>5 DEF QueuesInv
<1>9. \A x : x \in InQueue' <=> \E q \in Priorities : \E d \in SeqElements(write_queue'[q]) : x = d.msg
  BY DEF InQueue, QueuedAt
<1>10. InChannel' = InChannel
  BY <1>1 DEF InChannel
<1>11. InQueue' = InQueue \ {m} /\ m \in InQueue
  <2>1. ASSUME NEW q \in Priorities, NEW d \in SeqElements(write_queue'[q]) PROVE d.msg # m
    <3>1. CASE q = p
      BY <1>6, <1>7, <2>1, <3>1
    <3>2. CASE q # p
      BY <1>2, <1>6, <1>8, <2>1, <3>2 DEF Placed
    <3> QED BY <3>1, <3>2
  <2>2. InQueue' \subseteq InQueue \ {m}
    BY <1>2, <1>8, <1>9, <2>1
  <2>3. ASSUME NEW q \in Priorities, NEW d \in SeqElements(write_queue[q]), d.msg # m
        PROVE  d \in SeqElements(write_queue'[q])
    BY <1>4, <1>5, <2>3
  <2>4. InQueue \ {m} \subseteq InQueue'
    BY <1>2, <1>9, <2>3
  <2>5. m \in InQueue
    BY <1>2, <1>6
  <2> QED BY <2>2, <2>4, <2>5
<1>12. /\ m \notin InChannel
       /\ \A n \in InChannel \union InQueue : accepted[n] = accepted[m] => ~(n < m)
  <2>1. \A n \in InChannel : m < n /\ n \in Nat
    BY <1>6, AcceptedIs DEF ChannelInv
  <2>2. ASSUME NEW n \in InQueue, accepted[n] = accepted[m] PROVE ~(n < m)
    <3>1. PICK d \in SeqElements(write_queue[p]) : n = d.msg
      BY <1>2, <1>6, <2>2 DEF Placed
    <3>2. n = m \/ (m < n /\ n \in Nat)
      BY <1>4, <3>1 DEF Later, Entry
    <3> QED BY <1>6, <3>2
  <2> QED BY <1>6, <2>1, <2>2
<1>13. /\ handed' \in Seq(Nat \ {0}) /\ Len(handed') = Len(handed) + 1
       /\ SortedBy(handed', InTurn) /\ Handed' = Handed \union {m}
  <2>1. handed \in Seq(Nat \ {0}) /\ SortedBy(handed, InTurn)
    BY DEF TypeOK, HandedInv
  <2>2. ASSUME NEW h \in SeqElements(handed) PROVE <<h, m>> \in InTurn
    <3>1. h \in DOMAIN accepted /\ \A d \in SeqElements(write_queue[accepted[h]]) : h < d.msg
      BY <2>2 DEF HandedInv, Handed
    <3>2. accepted[h] = accepted[m] => h < m
      BY <1>6, <3>1
    <3>3. h \in Nat /\ m \in Nat
      BY <1>6, <3>1, AcceptedIs
    <3> QED BY <3>2, <3>3 DEF InTurn
  <2> HIDE DEF m
  <2>3. Append(handed, m) \in Seq(Nat \ {0}) /\ SortedBy(Append(handed, m), InTurn)
    BY <1>6, <2>1, <2>2, AppendSorts
  <2>4. SeqElements(Append(handed, m)) = SeqElements(handed) \union {m}
    BY <1>6, <2>1, AppendAdds
  <2>5. Len(Append(handed, m)) = Len(handed) + 1
    BY <1>6, <2>1
  <2>6. SortedBy(handed', InTurn) /\ SortedBy(handed, InTurn)
    BY <1>1, <2>1, <2>3
  <2> QED BY <1>1, <2>3, <2>4, <2>5, <2>6 DEF Handed
<1> HIDE DEF m
<1>14. TypeOK'
  BY <1>1, <1>5, <1>13 DEF TypeOK
<1>15. ChannelInv'
  BY <1>1, <1>10 DEF ChannelInv
<1>16. QueuesInv'
  BY <1>1, <1>2, <1>8, <1>10 DEF QueuesInv, Placed
<1>17. HandedInv'
  <2>1. \A h \in DOMAIN accepted : accepted[h] \in Priorities
    BY AcceptedIs
  <2>2. InTurn' = InTurn
    BY <1>1 DEF InTurn
  <2> QED BY <1>1, <1>6, <1>7, <1>8, <1>10, <1>13, <2>1, <2>2 DEF HandedInv
<1>18. NeverDropped'
  BY <1>1, <1>10, <1>11, <1>13 DEF NeverDropped
<1>19. FreshBacklog'
  <2>1. ASSUME NEW q \in Priorities, Droppable(q), NEW i \in DOMAIN write_queue'[q]
        PROVE  clock - write_queue'[q][i].at <= MAX_MSG_AGE
    <3>1. write_queue'[q][i] \in SeqElements(write_queue[q])
      BY <1>8, <2>1 DEF SeqElements
    <3> QED BY <1>1, <2>1, <3>1 DEF FreshBacklog, SeqElements
  <2> QED BY <1>1, <2>1 DEF FreshBacklog
<1> QED BY <1>1, <1>10, <1>11, <1>12, <1>14, <1>15, <1>16, <1>17, <1>18, <1>19

\* The steps that leave the messages where they are.
LEMMA SameKeepsInv ==
  ASSUME SocketInv, UNCHANGED <<inner, accepted, channel, write_queue, stream_rx, handed, expired>>,
         task' \in Phases, woken' \in BOOLEAN, drained' \in 0..Len(handed),
         clock' \in Nat, clock' >= clock, task = "failed" => task' = "failed",
         task' = "send" => task = "send" /\ clock' = clock,
         task' = "done" => task = "done" \/ Flushed
  PROVE  SocketInv'
<1> USE DEF SocketInv
<1>1. InChannel' = InChannel /\ InQueue' = InQueue /\ Handed' = Handed /\ InTurn' = InTurn
  BY DEF InChannel, InQueue, QueuedAt, Handed, InTurn
<1>2. TypeOK'
  BY DEF TypeOK
<1>3. ChannelInv'
  BY <1>1 DEF ChannelInv, Flushed, AllMessagesSent
<1>4. QueuesInv'
  <2>1. \A p \in Priorities : \A e \in SeqElements(write_queue[p]) : e.at \in Nat
    BY WhatIsQueued DEF Entry
  <2>2. clock \in Nat
    BY DEF TypeOK
  <2> QED BY <1>1, <2>1, <2>2 DEF QueuesInv, Placed
<1>5. HandedInv' /\ NeverDropped' /\ FreshBacklog'
  BY <1>1 DEF HandedInv, NeverDropped, FreshBacklog
<1> QED BY <1>2, <1>3, <1>4, <1>5

LEMMA FailKeepsInv ==
  ASSUME SocketInv, Fail
  PROVE  SocketInv' /\ InChannel' = {} /\ InQueue' = {}
<1> USE DEF SocketInv
<1>1. /\ task' = "failed" /\ channel' = <<>> /\ write_queue' = [p \in Priorities |-> <<>>]
      /\ UNCHANGED <<inner, accepted, woken, stream_rx, clock, handed, drained, expired>>
  BY DEF Fail
<1>2. /\ SeqElements(<<>>) = {} /\ SortedBy(<<>>, Before) /\ SortedBy(<<>>, Later)
      /\ <<>> \in Seq(Nat) /\ <<>> \in Seq(Entry)
  BY EmptySorts, EmptySeq
<1>3. InChannel' = {} /\ InQueue' = {} /\ Handed' = Handed /\ InTurn' = InTurn
  BY <1>1, <1>2 DEF InChannel, InQueue, QueuedAt, Handed, InTurn
<1>4. TypeOK'
  BY <1>1, <1>2 DEF TypeOK, Phases
<1>5. ChannelInv' /\ QueuesInv'
  BY <1>1, <1>2, <1>3 DEF ChannelInv, QueuesInv
<1>6. HandedInv'
  <2>1. \A h \in Handed : accepted[h] \in Priorities
    BY AcceptedIs DEF HandedInv
  <2> QED BY <1>1, <1>2, <1>3, <2>1 DEF HandedInv
<1>7. NeverDropped' /\ FreshBacklog'
  BY <1>1 DEF NeverDropped, FreshBacklog
<1> QED BY <1>3, <1>4, <1>5, <1>6, <1>7

\* PollStart, DrainEmpty, a message that is put back, SendDone, Complete, WireDrain and Tick.
Moves ==
  \/ PollStart \/ DrainEmpty \/ SendDone \/ Complete \/ WireDrain \/ Tick
  \/ \E p \in Priorities : SendNotReady(p)

LEMMA MovesKeepInv ==
  ASSUME SocketInv, Moves
  PROVE  /\ SocketInv'
         /\ UNCHANGED <<inner, accepted, channel, write_queue, handed>>
         /\ \/ UNCHANGED task
            \/ task' # "failed" /\ (task' = "done" => task = "complete" /\ Flushed)
<1> USE DEF SocketInv
<1>1. /\ task \in Phases /\ woken \in BOOLEAN /\ clock \in Nat /\ handed \in Seq(Nat \ {0})
      /\ Len(handed) \in Nat /\ drained \in 0..Len(handed)
  BY DEF TypeOK
<1>2. CASE PollStart \/ DrainEmpty \/ SendDone \/ Complete
  <2>1. /\ task' \in Phases /\ woken' \in BOOLEAN /\ task' # "failed" /\ task # "failed"
        /\ task' = "send" => task = "send"
        /\ task' = "done" => task = "complete" /\ Flushed
        /\ UNCHANGED <<inner, accepted, channel, write_queue, stream_rx, clock, handed, drained, expired>>
    BY <1>1, <1>2 DEF PollStart, DrainEmpty, SendDone, Complete, Phases
  <2> QED BY <1>1, <2>1, SameKeepsInv
<1>3. CASE WireDrain
  <2>1. /\ drained' \in 0..Len(handed) /\ woken' \in BOOLEAN
        /\ UNCHANGED <<inner, accepted, channel, task, write_queue, stream_rx, clock, handed, expired>>
    BY <1>1, <1>3 DEF WireDrain, InFlight
  <2> QED BY <1>1, <2>1, SameKeepsInv
<1>4. CASE Tick
  <2>1. clock' \in Nat /\ clock' >= clock /\ task = "idle"
        /\ UNCHANGED <<inner, accepted, channel, task, woken, write_queue, stream_rx, handed, drained, expired>>
    BY <1>1, <1>4 DEF Tick
  <2> QED BY <1>1, <2>1, SameKeepsInv
<1>5. ASSUME NEW p \in Priorities, SendNotReady(p)
      PROVE  SocketInv' /\ task' = "complete" /\ UNCHANGED <<inner, accepted, channel, write_queue, handed>>
  <2>1. /\ write_queue[p] # <<>> /\ task = "send" /\ task' = "complete"
        /\ write_queue' = [write_queue EXCEPT ![p] = PutBack(write_queue[p])]
        /\ UNCHANGED <<inner, accepted, channel, woken, stream_rx, clock, handed, drained, expired>>
    BY <1>5 DEF SendNotReady, AtFront
  <2>2. write_queue \in [Priorities -> Seq(Entry)]
    BY DEF TypeOK
  <2>3. PutBack(write_queue[p]) = write_queue[p]
    BY <2>1, <2>2, TailSorts DEF PutBack
  <2>4. write_queue' = write_queue
    BY <2>1, <2>2, <2>3
  <2> QED BY <1>1, <2>1, <2>4, SameKeepsInv DEF Phases
<1> QED BY <1>2, <1>3, <1>4, <1>5 DEF Moves, PollStart, DrainEmpty, SendDone, Complete, WireDrain, Tick

LEMMA NextCases ==
  Next <=> \/ \E p \in Priorities : StartSend(p) \/ SendReady(p)
           \/ DropInner \/ DrainSend \/ DrainShutdown \/ Expire \/ Fail \/ Moves
BY DEF Next, PollStep, Moves

LEMMA StepKeepsInv ==
  ASSUME SocketInv, [Next]_vars
  PROVE  SocketInv'
<1>1. CASE UNCHANGED vars
  <2>1. UNCHANGED <<inner, accepted, channel, task, woken, write_queue, stream_rx, clock, handed, drained, expired>>
    BY <1>1 DEF vars
  <2>2. task \in Phases /\ woken \in BOOLEAN /\ clock \in Nat /\ drained \in 0..Len(handed)
    BY DEF SocketInv, TypeOK
  <2> QED BY <2>1, <2>2, SameKeepsInv
<1>2. CASE Next
  BY <1>2, NextCases, StartSendKeepsInv, SendReadyKeepsInv, DropInnerKeepsInv, DrainSendKeepsInv,
     DrainShutdownKeepsInv, ExpireKeepsInv, FailKeepsInv, MovesKeepInv
<1> QED BY <1>1, <1>2

\* What the handle, the channel, the queues and the stream hold are messages that have been
\* accepted, and the task is where its poll can be.
THEOREM Typing == Spec => []TypeOK
<1>1. SocketInv => TypeOK
  BY DEF SocketInv
<1> QED BY <1>1, InitiallyInv, StepKeepsInv, PTL DEF Spec

\* While the task lives, no accepted message below MSG_DROP_PRIORITY is lost, for any priorities,
\* ages and capacity of the stream.
THEOREM HighPriorityStays == Spec => []NeverDropped
<1>1. SocketInv => NeverDropped
  BY DEF SocketInv
<1> QED BY <1>1, InitiallyInv, StepKeepsInv, PTL DEF Spec

\* Whatever expires and is put back, the stream gets the messages of a priority in order and once.
THEOREM OrderIsKept == Spec => []InOrderPerPriority
<1>1. SocketInv => InOrderPerPriority
  BY DEF SocketInv, HandedInv, SortedBy, InTurn, InOrderPerPriority
<1> QED BY <1>1, InitiallyInv, StepKeepsInv, PTL DEF Spec

\* When the send loop runs, no droppable message that waits is too old, though only the front of
\* each queue has been looked at.
THEOREM BacklogIsFresh == Spec => []FreshBacklog
<1>1. SocketInv => FreshBacklog
  BY DEF SocketInv
<1> QED BY <1>1, InitiallyInv, StepKeepsInv, PTL DEF Spec

-----------------------------------------------------------------------------
(* The message channel *)

LEMMA InitialMaps ==
  ASSUME Init PROVE Channel!Init
<1>1. InChannel = {} /\ InQueue = {}
  BY EmptySorts DEF Init, InChannel, InQueue, QueuedAt
<1> QED BY <1>1 DEF Init, Channel!Init

stream == CASE task = "done" -> "closed" [] task = "failed" -> "broken" [] OTHER -> "up"
waiting == InChannel \union InQueue

LEMMA StepMaps ==
  ASSUME SocketInv, [Next]_vars
  PROVE  [Channel!Next]_(Channel!vars)
<1> USE DEF waiting, stream
<1>1. ASSUME UNCHANGED <<inner, accepted, handed>>, waiting' = waiting, stream' = stream
      PROVE  UNCHANGED Channel!vars
  BY <1>1 DEF Channel!vars
<1>2. CASE UNCHANGED vars
  BY <1>1, <1>2 DEF vars, InChannel, InQueue, QueuedAt
<1>3. ASSUME NEW p \in Priorities, StartSend(p) PROVE Channel!Next
  <2>1. /\ inner /\ accepted' = Append(accepted, p) /\ Push(Len(accepted) + 1)
        /\ UNCHANGED <<inner, task, write_queue, handed>>
    BY <1>3 DEF StartSend
  <2>2. task # "done"
    BY <2>1 DEF SocketInv, ChannelInv
  <2>3. InQueue' = InQueue
    BY <2>1 DEF InQueue, QueuedAt
  <2>4. CASE task = "failed"
    <3>1. waiting' = waiting /\ stream = "broken" /\ stream' = stream
      BY <2>1, <2>3, <2>4 DEF Push, Ended, InChannel
    <3> QED BY <2>1, <3>1 DEF Channel!Next, Channel!Accept
  <2>5. CASE task # "failed"
    <3>1. channel' = Append(channel, Len(accepted) + 1) /\ channel \in Seq(Nat) /\ Len(accepted) \in Nat
      BY <2>1, <2>2, <2>5 DEF Push, Ended, SocketInv, TypeOK
    <3>2. SeqElements(channel') = SeqElements(channel) \union {Len(accepted) + 1}
      BY <3>1, AppendAdds
    <3>3. waiting' = waiting \union {Len(accepted) + 1}
      BY <2>3, <3>1, <3>2 DEF InChannel, Shutdown
    <3>4. stream = "up" /\ stream' = stream
      BY <2>1, <2>2, <2>5
    <3> QED BY <2>1, <3>3, <3>4 DEF Channel!Next, Channel!Accept
  <2> QED BY <2>4, <2>5
<1>4. CASE DropInner
  <2>1. inner /\ inner' = FALSE /\ Push(Shutdown) /\ UNCHANGED <<accepted, task, write_queue, handed>>
    BY <1>4 DEF DropInner
  <2>2. InQueue' = InQueue /\ stream' = stream
    BY <2>1 DEF InQueue, QueuedAt
  <2>3. InChannel' = InChannel
    <3>1. channel \in Seq(Nat) /\ Shutdown \in Nat
      BY DEF SocketInv, TypeOK, Shutdown
    <3>2. SeqElements(Append(channel, Shutdown)) = SeqElements(channel) \union {Shutdown}
      BY <3>1, AppendAdds
    <3>3. channel' = channel \/ channel' = Append(channel, Shutdown)
      BY <2>1 DEF Push
    <3> QED BY <3>2, <3>3 DEF InChannel
  <2> QED BY <2>1, <2>2, <2>3 DEF Channel!Next, Channel!HangUp
<1>5. CASE DrainSend
  <2>1. waiting' = waiting
    BY <1>5, DrainSendKeepsInv
  <2> QED BY <1>1, <1>5, <2>1 DEF DrainSend
<1>6. CASE DrainShutdown
  <2>1. waiting' = waiting
    BY <1>6, DrainShutdownKeepsInv DEF InQueue, QueuedAt
  <2>2. stream' = stream
    BY <1>6 DEF DrainShutdown
  <2> QED BY <1>1, <1>6, <2>1, <2>2 DEF DrainShutdown
<1>7. CASE Expire
  <2>1. /\ InQueue' = InQueue \ Stale /\ InChannel' = InChannel
        /\ Stale \subseteq InQueue /\ Stale \intersect InChannel = {}
        /\ \A m \in Stale : /\ accepted[m] >= MSG_DROP_PRIORITY
                            /\ \A n \in waiting : n < m /\ accepted[n] = accepted[m] => n \in Stale
    BY <1>7, ExpireKeepsInv
  <2>2. waiting' = waiting \ Stale /\ Stale \in SUBSET waiting
    BY <2>1
  <2>3. stream = "up" /\ stream' = "up" /\ UNCHANGED <<inner, accepted, handed>>
    BY <1>7 DEF Expire
  <2>4. Channel!GiveUp(Stale)
    BY <2>1, <2>2, <2>3 DEF Channel!GiveUp, Channel!Elders
  <2> QED BY <2>2, <2>4 DEF Channel!Next
<1>8. ASSUME NEW p \in Priorities, SendReady(p) PROVE Channel!Next
  <2>1. PICK m \in InQueue :
          /\ handed' = Append(handed, m)
          /\ InQueue' = InQueue \ {m} /\ InChannel' = InChannel /\ m \notin InChannel
          /\ \A n \in waiting : accepted[n] = accepted[m] => ~(n < m)
    BY <1>8, SendReadyKeepsInv
  <2>2. waiting' = waiting \ {m} /\ m \in waiting
    BY <2>1
  <2>3. stream = "up" /\ stream' = "up" /\ UNCHANGED <<inner, accepted>>
    BY <1>8 DEF SendReady
  <2>4. Channel!Deliver(m)
    BY <2>1, <2>2, <2>3 DEF Channel!Deliver, Channel!Elders
  <2> QED BY <2>2, <2>4 DEF Channel!Next
<1>9. CASE Fail
  <2>1. InChannel' = {} /\ InQueue' = {}
    BY <1>9, FailKeepsInv
  <2>2. stream = "up" /\ stream' = "broken" /\ UNCHANGED <<inner, accepted, handed>>
    BY <1>9 DEF Fail
  <2> QED BY <2>1, <2>2 DEF Channel!Next, Channel!Break
<1>10. CASE Moves
  <2>1. /\ UNCHANGED <<inner, accepted, channel, write_queue, handed>>
        /\ \/ UNCHANGED task
           \/ task' # "failed" /\ (task' = "done" => task = "complete" /\ Flushed)
    BY <1>10, MovesKeepInv
  <2>2. waiting' = waiting
    BY <2>1 DEF InChannel, InQueue, QueuedAt
  <2>3. CASE stream' = stream
    BY <1>1, <2>1, <2>2, <2>3
  <2>4. CASE stream' # stream
    <3>1. task \notin {"done", "failed"} /\ task' = "done" /\ Flushed
      BY <1>10, <2>1, <2>4
         DEF Moves, PollStart, DrainEmpty, SendDone, Complete, WireDrain, Tick, SendNotReady
    <3>2. ~inner /\ waiting = {}
      <4>1. stream_rx /\ \A p \in Priorities : write_queue[p] = <<>>
        BY <3>1 DEF Flushed, AllMessagesSent
      <4>2. ~inner /\ channel = <<>>
        BY <4>1 DEF SocketInv, ChannelInv
      <4> QED BY <4>1, <4>2, EmptySorts DEF InChannel, InQueue, QueuedAt
    <3>3. stream = "up" /\ stream' = "closed"
      BY <3>1
    <3> QED BY <2>1, <2>2, <3>2, <3>3 DEF Channel!Next, Channel!Close
  <2> QED BY <2>3, <2>4
<1> QED BY <1>2, <1>3, <1>4, <1>5, <1>6, <1>7, <1>8, <1>9, <1>10, NextCases

\* Queues, polls and ages put away, the socket is a message channel, for any of its constants.
THEOREM SocketIsAChannel == Spec => ImplementsChannel
BY InitiallyInv, StepKeepsInv, InitialMaps, StepMaps, PTL DEF Spec, ImplementsChannel, Channel!Spec
=============================================================================

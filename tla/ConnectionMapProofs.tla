------------------------ MODULE ConnectionMapProofs ------------------------
(* Proofs about ConnectionMap, for any UIDs and number of connections.     *)
EXTENDS ConnectionMap, TLAPS

-----------------------------------------------------------------------------
(* Types *)

Kinds == Connecting \union {"NewMessage", "LostPeer"}
EventType == [kind : Kinds, uid : Uids]

\* What the application is told is an event.
LEMMA TellKeepsType ==
  ASSUME TypeOK, NEW kind \in Kinds, NEW u \in Uids, Tell(kind, u)
  PROVE  events' \in Seq(EventType)
<1>1. events \in Seq(EventType)
  BY DEF TypeOK, EventType, Kinds
<1>2. [kind |-> kind, uid |-> u] \in EventType
  BY DEF EventType
<1> QED BY <1>1, <1>2 DEF Tell

\* Taking UIDs out leaves a table of connections and None.
LEMMA RemovalKeepsType ==
  ASSUME TypeOK, NEW us \in SUBSET Uids
  PROVE  /\ Without(us) \in [Uids -> Conns \union {None}]
         /\ Removed(us) \in [Conns -> TaskStates]
<1>1. map \in [Uids -> Conns \union {None}] /\ task \in [Conns -> TaskStates]
  BY DEF TypeOK
<1>2. "removed" \in TaskStates
  BY DEF TaskStates
<1> QED BY <1>1, <1>2 DEF Without, Removed

\* A peer that is kept gets the next number.
LEMMA InsertKeepsType ==
  ASSUME TypeOK, NEW u \in Uids, InsertPeer(u)
  PROVE  /\ map' \in [Uids -> Conns' \union {None}]
         /\ conns' \in Seq(Uids)
         /\ task' \in [Conns' -> TaskStates]
<1>1. map \in [Uids -> Conns \union {None}] /\ conns \in Seq(Uids) /\ task \in [Conns -> TaskStates]
  BY DEF TypeOK
<1>2. CASE map[u] # None
  BY <1>1, <1>2 DEF InsertPeer, Conns
<1>3. CASE map[u] = None
  <2>1. map' = [map EXCEPT ![u] = Len(conns) + 1] /\ conns' = Append(conns, u)
        /\ task' = Append(task, "forwarding")
    BY <1>3 DEF InsertPeer
  <2>2. Len(conns) \in Nat /\ Len(conns') = Len(conns) + 1 /\ conns' \in Seq(Uids)
    BY <1>1, <2>1
  <2>3. Conns' = 1..(Len(conns) + 1) /\ Conns \subseteq Conns' /\ Len(conns) + 1 \in Conns'
    BY <2>2 DEF Conns
  <2>4. map' \in [Uids -> Conns' \union {None}]
    BY <1>1, <2>1, <2>3
  <2>5. task' \in [Conns' -> TaskStates]
    <3>1. "forwarding" \in TaskStates
      BY DEF TaskStates
    <3>2. task \in Seq(TaskStates) /\ Len(task) = Len(conns)
      BY <1>1, <2>2 DEF Conns
    <3>3. task' \in Seq(TaskStates) /\ Len(task') = Len(conns) + 1
      BY <2>1, <3>1, <3>2
    <3> QED BY <2>3, <3>3
  <2> QED BY <2>2, <2>4, <2>5
<1> QED BY <1>2, <1>3

\* The state keeps its types.
THEOREM Typing == Spec => []TypeOK
<1>1. Init => TypeOK
  BY DEF Init, TypeOK, Conns
<1>2. TypeOK /\ [Next]_vars => TypeOK'
  <2> SUFFICES ASSUME TypeOK, [Next]_vars PROVE TypeOK'
    OBVIOUS
  <2>1. ASSUME NEW u \in Uids, NEW kind \in Connecting, Connected(u, kind) PROVE TypeOK'
    <3>1. events' \in Seq(EventType)
      BY <2>1, TellKeepsType DEF Connected, Kinds
    <3> QED BY <2>1, <3>1, InsertKeepsType DEF Connected, TypeOK, EventType, Kinds
  <2>2. ASSUME NEW u \in Uids, Accepted(u) PROVE TypeOK'
    <3>1. events' \in Seq(EventType)
      <4>1. "BootstrapAccept" \in Kinds
        BY DEF Kinds, Connecting
      <4>2. CASE map[u] = None
        BY <2>2, <4>1, <4>2, TellKeepsType DEF Accepted
      <4>3. CASE map[u] # None
        BY <2>2, <4>3 DEF Accepted, TypeOK, EventType, Kinds
      <4> QED BY <4>2, <4>3
    <3> QED BY <2>2, <3>1, InsertKeepsType DEF Accepted, TypeOK, EventType, Kinds
  <2>3. ASSUME NEW us \in SUBSET Uids, map' = Without(us), task' = Removed(us),
               UNCHANGED <<conns, events>>, running' \in BOOLEAN
        PROVE  TypeOK'
    <3>1. Conns' = Conns
      BY <2>3 DEF Conns
    <3>2. map' \in [Uids -> Conns' \union {None}] /\ task' \in [Conns' -> TaskStates]
      BY <2>3, <3>1, RemovalKeepsType
    <3> QED BY <2>3, <3>2 DEF TypeOK
  <2>4. ASSUME NEW u \in Uids, Disconnect(u) PROVE TypeOK'
    BY <2>3, <2>4 DEF Disconnect, TypeOK
  <2>5. ASSUME NEW kept \in SUBSET Uids, WhitelistFilter(kept) PROVE TypeOK'
    BY <2>3, <2>5 DEF WhitelistFilter, TypeOK
  <2>6. CASE Stop
    BY <2>3, <2>6 DEF Stop
  <2>7. ASSUME NEW c \in Conns, Forward(c) PROVE TypeOK'
    <3>1. conns[c] \in Uids
      BY DEF TypeOK, Conns
    <3>2. events' \in Seq(EventType)
      BY <2>7, <3>1, TellKeepsType DEF Forward, Kinds
    <3> QED BY <2>7, <3>2 DEF Forward, TypeOK, EventType, Kinds, Conns
  <2>8. ASSUME NEW c \in Conns, StreamEnds(c) PROVE TypeOK'
    BY <2>8 DEF StreamEnds, TypeOK, TaskStates, Conns
  <2>9. ASSUME NEW c \in Conns, Finish(c) PROVE TypeOK'
    <3>1. conns[c] \in Uids
      BY DEF TypeOK, Conns
    <3>2. events' \in Seq(EventType)
      BY <2>9, <3>1, TellKeepsType DEF Finish, Kinds
    <3>3. Conns' = Conns
      BY <2>9 DEF Finish, Conns
    <3>4. "finished" \in TaskStates
      BY DEF TaskStates
    <3>5. map' \in [Uids -> Conns' \union {None}] /\ task' \in [Conns' -> TaskStates]
      BY <2>9, <3>1, <3>3, <3>4, RemovalKeepsType DEF Finish
    <3> QED BY <2>9, <3>2, <3>5 DEF Finish, TypeOK, EventType, Kinds
  <2>10. CASE UNCHANGED vars
    BY <2>10 DEF vars, TypeOK, Conns
  <2> QED BY <2>1, <2>2, <2>4, <2>5, <2>6, <2>7, <2>8, <2>9, <2>10 DEF Next
<1> QED BY <1>1, <1>2, PTL DEF Spec

-----------------------------------------------------------------------------
(* The table and the tasks *)

\* From a task that forwards to the table, and from the table to a task whose
\* DropNotify is held.
Linked == NoOrphans /\ MapHoldsLivePeers

\* A peer that is inserted is both in the table and forwarding.
LEMMA InsertKeepsLinks ==
  ASSUME TypeOK, Linked, NEW u \in Uids, InsertPeer(u)
  PROVE  Linked'
<1>1. map \in [Uids -> Conns \union {None}] /\ conns \in Seq(Uids) /\ task \in [Conns -> TaskStates]
  BY DEF TypeOK
<1>2. CASE map[u] # None
  BY <1>2 DEF InsertPeer, Linked, NoOrphans, MapHoldsLivePeers, Conns
<1>3. CASE map[u] = None
  <2> DEFINE n == Len(conns) + 1
  <2>1. map' = [map EXCEPT ![u] = n] /\ conns' = Append(conns, u) /\ task' = Append(task, "forwarding")
    BY <1>3 DEF InsertPeer
  <2>2. Len(conns) \in Nat /\ Conns = 1..Len(conns) /\ Conns' = 1..n /\ n \notin Conns
    BY <1>1, <2>1 DEF Conns
  <2>3. task \in Seq(TaskStates) /\ Len(task) = Len(conns)
    BY <1>1, <2>2
  <2>4. conns'[n] = u /\ task'[n] = "forwarding"
    BY <1>1, <2>1, <2>3
  <2>5. ASSUME NEW d \in Conns PROVE conns'[d] = conns[d] /\ task'[d] = task[d] /\ conns[d] \in Uids
    BY <1>1, <2>1, <2>2, <2>3
  <2>6. ASSUME NEW d \in Conns', task'[d] = "forwarding" PROVE map'[conns'[d]] = d
    <3>1. CASE d = n
      BY <1>1, <2>1, <2>4, <3>1
    <3>2. CASE d # n
      <4>1. d \in Conns
        BY <2>2, <3>2
      <4>2. map[conns[d]] = d
        BY <2>5, <2>6, <4>1 DEF Linked, NoOrphans
      <4>3. conns[d] # u
        BY <1>3, <2>2, <4>1, <4>2, ConnectionMapAssumption
      <4> QED BY <1>1, <2>1, <2>5, <4>1, <4>2, <4>3
    <3> QED BY <3>1, <3>2
  <2>7. ASSUME NEW w \in Uids, map'[w] # None
        PROVE  conns'[map'[w]] = w /\ task'[map'[w]] \in {"forwarding", "ended"}
    <3>1. CASE w = u
      BY <1>1, <2>1, <2>4, <3>1
    <3>2. CASE w # u
      <4>1. map'[w] = map[w] /\ map[w] \in Conns
        BY <1>1, <2>1, <2>7, <3>2
      <4>2. conns[map[w]] = w /\ task[map[w]] \in {"forwarding", "ended"}
        BY <2>7, <4>1 DEF Linked, MapHoldsLivePeers
      <4> QED BY <2>5, <4>1, <4>2
    <3> QED BY <3>1, <3>2
  <2> QED BY <2>6, <2>7 DEF Linked, NoOrphans, MapHoldsLivePeers
<1> QED BY <1>2, <1>3

\* Entries go and their tasks stop together. A task may stop besides (when it has
\* removed its own UID), if it is none the table is left with.
LEMMA RemovalKeepsLinks ==
  ASSUME TypeOK, Linked, NEW us \in SUBSET Uids, map' = Without(us), UNCHANGED conns,
         \A d \in Conns : task'[d] = "forwarding" => Removed(us)[d] = "forwarding",
         \A d \in Conns : conns[d] \notin us => task'[d] = Removed(us)[d]
  PROVE  Linked'
<1>1. map \in [Uids -> Conns \union {None}] /\ \A d \in Conns : conns[d] \in Uids
  BY DEF TypeOK, Conns
<1>2. Conns' = Conns
  BY DEF Conns
<1>3. ASSUME NEW d \in Conns, task'[d] = "forwarding" PROVE map'[conns[d]] = d
  <2>1. Removed(us)[d] = "forwarding"
    BY <1>3
  <2>2. task[d] = "forwarding" /\ ~\E u \in us : map[u] = d
    BY <2>1 DEF Removed
  <2>3. map[conns[d]] = d
    BY <2>2 DEF Linked, NoOrphans
  <2>4. conns[d] \notin us
    BY <2>2, <2>3
  <2> QED BY <1>1, <2>3, <2>4 DEF Without
<1>4. ASSUME NEW w \in Uids, map'[w] # None
      PROVE  conns[map'[w]] = w /\ task'[map'[w]] \in {"forwarding", "ended"}
  <2>1. w \notin us /\ map'[w] = map[w]
    BY <1>4 DEF Without
  <2>2. map[w] \in Conns /\ conns[map[w]] = w /\ task[map[w]] \in {"forwarding", "ended"}
    BY <1>1, <1>4, <2>1 DEF Linked, MapHoldsLivePeers
  <2>3. ASSUME NEW u \in us, map[u] = map[w] PROVE FALSE
    <3>1. map[u] # None /\ conns[map[u]] = u
      BY <1>4, <2>1, <2>3 DEF Linked, MapHoldsLivePeers
    <3> QED BY <2>1, <2>2, <2>3, <3>1
  <2>4. Removed(us)[map[w]] = task[map[w]]
    BY <2>2, <2>3 DEF Removed
  <2>5. task'[map[w]] = task[map[w]]
    BY <2>1, <2>2, <2>4
  <2> QED BY <2>1, <2>2, <2>5
<1> QED BY <1>2, <1>3, <1>4 DEF Linked, NoOrphans, MapHoldsLivePeers

\* A step of any kind.
LEMMA StepKeepsLinks == TypeOK /\ Linked /\ [Next]_vars => Linked'
<1> SUFFICES ASSUME TypeOK, Linked, [Next]_vars PROVE Linked'
  OBVIOUS
<1>1. ASSUME NEW u \in Uids, NEW kind \in Connecting, Connected(u, kind) PROVE Linked'
  BY <1>1, InsertKeepsLinks DEF Connected
<1>2. ASSUME NEW u \in Uids, Accepted(u) PROVE Linked'
  BY <1>2, InsertKeepsLinks DEF Accepted
<1>3. ASSUME NEW u \in Uids, Disconnect(u) PROVE Linked'
  BY <1>3, RemovalKeepsLinks DEF Disconnect
<1>4. ASSUME NEW kept \in SUBSET Uids, WhitelistFilter(kept) PROVE Linked'
  BY <1>4, RemovalKeepsLinks DEF WhitelistFilter
<1>5. CASE Stop
  BY <1>5, RemovalKeepsLinks DEF Stop
<1>6. ASSUME NEW c \in Conns, Forward(c) PROVE Linked'
  BY <1>6 DEF Forward, Linked, NoOrphans, MapHoldsLivePeers, Conns
<1>7. ASSUME NEW c \in Conns, StreamEnds(c) PROVE Linked'
  <2>1. task' = [task EXCEPT ![c] = "ended"] /\ UNCHANGED <<map, conns>> /\ Conns' = Conns
    BY <1>7 DEF StreamEnds, Conns
  <2>2. \A d \in Conns : task'[d] = IF d = c THEN "ended" ELSE task[d]
    BY <2>1 DEF TypeOK
  <2>3. \A u \in Uids : map[u] # None => map[u] \in Conns
    BY DEF TypeOK
  <2> QED BY <2>1, <2>2, <2>3 DEF Linked, NoOrphans, MapHoldsLivePeers
<1>8. ASSUME NEW c \in Conns, Finish(c) PROVE Linked'
  <2>1. map' = Without({conns[c]}) /\ UNCHANGED conns
        /\ task' = [Removed({conns[c]}) EXCEPT ![c] = "finished"]
    BY <1>8 DEF Finish
  <2>2. {conns[c]} \in SUBSET Uids
    BY DEF TypeOK, Conns
  <2>3. \A d \in Conns : task'[d] = IF d = c THEN "finished" ELSE Removed({conns[c]})[d]
    BY <2>1 DEF Removed
  <2> QED BY <2>1, <2>2, <2>3, RemovalKeepsLinks
<1>9. CASE UNCHANGED vars
  BY <1>9 DEF vars, Linked, NoOrphans, MapHoldsLivePeers, Conns
<1> QED BY <1>1, <1>2, <1>3, <1>4, <1>5, <1>6, <1>7, <1>8, <1>9 DEF Next

\* A connection that still reaches the application can be sent to and disconnected,
\* in whatever order connections to the same UID are made, lost and removed.
THEOREM NothingOrphaned == Spec => []NoOrphans
<1>1. Init => Linked
  BY DEF Init, Linked, NoOrphans, MapHoldsLivePeers, Conns
<1>2. Linked => NoOrphans
  BY DEF Linked
<1> QED BY <1>1, <1>2, Typing, StepKeepsLinks, PTL DEF Spec

\* What the table holds is a connection to that UID, with its DropNotify held.
THEOREM TableIsLive == Spec => []MapHoldsLivePeers
<1>1. Init => Linked
  BY DEF Init, Linked, NoOrphans, MapHoldsLivePeers, Conns
<1>2. Linked => MapHoldsLivePeers
  BY DEF Linked
<1> QED BY <1>1, <1>2, Typing, StepKeepsLinks, PTL DEF Spec

-----------------------------------------------------------------------------
(* The table and what the application has been told *)

\* The events about the coming and going of a UID have a last, if there are any.
LastExists ==
  \A u \in Uids : StatusEvents(u) = {} \/ \E i \in StatusEvents(u) : \A j \in StatusEvents(u) : j <= i

LEMMA LastIsChosen ==
  ASSUME NEW S \in SUBSET Nat, NEW m \in S, \A j \in S : j <= m
  PROVE  (CHOOSE i \in S : \A j \in S : j <= i) = m
<1> DEFINE l == CHOOSE i \in S : \A j \in S : j <= i
<1>1. l \in S /\ \A j \in S : j <= l
  OBVIOUS
<1>2. l <= m /\ m <= l /\ l \in Nat /\ m \in Nat
  BY <1>1
<1> QED BY <1>2

\* What the application is told is its last word on that UID, unless it is a message.
LEMMA TellSetsStatus ==
  ASSUME TypeOK, LastExists, NEW kind \in Kinds, NEW u \in Uids, Tell(kind, u)
  PROVE  /\ LastExists'
         /\ \A v \in Uids :
              LastStatus(v)' = IF v = u /\ kind # "NewMessage" THEN kind ELSE LastStatus(v)
<1> DEFINE n == Len(events) + 1
<1>1. /\ events \in Seq(EventType) /\ Len(events) \in Nat
      /\ [kind |-> kind, uid |-> u] \in EventType
  BY DEF TypeOK, EventType, Kinds
<1>2. /\ DOMAIN events = 1..Len(events) /\ DOMAIN events' = 1..n
      /\ events'[n] = [kind |-> kind, uid |-> u]
      /\ \A i \in 1..Len(events) : events'[i] = events[i]
  BY <1>1 DEF Tell
<1>3. ASSUME NEW v \in Uids
      PROVE  /\ LastStatus(v)' = IF v = u /\ kind # "NewMessage" THEN kind ELSE LastStatus(v)
             /\ StatusEvents(v)' = {} \/ \E i \in StatusEvents(v)' : \A j \in StatusEvents(v)' : j <= i
  <2> DEFINE S == StatusEvents(v)
             T == StatusEvents(v)'
  <2>0. S \subseteq 1..Len(events) /\ T \subseteq 1..n
    BY <1>2 DEF StatusEvents
  <2>1. CASE v = u /\ kind # "NewMessage"
    <3>1. n \in T
      BY <1>1, <1>2, <2>1 DEF StatusEvents
    <3>2. \A j \in T : j <= n
      BY <1>1, <2>0
    <3>3. (CHOOSE i \in T : \A j \in T : j <= i) = n
      <4>1. T \in SUBSET Nat
        BY <1>1, <2>0
      <4> HIDE DEF T
      <4> QED BY <3>1, <3>2, <4>1, LastIsChosen
    <3>4. LastStatus(v)' = kind
      <4>1. LastStatus(v)' = IF T = {} THEN "LostPeer"
                             ELSE events'[CHOOSE i \in T : \A j \in T : j <= i].kind
        BY DEF LastStatus
      <4>2. LastStatus(v)' = events'[n].kind
        <5>1. T # {}
          BY <3>1
        <5> HIDE DEF T
        <5> QED BY <3>3, <4>1, <5>1, Zenon
      <4> QED BY <1>2, <4>2
    <3> QED BY <2>1, <3>1, <3>2, <3>4
  <2>2. CASE ~(v = u /\ kind # "NewMessage")
    <3>1. n \notin T
      BY <1>2, <2>2 DEF StatusEvents
    <3>2. T = S
      <4>1. \A i \in 1..Len(events) : i \in 1..n
        BY <1>1
      <4>2. \A i \in 1..n : i = n \/ i \in 1..Len(events)
        BY <1>1
      <4>3. \A i \in 1..Len(events) : i \in T <=> i \in S
        BY <1>2, <4>1 DEF StatusEvents
      <4> QED BY <2>0, <3>1, <4>2, <4>3
    <3>3. S = {} \/ \E i \in S : \A j \in S : j <= i
      BY DEF LastExists
    <3>4. LastStatus(v)' = LastStatus(v)
      <4>1. CASE S = {}
        BY <3>2, <4>1 DEF LastStatus
      <4>2. CASE S # {}
        <5>1. (CHOOSE i \in S : \A j \in S : j <= i) \in 1..Len(events)
          BY <2>0, <3>3, <4>2
        <5> QED BY <1>2, <3>2, <4>2, <5>1 DEF LastStatus
      <4> QED BY <4>1, <4>2
    <3> QED BY <2>2, <3>2, <3>3, <3>4
  <2> QED BY <2>1, <2>2
<1> QED BY <1>3 DEF LastExists

LEMMA SameEventsSameStatus ==
  ASSUME LastExists, UNCHANGED events
  PROVE  LastExists' /\ \A v \in Uids : LastStatus(v)' = LastStatus(v)
BY DEF LastExists, LastStatus, StatusEvents

AgreeInv == LastExists /\ ApplicationAgrees

\* A loss that is to be reported stays one when a connection is added.
LEMMA InsertKeepsPending ==
  ASSUME TypeOK, NEW u \in Uids, InsertPeer(u), NEW v \in Uids, LossPending(v)
  PROVE  LossPending(v)'
<1>1. /\ conns \in Seq(Uids) /\ task \in [Conns -> TaskStates] /\ Len(conns) \in Nat
      /\ Conns = 1..Len(conns)
  BY DEF TypeOK, Conns
<1>2. PICK c \in Conns : conns[c] = v /\ task[c] \in {"ended", "removed"}
  BY DEF LossPending
<1>3. CASE map[u] # None
  BY <1>2, <1>3 DEF InsertPeer, LossPending, Conns
<1>4. CASE map[u] = None
  <2>1. conns' = Append(conns, u) /\ task' = Append(task, "forwarding")
    BY <1>4 DEF InsertPeer
  <2>2. task \in Seq(TaskStates) /\ Len(task) = Len(conns)
    BY <1>1
  <2>3. c \in Conns' /\ conns'[c] = conns[c] /\ task'[c] = task[c]
    BY <1>1, <2>1, <2>2 DEF Conns
  <2> QED BY <1>2, <2>3 DEF LossPending
<1> QED BY <1>3, <1>4

\* A peer that comes is in the table, the one of before if it was there, and the last the
\* application has heard of it is that it came.
LEMMA ArrivalAgrees ==
  ASSUME TypeOK, AgreeInv, NEW u \in Uids, NEW kind \in Connecting,
         InsertPeer(u), Tell(kind, u), UNCHANGED running
  PROVE  AgreeInv'
<1>0. kind \in Kinds /\ kind \notin {"LostPeer", "NewMessage"}
  BY DEF Kinds, Connecting
<1>1. /\ LastExists'
      /\ \A v \in Uids : LastStatus(v)' = IF v = u THEN kind ELSE LastStatus(v)
  BY <1>0, TellSetsStatus DEF AgreeInv
<1>2. map'[u] # None /\ \A v \in Uids : v # u => map'[v] = map[v]
  <2>1. map \in [Uids -> Conns \union {None}] /\ Len(conns) + 1 \in Nat
    BY DEF TypeOK
  <2> QED BY <2>1, ConnectionMapAssumption DEF InsertPeer
<1>3. ApplicationAgrees'
  <2> SUFFICES ASSUME NEW v \in Uids
               PROVE  /\ map'[v] # None => LastStatus(v)' # "LostPeer"
                      /\ running' /\ LastStatus(v)' # "LostPeer" => map'[v] # None \/ LossPending(v)'
    BY DEF ApplicationAgrees
  <2>1. CASE v = u
    BY <1>0, <1>1, <1>2, <2>1
  <2>2. CASE v # u
    BY <1>1, <1>2, <2>2, InsertKeepsPending DEF AgreeInv, ApplicationAgrees
  <2> QED BY <2>1, <2>2
<1> QED BY <1>1, <1>3 DEF AgreeInv

\* What is taken out of the table, its task is to report.
LEMMA RemovalAgrees ==
  ASSUME TypeOK, Linked, AgreeInv, NEW us \in SUBSET Uids,
         map' = Without(us), task' = Removed(us), UNCHANGED <<conns, events>>, running' => running
  PROVE  AgreeInv'
<1>1. LastExists' /\ \A v \in Uids : LastStatus(v)' = LastStatus(v)
  BY SameEventsSameStatus DEF AgreeInv
<1>2. Conns' = Conns /\ \A u \in Uids : map[u] \in Conns \union {None}
  BY DEF Conns, TypeOK
<1>3. ASSUME NEW v \in Uids, LossPending(v) PROVE LossPending(v)'
  <2>1. PICK c \in Conns : conns[c] = v /\ task[c] \in {"ended", "removed"}
    BY <1>3 DEF LossPending
  <2>2. task'[c] \in {"ended", "removed"}
    BY <2>1 DEF Removed
  <2> QED BY <1>2, <2>1, <2>2 DEF LossPending
<1>4. ASSUME NEW v \in Uids, map[v] # None PROVE map'[v] # None \/ LossPending(v)'
  <2>1. CASE v \notin us
    BY <1>4, <2>1 DEF Without
  <2>2. CASE v \in us
    <3>1. map[v] \in Conns /\ conns[map[v]] = v
      BY <1>2, <1>4 DEF Linked, MapHoldsLivePeers
    <3>2. task'[map[v]] = "removed"
      BY <2>2, <3>1 DEF Removed
    <3> QED BY <1>2, <3>1, <3>2 DEF LossPending
  <2> QED BY <2>1, <2>2
<1>5. \A v \in Uids : map'[v] # None => map[v] # None
  BY DEF Without
<1> QED BY <1>1, <1>3, <1>4, <1>5 DEF AgreeInv, ApplicationAgrees

\* A task that is over has reported; what else was to be reported remains so.
LEMMA FinishAgrees ==
  ASSUME TypeOK, Linked, AgreeInv, NEW c \in Conns, Finish(c)
  PROVE  AgreeInv'
<1> DEFINE u == conns[c]
<1>0. u \in Uids /\ "LostPeer" \in Kinds /\ Conns' = Conns
  BY DEF TypeOK, Conns, Kinds, Finish
<1>1. /\ LastExists'
      /\ \A v \in Uids : LastStatus(v)' = IF v = u THEN "LostPeer" ELSE LastStatus(v)
  BY <1>0, TellSetsStatus DEF AgreeInv, Finish
<1>2. map'[u] = None /\ \A v \in Uids : v # u => map'[v] = map[v]
  BY <1>0 DEF Finish, Without
<1>3. ASSUME NEW v \in Uids, v # u, LossPending(v) PROVE LossPending(v)'
  <2>1. PICK d \in Conns : conns[d] = v /\ task[d] \in {"ended", "removed"}
    BY <1>3 DEF LossPending
  <2>2. task'[d] \in {"ended", "removed"}
    BY <1>3, <2>1 DEF Finish, Removed
  <2> QED BY <1>0, <2>1, <2>2 DEF LossPending, Finish
<1> HIDE DEF u
<1> QED BY <1>1, <1>2, <1>3 DEF AgreeInv, ApplicationAgrees, Finish

LEMMA StepAgrees ==
  ASSUME TypeOK, Linked, AgreeInv, [Next]_vars
  PROVE  AgreeInv'
<1>1. ASSUME NEW u \in Uids, NEW kind \in Connecting, Connected(u, kind) PROVE AgreeInv'
  BY <1>1, ArrivalAgrees DEF Connected
<1>2. ASSUME UNCHANGED vars PROVE AgreeInv'
  <2>1. LastExists' /\ \A v \in Uids : LastStatus(v)' = LastStatus(v)
    BY <1>2, SameEventsSameStatus DEF vars, AgreeInv
  <2> QED BY <1>2, <2>1 DEF vars, AgreeInv, ApplicationAgrees, LossPending, Conns
<1>3. ASSUME NEW u \in Uids, Accepted(u) PROVE AgreeInv'
  <2>1. CASE map[u] = None
    BY <1>3, <2>1, ArrivalAgrees DEF Accepted, Connecting
  <2>2. CASE map[u] # None
    BY <1>2, <1>3, <2>2 DEF Accepted, InsertPeer, vars
  <2> QED BY <2>1, <2>2
<1>4. ASSUME NEW u \in Uids, Disconnect(u) PROVE AgreeInv'
  BY <1>4, RemovalAgrees DEF Disconnect
<1>5. ASSUME NEW kept \in SUBSET Uids, WhitelistFilter(kept) PROVE AgreeInv'
  BY <1>5, RemovalAgrees DEF WhitelistFilter
<1>6. CASE Stop
  BY <1>6, RemovalAgrees DEF Stop
<1>7. ASSUME NEW c \in Conns, Forward(c) PROVE AgreeInv'
  <2>1. conns[c] \in Uids /\ "NewMessage" \in Kinds
    BY DEF TypeOK, Conns, Kinds
  <2>2. LastExists' /\ \A v \in Uids : LastStatus(v)' = LastStatus(v)
    BY <1>7, <2>1, TellSetsStatus DEF Forward, AgreeInv
  <2> QED BY <1>7, <2>2 DEF Forward, AgreeInv, ApplicationAgrees, LossPending, Conns
<1>8. ASSUME NEW c \in Conns, StreamEnds(c) PROVE AgreeInv'
  <2>1. LastExists' /\ \A v \in Uids : LastStatus(v)' = LastStatus(v)
    BY <1>8, SameEventsSameStatus DEF StreamEnds, AgreeInv
  <2>2. \A v \in Uids : LossPending(v) => LossPending(v)'
    BY <1>8 DEF StreamEnds, TypeOK, LossPending, Conns
  <2> QED BY <1>8, <2>1, <2>2 DEF StreamEnds, AgreeInv, ApplicationAgrees
<1>9. ASSUME NEW c \in Conns, Finish(c) PROVE AgreeInv'
  BY <1>9, FinishAgrees
<1> QED BY <1>1, <1>2, <1>3, <1>4, <1>5, <1>6, <1>7, <1>8, <1>9 DEF Next

\* The application and the table agree but for losses that are about to be reported, for any
\* UIDs and number of connections.
THEOREM EventsAndTableAgree == Spec => []ApplicationAgrees
<1>1. Init => Linked
  BY DEF Init, Linked, NoOrphans, MapHoldsLivePeers, Conns
<1>2. Init => AgreeInv
  BY DEF Init, AgreeInv, LastExists, ApplicationAgrees, StatusEvents, LastStatus
<1>3. AgreeInv => ApplicationAgrees
  BY DEF AgreeInv
<1> QED BY <1>1, <1>2, <1>3, Typing, StepKeepsLinks, StepAgrees, PTL DEF Spec

\* A message that is forwarded when the peer's last status is not LostPeer follows a connecting
\* event with no LostPeer in between.
LEMMA TellKeepsKnown ==
  ASSUME TypeOK, LastExists, MessagesFromKnownPeers, NEW kind \in Kinds, NEW u \in Uids,
         Tell(kind, u), kind = "NewMessage" => LastStatus(u) # "LostPeer"
  PROVE  MessagesFromKnownPeers'
<1> DEFINE n == Len(events) + 1
<1>1. /\ events \in Seq(EventType) /\ Len(events) \in Nat
      /\ [kind |-> kind, uid |-> u] \in EventType
  BY DEF TypeOK, EventType, Kinds
<1>2. /\ DOMAIN events = 1..Len(events) /\ DOMAIN events' = 1..n
      /\ events'[n] = [kind |-> kind, uid |-> u]
      /\ \A i \in 1..Len(events) : events'[i] = events[i]
  BY <1>1 DEF Tell
<1> SUFFICES ASSUME NEW i \in 1..n, events'[i].kind = "NewMessage"
             PROVE  \E j \in 1..(i - 1) :
                      /\ events'[j].uid = events'[i].uid /\ events'[j].kind \in Connecting
                      /\ \A k \in j..i : events'[k].uid = events'[i].uid => events'[k].kind # "LostPeer"
  BY <1>2 DEF MessagesFromKnownPeers
<1>3. CASE i \in 1..Len(events)
  <2>1. PICK j \in 1..(i - 1) :
          /\ events[j].uid = events[i].uid /\ events[j].kind \in Connecting
          /\ \A k \in j..i : events[k].uid = events[i].uid => events[k].kind # "LostPeer"
    BY <1>2, <1>3 DEF MessagesFromKnownPeers
  <2>2. \A k \in j..i : k \in 1..Len(events) /\ events'[k] = events[k]
    BY <1>1, <1>2, <1>3
  <2>3. j \in j..i /\ i \in j..i
    BY <1>3
  <2> QED BY <2>1, <2>2, <2>3
<1>4. CASE i = n
  <2> DEFINE S == StatusEvents(u)
  <2>1. kind = "NewMessage" /\ events'[i].uid = u
    BY <1>2, <1>4
  <2>2. S # {}
    BY <2>1 DEF LastStatus
  <2>3. PICK l \in S : \A j \in S : j <= l
    BY <2>2 DEF LastExists
  <2>4. LastStatus(u) = events[l].kind
    <3>1. S \in SUBSET Nat
      BY <1>2 DEF StatusEvents
    <3>2. LastStatus(u) = events[CHOOSE m \in S : \A j \in S : j <= m].kind
      BY <2>2 DEF LastStatus
    <3> HIDE DEF S
    <3>3. (CHOOSE m \in S : \A j \in S : j <= m) = l
      BY <2>3, <3>1, LastIsChosen
    <3> QED BY <3>2, <3>3
  <2>5. l \in 1..Len(events) /\ events[l].uid = u /\ events[l].kind # "NewMessage"
    BY <1>2 DEF StatusEvents
  <2>6. events[l].kind \in Connecting
    <3>1. events[l] \in EventType
      BY <1>1, <2>5
    <3> QED BY <2>1, <2>4, <2>5, <3>1 DEF EventType, Kinds
  <2>7. ASSUME NEW k \in l..i, events'[k].uid = u PROVE events'[k].kind # "LostPeer"
    <3>1. CASE k = n
      BY <1>2, <2>1, <3>1
    <3>2. CASE k # n
      <4>1. k \in 1..Len(events) /\ l <= k /\ events'[k] = events[k]
        BY <1>1, <1>2, <1>4, <2>5, <2>7, <3>2
      <4>2. CASE k = l
        BY <2>1, <2>4, <4>1, <4>2
      <4>3. CASE k # l
        <5>1. k \notin S
          BY <2>3, <2>5, <4>1, <4>3
        <5> QED BY <1>2, <2>7, <4>1, <5>1 DEF StatusEvents
      <4> QED BY <4>2, <4>3
    <3> QED BY <3>1, <3>2
  <2>8. l \in 1..(i - 1) /\ events'[l] = events[l]
    BY <1>1, <1>2, <1>4, <2>5
  <2> QED BY <2>1, <2>5, <2>6, <2>7, <2>8
<1> QED BY <1>1, <1>3, <1>4

LEMMA StepKeepsKnown ==
  ASSUME TypeOK, Linked, AgreeInv, MessagesFromKnownPeers, [Next]_vars
  PROVE  MessagesFromKnownPeers'
<1>0. Connecting \subseteq Kinds /\ {"NewMessage", "LostPeer", "BootstrapAccept"} \subseteq Kinds
      /\ "NewMessage" \notin Connecting /\ \A c \in Conns : conns[c] \in Uids
  BY DEF Kinds, Connecting, TypeOK, Conns
<1>1. ASSUME UNCHANGED events PROVE MessagesFromKnownPeers'
  BY <1>1 DEF MessagesFromKnownPeers
<1>2. ASSUME NEW u \in Uids, NEW kind \in Connecting, Connected(u, kind)
      PROVE  MessagesFromKnownPeers'
  BY <1>0, <1>2, TellKeepsKnown DEF Connected, AgreeInv
<1>3. ASSUME NEW u \in Uids, Accepted(u) PROVE MessagesFromKnownPeers'
  BY <1>0, <1>1, <1>3, TellKeepsKnown DEF Accepted, AgreeInv
<1>4. ASSUME NEW c \in Conns, Forward(c) PROVE MessagesFromKnownPeers'
  <2>1. map[conns[c]] = c /\ c # None
    BY <1>4, ConnectionMapAssumption DEF Forward, Forwards, Linked, NoOrphans, Conns
  <2>2. LastStatus(conns[c]) # "LostPeer"
    BY <1>0, <2>1 DEF AgreeInv, ApplicationAgrees
  <2> QED BY <1>0, <1>4, <2>2, TellKeepsKnown DEF Forward, AgreeInv
<1>5. ASSUME NEW c \in Conns, Finish(c) PROVE MessagesFromKnownPeers'
  BY <1>0, <1>5, TellKeepsKnown DEF Finish, AgreeInv
<1> QED BY <1>1, <1>2, <1>3, <1>4, <1>5
        DEF Next, vars, Disconnect, WhitelistFilter, StreamEnds, Stop

\* Every message is from a peer the application has been told of and not told to be lost, over
\* any number of connections to the same UID.
THEOREM MessagesAreFromTheKnown == Spec => []MessagesFromKnownPeers
<1>1. Init => Linked
  BY DEF Init, Linked, NoOrphans, MapHoldsLivePeers, Conns
<1>2. Init => AgreeInv /\ MessagesFromKnownPeers
  BY DEF Init, AgreeInv, LastExists, ApplicationAgrees, StatusEvents, LastStatus, MessagesFromKnownPeers
<1> QED BY <1>1, <1>2, Typing, StepKeepsLinks, StepAgrees, StepKeepsKnown, PTL DEF Spec
=============================================================================

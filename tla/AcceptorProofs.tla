--------------------------- MODULE AcceptorProofs ---------------------------
(* Proofs about the Listeners as an Acceptor uses them, for any number of  *)
(* listeners, addresses, connections and slots.                            *)
EXTENDS Acceptor, SequenceTheorems, TLAPS

-----------------------------------------------------------------------------
(* Lists of listeners *)

Distinct(s) == \A i, j \in DOMAIN s : s[i] = s[j] => i = j

LEMMA AppendAdds ==
  ASSUME NEW S, NEW s \in Seq(S), NEW x \in S
  PROVE  /\ Append(s, x) \in Seq(S)
         /\ Elements(Append(s, x)) = Elements(s) \union {x}
         /\ Distinct(s) /\ x \notin Elements(s) => Distinct(Append(s, x))
<1> DEFINE t == Append(s, x)
<1>1. /\ t \in Seq(S) /\ Len(s) \in Nat /\ DOMAIN s = 1..Len(s) /\ DOMAIN t = 1..(Len(s) + 1)
      /\ \A i \in 1..Len(s) : t[i] = s[i]
      /\ t[Len(s) + 1] = x
  BY AppendProperties
<1> HIDE DEF t
<1>2. \A i \in DOMAIN t : i \in DOMAIN s \/ i = Len(s) + 1
  BY <1>1
<1>3. Elements(t) = Elements(s) \union {x}
  <2>1. Elements(t) \subseteq Elements(s) \union {x}
    BY <1>1, <1>2 DEF Elements
  <2>2. Elements(s) \subseteq Elements(t)
    BY <1>1 DEF Elements
  <2>3. Len(s) + 1 \in DOMAIN t
    BY <1>1
  <2>4. x \in Elements(t)
    BY <1>1, <2>3 DEF Elements
  <2> QED BY <2>1, <2>2, <2>4
<1>4. ASSUME Distinct(s), x \notin Elements(s) PROVE Distinct(t)
  BY <1>1, <1>2, <1>4 DEF Distinct, Elements
<1> QED BY <1>1, <1>3, <1>4 DEF t

LEMMA TailRemoves ==
  ASSUME NEW S, NEW s \in Seq(S), s # <<>>
  PROVE  /\ Head(s) \in S /\ Tail(s) \in Seq(S)
         /\ Elements(s) = {Head(s)} \union Elements(Tail(s))
         /\ Distinct(s) => Distinct(Tail(s)) /\ Head(s) \notin Elements(Tail(s))
<1> DEFINE t == Tail(s)
<1>1. /\ Head(s) \in S /\ t \in Seq(S) /\ Len(s) \in Nat \ {0} /\ Head(s) = s[1]
      /\ DOMAIN s = 1..Len(s) /\ DOMAIN t = 1..(Len(s) - 1)
      /\ \A i \in 1..(Len(s) - 1) : t[i] = s[i + 1]
  BY HeadTailProperties, EmptySeq
<1> HIDE DEF t
<1>2. \A i \in DOMAIN t : i + 1 \in DOMAIN s /\ i + 1 # 1 /\ t[i] = s[i + 1]
  BY <1>1
<1>3. \A i \in DOMAIN s : i = 1 \/ (i - 1 \in DOMAIN t /\ s[i] = t[i - 1])
  BY <1>1
<1>4. 1 \in DOMAIN s
  BY <1>1
<1>5. Elements(s) = {Head(s)} \union Elements(t)
  <2>1. \A i \in DOMAIN s : s[i] \in {Head(s)} \union Elements(t)
    BY <1>1, <1>3 DEF Elements
  <2>2. \A i \in DOMAIN t : t[i] \in Elements(s)
    BY <1>2 DEF Elements
  <2>3. Head(s) \in Elements(s)
    BY <1>1, <1>4 DEF Elements
  <2> QED BY <2>1, <2>2, <2>3 DEF Elements
<1>6. ASSUME Distinct(s) PROVE Distinct(t) /\ Head(s) \notin Elements(t)
  <2>1. ASSUME NEW i \in DOMAIN t, NEW j \in DOMAIN t, t[i] = t[j] PROVE i = j
    <3>1. i + 1 = j + 1
      BY <1>2, <1>6, <2>1 DEF Distinct
    <3> QED BY <1>1, <3>1
  <2>2. ASSUME NEW i \in DOMAIN t, t[i] = Head(s) PROVE FALSE
    BY <1>1, <1>2, <1>4, <1>6, <2>2 DEF Distinct
  <2> QED BY <2>1, <2>2 DEF Distinct, Elements
<1> QED BY <1>1, <1>5, <1>6 DEF t

\* Vec::swap_remove loses none but the one it is to remove, and doubles none.
LEMMA SwapRemoveRemoves ==
  ASSUME NEW S, NEW s \in Seq(S), NEW i \in 1..Len(s), Distinct(s)
  PROVE  /\ SwapRemove(s, i) \in Seq(S)
         /\ Elements(SwapRemove(s, i)) = Elements(s) \ {s[i]}
         /\ Distinct(SwapRemove(s, i))
<1> DEFINE n == Len(s)
           t == SwapRemove(s, i)
<1>1. n \in Nat \ {0} /\ DOMAIN s = 1..n /\ \A j \in 1..n : s[j] \in S
  BY ElementOfSeq
<1>2. t = [j \in 1..(n - 1) |-> IF j = i THEN s[n] ELSE s[j]]
  BY DEF SwapRemove
<1>3. t \in Seq(S) /\ DOMAIN t = 1..(n - 1)
  BY <1>1, <1>2
<1>4. \A j \in 1..(n - 1) : t[j] = IF j = i THEN s[n] ELSE s[j]
  BY <1>2
<1> HIDE DEF n, t
<1>5. \A j \in 1..(n - 1) : j \in 1..n /\ n \in 1..n /\ j # n
  BY <1>1
<1>6. i \in 1..n
  BY DEF n
<1>7. ASSUME NEW j \in 1..(n - 1) PROVE t[j] \in Elements(s) \ {s[i]}
  <2>1. CASE j = i
    BY <1>1, <1>4, <1>5, <1>6, <2>1 DEF Distinct, Elements
  <2>2. CASE j # i
    BY <1>1, <1>4, <1>5, <1>6, <2>2 DEF Distinct, Elements
  <2> QED BY <2>1, <2>2
<1>8. ASSUME NEW j \in 1..n, s[j] # s[i] PROVE s[j] \in Elements(t)
  <2>1. CASE j = n
    <3>1. i \in 1..(n - 1)
      BY <1>1, <1>6, <1>8, <2>1
    <3> QED BY <1>3, <1>4, <2>1, <3>1 DEF Elements
  <2>2. CASE j # n
    <3>1. j \in 1..(n - 1) /\ j # i
      BY <1>1, <1>8, <2>2
    <3> QED BY <1>3, <1>4, <3>1 DEF Elements
  <2> QED BY <2>1, <2>2
<1>9. Elements(t) = Elements(s) \ {s[i]}
  <2>1. Elements(t) \subseteq Elements(s) \ {s[i]}
    BY <1>3, <1>7 DEF Elements
  <2>2. Elements(s) \ {s[i]} \subseteq Elements(t)
    BY <1>1, <1>8 DEF Elements
  <2> QED BY <2>1, <2>2
<1>10. Distinct(t)
  BY <1>1, <1>3, <1>4, <1>5, <1>6 DEF Distinct
<1> QED BY <1>3, <1>9, <1>10 DEF t

-----------------------------------------------------------------------------
(* Handles, lists and addresses *)

Types ==
  /\ task \in [ListenerIds -> {"none", "starting", "listening", "over"}]
  /\ listeners_rx \in Seq(ListenerIds)
  /\ listeners \in Seq(ListenerIds)
  /\ DOMAIN addrs_of = ListenerIds
  /\ scan \in Nat \ {0}

\* The tasks' states tell the calls and the handles there are, and a listener is in the lists
\* only after its task has got it.
TasksInv ==
  /\ calls = {l \in ListenerIds : task[l] = "starting"}
  /\ held = {l \in ListenerIds : task[l] = "listening"}
  /\ \A l \in Known : task[l] \in {"listening", "over"}

\* A listener is once in one of the lists.
OnceInv ==
  /\ Distinct(listeners_rx) /\ Distinct(listeners)
  /\ Elements(listeners_rx) \intersect Elements(listeners) = {}

Inv == Types /\ TasksInv /\ OnceInv /\ HeldIsKnown /\ PublishedIsServed

LEMMA InitiallyInv ==
  ASSUME Init PROVE Inv
<1>1. Known = {} /\ Elements(listeners_rx) = {} /\ Elements(listeners) = {}
  BY DEF Init, ListenersInit, Known, Elements
<1>2. Types
  BY DEF Init, ListenersInit, Types
<1>3. TasksInv
  BY <1>1 DEF Init, ListenersInit, TasksInv
<1>4. OnceInv /\ HeldIsKnown /\ PublishedIsServed
  BY <1>1 DEF Init, ListenersInit, OnceInv, Distinct, HeldIsKnown, PublishedIsServed
<1> QED BY <1>2, <1>3, <1>4 DEF Inv

LEMMA KnownAreListeners == Types => Known \subseteq ListenerIds
BY ElementOfSeq DEF Types, Known, Elements

\* A task that starts or ends without a listener leaves the lists alone.
LEMMA TaskKeepsInv ==
  ASSUME Inv, NEW l \in ListenerIds, NEW state \in {"starting", "over"},
         task' = [task EXCEPT ![l] = state],
         state = "starting" => task[l] = "none",
         calls' = (IF state = "starting" THEN calls \union {l} ELSE calls \ {l}),
         held' = held \ {l},
         UNCHANGED <<listeners_rx, listeners, addrs_of, current, scan>>
  PROVE  Inv'
<1>1. Known' = Known /\ Known \subseteq ListenerIds
  BY KnownAreListeners DEF Known, Inv
<1>2. \A k \in ListenerIds : task'[k] = IF k = l THEN state ELSE task[k]
  BY DEF Inv, Types
<1>3. Types'
  BY DEF Inv, Types
<1>4. TasksInv'
  <2>1. calls' = {k \in ListenerIds : task'[k] = "starting"}
    BY <1>2 DEF Inv, TasksInv
  <2>2. held' = {k \in ListenerIds : task'[k] = "listening"}
    BY <1>2 DEF Inv, TasksInv
  <2>3. \A k \in Known : task'[k] \in {"listening", "over"}
    BY <1>1, <1>2 DEF Inv, TasksInv
  <2> QED BY <1>1, <2>1, <2>2, <2>3 DEF TasksInv
<1>5. OnceInv' /\ HeldIsKnown' /\ PublishedIsServed'
  BY <1>1 DEF Inv, OnceInv, Distinct, HeldIsKnown, PublishedIsServed
<1> QED BY <1>3, <1>4, <1>5 DEF Inv

\* A listener that is added is not in the lists, so no one's addresses change that is.
LEMMA ListensKeepsInv ==
  ASSUME Inv, NEW l \in ListenerIds, TaskListens(l)
  PROVE  Inv'
<1>1. /\ task[l] = "starting" /\ task' = [task EXCEPT ![l] = "listening"]
      /\ calls' = calls \ {l} /\ held' = held \union {l}
      /\ listeners_rx' = Append(listeners_rx, l) /\ listeners' = listeners /\ scan' = scan
  BY DEF TaskListens, AddListener, poll
<1>2. \A k \in ListenerIds : task'[k] = IF k = l THEN "listening" ELSE task[k]
  BY <1>1 DEF Inv, Types
<1>3. l \notin Known
  BY <1>1 DEF Inv, TasksInv
<1>4. /\ listeners_rx' \in Seq(ListenerIds)
      /\ Elements(listeners_rx') = Elements(listeners_rx) \union {l}
      /\ Distinct(listeners_rx) /\ l \notin Elements(listeners_rx) => Distinct(listeners_rx')
  BY <1>1, AppendAdds DEF Inv, Types
<1>5. Known' = Known \union {l} /\ Known \subseteq ListenerIds
  BY <1>1, <1>4, KnownAreListeners DEF Known, Inv
<1>6. /\ DOMAIN addrs_of' = ListenerIds
      /\ \A k \in Known : addrs_of'[k] = addrs_of[k]
      /\ current' = current \union addrs_of'[l]
  BY <1>3, <1>5 DEF TaskListens, AddListener, Inv, Types
<1>7. Types'
  BY <1>1, <1>4, <1>6 DEF Inv, Types
<1>8. TasksInv'
  <2>1. calls' = {k \in ListenerIds : task'[k] = "starting"}
    BY <1>1, <1>2 DEF Inv, TasksInv
  <2>2. held' = {k \in ListenerIds : task'[k] = "listening"}
    BY <1>1, <1>2 DEF Inv, TasksInv
  <2>3. \A k \in Known' : task'[k] \in {"listening", "over"}
    BY <1>2, <1>5 DEF Inv, TasksInv
  <2> QED BY <2>1, <2>2, <2>3 DEF TasksInv
<1>9. OnceInv'
  BY <1>1, <1>3, <1>4 DEF Inv, OnceInv, Known
<1>10. HeldIsKnown'
  BY <1>1, <1>5 DEF Inv, HeldIsKnown
<1>11. PublishedIsServed'
  BY <1>5, <1>6 DEF Inv, PublishedIsServed
<1> QED BY <1>7, <1>8, <1>9, <1>10, <1>11 DEF Inv

\* Taken out of the channel and put in the list, a listener is known all along.
LEMMA TakeKeepsInv ==
  ASSUME Inv, TakeListener, UNCHANGED <<tcp_listener, task, handling>>
  PROVE  Inv'
<1> DEFINE l == Head(listeners_rx)
<1>1. /\ listeners_rx # <<>>
      /\ listeners' = Append(listeners, l) /\ listeners_rx' = Tail(listeners_rx)
      /\ UNCHANGED <<calls, held, addrs_of, current, scan, task>>
  BY DEF TakeListener, poll
<1>2. /\ l \in ListenerIds /\ listeners_rx' \in Seq(ListenerIds)
      /\ Elements(listeners_rx) = {l} \union Elements(listeners_rx')
      /\ Distinct(listeners_rx') /\ l \notin Elements(listeners_rx')
  BY <1>1, TailRemoves DEF Inv, Types, OnceInv
<1> HIDE DEF l
<1>3. l \notin Elements(listeners)
  BY <1>2 DEF Inv, OnceInv
<1>4. /\ listeners' \in Seq(ListenerIds) /\ Elements(listeners') = Elements(listeners) \union {l}
      /\ Distinct(listeners')
  BY <1>1, <1>2, <1>3, AppendAdds DEF Inv, Types, OnceInv
<1>5. Known' = Known
  BY <1>2, <1>4 DEF Known
<1>6. Types' /\ TasksInv'
  BY <1>1, <1>2, <1>4, <1>5 DEF Inv, Types, TasksInv
<1>7. OnceInv'
  BY <1>2, <1>3, <1>4 DEF Inv, OnceInv
<1>8. HeldIsKnown' /\ PublishedIsServed'
  BY <1>1, <1>4, <1>5 DEF Inv, HeldIsKnown, PublishedIsServed, Distinct
<1> QED BY <1>6, <1>7, <1>8 DEF Inv

\* What is removed has no handle, and its addresses go with it.
LEMMA DroppedKeepsInv ==
  ASSUME Inv, ScanDropped, UNCHANGED <<tcp_listener, task, handling>>
  PROVE  Inv'
<1> DEFINE l == listeners[scan]
<1>1. /\ scan \in 1..Len(listeners) /\ l \notin held
      /\ listeners' = SwapRemove(listeners, scan)
      /\ current' = current \ addrs_of[l]
      /\ UNCHANGED <<calls, held, addrs_of, listeners_rx, scan, task>>
  BY DEF ScanDropped, Scanning, Withdrawn, poll, Inv, Types
<1>2. /\ listeners' \in Seq(ListenerIds) /\ Elements(listeners') = Elements(listeners) \ {l}
      /\ Distinct(listeners')
  BY <1>1, SwapRemoveRemoves DEF Inv, Types, OnceInv
<1> HIDE DEF l
<1>3. Known \ {l} \subseteq Known' /\ Known' \subseteq Known
  BY <1>1, <1>2 DEF Known
<1>4. Types' /\ TasksInv'
  BY <1>1, <1>2, <1>3 DEF Inv, Types, TasksInv
<1>5. OnceInv'
  BY <1>1, <1>2 DEF Inv, OnceInv
<1>6. HeldIsKnown'
  BY <1>1, <1>2, <1>3 DEF Inv, HeldIsKnown, Distinct
<1>7. PublishedIsServed'
  BY <1>1, <1>3 DEF Inv, PublishedIsServed
<1> QED BY <1>4, <1>5, <1>6, <1>7 DEF Inv

LEMMA SameKeepsInv ==
  ASSUME Inv, UNCHANGED <<task, calls, held, addrs_of, listeners_rx, listeners, current>>,
         scan' \in Nat \ {0}
  PROVE  Inv'
<1>1. Known' = Known
  BY DEF Known
<1> QED BY <1>1 DEF Inv, Types, TasksInv, OnceInv, Distinct, HeldIsKnown, PublishedIsServed

LEMMA StepKeepsInv ==
  ASSUME Inv, [Next]_vars
  PROVE  Inv'
<1>0. scan \in Nat \ {0}
  BY DEF Inv, Types
<1>1. ASSUME NEW l \in ListenerIds, StartListening(l) PROVE Inv'
  <2>1. l \notin held /\ task[l] = "none"
    BY <1>1 DEF StartListening, Unused, Inv, TasksInv
  <2> QED BY <1>1, <2>1, TaskKeepsInv DEF StartListening, BeginListener, poll
<1>2. CASE StopListening \/ (DropListeners /\ UNCHANGED <<tcp_listener, task, handling>>)
           \/ UNCHANGED vars
  BY <1>0, <1>2, SameKeepsInv DEF StopListening, DropListeners, vars, listenersVars, poll
<1>3. CASE Network
  BY <1>0, <1>3, SameKeepsInv DEF Network, Arrive, poll
<1>4. ASSUME NEW l \in ListenerIds, TaskListens(l) PROVE Inv'
  BY <1>4, ListensKeepsInv
<1>5. ASSUME NEW l \in ListenerIds, TaskFails(l) PROVE Inv'
  <2>1. l \notin held
    BY <1>5 DEF TaskFails, Inv, TasksInv
  <2> QED BY <1>5, <2>1, TaskKeepsInv DEF TaskFails, AbandonListener, poll
<1>6. ASSUME NEW l \in ListenerIds, TaskStops(l) PROVE Inv'
  <2>1. CASE task[l] = "starting"
    <3>1. l \notin held
      BY <2>1 DEF Inv, TasksInv
    <3> QED BY <1>6, <2>1, <3>1, TaskKeepsInv DEF TaskStops, AbandonListener, poll
  <2>2. CASE task[l] = "listening"
    <3>1. l \notin calls
      BY <2>2 DEF Inv, TasksInv
    <3> QED BY <1>6, <2>2, <3>1, TaskKeepsInv DEF TaskStops, DropHandle, poll
  <2> QED BY <1>6, <2>1, <2>2 DEF TaskStops
<1>7. CASE PollStream \/ PollFull \/ TakeSocket \/ Finish
  BY <1>0, <1>7, SameKeepsInv
     DEF PollStream, PollStart, PollFull, TakeSocket, ScanReady, Finish, poll, sockets
<1>8. CASE StreamStep
  <2>1. CASE TakenAll \/ StreamEnd \/ ScanNotReady \/ ScanEnd
    BY <1>0, <1>8, <2>1, SameKeepsInv
       DEF StreamStep, TakenAll, StreamEnd, ScanNotReady, ScanEnd, poll
  <2> QED BY <1>8, <2>1, TakeKeepsInv, DroppedKeepsInv DEF StreamStep
<1> QED BY <1>1, <1>2, <1>3, <1>4, <1>5, <1>6, <1>7, <1>8 DEF Next, Service, Tasks

\* A listener whose handle is alive has its socket polled, once and only once, for any number of
\* listeners added and dropped while the list is scanned.
THEOREM HandlesAreServed == Spec => []HeldIsKnown
<1>1. Inv => HeldIsKnown
  BY DEF Inv
<1> QED BY <1>1, InitiallyInv, StepKeepsInv, PTL DEF Spec

\* No address is published without a listener behind it, for any addresses, shared or not.
THEOREM NothingStalePublished == Spec => []PublishedIsServed
<1>1. Inv => PublishedIsServed
  BY DEF Inv
<1> QED BY <1>1, InitiallyInv, StepKeepsInv, PTL DEF Spec

-----------------------------------------------------------------------------
(* The addresses of listeners that share none *)

\* No address can be found for two listeners.
NoneShared ==
  \A k, l \in ListenerIds : k # l =>
    SocketAddresses(PortOf[k], Reports[k]) \intersect SocketAddresses(PortOf[l], Reports[l]) = {}

\* What has been found for a listener could be.
AddressesAreTheirs ==
  \A l \in ListenerIds : addrs_of[l] \subseteq SocketAddresses(PortOf[l], Reports[l])

\* Fewer reports, fewer addresses.
LEMMA FewerReports ==
  ASSUME NEW port, NEW all, NEW reports \in SUBSET all
  PROVE  SocketAddresses(port, reports) \subseteq SocketAddresses(port, all)
<1>1. Forced(port, reports) \subseteq Forced(port, all)
  BY DEF Forced
<1> QED BY <1>1 DEF SocketAddresses

\* Addresses are found when a listener is added, of the reports that have come by then.
LEMMA StepKeepsTheirs ==
  ASSUME Types, AddressesAreTheirs, [Next]_vars
  PROVE  AddressesAreTheirs'
<1>1. ASSUME NEW l \in ListenerIds, TaskListens(l) PROVE AddressesAreTheirs'
  <2>1. PICK reports \in SUBSET Reports[l] :
          addrs_of' = [addrs_of EXCEPT ![l] = SocketAddresses(PortOf[l], reports)]
    BY <1>1 DEF TaskListens, AddListener
  <2>2. \A k \in ListenerIds :
          addrs_of'[k] = IF k = l THEN SocketAddresses(PortOf[l], reports) ELSE addrs_of[k]
    BY <2>1 DEF Types
  <2> QED BY <2>2, FewerReports DEF AddressesAreTheirs
<1>2. ASSUME UNCHANGED addrs_of PROVE AddressesAreTheirs'
  BY <1>2 DEF AddressesAreTheirs
<1>3. CASE UNCHANGED vars
  BY <1>2, <1>3 DEF vars, listenersVars
<1>4. CASE Service \/ Network
  BY <1>2, <1>4
     DEF Service, StartListening, BeginListener, StopListening, DropListeners, Network, Arrive,
         listenersVars
<1>5. ASSUME NEW l \in ListenerIds, TaskFails(l) \/ TaskStops(l) PROVE AddressesAreTheirs'
  BY <1>2, <1>5 DEF TaskFails, TaskStops, AbandonListener, DropHandle
<1>6. CASE PollStream \/ PollFull \/ TakeSocket \/ Finish
  BY <1>2, <1>6 DEF PollStream, PollStart, PollFull, TakeSocket, ScanReady, Finish
<1>7. CASE StreamStep
  BY <1>2, <1>7
     DEF StreamStep, TakeListener, TakenAll, StreamEnd, ScanNotReady, ScanDropped, ScanEnd
<1> QED BY <1>1, <1>3, <1>4, <1>5, <1>6, <1>7 DEF Next, Tasks

\* A step that adds no listener and withdraws no address.
LEMMA SameKeepsPublished ==
  ASSUME ServedIsPublished, held' \subseteq held, UNCHANGED <<addrs_of, current>>
  PROVE  ServedIsPublished'
BY DEF ServedIsPublished

\* What is withdrawn is a listener's without a handle, hence no other's.
LEMMA StepKeepsPublished ==
  ASSUME NoneShared, Inv, AddressesAreTheirs, ServedIsPublished, [Next]_vars
  PROVE  ServedIsPublished'
<1>1. ASSUME NEW l \in ListenerIds, TaskListens(l) PROVE ServedIsPublished'
  <2>1. /\ current' = current \union addrs_of'[l] /\ held' = held \union {l}
        /\ \A k \in ListenerIds \ {l} : addrs_of'[k] = addrs_of[k]
    BY <1>1 DEF TaskListens, AddListener, Inv, Types
  <2>2. held \subseteq ListenerIds
    BY DEF Inv, TasksInv
  <2> QED BY <2>1, <2>2 DEF ServedIsPublished
<1>2. ASSUME ScanDropped PROVE ServedIsPublished'
  <2> DEFINE l == listeners[scan]
  <2>1. /\ scan \in 1..Len(listeners) /\ l \notin held
        /\ current' = current \ addrs_of[l] /\ UNCHANGED <<addrs_of, held>>
    BY <1>2 DEF ScanDropped, Scanning, Withdrawn, Inv, Types
  <2>2. l \in ListenerIds
    BY <2>1, ElementOfSeq DEF Inv, Types
  <2> HIDE DEF l
  <2>3. held \subseteq ListenerIds
    BY DEF Inv, TasksInv
  <2>4. ASSUME NEW k \in held PROVE addrs_of[k] \intersect addrs_of[l] = {}
    <3>1. k # l /\ k \in ListenerIds
      BY <2>1, <2>3
    <3>2. /\ addrs_of[k] \subseteq SocketAddresses(PortOf[k], Reports[k])
          /\ addrs_of[l] \subseteq SocketAddresses(PortOf[l], Reports[l])
      BY <2>2, <3>1 DEF AddressesAreTheirs
    <3>3. SocketAddresses(PortOf[k], Reports[k]) \intersect SocketAddresses(PortOf[l], Reports[l]) = {}
      BY <2>2, <3>1 DEF NoneShared
    <3> QED BY <3>2, <3>3
  <2> QED BY <2>1, <2>4 DEF ServedIsPublished
<1>3. CASE UNCHANGED vars
  BY <1>3, SameKeepsPublished DEF vars, listenersVars
<1>4. CASE Service \/ Network
  BY <1>4, SameKeepsPublished
     DEF Service, StartListening, BeginListener, StopListening, DropListeners, Network, Arrive,
         listenersVars
<1>5. ASSUME NEW l \in ListenerIds, TaskFails(l) \/ TaskStops(l) PROVE ServedIsPublished'
  BY <1>5, SameKeepsPublished DEF TaskFails, TaskStops, AbandonListener, DropHandle
<1>6. CASE PollStream \/ PollFull \/ TakeSocket \/ Finish
  BY <1>6, SameKeepsPublished DEF PollStream, PollStart, PollFull, TakeSocket, ScanReady, Finish
<1>7. CASE StreamStep
  <2>1. CASE TakeListener \/ TakenAll \/ StreamEnd \/ ScanNotReady \/ ScanEnd
    BY <2>1, SameKeepsPublished DEF TakeListener, TakenAll, StreamEnd, ScanNotReady, ScanEnd
  <2> QED BY <1>2, <1>7, <2>1 DEF StreamStep
<1> QED BY <1>1, <1>3, <1>4, <1>5, <1>6, <1>7 DEF Next, Tasks

\* "The set of addresses that we're currently contactable on" has those of every listener
\* whose handle is alive, if no two listeners can have an address in common: then what is
\* withdrawn with the one is never the other's.
THEOREM NothingServedWithdrawn ==
  ASSUME NoneShared
  PROVE  Spec => []ServedIsPublished
<1>1. Init => AddressesAreTheirs /\ ServedIsPublished
  BY DEF Init, ListenersInit, AddressesAreTheirs, ServedIsPublished
<1>2. Inv /\ AddressesAreTheirs /\ ServedIsPublished /\ [Next]_vars
        => AddressesAreTheirs' /\ ServedIsPublished'
  BY StepKeepsTheirs, StepKeepsPublished DEF Inv
<1> QED BY <1>1, <1>2, InitiallyInv, StepKeepsInv, PTL DEF Spec

-----------------------------------------------------------------------------
(* Types and slots *)

\* A poll is under way only with a slot free, and takes one socket at most.
SlotFree == phase \in {"take", "scan"} => handling < Slots

LEMMA Bounds == Slots \in Nat \ {0} /\ MaxArrivals \in Nat /\ DOMAIN Reports = DOMAIN PortOf
BY AcceptorAssumption, ListenersAssumption

\* What is found for a listener is an address.
LEMMA FoundAreAddresses ==
  ASSUME NEW l \in ListenerIds, NEW reports \in SUBSET Reports[l]
  PROVE  SocketAddresses(PortOf[l], reports) \in SUBSET Addrs
BY FewerReports DEF Addrs

\* The listeners' part of the state keeps its types with each of its steps.
LEMMA ListenersKeepTypes ==
  ASSUME ListenersTypeOK,
         \/ \E l \in ListenerIds :
              \/ BeginListener(l) \/ AddListener(l) \/ AbandonListener(l)
              \/ DropHandle(l) \/ Arrive(l)
         \/ DropListeners \/ PollStart \/ TakeListener \/ StreamEnd \/ TakenAll
         \/ ScanReady \/ ScanNotReady \/ ScanDropped \/ ScanEnd
  PROVE  ListenersTypeOK'
<1> USE Bounds
<1>1. ASSUME NEW l \in ListenerIds, BeginListener(l) \/ AbandonListener(l) \/ DropHandle(l)
      PROVE  ListenersTypeOK'
  BY <1>1 DEF BeginListener, AbandonListener, DropHandle, ListenersTypeOK, poll, sockets
<1>2. ASSUME NEW l \in ListenerIds, AddListener(l) PROVE ListenersTypeOK'
  <2>1. PICK reports \in SUBSET Reports[l] :
          addrs_of' = [addrs_of EXCEPT ![l] = SocketAddresses(PortOf[l], reports)]
    BY <1>2 DEF AddListener
  <2>2. addrs_of' \in [ListenerIds -> SUBSET Addrs] /\ addrs_of'[l] \in SUBSET Addrs
    BY <2>1, FoundAreAddresses DEF ListenersTypeOK
  <2>3. listeners_rx' \in Seq(ListenerIds)
    BY <1>2, AppendAdds DEF AddListener, ListenersTypeOK
  <2> QED BY <1>2, <2>2, <2>3 DEF AddListener, ListenersTypeOK, poll, sockets
<1>3. ASSUME NEW l \in ListenerIds, Arrive(l) PROVE ListenersTypeOK'
  <2>1. pending' \in [ListenerIds -> Nat]
    BY <1>3 DEF Arrive, ListenersTypeOK
  <2>2. arrivals' \in 0..MaxArrivals
    BY <1>3 DEF Arrive, ListenersTypeOK
  <2>3. woken' \in BOOLEAN
    BY <1>3 DEF Arrive, ListenersTypeOK
  <2> QED BY <1>3, <2>1, <2>2, <2>3 DEF Arrive, ListenersTypeOK, poll
<1>4. CASE DropListeners \/ PollStart
  <2>1. open' \in BOOLEAN /\ woken' \in BOOLEAN
    BY <1>4 DEF DropListeners, PollStart, ListenersTypeOK
  <2> QED BY <1>4, <2>1 DEF DropListeners, PollStart, ListenersTypeOK, poll, sockets
<1>8. CASE StreamEnd \/ TakenAll \/ ScanEnd
  BY <1>8 DEF StreamEnd, TakenAll, ScanEnd, ListenersTypeOK, sockets
<1>5. CASE TakeListener
  <2>1. /\ Head(listeners_rx) \in ListenerIds /\ listeners_rx' \in Seq(ListenerIds)
        /\ listeners' = Append(listeners, Head(listeners_rx))
    BY <1>5, TailRemoves DEF TakeListener, ListenersTypeOK
  <2>2. listeners' \in Seq(ListenerIds)
    BY <2>1, AppendAdds DEF ListenersTypeOK
  <2> QED BY <1>5, <2>1, <2>2 DEF TakeListener, ListenersTypeOK, poll, sockets
<1>6. CASE Scanning /\ (ScanReady \/ ScanNotReady \/ ScanDropped)
  <2>1. scan \in 1..Len(listeners)
    BY <1>6 DEF Scanning, ListenersTypeOK
  <2>2. listeners[scan] \in ListenerIds
    BY <2>1, ElementOfSeq DEF ListenersTypeOK
  <2>3. CASE ScanReady
    <3>1. pending' \in [ListenerIds -> Nat]
      BY <2>2, <2>3 DEF ScanReady, Waiting, ListenersTypeOK
    <3> QED BY <2>2, <2>3, <3>1 DEF ScanReady, ListenersTypeOK
  <2>4. CASE ScanNotReady
    BY <2>2, <2>4 DEF ScanNotReady, ListenersTypeOK, sockets
  <2>5. CASE ScanDropped
    <3>1. listeners' \in Seq(ListenerIds)
      <4>1. \A j \in 1..Len(listeners) : listeners[j] \in ListenerIds
        BY ElementOfSeq DEF ListenersTypeOK
      <4>2. Len(listeners) \in Nat \ {0}
        BY <2>1, LenProperties DEF ListenersTypeOK
      <4>3. listeners' = [j \in 1..(Len(listeners) - 1) |->
                            IF j = scan THEN listeners[Len(listeners)] ELSE listeners[j]]
        BY <2>5 DEF ScanDropped, SwapRemove
      <4>4. \A j \in 1..(Len(listeners) - 1) : j \in 1..Len(listeners)
        BY <4>2
      <4>5. Len(listeners) - 1 \in Nat /\ Len(listeners) \in 1..Len(listeners)
        BY <4>2
      <4> QED BY <4>1, <4>3, <4>4, <4>5
    <3>2. current' \in SUBSET Addrs /\ pending' \in [ListenerIds -> Nat]
      BY <2>5 DEF ScanDropped, Withdrawn, ListenersTypeOK
    <3> QED BY <2>2, <2>5, <3>1, <3>2 DEF ScanDropped, ListenersTypeOK, poll
  <2> QED BY <1>6, <2>3, <2>4, <2>5
<1>7. ScanReady \/ ScanNotReady \/ ScanDropped => Scanning
  BY DEF ScanReady, ScanNotReady, ScanDropped
<1> QED BY <1>1, <1>2, <1>3, <1>4, <1>5, <1>6, <1>7, <1>8

\* The state keeps its types; with them, the Demux never handles more sockets than it has
\* slots, though it looks for a free one only when it starts to poll the stream.
THEOREM Typing == Spec => []TypeOK
<1>1. Init => TypeOK /\ SlotFree
  BY Bounds DEF Init, ListenersInit, TypeOK, ListenersTypeOK, SlotFree
<1>2. TypeOK /\ SlotFree /\ [Next]_vars => TypeOK' /\ SlotFree'
  <2> SUFFICES ASSUME TypeOK, SlotFree, [Next]_vars PROVE TypeOK' /\ SlotFree'
    OBVIOUS
  <2> USE Bounds
  <2>1. ASSUME NEW l \in ListenerIds, StartListening(l) PROVE TypeOK' /\ SlotFree'
    BY <2>1, ListenersKeepTypes DEF StartListening, BeginListener, TypeOK, SlotFree, poll
  <2>2. CASE StopListening \/ UNCHANGED vars
    BY <2>2 DEF StopListening, vars, listenersVars, TypeOK, ListenersTypeOK, SlotFree
  <2>3. CASE DropListeners /\ UNCHANGED <<tcp_listener, task, handling>>
    BY <2>3, ListenersKeepTypes DEF DropListeners, TypeOK, SlotFree, poll
  <2>4. CASE Network
    BY <2>4, ListenersKeepTypes DEF Network, Arrive, TypeOK, SlotFree, poll
  <2>5. ASSUME NEW l \in ListenerIds, TaskListens(l) PROVE TypeOK' /\ SlotFree'
    BY <2>5, ListenersKeepTypes DEF TaskListens, AddListener, TypeOK, SlotFree, poll
  <2>6. ASSUME NEW l \in ListenerIds, TaskFails(l) \/ TaskStops(l) PROVE TypeOK' /\ SlotFree'
    <3>1. task' = [task EXCEPT ![l] = "over"] /\ UNCHANGED <<tcp_listener, handling>>
      BY <2>6 DEF TaskFails, TaskStops
    <3>2. (AbandonListener(l) \/ DropHandle(l)) /\ phase' = phase
      BY <2>6 DEF TaskFails, TaskStops, AbandonListener, DropHandle, poll
    <3> QED BY <3>1, <3>2, ListenersKeepTypes DEF TypeOK, SlotFree
  <2>7. CASE PollStream
    BY <2>7, ListenersKeepTypes DEF PollStream, TypeOK, SlotFree
  <2>8. CASE PollFull
    BY <2>8 DEF PollFull, TypeOK, ListenersTypeOK, SlotFree, poll, sockets
  <2>9. CASE TakeSocket
    <3>1. ListenersTypeOK' /\ phase = "scan" /\ phase' = "idle"
      BY <2>9, ListenersKeepTypes DEF TakeSocket, ScanReady, Scanning, TypeOK
    <3> QED BY <2>9, <3>1 DEF TakeSocket, TypeOK, SlotFree
  <2>10. CASE Finish
    BY <2>10 DEF Finish, TypeOK, ListenersTypeOK, SlotFree, poll, sockets
  <2>11. CASE StreamStep
    <3>1. ListenersTypeOK' /\ UNCHANGED <<tcp_listener, task, handling>>
      BY <2>11, ListenersKeepTypes DEF StreamStep, TypeOK
    <3>2. phase' \in {"take", "scan"} => phase \in {"take", "scan"}
      BY <2>11 DEF StreamStep, TakeListener, TakenAll, StreamEnd, ScanNotReady, ScanDropped, ScanEnd,
                   Scanning, poll
    <3> QED BY <3>1, <3>2 DEF TypeOK, SlotFree
  <2> QED BY <2>1, <2>2, <2>3, <2>4, <2>5, <2>6, <2>7, <2>8, <2>9, <2>10, <2>11
          DEF Next, Service, Tasks
<1> QED BY <1>1, <1>2, PTL DEF Spec
=============================================================================

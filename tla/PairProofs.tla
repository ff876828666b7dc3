----------------------------- MODULE PairProofs -----------------------------
(* Proofs about Pair, for any number of connections between the two services. *)
EXTENDS Pair, FiniteSetTheorems, SequenceTheorems, TLAPS

-----------------------------------------------------------------------------
(* Types *)

States == {"forwarding", "ended", "removed", "finished"}
Kinds == {"ConnectSuccess", "BootstrapConnect", "BootstrapAccept", "LostPeer"}
EventType == [kind : Kinds, uid : Side]

\* The types of the calls, the bootstrap, the tables, the events and the ends.
TypeOK ==
  /\ call \in [Side -> {"idle", "running", "connected", "failed"}]
  /\ chosen \in [Side -> SUBSET Links]
  /\ boot \in BOOLEAN
  /\ accepting \in BOOLEAN
  /\ granted \in [Side -> SUBSET Links]
  /\ kept \in [Side -> Seq(Links)]
  /\ map \in [Side -> Nat \union {None}]
  /\ task \in [Side -> Seq(States)]
  /\ events \in [Side -> Seq(EventType)]
  /\ running \in [Side -> BOOLEAN]
  /\ closed \in [Side -> SUBSET Links]
  /\ calm \in BOOLEAN

\* There are two sides, each the other's other, and one of them bootstraps.
LEMMA TwoSides ==
  /\ Hi \in Side /\ Lo \in Side /\ Hi # Lo
  /\ Client \in Side /\ Acceptor \in Side /\ Client # Acceptor
  /\ \A s \in Side : Other(s) \in Side /\ Other(s) # s /\ Other(Other(s)) = s
  /\ \A s, t \in Side : t = s \/ t = Other(s)
BY PairAssumption DEF Side, Other, Acceptor

\* Dropping an entry's PeerWrapper leaves as many tasks, in states of theirs.
LEMMA UnheldKeepsType ==
  ASSUME TypeOK, NEW s \in Side
  PROVE  /\ Unheld(s) \in Seq(States) /\ DOMAIN Unheld(s) = DOMAIN task[s]
         /\ Len(Unheld(s)) = Len(task[s])
         /\ \A i \in DOMAIN task[s] : Unheld(s)[i] = IF map[s] = i THEN "removed" ELSE task[s][i]
<1>1. task[s] \in Seq(States) /\ "removed" \in States
  BY DEF TypeOK, States
<1>2. DOMAIN task[s] = 1..Len(task[s]) /\ Len(task[s]) \in Nat
      /\ \A i \in 1..Len(task[s]) : task[s][i] \in States
  BY <1>1, LenProperties, ElementOfSeq
<1>3. Unheld(s) = [i \in 1..Len(task[s]) |-> IF map[s] = i THEN "removed" ELSE task[s][i]]
  BY <1>2 DEF Unheld
<1>4. Unheld(s) \in [1..Len(task[s]) -> States]
  BY <1>1, <1>2, <1>3
<1>5. Unheld(s) \in Seq(States) /\ Len(Unheld(s)) = Len(task[s])
  BY <1>2, <1>4
<1> QED BY <1>2, <1>3, <1>5

\* A Peer that is inserted gets the next number, a task, and the entry, if that is free.
LEMMA InsertEffect ==
  ASSUME TypeOK, NEW s \in Side, NEW l \in Links, InsertPeer(s, l)
  PROVE  /\ kept' \in [Side -> Seq(Links)]
         /\ map' \in [Side -> Nat \union {None}]
         /\ task' \in [Side -> Seq(States)]
         /\ \A t \in Side \ {s} : kept'[t] = kept[t] /\ map'[t] = map[t] /\ task'[t] = task[t]
         /\ map[s] # None => kept'[s] = kept[s] /\ map'[s] = map[s] /\ task'[s] = task[s]
         /\ map[s] = None => /\ kept'[s] = Append(kept[s], l)
                             /\ map'[s] = Len(kept[s]) + 1
                             /\ task'[s] = Append(task[s], "forwarding")
<1>1. kept[s] \in Seq(Links) /\ task[s] \in Seq(States) /\ "forwarding" \in States
  BY DEF TypeOK, States
<1>2. Append(kept[s], l) \in Seq(Links) /\ Append(task[s], "forwarding") \in Seq(States)
  BY <1>1, AppendProperties
<1>3. Len(kept[s]) + 1 \in Nat
  BY <1>1, LenProperties
<1>4. CASE map[s] # None
  BY <1>4 DEF InsertPeer, table, TypeOK
<1>5. CASE map[s] = None
  <2>1. /\ map' = [map EXCEPT ![s] = Len(kept[s]) + 1]
        /\ kept' = [kept EXCEPT ![s] = Append(@, l)]
        /\ task' = [task EXCEPT ![s] = Append(@, "forwarding")]
    BY <1>5 DEF InsertPeer
  <2> QED BY <1>2, <1>3, <1>5, <2>1 DEF TypeOK
<1> QED BY <1>4, <1>5

\* What the application is told is an event, and only the one that is told hears of it.
LEMMA TellEffect ==
  ASSUME TypeOK, NEW s \in Side, NEW kind \in Kinds, Tell(s, kind)
  PROVE  /\ events' \in [Side -> Seq(EventType)]
         /\ events'[s] = Append(events[s], [kind |-> kind, uid |-> Other(s)])
         /\ Len(events'[s]) = Len(events[s]) + 1
         /\ \A t \in Side \ {s} : events'[t] = events[t]
<1> DEFINE e == [kind |-> kind, uid |-> Other(s)]
<1>1. e \in EventType
  BY TwoSides DEF EventType
<1>2. events' = [events EXCEPT ![s] = Append(@, e)]
  BY DEF Tell
<1> HIDE DEF e
<1>3. events[s] \in Seq(EventType)
  BY DEF TypeOK
<1>4. Append(events[s], e) \in Seq(EventType) /\ Len(Append(events[s], e)) = Len(events[s]) + 1
  BY <1>1, <1>3, AppendProperties
<1>5. events'[s] = Append(events[s], e) /\ events' \in [Side -> Seq(EventType)]
      /\ \A t \in Side \ {s} : events'[t] = events[t]
  BY <1>2, <1>4 DEF TypeOK
<1> QED BY <1>4, <1>5 DEF e

-----------------------------------------------------------------------------
(* Numbers of connections *)

\* The connections a side has made a Peer of, whether by connect or by bootstrapping.
Made(s) == chosen[s] \union granted[s]

\* Connections are numbered as they come about.
Numbered == \E n \in 0..MaxLinks : Made(Hi) \union Made(Lo) = 1..n

\* None is made by connect at one end and by bootstrapping at the other, or both at one.
Apart == \A s, t \in Side : chosen[s] \intersect granted[t] = {}

\* The numbers of connections are numbers.
LEMMA LinkNumbers == MaxLinks \in Nat /\ Links = 1..MaxLinks /\ IsFiniteSet(Links)
                     /\ Cardinality(Links) = MaxLinks
<1>1. MaxLinks \in Nat
  BY PairAssumption
<1> QED BY <1>1, FS_Interval DEF Links

\* A connection that comes about is no side's yet, and has the next number.
LEMMA FreshIsNew ==
  ASSUME Numbered, Fresh \in Links
  PROVE  /\ Fresh \notin Made(Hi) \union Made(Lo)
         /\ \E n \in 0..MaxLinks : Made(Hi) \union Made(Lo) \union {Fresh} = 1..n
<1>1. PICK n \in 0..MaxLinks : Made(Hi) \union Made(Lo) = 1..n
  BY DEF Numbered
<1>2. UNION {chosen[s] \union granted[s] : s \in Side} = Made(Hi) \union Made(Lo)
  BY DEF Side, Made
<1>3. n \in Nat /\ Cardinality(1..n) = n
  BY <1>1, LinkNumbers, FS_Interval
<1>4. Fresh = n + 1
  BY <1>1, <1>2, <1>3 DEF Fresh
<1>5. Fresh \notin 1..n /\ (1..n) \union {Fresh} = 1..(n + 1) /\ n + 1 \in 0..MaxLinks
  BY <1>3, <1>4, LinkNumbers
<1> QED BY <1>1, <1>5

-----------------------------------------------------------------------------
(* What a step does *)

\* The connections that have come about are numbered, and each has come about one way.
LinksOK == Numbered /\ Apart

\* The ends that a step closes are of connections the side has made no Peer of.
OnlyLeft == \A t \in Side :
  /\ closed[t] \subseteq closed'[t]
  /\ \A c \in closed'[t] \ closed[t] : c \notin Made(t) /\ c \in Made(Hi)' \union Made(Lo)'

\* A side makes a Peer of a connection, which it has not done before.
Gains(s, l) ==
  /\ running[s] /\ UNCHANGED running
  /\ l \notin Made(s)
  /\ Made(s)' = Made(s) \union {l} /\ Made(Other(s))' = Made(Other(s))
  /\ InsertPeer(s, l)
  /\ \/ \E kind \in {"ConnectSuccess", "BootstrapConnect"} : Tell(s, kind)
     \/ IF map[s] = None THEN Tell(s, "BootstrapAccept") ELSE UNCHANGED events
  /\ l \in closed[s] => l \notin Made(Hi) \union Made(Lo)
  /\ l \in closed'[s] => l \in closed[s] \/ map[s] # None
  /\ OnlyLeft

\* The tables rest: a side is busy with connecting or bootstrapping.
Rests ==
  /\ UNCHANGED <<table, events, running, chosen, granted>>
  /\ OnlyLeft

\* What the lower side has left by the end of a step it has made no Peer of, and neither
\* has the client of what it has left.
LEMMA LeftAreNotMade ==
  ASSUME TypeOK, Apart, chosen[Lo] \subseteq chosen'[Lo], granted[Client] \subseteq granted'[Client]
  PROVE  /\ \A c \in LeftByLo : c \notin Made(Lo) /\ c \in Made(Hi) /\ c \in Links
         /\ \A c \in LeftByClient : c \notin Made(Client) /\ c \in Made(Acceptor) /\ c \in Links
BY TwoSides DEF LeftByLo, LeftByClient, Apart, Made, TypeOK

\* The client and the acceptor are the two sides.
LEMMA SidesOfBootstrap == Made(Client) \union Made(Acceptor) = Made(Hi) \union Made(Lo)
BY TwoSides DEF Side, Acceptor, Other

\* The higher side's Peer is the first of its connection.
LEMMA HiGains ==
  ASSUME TypeOK, LinksOK, HiConnects
  PROVE  Fresh \in Links /\ Gains(Hi, Fresh) /\ LinksOK'
<1> DEFINE f == Fresh
<1>1. /\ running[Hi] /\ f \in Links /\ UNCHANGED <<running, granted>>
      /\ InsertPeer(Hi, f) /\ Tell(Hi, "ConnectSuccess")
      /\ chosen' = [chosen EXCEPT ![Hi] = @ \union {f}]
      /\ closed' = [closed EXCEPT ![Hi] = @ \union Refused(Hi, f),
                                  ![Lo] = IF call[Lo] = "running" THEN @ ELSE @ \union {f}]
  BY DEF HiConnects, Connection!Settle, bootstrapping
<1>2. f \notin Made(Hi) \union Made(Lo)
      /\ \E n \in 0..MaxLinks : Made(Hi) \union Made(Lo) \union {f} = 1..n
  BY <1>1, FreshIsNew DEF LinksOK
<1> HIDE DEF f
<1>3. chosen'[Hi] = chosen[Hi] \union {f} /\ chosen'[Lo] = chosen[Lo] /\ granted' = granted
  BY <1>1, TwoSides DEF TypeOK
<1>4. Made(Hi)' = Made(Hi) \union {f} /\ Made(Lo)' = Made(Lo)
  BY <1>3 DEF Made
<1>5. Apart'
  BY <1>2, <1>3, TwoSides DEF Apart, Made, LinksOK, Side
<1>6. Numbered'
  BY <1>2, <1>4 DEF Numbered
<1>7. /\ closed'[Hi] = closed[Hi] \union Refused(Hi, f)
      /\ closed'[Lo] = IF call[Lo] = "running" THEN closed[Lo] ELSE closed[Lo] \union {f}
  BY <1>1, TwoSides DEF TypeOK
<1>8. Refused(Hi, f) \subseteq {f} /\ (f \in Refused(Hi, f) => map[Hi] # None)
  BY DEF Refused
<1>9. OnlyLeft
  <2>1. /\ closed[Hi] \subseteq closed'[Hi] /\ closed'[Hi] \ closed[Hi] \subseteq {f}
        /\ closed[Lo] \subseteq closed'[Lo] /\ closed'[Lo] \ closed[Lo] \subseteq {f}
    BY <1>7, <1>8
  <2> QED BY <1>2, <1>4, <2>1 DEF OnlyLeft, Side
<1>10. Other(Hi) = Lo
  BY DEF Other
<1>11. Gains(Hi, f)
  BY <1>1, <1>2, <1>4, <1>7, <1>8, <1>9, <1>10 DEF Gains
<1> QED BY <1>1, <1>5, <1>6, <1>11 DEF f, LinksOK

\* The lower side's is of a connection that the higher one has made a Peer of by connect.
LEMMA LoGains ==
  ASSUME TypeOK, LinksOK, NEW l \in Links, LoConnects(l)
  PROVE  Gains(Lo, l) /\ LinksOK'
<1>1. /\ running[Lo] /\ l \notin closed[Lo] /\ UNCHANGED <<running, granted>>
      /\ InsertPeer(Lo, l) /\ Tell(Lo, "ConnectSuccess")
      /\ l \notin chosen[Lo] /\ l \in chosen[Hi]
      /\ chosen' = [chosen EXCEPT ![Lo] = @ \union {l}]
      /\ closed' = [closed EXCEPT ![Lo] = @ \union Refused(Lo, l) \union LeftByLo]
  BY DEF LoConnects, Connection!Settle, bootstrapping
<1>2. chosen'[Lo] = chosen[Lo] \union {l} /\ chosen'[Hi] = chosen[Hi] /\ granted' = granted
  BY <1>1, TwoSides DEF TypeOK
<1>3. Made(Lo)' = Made(Lo) \union {l} /\ Made(Hi)' = Made(Hi)
  BY <1>2 DEF Made
<1>4. l \notin Made(Lo) /\ l \in Made(Hi)
  BY <1>1, TwoSides DEF Made, Apart, LinksOK
<1>5. Apart'
  BY <1>1, <1>2, TwoSides DEF Apart, LinksOK, Side
<1>6. Numbered'
  BY <1>3, <1>4 DEF Numbered, LinksOK
<1>7. \A c \in LeftByLo : c \notin Made(Lo) /\ c \in Made(Hi)
  BY <1>2, LeftAreNotMade DEF LinksOK
<1>8. l \notin LeftByLo
  BY <1>2 DEF LeftByLo
<1>9. closed'[Lo] = closed[Lo] \union Refused(Lo, l) \union LeftByLo /\ closed'[Hi] = closed[Hi]
  BY <1>1, TwoSides DEF TypeOK
<1>10. Refused(Lo, l) \subseteq {l} /\ (l \in Refused(Lo, l) => map[Lo] # None)
  BY DEF Refused
<1>11. OnlyLeft
  <2>1. /\ closed[Lo] \subseteq closed'[Lo] /\ closed[Hi] = closed'[Hi]
        /\ closed'[Lo] \ closed[Lo] \subseteq {l} \union LeftByLo
    BY <1>9, <1>10
  <2> QED BY <1>3, <1>4, <1>7, <2>1 DEF OnlyLeft, Side
<1>12. Other(Lo) = Hi
  BY TwoSides DEF Other
<1>13. Gains(Lo, l)
  BY <1>1, <1>3, <1>4, <1>8, <1>9, <1>10, <1>11, <1>12 DEF Gains
<1> QED BY <1>5, <1>6, <1>13 DEF LinksOK

\* An acceptor's Peer is the first of its connection.
LEMMA AcceptorGains ==
  ASSUME TypeOK, LinksOK, Accepts
  PROVE  Fresh \in Links /\ Gains(Acceptor, Fresh) /\ LinksOK'
<1> DEFINE f == Fresh
<1>1. /\ running[Acceptor] /\ f \in Links /\ UNCHANGED <<running, chosen>>
      /\ InsertPeer(Acceptor, f)
      /\ IF map[Acceptor] = None THEN Tell(Acceptor, "BootstrapAccept") ELSE UNCHANGED events
      /\ granted' = [granted EXCEPT ![Acceptor] = @ \union {f}]
      /\ closed' = [closed EXCEPT ![Acceptor] = @ \union Refused(Acceptor, f),
                                  ![Client] = IF boot THEN @ ELSE @ \union {f}]
  BY DEF Accepts, connecting
<1>2. f \notin Made(Hi) \union Made(Lo)
      /\ \E n \in 0..MaxLinks : Made(Hi) \union Made(Lo) \union {f} = 1..n
  BY <1>1, FreshIsNew DEF LinksOK
<1> HIDE DEF f
<1>3. granted'[Acceptor] = granted[Acceptor] \union {f} /\ granted'[Client] = granted[Client]
      /\ chosen' = chosen
  BY <1>1, TwoSides DEF TypeOK
<1>4. Made(Acceptor)' = Made(Acceptor) \union {f} /\ Made(Client)' = Made(Client)
  <2>1. Acceptor' = Acceptor /\ Client' = Client
    BY DEF Acceptor, Other
  <2> QED BY <1>3, <2>1 DEF Made
<1>5. f \notin Made(Acceptor) \union Made(Client)
  BY <1>2, SidesOfBootstrap
<1>6. \A t \in Side : t = Client \/ t = Acceptor
  BY TwoSides DEF Acceptor
<1>7. Apart'
  BY <1>3, <1>5, <1>6, TwoSides DEF Apart, Made, LinksOK
<1>8. Made(Hi)' \union Made(Lo)' = Made(Hi) \union Made(Lo) \union {f}
  <2>1. Made(Client)' \union Made(Acceptor)' = Made(Hi)' \union Made(Lo)'
    BY TwoSides DEF Side, Acceptor, Other
  <2> QED BY <1>4, <2>1, SidesOfBootstrap
<1>9. Numbered'
  BY <1>2, <1>8 DEF Numbered
<1>10. /\ closed'[Acceptor] = closed[Acceptor] \union Refused(Acceptor, f)
       /\ closed'[Client] = IF boot THEN closed[Client] ELSE closed[Client] \union {f}
  BY <1>1, TwoSides DEF TypeOK
<1>11. Refused(Acceptor, f) \subseteq {f} /\ (f \in Refused(Acceptor, f) => map[Acceptor] # None)
  BY DEF Refused
<1>12. OnlyLeft
  <2>1. /\ closed[Acceptor] \subseteq closed'[Acceptor]
        /\ closed'[Acceptor] \ closed[Acceptor] \subseteq {f}
        /\ closed[Client] \subseteq closed'[Client] /\ closed'[Client] \ closed[Client] \subseteq {f}
    BY <1>10, <1>11
  <2> QED BY <1>2, <1>5, <1>6, <1>8, <2>1 DEF OnlyLeft
<1>13. Other(Acceptor) = Client
  BY TwoSides DEF Acceptor
<1>14. Gains(Acceptor, f)
  BY <1>1, <1>2, <1>4, <1>5, <1>10, <1>11, <1>12, <1>13 DEF Gains
<1> QED BY <1>1, <1>7, <1>9, <1>14 DEF f, LinksOK

\* The client's is of a connection that the acceptor has granted.
LEMMA ClientGains ==
  ASSUME TypeOK, LinksOK, NEW l \in Links, BootstrapConnects(l)
  PROVE  Gains(Client, l) /\ LinksOK'
<1>1. /\ running[Client] /\ l \notin closed[Client] /\ UNCHANGED <<running, chosen>>
      /\ InsertPeer(Client, l) /\ Tell(Client, "BootstrapConnect")
      /\ l \in granted[Acceptor] /\ l \notin granted[Client]
      /\ granted' = [granted EXCEPT ![Client] = @ \union {l}]
      /\ closed' = [closed EXCEPT ![Client] = @ \union Refused(Client, l) \union LeftByClient]
  BY DEF BootstrapConnects, connecting
<1>2. granted'[Client] = granted[Client] \union {l} /\ granted'[Acceptor] = granted[Acceptor]
      /\ chosen' = chosen
  BY <1>1, TwoSides DEF TypeOK
<1>3. Made(Client)' = Made(Client) \union {l} /\ Made(Acceptor)' = Made(Acceptor)
  <2>1. Acceptor' = Acceptor /\ Client' = Client
    BY DEF Acceptor, Other
  <2> QED BY <1>2, <2>1 DEF Made
<1>4. l \notin Made(Client) /\ l \in Made(Acceptor)
  BY <1>1, TwoSides DEF Made, Apart, LinksOK
<1>5. \A t \in Side : t = Client \/ t = Acceptor
  BY TwoSides DEF Acceptor
<1>6. Apart'
  BY <1>1, <1>2, <1>5, TwoSides DEF Apart, LinksOK
<1>7. Made(Hi)' \union Made(Lo)' = Made(Hi) \union Made(Lo)
  <2>1. Made(Client)' \union Made(Acceptor)' = Made(Hi)' \union Made(Lo)'
    BY TwoSides DEF Side, Acceptor, Other
  <2> QED BY <1>3, <1>4, <2>1, SidesOfBootstrap
<1>8. Numbered'
  BY <1>7 DEF Numbered, LinksOK
<1>9. \A c \in LeftByClient : c \notin Made(Client) /\ c \in Made(Acceptor)
  BY <1>1, <1>2, LeftAreNotMade DEF LinksOK
<1>10. l \notin LeftByClient
  BY <1>2 DEF LeftByClient
<1>11. /\ closed'[Client] = closed[Client] \union Refused(Client, l) \union LeftByClient
       /\ closed'[Acceptor] = closed[Acceptor]
  BY <1>1, TwoSides DEF TypeOK
<1>12. Refused(Client, l) \subseteq {l} /\ (l \in Refused(Client, l) => map[Client] # None)
  BY DEF Refused
<1>13. OnlyLeft
  <2>1. /\ closed[Client] \subseteq closed'[Client] /\ closed[Acceptor] = closed'[Acceptor]
        /\ closed'[Client] \ closed[Client] \subseteq {l} \union LeftByClient
    BY <1>11, <1>12
  <2> QED BY <1>4, <1>5, <1>7, <1>9, <2>1, SidesOfBootstrap DEF OnlyLeft
<1>14. Other(Client) = Acceptor
  BY DEF Acceptor
<1>15. Gains(Client, l)
  BY <1>1, <1>3, <1>4, <1>10, <1>11, <1>12, <1>13, <1>14 DEF Gains
<1> QED BY <1>6, <1>8, <1>15 DEF LinksOK

\* The steps of connecting and bootstrapping that yield no Peer.
Waits ==
  \/ \E s \in Side : Connect(s) \/ ConnectFails(s)
  \/ StartBootstrap \/ BootstrapEnds \/ SetAcceptBootstrap

\* They leave the tables alone.
LEMMA WaitingRests ==
  ASSUME TypeOK, LinksOK, Waits
  PROVE  Rests
<1> USE DEF table, bootstrapping, connecting
<1>1. ASSUME UNCHANGED <<table, events, running, chosen, granted, closed>>
      PROVE  Rests
  BY <1>1 DEF Rests, OnlyLeft
<1>2. ASSUME UNCHANGED <<table, events, running, chosen, granted>>, NEW t \in Side,
             NEW left, \A c \in left : c \notin Made(t) /\ c \in Made(Hi) \union Made(Lo),
             closed' = [closed EXCEPT ![t] = @ \union left]
      PROVE  Rests
  <2>1. closed'[t] = closed[t] \union left /\ \A u \in Side \ {t} : closed'[u] = closed[u]
    BY <1>2 DEF TypeOK
  <2>2. Made(Hi)' = Made(Hi) /\ Made(Lo)' = Made(Lo)
    BY <1>2 DEF Made
  <2> QED BY <1>2, <2>1, <2>2 DEF Rests, OnlyLeft
<1>3. ASSUME NEW s \in Side, Connect(s)  PROVE Rests
  BY <1>1, <1>3 DEF Connect, Connection!Begin
<1>4. ASSUME NEW s \in Side, ConnectFails(s)  PROVE Rests
  <2>1. UNCHANGED <<table, events, running, chosen, granted>>
        /\ closed' = [closed EXCEPT ![Lo] = IF s = Lo THEN @ \union LeftByLo ELSE @]
    BY <1>4 DEF ConnectFails, Connection!GiveUp
  <2>2. \A c \in LeftByLo : c \notin Made(Lo) /\ c \in Made(Hi) \union Made(Lo)
    BY <2>1, LeftAreNotMade DEF LinksOK
  <2>3. CASE s = Lo
    <3>1. closed' = [closed EXCEPT ![Lo] = @ \union LeftByLo]
      BY <2>1, <2>3
    <3> QED BY <1>2, <2>1, <2>2, <3>1, TwoSides
  <2>4. CASE s # Lo
    <3>1. closed' = closed
      BY <2>1, <2>4 DEF TypeOK
    <3> QED BY <1>1, <2>1, <3>1
  <2> QED BY <2>3, <2>4
<1>5. ASSUME StartBootstrap \/ BootstrapEnds  PROVE Rests
  <2>1. UNCHANGED <<table, events, running, chosen, granted>>
        /\ closed' = [closed EXCEPT ![Client] = @ \union LeftByClient]
    BY <1>5 DEF StartBootstrap, BootstrapEnds
  <2>2. \A c \in LeftByClient : c \notin Made(Client) /\ c \in Made(Hi) \union Made(Lo)
    BY <2>1, LeftAreNotMade, SidesOfBootstrap DEF LinksOK
  <2> QED BY <1>2, <2>1, <2>2, TwoSides
<1>6. ASSUME SetAcceptBootstrap  PROVE Rests
  BY <1>1, <1>6 DEF SetAcceptBootstrap
<1> QED BY <1>3, <1>4, <1>5, <1>6 DEF Waits

\* The kinds of steps that there are.
LEMMA KindsOfSteps ==
  ASSUME Next
  PROVE  \/ /\ calm' = calm
            /\ \/ HiConnects \/ Accepts \/ \E l \in Links : LoConnects(l) \/ BootstrapConnects(l)
               \/ Waits
               \/ \E s \in Side : \E i \in DOMAIN task[s] : StreamEnds(s, i) \/ Finish(s, i)
         \/ /\ calm' = FALSE
            /\ \/ \E s \in Side : \E i \in DOMAIN task[s] : EndStream(s, i)
               \/ \E s \in Side : Disconnect(s) \/ Stop(s)
BY DEF Next, Operation, Disturbance, Break, TableStep, Waits

-----------------------------------------------------------------------------
(* Types are kept *)

\* A Peer that comes about keeps the types of the tables and the events.
LEMMA GainsKeepsType ==
  ASSUME TypeOK, NEW s \in Side, NEW l \in Links, Gains(s, l)
  PROVE  /\ kept' \in [Side -> Seq(Links)] /\ map' \in [Side -> Nat \union {None}]
         /\ task' \in [Side -> Seq(States)] /\ events' \in [Side -> Seq(EventType)]
         /\ running' \in [Side -> BOOLEAN]
<1>1. kept' \in [Side -> Seq(Links)] /\ map' \in [Side -> Nat \union {None}]
      /\ task' \in [Side -> Seq(States)]
  BY InsertEffect DEF Gains
<1>2. events' \in [Side -> Seq(EventType)]
  <2>1. (\E kind \in Kinds : Tell(s, kind)) \/ UNCHANGED events
    BY DEF Gains, Kinds
  <2> QED BY <2>1, TellEffect DEF TypeOK
<1>3. running' \in [Side -> BOOLEAN]
  BY DEF Gains, TypeOK
<1> QED BY <1>1, <1>2, <1>3

\* A task that has ended, or is to, comes to its end: every effect of it on its side.
LEMMA FinishEffect ==
  ASSUME TypeOK, NEW s \in Side, NEW i \in DOMAIN task[s], i \in DOMAIN kept[s], Finish(s, i)
  PROVE  /\ running[s] /\ task[s][i] \in {"ended", "removed"}
         /\ map' \in [Side -> Nat \union {None}] /\ map'[s] = None
         /\ task' \in [Side -> Seq(States)]
         /\ task'[s] = [Unheld(s) EXCEPT ![i] = "finished"]
         /\ Len(task'[s]) = Len(task[s]) /\ DOMAIN task'[s] = DOMAIN task[s]
         /\ task'[s][i] = "finished"
         /\ \A j \in DOMAIN task[s] \ {i} : task'[s][j] = Unheld(s)[j]
         /\ events' \in [Side -> Seq(EventType)]
         /\ events'[s] = Append(events[s], [kind |-> "LostPeer", uid |-> Other(s)])
         /\ Len(events'[s]) = Len(events[s]) + 1
         /\ closed' \in [Side -> SUBSET Links] /\ closed'[s] = closed[s] \union {kept[s][i]}
         /\ UNCHANGED <<call, chosen, boot, accepting, granted, kept, running>>
         /\ \A t \in Side \ {s} : /\ map'[t] = map[t] /\ task'[t] = task[t]
                                  /\ events'[t] = events[t] /\ closed'[t] = closed[t]
<1> USE DEF connecting, bootstrapping
<1>1. running[s] /\ task[s][i] \in {"ended", "removed"}
      /\ map' = [map EXCEPT ![s] = None]
      /\ task' = [task EXCEPT ![s] = [Unheld(s) EXCEPT ![i] = "finished"]]
      /\ closed' = [closed EXCEPT ![s] = @ \union {kept[s][i]}]
      /\ UNCHANGED <<call, chosen, boot, accepting, granted, kept, running>>
  BY DEF Finish
<1>2. map' \in [Side -> Nat \union {None}] /\ map'[s] = None
      /\ \A t \in Side \ {s} : map'[t] = map[t]
  BY <1>1 DEF TypeOK
<1> DEFINE now == [Unheld(s) EXCEPT ![i] = "finished"]
<1>3. now \in Seq(States) /\ Len(now) = Len(task[s]) /\ DOMAIN now = DOMAIN task[s]
      /\ now[i] = "finished" /\ \A j \in DOMAIN task[s] \ {i} : now[j] = Unheld(s)[j]
  <2>1. Unheld(s) \in Seq(States) /\ DOMAIN Unheld(s) = DOMAIN task[s]
        /\ Len(Unheld(s)) = Len(task[s]) /\ "finished" \in States
    BY UnheldKeepsType DEF States
  <2> HIDE DEF Unheld
  <2> QED BY <2>1
<1>4. task' \in [Side -> Seq(States)] /\ task'[s] = now
      /\ \A t \in Side \ {s} : task'[t] = task[t]
  <2>1. task' = [task EXCEPT ![s] = now] /\ now \in Seq(States)
    BY <1>1, <1>3
  <2> HIDE DEF now
  <2> QED BY <2>1 DEF TypeOK
<1>5. /\ events' \in [Side -> Seq(EventType)]
      /\ events'[s] = Append(events[s], [kind |-> "LostPeer", uid |-> Other(s)])
      /\ Len(events'[s]) = Len(events[s]) + 1
      /\ \A t \in Side \ {s} : events'[t] = events[t]
  <2>1. Tell(s, "LostPeer") /\ "LostPeer" \in Kinds
    BY DEF Finish, Kinds
  <2> QED BY <2>1, TellEffect
<1>6. closed' \in [Side -> SUBSET Links] /\ closed'[s] = closed[s] \union {kept[s][i]}
      /\ \A t \in Side \ {s} : closed'[t] = closed[t]
  <2>1. kept[s] \in Seq(Links)
    BY DEF TypeOK
  <2>2. kept[s][i] \in Links
    BY <2>1, LenProperties, ElementOfSeq
  <2> QED BY <1>1, <2>2 DEF TypeOK
<1> HIDE DEF Unheld
<1> QED BY <1>1, <1>2, <1>3, <1>4, <1>5, <1>6

\* A stream that comes to its end only changes the state of its task.
LEMMA EndEffect ==
  ASSUME TypeOK, NEW s \in Side, NEW i \in DOMAIN task[s], EndStream(s, i)
  PROVE  /\ running[s] /\ task[s][i] = "forwarding"
         /\ task' \in [Side -> Seq(States)] /\ task'[s] = [task[s] EXCEPT ![i] = "ended"]
         /\ Len(task'[s]) = Len(task[s]) /\ DOMAIN task'[s] = DOMAIN task[s]
         /\ task'[s][i] = "ended" /\ \A j \in DOMAIN task[s] \ {i} : task'[s][j] = task[s][j]
         /\ \A t \in Side \ {s} : task'[t] = task[t]
         /\ UNCHANGED <<call, chosen, boot, accepting, granted, kept, map, events, running, closed>>
<1>1. running[s] /\ task[s][i] = "forwarding"
      /\ task' = [task EXCEPT ![s][i] = "ended"]
      /\ UNCHANGED <<call, chosen, boot, accepting, granted, kept, map, events, running, closed>>
  BY DEF EndStream, connecting, bootstrapping
<1> DEFINE now == [task[s] EXCEPT ![i] = "ended"]
<1>2. task[s] \in Seq(States) /\ "ended" \in States
  BY DEF TypeOK, States
<1>3. now \in Seq(States) /\ Len(now) = Len(task[s]) /\ DOMAIN now = DOMAIN task[s]
      /\ now[i] = "ended" /\ \A j \in DOMAIN task[s] \ {i} : now[j] = task[s][j]
  BY <1>2
<1>4. task' = [task EXCEPT ![s] = now]
  BY <1>1
<1> HIDE DEF now
<1>5. task' \in [Side -> Seq(States)] /\ task'[s] = now
      /\ \A t \in Side \ {s} : task'[t] = task[t]
  BY <1>3, <1>4 DEF TypeOK
<1> QED BY <1>1, <1>3, <1>5 DEF now

\* Taking the entry out tells its task, and leaves the connections.
LEMMA RemoveEffect ==
  ASSUME TypeOK, NEW s \in Side, Remove(s)
  PROVE  /\ map' \in [Side -> Nat \union {None}] /\ map'[s] = None
         /\ task' \in [Side -> Seq(States)] /\ task'[s] = Unheld(s)
         /\ \A t \in Side \ {s} : map'[t] = map[t] /\ task'[t] = task[t]
<1>1. map' = [map EXCEPT ![s] = None] /\ task' = [task EXCEPT ![s] = Unheld(s)]
  BY DEF Remove
<1>2. Unheld(s) \in Seq(States)
  BY UnheldKeepsType
<1> HIDE DEF Unheld
<1> QED BY <1>1, <1>2 DEF TypeOK

\* Every step keeps the types.
LEMMA StepKeepsType ==
  ASSUME TypeOK, LinksOK, Next, \A s \in Side : DOMAIN task[s] = DOMAIN kept[s]
  PROVE  TypeOK'
<1> USE DEF table, bootstrapping, connecting
<1>1. calm' \in BOOLEAN
  BY KindsOfSteps DEF TypeOK
<1>2. CASE HiConnects
  <2>1. Fresh \in Links /\ Gains(Hi, Fresh)
    BY <1>2, HiGains
  <2> DEFINE f == Fresh
  <2>2. call' = [call EXCEPT ![Hi] = "connected"]
        /\ chosen' = [chosen EXCEPT ![Hi] = @ \union {f}]
        /\ closed' = [closed EXCEPT ![Hi] = @ \union Refused(Hi, f),
                                    ![Lo] = IF call[Lo] = "running" THEN @ ELSE @ \union {f}]
        /\ UNCHANGED <<boot, accepting, granted>>
    BY <1>2 DEF HiConnects, Connection!Settle
  <2>3. f \in Links /\ Refused(Hi, f) \subseteq Links /\ Hi \in Side /\ Lo \in Side
    BY <2>1, TwoSides DEF Refused
  <2> HIDE DEF f
  <2>4. call' \in [Side -> {"idle", "running", "connected", "failed"}]
        /\ chosen' \in [Side -> SUBSET Links]
    BY <2>2, <2>3 DEF TypeOK
  <2>5. closed' \in [Side -> SUBSET Links]
    BY <2>2, <2>3 DEF TypeOK
  <2> QED BY <1>1, <2>1, <2>2, <2>3, <2>4, <2>5, GainsKeepsType DEF TypeOK
<1>3. ASSUME NEW l \in Links, LoConnects(l)  PROVE TypeOK'
  <2>1. Gains(Lo, l)
    BY <1>3, LoGains
  <2>2. call' = [call EXCEPT ![Lo] = "connected"]
        /\ chosen' = [chosen EXCEPT ![Lo] = @ \union {l}]
        /\ closed' = [closed EXCEPT ![Lo] = @ \union Refused(Lo, l) \union LeftByLo]
        /\ UNCHANGED <<boot, accepting, granted>>
    BY <1>3 DEF LoConnects, Connection!Settle
  <2>3. LeftByLo \subseteq Links /\ Refused(Lo, l) \subseteq Links /\ Hi \in Side /\ Lo \in Side
    BY TwoSides DEF Refused, LeftByLo, TypeOK
  <2>4. call' \in [Side -> {"idle", "running", "connected", "failed"}]
        /\ chosen' \in [Side -> SUBSET Links]
    BY <2>2, <2>3 DEF TypeOK
  <2>5. closed' \in [Side -> SUBSET Links]
    BY <2>2, <2>3 DEF TypeOK
  <2> QED BY <1>1, <2>1, <2>2, <2>3, <2>4, <2>5, GainsKeepsType DEF TypeOK
<1>4. CASE Accepts
  <2>1. Fresh \in Links /\ Gains(Acceptor, Fresh)
    BY <1>4, AcceptorGains
  <2> DEFINE f == Fresh
  <2>2. granted' = [granted EXCEPT ![Acceptor] = @ \union {f}]
        /\ closed' = [closed EXCEPT ![Acceptor] = @ \union Refused(Acceptor, f),
                                    ![Client] = IF boot THEN @ ELSE @ \union {f}]
        /\ UNCHANGED <<call, chosen, boot, accepting>>
    BY <1>4 DEF Accepts
  <2>3. f \in Links /\ Refused(Acceptor, f) \subseteq Links /\ Client \in Side /\ Acceptor \in Side
    BY <2>1, TwoSides DEF Refused
  <2> HIDE DEF f
  <2>4. granted' \in [Side -> SUBSET Links] /\ closed' \in [Side -> SUBSET Links]
    BY <2>2, <2>3 DEF TypeOK
  <2> QED BY <1>1, <2>1, <2>2, <2>3, <2>4, GainsKeepsType DEF TypeOK
<1>5. ASSUME NEW l \in Links, BootstrapConnects(l)  PROVE TypeOK'
  <2>1. Gains(Client, l)
    BY <1>5, ClientGains
  <2>2. granted' = [granted EXCEPT ![Client] = @ \union {l}]
        /\ closed' = [closed EXCEPT ![Client] = @ \union Refused(Client, l) \union LeftByClient]
        /\ boot' = FALSE /\ UNCHANGED <<call, chosen, accepting>>
    BY <1>5 DEF BootstrapConnects
  <2>3. LeftByClient \subseteq Links /\ Refused(Client, l) \subseteq Links
        /\ Client \in Side /\ Acceptor \in Side
    BY TwoSides DEF Refused, LeftByClient, TypeOK
  <2>4. granted' \in [Side -> SUBSET Links] /\ closed' \in [Side -> SUBSET Links]
    BY <2>2, <2>3 DEF TypeOK
  <2> QED BY <1>1, <2>1, <2>2, <2>3, <2>4, GainsKeepsType DEF TypeOK
<1>6. ASSUME Waits  PROVE TypeOK'
  <2>1. UNCHANGED <<kept, map, task, events, running, chosen, granted>>
    BY <1>6, WaitingRests DEF Rests
  <2>2. call' \in [Side -> {"idle", "running", "connected", "failed"}]
    BY <1>6 DEF Waits, Connect, ConnectFails, StartBootstrap, BootstrapEnds, SetAcceptBootstrap,
                Connection!Begin, Connection!GiveUp, TypeOK
  <2>3. boot' \in BOOLEAN
    BY <1>6 DEF Waits, Connect, ConnectFails, StartBootstrap, BootstrapEnds, SetAcceptBootstrap,
                TypeOK
  <2>4. accepting' \in BOOLEAN
    BY <1>6 DEF Waits, Connect, ConnectFails, StartBootstrap, BootstrapEnds, SetAcceptBootstrap,
                TypeOK
  <2>5. closed' \in [Side -> SUBSET Links]
    <3>1. LeftByLo \subseteq Links /\ LeftByClient \subseteq Links
      BY TwoSides DEF LeftByLo, LeftByClient, TypeOK
    <3>2. \/ closed' = closed
          \/ closed' = [closed EXCEPT ![Client] = @ \union LeftByClient]
          \/ closed' = [closed EXCEPT ![Lo] = @ \union LeftByLo]
          \/ closed' = [closed EXCEPT ![Lo] = @]
      BY <1>6 DEF Waits, Connect, ConnectFails, StartBootstrap, BootstrapEnds, SetAcceptBootstrap
    <3>3. closed \in [Side -> SUBSET Links]
      BY DEF TypeOK
    <3> QED BY <3>1, <3>2, <3>3
  <2> QED BY <1>1, <2>1, <2>2, <2>3, <2>4, <2>5 DEF TypeOK
<1>7. ASSUME NEW s \in Side, NEW i \in DOMAIN task[s], Finish(s, i)  PROVE TypeOK'
  <2>1. i \in DOMAIN kept[s]
    OBVIOUS
  <2>2. /\ map' \in [Side -> Nat \union {None}] /\ task' \in [Side -> Seq(States)]
        /\ events' \in [Side -> Seq(EventType)] /\ closed' \in [Side -> SUBSET Links]
        /\ UNCHANGED <<call, chosen, boot, accepting, granted, kept, running>>
    BY <1>7, <2>1, FinishEffect
  <2> QED BY <1>1, <2>2 DEF TypeOK
<1>8. ASSUME NEW s \in Side, NEW i \in DOMAIN task[s], EndStream(s, i)  PROVE TypeOK'
  <2>1. /\ task' \in [Side -> Seq(States)]
        /\ UNCHANGED <<call, chosen, boot, accepting, granted, kept, map, events, running, closed>>
    BY <1>8, EndEffect
  <2> QED BY <1>1, <2>1 DEF TypeOK
<1>9. ASSUME NEW s \in Side, Disconnect(s)  PROVE TypeOK'
  <2>1. map' \in [Side -> Nat \union {None}] /\ task' \in [Side -> Seq(States)]
    BY <1>9, RemoveEffect DEF Disconnect
  <2> QED BY <1>1, <1>9, <2>1 DEF TypeOK, Disconnect
<1>10. ASSUME NEW s \in Side, Stop(s)  PROVE TypeOK'
  <2>1. closed' \in [Side -> SUBSET Links] /\ running' \in [Side -> BOOLEAN]
        /\ UNCHANGED <<call, chosen, boot, accepting, granted, kept, events>> /\ Remove(s)
    BY <1>10 DEF Stop, TypeOK
  <2> QED BY <1>1, <2>1, RemoveEffect DEF TypeOK
<1> QED BY KindsOfSteps, <1>2, <1>3, <1>4, <1>5, <1>6, <1>7, <1>8, <1>9, <1>10 DEF StreamEnds

\* And so it does the numbers: only a Peer's coming about changes them.
LEMMA StepKeepsLinks ==
  ASSUME TypeOK, LinksOK, Next
  PROVE  LinksOK'
<1>1. ASSUME UNCHANGED <<chosen, granted>>  PROVE LinksOK'
  BY <1>1 DEF LinksOK, Numbered, Apart, Made
<1>2. ASSUME Waits  PROVE LinksOK'
  BY <1>1, <1>2, WaitingRests DEF Rests
<1>3. ASSUME NEW s \in Side, Disconnect(s) \/ Stop(s)  PROVE LinksOK'
  BY <1>1, <1>3 DEF Disconnect, Stop, connecting, bootstrapping
<1>4. ASSUME NEW s \in Side, NEW i \in DOMAIN task[s], EndStream(s, i) \/ Finish(s, i)
      PROVE  LinksOK'
  BY <1>1, <1>4 DEF EndStream, Finish, connecting, bootstrapping
<1> QED BY KindsOfSteps, HiGains, LoGains, AcceptorGains, ClientGains, <1>2, <1>3, <1>4
        DEF StreamEnds

-----------------------------------------------------------------------------
(* The tables *)

Finished(s) == {i \in DOMAIN task[s] : task[s][i] = "finished"}

\* Each connection that is kept has a task and is one the side has made a Peer of, and the
\* entry, if there is one, is of a task that has not been told to stop.
TableOK(s) ==
  /\ Len(task[s]) = Len(kept[s])
  /\ \A i \in DOMAIN kept[s] : kept[s][i] \in Made(s)
  /\ map[s] # None => map[s] \in DOMAIN task[s] /\ task[s][map[s]] \in {"forwarding", "ended"}

\* A side keeps no more connections than it has made Peers of, and its application has been
\* told of no more than those Peers and the tasks that are over.
Counted(s) ==
  /\ Len(kept[s]) <= Cardinality(Made(s))
  /\ Len(events[s]) <= Cardinality(Made(s)) + Cardinality(Finished(s))

Booked(s) == TableOK(s) /\ Counted(s)

\* What an action of the one side leaves alone of the other's.
Idle(t) == kept'[t] = kept[t] /\ map'[t] = map[t] /\ task'[t] = task[t] /\ events'[t] = events[t]

\* A table that is left alone is as it was.
LEMMA IdleKeepsBooks ==
  ASSUME NEW t \in Side, Booked(t), Idle(t), Made(t)' = Made(t)
  PROVE  Booked(t)'
BY DEF Booked, TableOK, Counted, Finished, Idle

\* As many tasks as connections, by number.
LEMMA TaskNumbers ==
  ASSUME TypeOK, NEW s \in Side, TableOK(s)
  PROVE  /\ Len(kept[s]) \in Nat /\ Len(task[s]) = Len(kept[s]) /\ Len(events[s]) \in Nat
         /\ DOMAIN kept[s] = 1..Len(kept[s]) /\ DOMAIN task[s] = 1..Len(kept[s])
         /\ \A i \in DOMAIN kept[s] : kept[s][i] \in Links
         /\ \A i \in DOMAIN task[s] : task[s][i] \in States
<1>1. kept[s] \in Seq(Links) /\ task[s] \in Seq(States) /\ events[s] \in Seq(EventType)
  BY DEF TypeOK
<1>2. Len(task[s]) = Len(kept[s])
  BY DEF TableOK
<1> QED BY <1>1, <1>2, LenProperties, ElementOfSeq

\* The numbers of Peers and of tasks that are over, and how one more changes them.
LEMMA Counts ==
  ASSUME TypeOK, NEW s \in Side, TableOK(s)
  PROVE  /\ Cardinality(Made(s)) \in Nat /\ Cardinality(Finished(s)) \in Nat
         /\ Cardinality(Made(s)) <= MaxLinks /\ Cardinality(Finished(s)) <= Len(kept[s])
         /\ \A l \in Links \ Made(s) :
              /\ Cardinality(Made(s) \union {l}) = Cardinality(Made(s)) + 1
              /\ Cardinality(Made(s)) < MaxLinks
         /\ \A i \in DOMAIN task[s] \ Finished(s) :
              /\ Cardinality(Finished(s) \union {i}) = Cardinality(Finished(s)) + 1
              /\ Cardinality(Finished(s)) < Len(kept[s])
<1> DEFINE M == Made(s)
           F == Finished(s)
           D == DOMAIN task[s]
<1>1. M \subseteq Links /\ F \subseteq D
  BY DEF Made, Finished, TypeOK
<1>2. IsFiniteSet(D) /\ Cardinality(D) = Len(kept[s]) /\ Len(kept[s]) \in Nat
  BY TaskNumbers, FS_Interval
<1>3. IsFiniteSet(Links) /\ Cardinality(Links) = MaxLinks /\ MaxLinks \in Nat
  BY LinkNumbers
<1> HIDE DEF M, F, D
<1>4. IsFiniteSet(M) /\ IsFiniteSet(F) /\ Cardinality(M) <= MaxLinks
      /\ Cardinality(F) <= Len(kept[s])
  BY <1>1, <1>2, <1>3, FS_Subset
<1>5. Cardinality(M) \in Nat /\ Cardinality(F) \in Nat
  BY <1>4, FS_CardinalityType
<1>6. ASSUME NEW l \in Links \ M
      PROVE  Cardinality(M \union {l}) = Cardinality(M) + 1 /\ Cardinality(M) < MaxLinks
  <2>1. Cardinality(M \union {l}) = Cardinality(M) + 1
    BY <1>4, FS_AddElement
  <2>2. M \union {l} \in SUBSET Links
    BY <1>1
  <2>3. Cardinality(M \union {l}) <= MaxLinks
    BY <1>3, <2>2, FS_Subset
  <2> QED BY <1>3, <1>5, <2>1, <2>3
<1>7. ASSUME NEW i \in D \ F
      PROVE  Cardinality(F \union {i}) = Cardinality(F) + 1 /\ Cardinality(F) < Len(kept[s])
  <2>1. Cardinality(F \union {i}) = Cardinality(F) + 1
    BY <1>4, FS_AddElement
  <2>2. F \union {i} \in SUBSET D
    BY <1>1
  <2>3. Cardinality(F \union {i}) <= Len(kept[s])
    BY <1>2, <2>2, FS_Subset
  <2> QED BY <1>2, <1>5, <2>1, <2>3
<1> QED BY <1>4, <1>5, <1>6, <1>7 DEF M, F, D

\* A task that is told to stop was not over, and is not over by that.
LEMMA UnheldIsNotFinished ==
  ASSUME TypeOK, NEW s \in Side, TableOK(s), NEW j \in DOMAIN task[s]
  PROVE  Unheld(s)[j] = "finished" <=> task[s][j] = "finished"
<1>1. Unheld(s)[j] = IF map[s] = j THEN "removed" ELSE task[s][j]
  BY UnheldKeepsType
<1>2. CASE map[s] = j
  <2>1. j # None
    BY PairAssumption, TaskNumbers
  <2> QED BY <1>1, <1>2, <2>1 DEF TableOK
<1> QED BY <1>1, <1>2

\* There is room for one more, where there is a connection or a task more to come.
LEMMA RoomForMore ==
  ASSUME TypeOK, NEW s \in Side, Booked(s)
  PROVE  /\ \A l \in Links \ Made(s) : Len(kept[s]) < MaxLinks /\ Len(events[s]) < 2 * MaxLinks
         /\ \A i \in DOMAIN task[s] : task[s][i] # "finished" => Len(events[s]) < 2 * MaxLinks
<1> DEFINE m == Cardinality(Made(s))
           f == Cardinality(Finished(s))
<1>1. Len(kept[s]) <= m /\ Len(events[s]) <= m + f /\ TableOK(s)
  BY DEF Booked, Counted
<1>2. /\ m \in Nat /\ f \in Nat /\ m <= MaxLinks /\ f <= Len(kept[s])
      /\ \A l \in Links \ Made(s) : m < MaxLinks
      /\ \A i \in DOMAIN task[s] : task[s][i] # "finished" => f < Len(kept[s])
  <2>1. \A i \in DOMAIN task[s] : task[s][i] # "finished" => i \notin Finished(s)
    BY DEF Finished
  <2> QED BY <1>1, <2>1, Counts
<1>3. Len(kept[s]) \in Nat /\ Len(events[s]) \in Nat /\ MaxLinks \in Nat
  BY <1>1, TaskNumbers, LinkNumbers
<1> HIDE DEF m, f
<1> QED BY <1>1, <1>2, <1>3

\* A Peer that comes about: its connection is kept and forwarded, or dropped.
LEMMA GainsKeepsBooks ==
  ASSUME TypeOK, NEW s \in Side, NEW l \in Links, Gains(s, l), \A t \in Side : Booked(t)
  PROVE  \A t \in Side : Booked(t)'
<1>1. TableOK(s) /\ Counted(s)
  BY DEF Booked
<1>2. l \notin Made(s) /\ Made(s)' = Made(s) \union {l} /\ Made(Other(s))' = Made(Other(s))
      /\ InsertPeer(s, l)
  BY DEF Gains
<1>3. Cardinality(Made(s)') = Cardinality(Made(s)) + 1 /\ Cardinality(Made(s)) \in Nat
  BY <1>1, <1>2, Counts
<1>4. Len(kept[s]) \in Nat /\ Len(task[s]) = Len(kept[s]) /\ Len(events[s]) \in Nat
      /\ DOMAIN kept[s] = 1..Len(kept[s]) /\ DOMAIN task[s] = 1..Len(kept[s])
  BY <1>1, TaskNumbers
<1>5. Len(events'[s]) <= Len(events[s]) + 1 /\ events'[Other(s)] = events[Other(s)]
  <2>1. (\E kind \in Kinds : Tell(s, kind)) \/ UNCHANGED events
    BY DEF Gains, Kinds
  <2>2. Other(s) \in Side \ {s}
    BY TwoSides
  <2>3. CASE \E kind \in Kinds : Tell(s, kind)
    <3>1. PICK kind \in Kinds : Tell(s, kind)
      BY <2>3
    <3>2. Len(events'[s]) = Len(events[s]) + 1 /\ \A t \in Side \ {s} : events'[t] = events[t]
      BY <3>1, TellEffect
    <3> QED BY <1>4, <2>2, <3>2
  <2>4. CASE UNCHANGED events
    BY <1>4, <2>4
  <2> QED BY <2>1, <2>3, <2>4
<1>6. Booked(s)'
  <2>1. CASE map[s] # None
    <3>1. kept'[s] = kept[s] /\ map'[s] = map[s] /\ task'[s] = task[s]
      BY <1>2, <2>1, InsertEffect
    <3>2. TableOK(s)'
      BY <1>1, <1>2, <3>1 DEF TableOK
    <3>3. Finished(s)' = Finished(s)
      BY <3>1 DEF Finished
    <3>4. Cardinality(Finished(s)) \in Nat
      BY <1>1, Counts
    <3>5. Counted(s)'
      BY <1>1, <1>3, <1>4, <1>5, <3>1, <3>3, <3>4 DEF Counted
    <3> QED BY <3>2, <3>5 DEF Booked
  <2>2. CASE map[s] = None
    <3>1. kept'[s] = Append(kept[s], l) /\ map'[s] = Len(kept[s]) + 1
          /\ task'[s] = Append(task[s], "forwarding")
      BY <1>2, <2>2, InsertEffect
    <3>2. kept[s] \in Seq(Links) /\ task[s] \in Seq(States) /\ "forwarding" \in States
      BY DEF TypeOK, States
    <3>3. /\ Len(kept'[s]) = Len(kept[s]) + 1 /\ DOMAIN kept'[s] = 1..(Len(kept[s]) + 1)
          /\ \A i \in DOMAIN kept[s] : kept'[s][i] = kept[s][i]
          /\ kept'[s][Len(kept[s]) + 1] = l
      BY <1>4, <3>1, <3>2, AppendProperties, LenProperties
    <3>4. /\ Len(task'[s]) = Len(kept[s]) + 1 /\ DOMAIN task'[s] = 1..(Len(kept[s]) + 1)
          /\ \A i \in DOMAIN task[s] : task'[s][i] = task[s][i]
          /\ task'[s][Len(kept[s]) + 1] = "forwarding"
      BY <1>4, <3>1, <3>2, AppendProperties, LenProperties
    <3>5. TableOK(s)'
      BY <1>1, <1>2, <1>4, <3>1, <3>3, <3>4 DEF TableOK
    <3>6. Finished(s)' = Finished(s)
      BY <1>4, <3>4 DEF Finished
    <3>7. Cardinality(Finished(s)) \in Nat
      BY <1>1, Counts
    <3>8. Counted(s)'
      BY <1>1, <1>3, <1>4, <1>5, <3>3, <3>6, <3>7 DEF Counted
    <3> QED BY <3>5, <3>8 DEF Booked
  <2> QED BY <2>1, <2>2
<1>7. Booked(Other(s))'
  <2>1. Other(s) \in Side \ {s}
    BY TwoSides
  <2>2. Idle(Other(s))
    BY <1>2, <1>5, <2>1, InsertEffect DEF Idle
  <2>3. Other(s)' = Other(s)
    BY DEF Other
  <2> QED BY <1>2, <2>1, <2>2, <2>3, IdleKeepsBooks
<1>8. Other(s)' = Other(s)
  BY DEF Other
<1> QED BY <1>6, <1>7, <1>8, TwoSides

\* A task that comes to its end: one more is over, and the application hears of it.
LEMMA FinishKeepsBooks ==
  ASSUME TypeOK, NEW s \in Side, NEW i \in DOMAIN task[s], Finish(s, i),
         \A t \in Side : Booked(t)
  PROVE  \A t \in Side : Booked(t)'
<1>1. TableOK(s) /\ Counted(s)
  BY DEF Booked
<1>2. Len(kept[s]) \in Nat /\ Len(task[s]) = Len(kept[s]) /\ Len(events[s]) \in Nat
      /\ DOMAIN kept[s] = 1..Len(kept[s]) /\ DOMAIN task[s] = 1..Len(kept[s])
  BY <1>1, TaskNumbers
<1>3. /\ task[s][i] \in {"ended", "removed"} /\ map'[s] = None
      /\ Len(task'[s]) = Len(task[s]) /\ DOMAIN task'[s] = DOMAIN task[s]
      /\ task'[s][i] = "finished"
      /\ \A j \in DOMAIN task[s] \ {i} : task'[s][j] = Unheld(s)[j]
      /\ Len(events'[s]) = Len(events[s]) + 1
      /\ UNCHANGED <<chosen, granted, kept>>
      /\ \A t \in Side \ {s} : map'[t] = map[t] /\ task'[t] = task[t] /\ events'[t] = events[t]
  BY <1>2, FinishEffect
<1>4. \A t \in Side : Made(t)' = Made(t)
  BY <1>3 DEF Made
<1>5. TableOK(s)'
  BY <1>1, <1>3, <1>4 DEF TableOK
<1>6. Finished(s)' = Finished(s) \union {i}
  <2>1. \A j \in DOMAIN task[s] \ {i} : Unheld(s)[j] = "finished" <=> task[s][j] = "finished"
    BY <1>1, UnheldIsNotFinished
  <2> QED BY <1>3, <2>1 DEF Finished
<1>7. Cardinality(Finished(s)') = Cardinality(Finished(s)) + 1 /\ Cardinality(Finished(s)) \in Nat
      /\ Cardinality(Made(s)) \in Nat
  <2>1. i \notin Finished(s)
    BY <1>3 DEF Finished
  <2> QED BY <1>1, <1>6, <2>1, Counts
<1>8. Counted(s)'
  BY <1>1, <1>2, <1>3, <1>4, <1>7 DEF Counted
<1>9. ASSUME NEW t \in Side \ {s}  PROVE Booked(t)'
  BY <1>3, <1>4, <1>9, IdleKeepsBooks DEF Idle
<1> QED BY <1>5, <1>8, <1>9 DEF Booked

\* A stream that ends.
LEMMA EndKeepsBooks ==
  ASSUME TypeOK, NEW s \in Side, NEW i \in DOMAIN task[s], EndStream(s, i),
         \A t \in Side : Booked(t)
  PROVE  \A t \in Side : Booked(t)'
<1>1. TableOK(s) /\ Counted(s)
  BY DEF Booked
<1>2. /\ task[s][i] = "forwarding" /\ Len(task'[s]) = Len(task[s])
      /\ DOMAIN task'[s] = DOMAIN task[s] /\ task'[s][i] = "ended"
      /\ \A j \in DOMAIN task[s] \ {i} : task'[s][j] = task[s][j]
      /\ \A t \in Side \ {s} : task'[t] = task[t]
      /\ UNCHANGED <<chosen, granted, kept, map, events>>
  BY EndEffect
<1>3. \A t \in Side : Made(t)' = Made(t)
  BY <1>2 DEF Made
<1>4. TableOK(s)'
  BY <1>1, <1>2, <1>3 DEF TableOK
<1>5. Finished(s)' = Finished(s)
  BY <1>2 DEF Finished
<1>6. Counted(s)'
  BY <1>1, <1>2, <1>3, <1>5 DEF Counted
<1>7. ASSUME NEW t \in Side \ {s}  PROVE Booked(t)'
  BY <1>2, <1>3, <1>7, IdleKeepsBooks DEF Idle
<1> QED BY <1>4, <1>6, <1>7 DEF Booked

\* An entry that is taken out.
LEMMA RemoveKeepsBooks ==
  ASSUME TypeOK, NEW s \in Side, Remove(s), UNCHANGED <<chosen, granted, kept, events>>,
         \A t \in Side : Booked(t)
  PROVE  \A t \in Side : Booked(t)'
<1>1. TableOK(s) /\ Counted(s)
  BY DEF Booked
<1>2. /\ map'[s] = None /\ task'[s] = Unheld(s)
      /\ \A t \in Side \ {s} : map'[t] = map[t] /\ task'[t] = task[t]
  BY RemoveEffect
<1>3. /\ DOMAIN task'[s] = DOMAIN task[s] /\ Len(task'[s]) = Len(task[s])
      /\ \A j \in DOMAIN task[s] : task'[s][j] = IF map[s] = j THEN "removed" ELSE task[s][j]
  BY <1>2, UnheldKeepsType
<1>4. \A t \in Side : Made(t)' = Made(t)
  BY DEF Made
<1>5. TableOK(s)'
  BY <1>1, <1>2, <1>3, <1>4 DEF TableOK
<1>6. Finished(s)' = Finished(s)
  <2>1. \A j \in DOMAIN task[s] : task'[s][j] = "finished" <=> task[s][j] = "finished"
    BY <1>1, <1>2, UnheldIsNotFinished
  <2> QED BY <1>3, <2>1 DEF Finished
<1>7. Counted(s)'
  BY <1>1, <1>4, <1>6 DEF Counted
<1>8. ASSUME NEW t \in Side \ {s}  PROVE Booked(t)'
  BY <1>2, <1>4, <1>8, IdleKeepsBooks DEF Idle
<1> QED BY <1>5, <1>7, <1>8 DEF Booked

\* Connecting and bootstrapping that yield no Peer, and stuttering, leave the books alone.
LEMMA RestingKeepsBooks ==
  ASSUME Rests \/ UNCHANGED vars, \A t \in Side : Booked(t)
  PROVE  \A t \in Side : Booked(t)'
<1>1. \A t \in Side : Idle(t) /\ Made(t)' = Made(t)
  BY DEF Rests, vars, table, Idle, Made
<1> QED BY <1>1, IdleKeepsBooks

-----------------------------------------------------------------------------
(* The invariant *)

\* The types, the numbers of the connections, and the books of both sides.
Inv == TypeOK /\ LinksOK /\ \A s \in Side : Booked(s)

\* At first there are no connections, tasks and events.
LEMMA InitiallyInv == Init => Inv
<1> SUFFICES ASSUME Init  PROVE Inv
  OBVIOUS
<1>1. TypeOK
  <2>1. <<>> \in Seq(Links) /\ <<>> \in Seq(States) /\ <<>> \in Seq(EventType)
    BY EmptySeq
  <2> QED BY <2>1 DEF Init, Connection!Init, TypeOK, Connection!Side, Side
<1>2. \A s \in Side : Made(s) = {}
  BY DEF Made, Init, Connection!Init, Connection!Side, Side
<1>3. LinksOK
  <2>1. 1..0 = {} /\ 0 \in 0..MaxLinks
    BY LinkNumbers
  <2>2. Numbered
    BY <1>2, <2>1, TwoSides DEF Numbered
  <2> QED BY <1>2, <2>2 DEF LinksOK, Apart, Made
<1>4. ASSUME NEW s \in Side  PROVE Booked(s)
  <2>1. kept[s] = <<>> /\ task[s] = <<>> /\ events[s] = <<>> /\ map[s] = None
    BY DEF Init
  <2>2. Len(kept[s]) = 0 /\ Len(task[s]) = 0 /\ Len(events[s]) = 0
        /\ DOMAIN kept[s] = {} /\ DOMAIN task[s] = {}
    BY <2>1
  <2>3. Finished(s) = {}
    BY <2>2 DEF Finished
  <2>4. TableOK(s)
    BY <2>1, <2>2 DEF TableOK
  <2>5. Counted(s)
    <3>1. Cardinality(Made(s)) = 0 /\ Cardinality(Finished(s)) = 0
      BY <1>2, <2>3, FS_EmptySet
    <3> QED BY <2>2, <3>1 DEF Counted
  <2> QED BY <2>4, <2>5 DEF Booked
<1> QED BY <1>1, <1>3, <1>4 DEF Inv

\* Every step keeps the types, the numbers and the books.
LEMMA StepKeepsInv == Inv /\ [Next]_vars => Inv'
<1> SUFFICES ASSUME Inv, [Next]_vars  PROVE Inv'
  OBVIOUS
<1>1. TypeOK /\ LinksOK /\ \A s \in Side : Booked(s)
  BY DEF Inv
<1>2. CASE Next
  <2>1. \A s \in Side : DOMAIN task[s] = DOMAIN kept[s]
    BY <1>1, TaskNumbers DEF Booked
  <2>2. TypeOK' /\ LinksOK'
    BY <1>1, <1>2, <2>1, StepKeepsType, StepKeepsLinks
  <2>3. ASSUME NEW s \in Side, NEW l \in Links, Gains(s, l)  PROVE \A t \in Side : Booked(t)'
    BY <1>1, <2>3, GainsKeepsBooks
  <2>4. ASSUME HiConnects \/ Accepts \/ \E l \in Links : LoConnects(l) \/ BootstrapConnects(l)
        PROVE  \A t \in Side : Booked(t)'
    BY <1>1, <2>3, <2>4, HiGains, LoGains, AcceptorGains, ClientGains, TwoSides
  <2>5. ASSUME NEW s \in Side, Disconnect(s) \/ Stop(s)  PROVE \A t \in Side : Booked(t)'
    <3>1. Remove(s) /\ UNCHANGED <<chosen, granted, kept, events>>
      BY <2>5 DEF Disconnect, Stop, connecting, bootstrapping
    <3> QED BY <1>1, <3>1, RemoveKeepsBooks
  <2>6. ASSUME Waits  PROVE \A t \in Side : Booked(t)'
    BY <1>1, <2>6, WaitingRests, RestingKeepsBooks
  <2> QED BY <1>1, <1>2, <2>2, <2>4, <2>5, <2>6, KindsOfSteps, FinishKeepsBooks, EndKeepsBooks
          DEF StreamEnds, Inv
<1>3. CASE UNCHANGED vars
  <2>1. \A t \in Side : Booked(t)'
    BY <1>1, <1>3, RestingKeepsBooks
  <2>2. TypeOK' /\ LinksOK'
    BY <1>1, <1>3 DEF vars, TypeOK, LinksOK, Numbered, Apart, Made
  <2> QED BY <2>1, <2>2 DEF Inv
<1> QED BY <1>2, <1>3

\* Each variable of the two services has its type.
THEOREM Typing == Spec => []TypeOK
<1>1. Inv => TypeOK
  BY DEF Inv
<1> QED BY <1>1, InitiallyInv, StepKeepsInv, PTL DEF Spec

-----------------------------------------------------------------------------
(* A connection that both tables hold stays *)

\* While nobody has disconnected, gone, or lost a connection, the only task of a side that
\* is not over is that of its entry; its stream has ended only if the other end is closed;
\* and this end of it is open.
Calmly(s) ==
  /\ closed[s] \subseteq Made(Hi) \union Made(Lo)
  /\ \A i \in DOMAIN task[s] : /\ map[s] # i => task[s][i] = "finished"
                               /\ task[s][i] = "ended" => kept[s][i] \in closed[Other(s)]
  /\ map[s] # None => kept[s][map[s]] \notin closed[s]

CalmInv == calm => \A s \in Side : Calmly(s)

\* A table that a step leaves alone stays as calm, if no end of its own is closed.
LEMMA IdleStaysCalm ==
  ASSUME TypeOK, NEW t \in Side, Booked(t), Calmly(t), OnlyLeft,
         kept'[t] = kept[t], map'[t] = map[t], task'[t] = task[t],
         \A u \in Side : Made(u) \subseteq Made(u)'
  PROVE  Calmly(t)'
<1>1. closed[t] \subseteq closed'[t] /\ closed[Other(t)] \subseteq closed'[Other(t)]
      /\ \A c \in closed'[t] \ closed[t] : c \notin Made(t) /\ c \in Made(Hi)' \union Made(Lo)'
  BY TwoSides DEF OnlyLeft
<1>2. Other(t)' = Other(t)
  BY DEF Other
<1>3. closed'[t] \subseteq Made(Hi)' \union Made(Lo)'
  BY <1>1, TwoSides DEF Calmly
<1>4. map[t] # None => kept[t][map[t]] \notin closed'[t]
  <2>1. map[t] # None => map[t] \in DOMAIN kept[t]
    BY TaskNumbers DEF Booked, TableOK
  <2> QED BY <1>1, <2>1 DEF Calmly, Booked, TableOK
<1> QED BY <1>1, <1>2, <1>3, <1>4 DEF Calmly

\* A Peer that comes about where there is an entry changes nothing, and is the entry where
\* there is none, its end being open.
LEMMA GainsStaysCalm ==
  ASSUME TypeOK, NEW s \in Side, NEW l \in Links, Gains(s, l),
         \A t \in Side : Booked(t) /\ Calmly(t)
  PROVE  \A t \in Side : Calmly(t)'
<1>1. Made(s)' = Made(s) \union {l} /\ Made(Other(s))' = Made(Other(s)) /\ OnlyLeft
      /\ InsertPeer(s, l)
  BY DEF Gains
<1>2. \A u \in Side : Made(u) \subseteq Made(u)'
  <2>1. \A u \in Side : u = s \/ u = Other(s)
    BY TwoSides
  <2>2. Other(s)' = Other(s)
    BY DEF Other
  <2> QED BY <1>1, <2>1, <2>2
<1>3. ASSUME NEW t \in Side, kept'[t] = kept[t], map'[t] = map[t], task'[t] = task[t]
      PROVE  Calmly(t)'
  BY <1>1, <1>2, <1>3, IdleStaysCalm
<1>4. ASSUME NEW t \in Side \ {s}  PROVE Calmly(t)'
  BY <1>1, <1>3, <1>4, InsertEffect
<1>5. CASE map[s] # None
  BY <1>1, <1>3, <1>4, <1>5, InsertEffect
<1>6. CASE map[s] = None
  <2>1. kept'[s] = Append(kept[s], l) /\ map'[s] = Len(kept[s]) + 1
        /\ task'[s] = Append(task[s], "forwarding")
    BY <1>1, <1>6, InsertEffect
  <2>2. kept[s] \in Seq(Links) /\ task[s] \in Seq(States) /\ "forwarding" \in States
        /\ Len(kept[s]) \in Nat /\ Len(task[s]) = Len(kept[s])
        /\ DOMAIN task[s] = 1..Len(kept[s])
    BY TaskNumbers DEF TypeOK, States, Booked
  <2>3. kept'[s][Len(kept[s]) + 1] = l
    BY <2>1, <2>2, AppendProperties
  <2>4. /\ DOMAIN task'[s] = 1..(Len(kept[s]) + 1)
        /\ \A i \in DOMAIN task[s] : task'[s][i] = task[s][i]
        /\ task'[s][Len(kept[s]) + 1] = "forwarding"
    BY <2>1, <2>2, AppendProperties, LenProperties
  <2>5. \A i \in DOMAIN task[s] : task[s][i] = "finished"
    <3>1. \A i \in DOMAIN task[s] : i # None
      BY <2>2, PairAssumption
    <3> QED BY <1>6, <3>1 DEF Calmly
  <2>6. \A i \in DOMAIN task'[s] : /\ map'[s] # i => task'[s][i] = "finished"
                                   /\ task'[s][i] # "ended"
    BY <2>1, <2>2, <2>4, <2>5
  <2>7. closed[s] \subseteq closed'[s] /\ closed'[s] \subseteq Made(Hi)' \union Made(Lo)'
    BY <1>1, <1>2, TwoSides DEF OnlyLeft, Calmly
  <2>8. l \notin closed'[s]
    <3>1. /\ l \in closed[s] => l \notin Made(Hi) \union Made(Lo)
          /\ l \in closed'[s] => l \in closed[s]
      BY <1>6 DEF Gains
    <3> QED BY <3>1 DEF Calmly
  <2>9. Calmly(s)'
    BY <2>1, <2>3, <2>6, <2>7, <2>8 DEF Calmly
  <2> QED BY <1>4, <2>9
<1> QED BY <1>5, <1>6

\* In the calm a task that is about to finish is the entry's, and its stream has ended.
LEMMA FinishesTheEnded ==
  ASSUME TypeOK, NEW s \in Side, NEW i \in DOMAIN task[s], Booked(s), Calmly(s), Finish(s, i)
  PROVE  map[s] = i /\ map[s] # None /\ kept[s][i] \in closed[Other(s)]
<1>1. task[s][i] \in {"ended", "removed"}
  BY DEF Finish
<1>2. map[s] = i
  BY <1>1 DEF Calmly
<1>3. i # None
  BY PairAssumption, TaskNumbers DEF Booked
<1>4. task[s][i] = "ended"
  BY <1>1, <1>2, <1>3 DEF Booked, TableOK
<1> QED BY <1>2, <1>3, <1>4 DEF Calmly

\* When it has finished, no task of its side is left, and the other end may end its stream.
LEMMA FinishStaysCalm ==
  ASSUME TypeOK, NEW s \in Side, NEW i \in DOMAIN task[s], Finish(s, i),
         \A t \in Side : Booked(t) /\ Calmly(t)
  PROVE  \A t \in Side : Calmly(t)'
<1>1. i \in DOMAIN kept[s] /\ kept[s][i] \in Made(s)
  BY TaskNumbers DEF Booked, TableOK
<1>2. /\ map'[s] = None /\ DOMAIN task'[s] = DOMAIN task[s] /\ task'[s][i] = "finished"
      /\ \A j \in DOMAIN task[s] \ {i} : task'[s][j] = Unheld(s)[j]
      /\ closed'[s] = closed[s] \union {kept[s][i]}
      /\ UNCHANGED <<chosen, granted, kept>>
      /\ \A t \in Side \ {s} : map'[t] = map[t] /\ task'[t] = task[t] /\ closed'[t] = closed[t]
  BY <1>1, FinishEffect
<1>3. Made(Hi)' = Made(Hi) /\ Made(Lo)' = Made(Lo)
  BY <1>2 DEF Made
<1>4. \A t \in Side : Other(t)' = Other(t)
  BY DEF Other
<1>5. Calmly(s)'
  <2>1. \A j \in DOMAIN task[s] : task'[s][j] = "finished"
    <3>1. map[s] = i
      BY FinishesTheEnded
    <3>2. \A j \in DOMAIN task[s] \ {i} : task[s][j] = "finished"
      BY <3>1 DEF Calmly
    <3> QED BY <1>2, <3>2, UnheldIsNotFinished DEF Booked
  <2>2. closed'[s] \subseteq Made(Hi)' \union Made(Lo)'
    BY <1>1, <1>2, <1>3, TwoSides DEF Calmly
  <2> QED BY <1>2, <2>1, <2>2 DEF Calmly
<1>6. ASSUME NEW t \in Side \ {s}  PROVE Calmly(t)'
  <2>1. Other(t) = s
    BY TwoSides
  <2>2. closed[Other(t)] \subseteq closed'[Other(t)]
    BY <1>2, <2>1
  <2> QED BY <1>2, <1>3, <1>4, <2>2 DEF Calmly
<1> QED BY <1>5, <1>6

\* A stream that ends does so because the other end is closed.
LEMMA StreamEndStaysCalm ==
  ASSUME TypeOK, NEW s \in Side, NEW i \in DOMAIN task[s], StreamEnds(s, i),
         \A t \in Side : Booked(t) /\ Calmly(t)
  PROVE  \A t \in Side : Calmly(t)'
<1>1. EndStream(s, i) /\ kept[s][i] \in closed[Other(s)]
  BY DEF StreamEnds
<1>2. /\ task[s][i] = "forwarding" /\ DOMAIN task'[s] = DOMAIN task[s]
      /\ task'[s][i] = "ended" /\ \A j \in DOMAIN task[s] \ {i} : task'[s][j] = task[s][j]
      /\ \A t \in Side \ {s} : task'[t] = task[t]
      /\ UNCHANGED <<chosen, granted, kept, map, closed>>
  BY <1>1, EndEffect
<1>3. Made(Hi)' = Made(Hi) /\ Made(Lo)' = Made(Lo) /\ \A t \in Side : Other(t)' = Other(t)
  BY <1>2 DEF Made, Other
<1>4. Calmly(s)'
  BY <1>1, <1>2, <1>3 DEF Calmly
<1>5. ASSUME NEW t \in Side \ {s}  PROVE Calmly(t)'
  BY <1>2, <1>3 DEF Calmly
<1> QED BY <1>4, <1>5

\* The ends that connecting and bootstrapping leave are of no entry.
LEMMA RestingStaysCalm ==
  ASSUME TypeOK, Rests, \A t \in Side : Booked(t) /\ Calmly(t)
  PROVE  \A t \in Side : Calmly(t)'
<1>1. /\ OnlyLeft /\ UNCHANGED <<kept, map, task>>
      /\ \A t \in Side : Made(t) \subseteq Made(t)'
  BY DEF Rests, table, Made
<1> QED BY <1>1, IdleStaysCalm

\* What is calm stays so in every step that is not a disturbance.
LEMMA StepStaysCalm == Inv /\ CalmInv /\ [Next]_vars => CalmInv'
<1> SUFFICES ASSUME Inv, CalmInv, [Next]_vars, calm'  PROVE \A t \in Side : Calmly(t)'
  BY DEF CalmInv
<1>1. TypeOK /\ LinksOK /\ \A s \in Side : Booked(s)
  BY DEF Inv
<1>2. CASE Next
  <2>1. calm' = calm /\ \A t \in Side : Booked(t) /\ Calmly(t)
    BY <1>1, <1>2, KindsOfSteps DEF CalmInv
  <2>2. ASSUME NEW s \in Side, NEW l \in Links, Gains(s, l)  PROVE \A t \in Side : Calmly(t)'
    BY <1>1, <2>1, <2>2, GainsStaysCalm
  <2>3. ASSUME HiConnects \/ Accepts \/ \E l \in Links : LoConnects(l) \/ BootstrapConnects(l)
        PROVE  \A t \in Side : Calmly(t)'
    BY <1>1, <2>2, <2>3, HiGains, LoGains, AcceptorGains, ClientGains, TwoSides
  <2>4. ASSUME Waits  PROVE \A t \in Side : Calmly(t)'
    BY <1>1, <2>1, <2>4, WaitingRests, RestingStaysCalm
  <2> QED BY <1>1, <1>2, <2>1, <2>3, <2>4, KindsOfSteps, FinishStaysCalm, StreamEndStaysCalm
<1>3. CASE UNCHANGED vars
  BY <1>3 DEF vars, CalmInv, Calmly, Made, Other
<1> QED BY <1>2, <1>3

\* At first no end is closed.
LEMMA InitiallyCalm == Init => CalmInv
<1> SUFFICES ASSUME Init, NEW s \in Side  PROVE Calmly(s)
  BY DEF CalmInv
<1>1. closed[s] = {} /\ task[s] = <<>> /\ map[s] = None
  BY DEF Init
<1> QED BY <1>1 DEF Calmly

\* A step that is no disturbance leaves a connection that both tables hold in both: the
\* tables refuse every other Peer, and neither end's task can end, as both ends are open.
LEMMA StepKeepsConnection ==
  ASSUME Inv, CalmInv, [Next]_vars, Link(Hi) = Link(Lo), Link(Hi) # None, calm'
  PROVE  Link(Hi)' = Link(Hi) /\ Link(Lo)' = Link(Lo)
<1>1. TypeOK /\ LinksOK /\ \A s \in Side : Booked(s)
  BY DEF Inv
<1>2. ASSUME UNCHANGED table  PROVE Link(Hi)' = Link(Hi) /\ Link(Lo)' = Link(Lo)
  BY <1>2 DEF table, Link
<1>3. \A s \in Side : map[s] # None /\ kept[s][map[s]] = Link(s)
  BY DEF Link, Side
<1>4. \A s \in Side : Link(Other(s)) = Link(s)
  BY DEF Side, Other
<1>5. CASE Next
  <2>1. calm' = calm /\ \A t \in Side : Booked(t) /\ Calmly(t)
    BY <1>1, <1>5, KindsOfSteps DEF CalmInv
  <2>2. ASSUME NEW s \in Side, NEW l \in Links, Gains(s, l)  PROVE UNCHANGED table
    BY <1>3, <2>2 DEF Gains, InsertPeer
  <2>3. ASSUME HiConnects \/ Accepts \/ \E l \in Links : LoConnects(l) \/ BootstrapConnects(l)
        PROVE  UNCHANGED table
    BY <1>1, <2>2, <2>3, HiGains, LoGains, AcceptorGains, ClientGains, TwoSides
  <2>4. ASSUME Waits  PROVE UNCHANGED table
    BY <1>1, <2>4, WaitingRests DEF Rests
  <2>5. ASSUME NEW s \in Side, NEW i \in DOMAIN task[s], StreamEnds(s, i)
        PROVE  Link(Hi)' = Link(Hi) /\ Link(Lo)' = Link(Lo)
    BY <2>5 DEF StreamEnds, EndStream, Link
  <2>6. ASSUME NEW s \in Side, NEW i \in DOMAIN task[s], Finish(s, i)  PROVE FALSE
    <3>1. map[s] = i /\ kept[s][i] \in closed[Other(s)]
      BY <1>1, <2>1, <2>6, FinishesTheEnded
    <3>2. Other(s) \in Side /\ kept[Other(s)][map[Other(s)]] = kept[s][i]
      BY <1>3, <1>4, <3>1, TwoSides
    <3> QED BY <1>3, <2>1, <3>1, <3>2 DEF Calmly
  <2> QED BY <1>2, <1>5, <2>1, <2>3, <2>4, <2>5, <2>6, KindsOfSteps
<1>6. CASE UNCHANGED vars
  BY <1>2, <1>6 DEF vars, table
<1> QED BY <1>5, <1>6

\* A connection that both tables hold stays in both, whatever calls are made and however
\* many more connections they bring, until one side disconnects or goes, or it breaks.
THEOREM BothEndsStay == Spec => ConnectionStays
<1> DEFINE Stays == Link(Hi) = Link(Lo) /\ Link(Hi) # None /\ calm'
                      => Link(Hi)' = Link(Hi) /\ Link(Lo)' = Link(Lo)
<1>1. Inv /\ CalmInv /\ [Next]_vars => [Stays]_vars
  BY StepKeepsConnection
<1> HIDE DEF Stays
<1>2. Spec => [][Stays]_vars
  BY <1>1, InitiallyInv, StepKeepsInv, InitiallyCalm, StepStaysCalm, PTL DEF Spec
<1> QED BY <1>2 DEF Stays, ConnectionStays

-----------------------------------------------------------------------------
(* Each side's table is a ConnectionMap *)

\* The UIDs of the Peers that a side has kept: all the other's.
Uid(s) == [i \in DOMAIN kept[s] |-> Other(s)]

\* The table of a side has the tasks of Pair for its connections.
LEMMA UidsKept ==
  ASSUME TypeOK, NEW s \in Side, Booked(s)
  PROVE  /\ Uid(s) \in Seq({Other(s)}) /\ Len(Uid(s)) = Len(kept[s])
         /\ \A i \in DOMAIN task[s] : Uid(s)[i] = Other(s)
         /\ DOMAIN task[s] = Table(s)!Conns
<1>1. Len(kept[s]) \in Nat /\ DOMAIN kept[s] = 1..Len(kept[s])
      /\ DOMAIN task[s] = 1..Len(kept[s])
  BY TaskNumbers DEF Booked
<1>2. Uid(s) = [i \in 1..Len(kept[s]) |-> Other(s)]
  BY <1>1 DEF Uid
<1>3. Uid(s) \in Seq({Other(s)}) /\ Len(Uid(s)) = Len(kept[s])
  BY <1>1, <1>2
<1> QED BY <1>1, <1>2, <1>3 DEF Table!Conns, Uid

\* A table that is left alone stutters.
LEMMA IdleTableStutters ==
  ASSUME NEW t \in Side, Idle(t), running'[t] = running[t]
  PROVE  UNCHANGED Table(t)!vars
<1>1. Other(t)' = Other(t)
  BY DEF Other
<1> QED BY <1>1 DEF Idle, Table!vars

\* A Peer that comes about is one connected or accepted.
LEMMA GainsFollows ==
  ASSUME TypeOK, NEW s \in Side, NEW l \in Links, Gains(s, l), Booked(s)
  PROVE  Table(s)!Next
<1> DEFINE u == Other(s)
<1>1. running[s] /\ running'[s] = running[s] /\ InsertPeer(s, l) /\ l \notin Made(s)
  BY DEF Gains
<1>2. Len(kept[s]) < MaxLinks /\ Len(events[s]) < 2 * MaxLinks
  BY <1>1, RoomForMore
<1>3. Table(s)!Room
  BY <1>1, <1>2 DEF Table!Room
<1>4. Uid(s) \in Seq({u}) /\ Len(Uid(s)) = Len(kept[s])
  BY UidsKept
<1>5. Table(s)!InsertPeer(u)
  <2>1. CASE map[s] # None
    <3>1. kept'[s] = kept[s] /\ map'[s] = map[s] /\ task'[s] = task[s] /\ Other(s)' = Other(s)
      BY <1>1, <2>1, InsertEffect DEF Other
    <3> QED BY <2>1, <3>1 DEF Table!InsertPeer
  <2>2. CASE map[s] = None
    <3>1. kept'[s] = Append(kept[s], l) /\ map'[s] = Len(kept[s]) + 1
          /\ task'[s] = Append(task[s], "forwarding") /\ Other(s)' = Other(s)
      BY <1>1, <2>2, InsertEffect DEF Other
    <3>2. Uid(s)' = Append(Uid(s), u)
      <4>1. kept[s] \in Seq(Links) /\ Len(kept[s]) \in Nat
            /\ DOMAIN kept[s] = 1..Len(kept[s])
        BY TaskNumbers DEF TypeOK, Booked
      <4>2. DOMAIN kept'[s] = 1..(Len(kept[s]) + 1)
        BY <3>1, <4>1, AppendProperties, LenProperties
      <4>3. Uid(s)' = [i \in 1..(Len(kept[s]) + 1) |-> u]
        BY <3>1, <4>2 DEF Uid
      <4>4. Uid(s)' \in Seq({u}) /\ Len(Uid(s)') = Len(kept[s]) + 1
        BY <4>1, <4>3
      <4>5. Append(Uid(s), u) \in Seq({u}) /\ Len(Append(Uid(s), u)) = Len(kept[s]) + 1
        BY <1>4, AppendProperties
      <4> QED BY <4>4, <4>5, SeqEqual, ElementOfSeq
    <3> QED BY <1>2, <1>4, <2>2, <3>1, <3>2 DEF Table!InsertPeer, Uid
  <2> QED BY <2>1, <2>2
<1>6. CASE \E kind \in {"ConnectSuccess", "BootstrapConnect"} : Tell(s, kind)
  <2>1. PICK kind \in {"ConnectSuccess", "BootstrapConnect"} : Tell(s, kind)
    BY <1>6
  <2>2. kind \in Kinds
    BY DEF Kinds
  <2>3. events'[s] = Append(events[s], [kind |-> kind, uid |-> u])
    BY <2>1, <2>2, TellEffect
  <2>4. Table(s)!Connected(u, kind)
    BY <1>1, <1>3, <1>5, <2>3 DEF Table!Connected, Table!Tell
  <2> QED BY <2>4 DEF Table!Next, Table!Connecting
<1>7. CASE IF map[s] = None THEN Tell(s, "BootstrapAccept") ELSE UNCHANGED events
  <2>1. IF map[s] = None THEN events'[s] = Append(events[s], [kind |-> "BootstrapAccept", uid |-> u])
                         ELSE events'[s] = events[s]
    <3>1. "BootstrapAccept" \in Kinds
      BY DEF Kinds
    <3> QED BY <1>7, <3>1, TellEffect
  <2>2. Table(s)!Accepted(u)
    BY <1>1, <1>3, <1>5, <2>1 DEF Table!Accepted, Table!Tell
  <2> QED BY <2>2 DEF Table!Next
<1> QED BY <1>6, <1>7 DEF Gains

\* A stream comes to its end, or breaks.
LEMMA EndFollows ==
  ASSUME TypeOK, NEW s \in Side, NEW i \in DOMAIN task[s], EndStream(s, i), Booked(s)
  PROVE  Table(s)!Next
<1>1. /\ task[s][i] = "forwarding" /\ task'[s] = [task[s] EXCEPT ![i] = "ended"]
      /\ UNCHANGED <<kept, map, events, running>>
  BY EndEffect
<1>2. i \in Table(s)!Conns
  BY UidsKept
<1>3. Table(s)!StreamEnds(i)
  BY <1>1 DEF Table!StreamEnds, Other
<1> QED BY <1>2, <1>3 DEF Table!Next

\* What is taken out of a table for the one UID there is.
LEMMA UnheldIsRemoved ==
  ASSUME TypeOK, NEW s \in Side, Booked(s)
  PROVE  /\ Unheld(s) = Table(s)!Removed({Other(s)})
         /\ [u \in {Other(s)} |-> None] = Table(s)!Without({Other(s)})
<1>1. DOMAIN task[s] = Table(s)!Conns
  BY UidsKept
<1> QED BY <1>1 DEF Unheld, Table!Removed, Table!Without

\* A task comes to its end: the entry of its UID goes, whosever it is, and the loss is told.
LEMMA FinishFollows ==
  ASSUME TypeOK, NEW s \in Side, NEW i \in DOMAIN task[s], Finish(s, i), Booked(s)
  PROVE  Table(s)!Next
<1>1. i \in DOMAIN kept[s]
  BY TaskNumbers DEF Booked
<1>2. /\ running[s] /\ task[s][i] \in {"ended", "removed"} /\ map'[s] = None
      /\ task'[s] = [Unheld(s) EXCEPT ![i] = "finished"]
      /\ events'[s] = Append(events[s], [kind |-> "LostPeer", uid |-> Other(s)])
      /\ UNCHANGED <<kept, running>>
  BY <1>1, FinishEffect
<1>3. Table(s)!Room
  BY <1>2, RoomForMore DEF Table!Room
<1>4. i \in Table(s)!Conns /\ Uid(s)[i] = Other(s)
  BY UidsKept
<1>5. Table(s)!Finish(i)
  <2>1. Other(s)' = Other(s) /\ kept'[s] = kept[s] /\ running'[s] = running[s]
    BY <1>2 DEF Other
  <2>2. [u \in {Other(s)} |-> map'[s]] = Table(s)!Without({Uid(s)[i]})
    BY <1>2, <1>4, UnheldIsRemoved
  <2>3. task'[s] = [Table(s)!Removed({Uid(s)[i]}) EXCEPT ![i] = "finished"]
    BY <1>2, <1>4, UnheldIsRemoved
  <2>4. events'[s] = Append(events[s], [kind |-> "LostPeer", uid |-> Uid(s)[i]])
    BY <1>2, <1>4
  <2> QED BY <1>2, <1>3, <2>1, <2>2, <2>3, <2>4 DEF Table!Finish, Table!Tell, Uid
<1> QED BY <1>4, <1>5 DEF Table!Next

\* The entry is disconnected.
LEMMA DisconnectFollows ==
  ASSUME TypeOK, NEW s \in Side, Disconnect(s), Booked(s)
  PROVE  Table(s)!Next
<1>1. /\ running[s] /\ map[s] # None /\ map'[s] = None /\ task'[s] = Unheld(s)
      /\ UNCHANGED <<kept, events, running>>
  BY RemoveEffect DEF Disconnect
<1>2. Table(s)!Disconnect(Other(s))
  BY <1>1, UnheldIsRemoved DEF Table!Disconnect, Other
<1> QED BY <1>2 DEF Table!Next

\* The service is dropped.
LEMMA StopFollows ==
  ASSUME TypeOK, NEW s \in Side, Stop(s), Booked(s)
  PROVE  Table(s)!Next
<1>1. /\ running[s] /\ running'[s] = FALSE /\ map'[s] = None /\ task'[s] = Unheld(s)
      /\ UNCHANGED <<kept, events>>
  BY RemoveEffect DEF Stop, TypeOK
<1>2. Table(s)!Stop
  BY <1>1, UnheldIsRemoved DEF Table!Stop, Other
<1> QED BY <1>2 DEF Table!Next

\* Each step is one of a table at the side that acts, and leaves the other side's alone.
LEMMA StepFollows ==
  ASSUME Inv, [Next]_vars, NEW s \in Side
  PROVE  [Table(s)!Next]_(Table(s)!vars)
<1>1. TypeOK /\ LinksOK /\ \A t \in Side : Booked(t)
  BY DEF Inv
<1>2. ASSUME NEW t \in Side, NEW l \in Links, Gains(t, l)
      PROVE  [Table(s)!Next]_(Table(s)!vars)
  <2>1. CASE t = s
    BY <1>1, <1>2, <2>1, GainsFollows
  <2>2. CASE t # s
    <3>1. kept'[s] = kept[s] /\ map'[s] = map[s] /\ task'[s] = task[s]
          /\ running'[s] = running[s]
      BY <1>1, <1>2, <2>2, InsertEffect DEF Gains
    <3>2. events'[s] = events[s]
      <4>1. (\E kind \in Kinds : Tell(t, kind)) \/ UNCHANGED events
        BY <1>2 DEF Gains, Kinds
      <4> QED BY <1>1, <2>2, <4>1, TellEffect
    <3> QED BY <3>1, <3>2, IdleTableStutters DEF Idle
  <2> QED BY <2>1, <2>2
<1>3. ASSUME HiConnects \/ Accepts \/ \E l \in Links : LoConnects(l) \/ BootstrapConnects(l)
      PROVE  [Table(s)!Next]_(Table(s)!vars)
  BY <1>1, <1>2, <1>3, HiGains, LoGains, AcceptorGains, ClientGains, TwoSides
<1>4. ASSUME Waits  PROVE [Table(s)!Next]_(Table(s)!vars)
  BY <1>1, <1>4, WaitingRests, IdleTableStutters DEF Rests, table, Idle
<1>5. ASSUME NEW t \in Side, NEW i \in DOMAIN task[t], EndStream(t, i)
      PROVE  [Table(s)!Next]_(Table(s)!vars)
  <2>1. CASE t = s
    BY <1>1, <1>5, <2>1, EndFollows
  <2>2. CASE t # s
    <3>1. UNCHANGED <<kept, map, events, running>> /\ \A u \in Side \ {t} : task'[u] = task[u]
      BY <1>1, <1>5, EndEffect
    <3> QED BY <2>2, <3>1, IdleTableStutters DEF Idle
  <2> QED BY <2>1, <2>2
<1>6. ASSUME NEW t \in Side, NEW i \in DOMAIN task[t], Finish(t, i)
      PROVE  [Table(s)!Next]_(Table(s)!vars)
  <2>1. CASE t = s
    BY <1>1, <1>6, <2>1, FinishFollows
  <2>2. CASE t # s
    <3>1. i \in DOMAIN kept[t]
      BY <1>1, TaskNumbers DEF Booked
    <3>2. /\ UNCHANGED <<kept, running>>
          /\ \A u \in Side \ {t} : map'[u] = map[u] /\ task'[u] = task[u] /\ events'[u] = events[u]
      BY <1>1, <1>6, <3>1, FinishEffect
    <3> QED BY <2>2, <3>2, IdleTableStutters DEF Idle
  <2> QED BY <2>1, <2>2
<1>7. ASSUME NEW t \in Side, Disconnect(t) \/ Stop(t)
      PROVE  [Table(s)!Next]_(Table(s)!vars)
  <2>1. CASE t = s
    BY <1>1, <1>7, <2>1, DisconnectFollows, StopFollows
  <2>2. CASE t # s
    <3>1. Remove(t) /\ UNCHANGED <<kept, events>>
      BY <1>7 DEF Disconnect, Stop
    <3>2. running'[s] = running[s]
      BY <1>1, <1>7, <2>2 DEF Disconnect, Stop, TypeOK
    <3> QED BY <1>1, <2>2, <3>1, <3>2, RemoveEffect, IdleTableStutters DEF Idle
  <2> QED BY <2>1, <2>2
<1>8. CASE UNCHANGED vars
  BY <1>8, IdleTableStutters DEF vars, Idle
<1> QED BY <1>3, <1>4, <1>5, <1>6, <1>7, <1>8, KindsOfSteps DEF StreamEnds

\* Each table is empty at first.
LEMMA TablesInitially ==
  ASSUME Init, NEW s \in Side
  PROVE  Table(s)!Init
<1>1. kept[s] = <<>> /\ map[s] = None /\ task[s] = <<>> /\ events[s] = <<>> /\ running[s]
  BY DEF Init
<1>2. running[s] = TRUE
  BY DEF Init
<1>3. [i \in DOMAIN kept[s] |-> Other(s)] = <<>>
  BY <1>1
<1> QED BY <1>1, <1>2, <1>3 DEF Table!Init

\* Each side's table, whatever the other side does, goes through what ConnectionMap allows.
THEOREM TablesAreMaps == Spec => TablesFollow
<1> DEFINE Follow == \A s \in Side : [Table(s)!Next]_(Table(s)!vars)
           Empty == \A s \in Side : Table(s)!Init
<1>1. Init => Empty
  BY TablesInitially
<1>2. Inv /\ [Next]_vars => [Follow]_vars
  BY StepFollows
<1> HIDE DEF Follow, Empty
<1>3. Spec => Empty /\ [][Follow]_vars
  BY <1>1, <1>2, InitiallyInv, StepKeepsInv, PTL DEF Spec
<1> QED BY <1>3 DEF Follow, Empty, TablesFollow

-----------------------------------------------------------------------------
(* What the theorems about ConnectionMap say of the two tables *)

HiTable == INSTANCE ConnectionMapProofs WITH
  Uids <- {Other(Hi)}, MaxConns <- MaxLinks, MaxEvents <- 2 * MaxLinks,
  map <- [u \in {Other(Hi)} |-> map[Hi]],
  conns <- [i \in DOMAIN kept[Hi] |-> Other(Hi)],
  task <- task[Hi], events <- events[Hi], running <- running[Hi]

LoTable == INSTANCE ConnectionMapProofs WITH
  Uids <- {Other(Lo)}, MaxConns <- MaxLinks, MaxEvents <- 2 * MaxLinks,
  map <- [u \in {Other(Lo)} |-> map[Lo]],
  conns <- [i \in DOMAIN kept[Lo] |-> Other(Lo)],
  task <- task[Lo], events <- events[Lo], running <- running[Lo]

\* Who forwards is the entry, the entry's PeerWrapper is held, and the application takes
\* the other for connected if there is an entry or a task about to report the loss.
Sound(s) == Table(s)!NoOrphans /\ Table(s)!MapHoldsLivePeers /\ Table(s)!ApplicationAgrees

\* The bounds that a table has in Pair are what ConnectionMap assumes of its own.
LEMMA TableAssumption == HiTable!ConnectionMapAssumption /\ LoTable!ConnectionMapAssumption
<1>1. None \notin Nat /\ MaxLinks \in Nat /\ 2 * MaxLinks \in Nat
  BY PairAssumption
<1> QED BY <1>1 DEF HiTable!ConnectionMapAssumption, LoTable!ConnectionMapAssumption

\* What a table goes through in Pair, ConnectionMap goes through: first the one side,
LEMMA HiIsTable ==
  /\ Table(Hi)!Init => HiTable!Init
  /\ [Table(Hi)!Next]_(Table(Hi)!vars) => [HiTable!Next]_(HiTable!vars)
<1>1. Table(Hi)!Init => HiTable!Init
  BY DEF Table!Init, HiTable!Init
<1>2. UNCHANGED Table(Hi)!vars => UNCHANGED HiTable!vars
  BY DEF Table!vars, HiTable!vars
<1>3. Table(Hi)!Conns = HiTable!Conns /\ Table(Hi)!Connecting = HiTable!Connecting
  BY DEF Table!Conns, HiTable!Conns, Table!Connecting, HiTable!Connecting
<1>4. \A us : Table(Hi)!Removed(us) = HiTable!Removed(us) /\ Table(Hi)!Without(us) = HiTable!Without(us)
  BY <1>3 DEF Table!Removed, HiTable!Removed, Table!Without, HiTable!Without
<1>5. ASSUME NEW u  PROVE Table(Hi)!InsertPeer(u) => HiTable!InsertPeer(u)
  BY DEF Table!InsertPeer, HiTable!InsertPeer
<1>6. ASSUME NEW u, NEW kind
      PROVE  /\ Table(Hi)!Tell(kind, u) => HiTable!Tell(kind, u)
             /\ Table(Hi)!Room => HiTable!Room
  BY DEF Table!Tell, HiTable!Tell, Table!Room, HiTable!Room
<1>7. ASSUME NEW u  PROVE Table(Hi)!Accepted(u) => HiTable!Accepted(u)
  BY <1>5, <1>6 DEF Table!Accepted, HiTable!Accepted
<1>8. ASSUME NEW u, NEW kind  PROVE Table(Hi)!Connected(u, kind) => HiTable!Connected(u, kind)
  BY <1>5, <1>6 DEF Table!Connected, HiTable!Connected
<1>9. ASSUME NEW u  PROVE Table(Hi)!Disconnect(u) => HiTable!Disconnect(u)
  BY <1>4 DEF Table!Disconnect, HiTable!Disconnect
<1>10. ASSUME NEW us  PROVE Table(Hi)!WhitelistFilter(us) => HiTable!WhitelistFilter(us)
  BY <1>4 DEF Table!WhitelistFilter, HiTable!WhitelistFilter
<1>11. ASSUME NEW c
       PROVE  /\ Table(Hi)!Forward(c) => HiTable!Forward(c)
              /\ Table(Hi)!StreamEnds(c) => HiTable!StreamEnds(c)
              /\ Table(Hi)!Finish(c) => HiTable!Finish(c)
  <2>1. Table(Hi)!Forward(c) => HiTable!Forward(c)
    BY <1>6 DEF Table!Forward, HiTable!Forward, Table!Forwards, HiTable!Forwards
  <2>2. Table(Hi)!StreamEnds(c) => HiTable!StreamEnds(c)
    BY DEF Table!StreamEnds, HiTable!StreamEnds
  <2>3. Table(Hi)!Finish(c) => HiTable!Finish(c)
    BY <1>4, <1>6 DEF Table!Finish, HiTable!Finish
  <2> QED BY <2>1, <2>2, <2>3
<1>12. Table(Hi)!Stop => HiTable!Stop
  BY <1>4 DEF Table!Stop, HiTable!Stop
<1>13. Table(Hi)!Next => HiTable!Next
  BY <1>3, <1>7, <1>8, <1>9, <1>10, <1>11, <1>12 DEF Table!Next, HiTable!Next
<1> QED BY <1>1, <1>2, <1>13

\* then the other.
LEMMA LoIsTable ==
  /\ Table(Lo)!Init => LoTable!Init
  /\ [Table(Lo)!Next]_(Table(Lo)!vars) => [LoTable!Next]_(LoTable!vars)
<1>1. Table(Lo)!Init => LoTable!Init
  BY DEF Table!Init, LoTable!Init
<1>2. UNCHANGED Table(Lo)!vars => UNCHANGED LoTable!vars
  BY DEF Table!vars, LoTable!vars
<1>3. Table(Lo)!Conns = LoTable!Conns /\ Table(Lo)!Connecting = LoTable!Connecting
  BY DEF Table!Conns, LoTable!Conns, Table!Connecting, LoTable!Connecting
<1>4. \A us : Table(Lo)!Removed(us) = LoTable!Removed(us) /\ Table(Lo)!Without(us) = LoTable!Without(us)
  BY <1>3 DEF Table!Removed, LoTable!Removed, Table!Without, LoTable!Without
<1>5. ASSUME NEW u  PROVE Table(Lo)!InsertPeer(u) => LoTable!InsertPeer(u)
  BY DEF Table!InsertPeer, LoTable!InsertPeer
<1>6. ASSUME NEW u, NEW kind
      PROVE  /\ Table(Lo)!Tell(kind, u) => LoTable!Tell(kind, u)
             /\ Table(Lo)!Room => LoTable!Room
  BY DEF Table!Tell, LoTable!Tell, Table!Room, LoTable!Room
<1>7. ASSUME NEW u  PROVE Table(Lo)!Accepted(u) => LoTable!Accepted(u)
  BY <1>5, <1>6 DEF Table!Accepted, LoTable!Accepted
<1>8. ASSUME NEW u, NEW kind  PROVE Table(Lo)!Connected(u, kind) => LoTable!Connected(u, kind)
  BY <1>5, <1>6 DEF Table!Connected, LoTable!Connected
<1>9. ASSUME NEW u  PROVE Table(Lo)!Disconnect(u) => LoTable!Disconnect(u)
  BY <1>4 DEF Table!Disconnect, LoTable!Disconnect
<1>10. ASSUME NEW us  PROVE Table(Lo)!WhitelistFilter(us) => LoTable!WhitelistFilter(us)
  BY <1>4 DEF Table!WhitelistFilter, LoTable!WhitelistFilter
<1>11. ASSUME NEW c
       PROVE  /\ Table(Lo)!Forward(c) => LoTable!Forward(c)
              /\ Table(Lo)!StreamEnds(c) => LoTable!StreamEnds(c)
              /\ Table(Lo)!Finish(c) => LoTable!Finish(c)
  <2>1. Table(Lo)!Forward(c) => LoTable!Forward(c)
    BY <1>6 DEF Table!Forward, LoTable!Forward, Table!Forwards, LoTable!Forwards
  <2>2. Table(Lo)!StreamEnds(c) => LoTable!StreamEnds(c)
    BY DEF Table!StreamEnds, LoTable!StreamEnds
  <2>3. Table(Lo)!Finish(c) => LoTable!Finish(c)
    BY <1>4, <1>6 DEF Table!Finish, LoTable!Finish
  <2> QED BY <2>1, <2>2, <2>3
<1>12. Table(Lo)!Stop => LoTable!Stop
  BY <1>4 DEF Table!Stop, LoTable!Stop
<1>13. Table(Lo)!Next => LoTable!Next
  BY <1>3, <1>7, <1>8, <1>9, <1>10, <1>11, <1>12 DEF Table!Next, LoTable!Next
<1> QED BY <1>1, <1>2, <1>13

\* What is an invariant of the ConnectionMap is one of the table.
LEMMA HiIsSound ==
  HiTable!NoOrphans /\ HiTable!MapHoldsLivePeers /\ HiTable!ApplicationAgrees => Sound(Hi)
<1>1. Table(Hi)!Conns = HiTable!Conns
  BY DEF Table!Conns, HiTable!Conns
<1>2. HiTable!NoOrphans => Table(Hi)!NoOrphans
  BY <1>1 DEF Table!NoOrphans, HiTable!NoOrphans
<1>3. HiTable!MapHoldsLivePeers => Table(Hi)!MapHoldsLivePeers
  BY DEF Table!MapHoldsLivePeers, HiTable!MapHoldsLivePeers
<1>4. \A u : Table(Hi)!LastStatus(u) = HiTable!LastStatus(u) /\ (Table(Hi)!LossPending(u) <=> HiTable!LossPending(u))
  BY <1>1 DEF Table!LastStatus, HiTable!LastStatus, Table!StatusEvents, HiTable!StatusEvents,
              Table!LossPending, HiTable!LossPending
<1>5. HiTable!ApplicationAgrees => Table(Hi)!ApplicationAgrees
  BY <1>4 DEF Table!ApplicationAgrees, HiTable!ApplicationAgrees
<1> QED BY <1>2, <1>3, <1>5 DEF Sound

LEMMA LoIsSound ==
  LoTable!NoOrphans /\ LoTable!MapHoldsLivePeers /\ LoTable!ApplicationAgrees => Sound(Lo)
<1>1. Table(Lo)!Conns = LoTable!Conns
  BY DEF Table!Conns, LoTable!Conns
<1>2. LoTable!NoOrphans => Table(Lo)!NoOrphans
  BY <1>1 DEF Table!NoOrphans, LoTable!NoOrphans
<1>3. LoTable!MapHoldsLivePeers => Table(Lo)!MapHoldsLivePeers
  BY DEF Table!MapHoldsLivePeers, LoTable!MapHoldsLivePeers
<1>4. \A u : Table(Lo)!LastStatus(u) = LoTable!LastStatus(u) /\ (Table(Lo)!LossPending(u) <=> LoTable!LossPending(u))
  BY <1>1 DEF Table!LastStatus, LoTable!LastStatus, Table!StatusEvents, LoTable!StatusEvents,
              Table!LossPending, LoTable!LossPending
<1>5. LoTable!ApplicationAgrees => Table(Lo)!ApplicationAgrees
  BY <1>4 DEF Table!ApplicationAgrees, LoTable!ApplicationAgrees
<1> QED BY <1>2, <1>3, <1>5 DEF Sound

\* Two services that connect to each other, and go away, in any order: each side's table has
\* what ConnectionMap promises, so that each application takes the other for connected
\* while there is an entry, and, as long as its event loop runs, only if there is one or the
\* loss is about to be told.
THEOREM TablesAreSound == Spec => []\A s \in Side : Sound(s)
<1>1. Init => HiTable!Init /\ LoTable!Init
  BY TwoSides, TablesInitially, HiIsTable, LoIsTable
<1>2. Inv /\ [Next]_vars => [HiTable!Next]_(HiTable!vars) /\ [LoTable!Next]_(LoTable!vars)
  BY TwoSides, StepFollows, HiIsTable, LoIsTable
<1>3. Spec => HiTable!Init /\ [][HiTable!Next]_(HiTable!vars)
              /\ LoTable!Init /\ [][LoTable!Next]_(LoTable!vars)
  BY <1>1, <1>2, InitiallyInv, StepKeepsInv, PTL DEF Spec
<1>4. Spec => HiTable!Spec /\ LoTable!Spec
  BY <1>3 DEF HiTable!Spec, LoTable!Spec
<1>5. HiTable!Spec => []HiTable!NoOrphans /\ []HiTable!MapHoldsLivePeers
                      /\ []HiTable!ApplicationAgrees
  BY TableAssumption, HiTable!NothingOrphaned, HiTable!TableIsLive, HiTable!EventsAndTableAgree
<1>6. LoTable!Spec => []LoTable!NoOrphans /\ []LoTable!MapHoldsLivePeers
                      /\ []LoTable!ApplicationAgrees
  BY TableAssumption, LoTable!NothingOrphaned, LoTable!TableIsLive, LoTable!EventsAndTableAgree
<1>7. Sound(Hi) /\ Sound(Lo) => \A s \in Side : Sound(s)
  BY DEF Side
<1> QED BY <1>4, <1>5, <1>6, <1>7, HiIsSound, LoIsSound, PTL
=============================================================================

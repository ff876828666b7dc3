-------------------------------- MODULE Pair --------------------------------
(***************************************************************************)
(* Two compat services that connect to each other, bootstrap off each other, *)
(* disconnect and go away (compat/service.rs), each with its table of peers  *)
(* and the tasks of compat/connection_map.rs. How they come to have a Peer   *)
(* each is left to what Settlement promises of connect, and to the order of  *)
(* a bootstrap: the acceptor has its Peer before the client has. A           *)
(* connection then ends at one side when the other lets go of it.            *)
(***************************************************************************)
EXTENDS Integers, Sequences, FiniteSets

CONSTANTS
  Hi, Lo,    \* the two services, by their UIDs
  Client,    \* the one that bootstraps off the other
  None,
  MaxLinks   \* bound: connections that get as far as a Peer at one end

Side == {Hi, Lo}
Other(s) == IF s = Hi THEN Lo ELSE Hi
Acceptor == Other(Client)

ASSUME PairAssumption ==
  /\ Hi # Lo /\ Client \in Side
  /\ MaxLinks \in Nat /\ None \notin Nat

VARIABLES
  call,      \* each side's latest call of connect
  chosen,    \* the connections it has made a Peer from by connect
  boot,      \* the client's bootstrap future is there
  accepting, \* the other one's bootstrap_acceptor is Some
  granted,   \* the connections each side has a Peer of by bootstrapping
  kept,      \* the connections insert_peer has taken, in that order
  map,       \* the entry of the other's UID in each table: an index of kept, or None
  task,      \* the state of each of the tasks
  events,    \* what each application has been told of the other's coming and going
  running,   \* the event loop has not been dropped
  closed,    \* the connections whose end at this side is closed
  calm       \* history: nobody has disconnected or gone, and nothing has broken

vars == <<call, chosen, boot, accepting, granted, kept, map, task, events, running,
          closed, calm>>
connecting == <<call, chosen>>
bootstrapping == <<boot, accepting, granted>>
table == <<kept, map, task>>

Links == 1..MaxLinks
Fresh == Cardinality(UNION {chosen[s] \union granted[s] : s \in Side}) + 1

\* connect, as Rendezvous implements it.
Connection == INSTANCE Settlement WITH Conns <- Links

Init ==
  /\ Connection!Init
  /\ boot = FALSE
  /\ accepting = FALSE
  /\ granted = [s \in Side |-> {}]
  /\ kept = [s \in Side |-> <<>>]
  /\ map = [s \in Side |-> None]
  /\ task = [s \in Side |-> <<>>]
  /\ events = [s \in Side |-> <<>>]
  /\ running = [s \in Side |-> TRUE]
  /\ closed = [s \in Side |-> {}]
  /\ calm = TRUE

-----------------------------------------------------------------------------
(* The table of a side *)

Tell(s, kind) == events' = [events EXCEPT ![s] = Append(@, [kind |-> kind, uid |-> Other(s)])]

\* With a bug: the task is not told.
StillHeld(s) == task[s]

\* The entry's PeerWrapper is dropped, if there is one.
Unheld(s) == [i \in DOMAIN task[s] |-> IF map[s] = i THEN "removed" ELSE task[s][i]]

\* With a bug: a Peer that comes later takes the entry over.
InsertOver(s, l) ==
  /\ map' = [map EXCEPT ![s] = Len(kept[s]) + 1]
  /\ kept' = [kept EXCEPT ![s] = Append(@, l)]
  /\ task' = [task EXCEPT ![s] = Append(Unheld(s), "forwarding")]

\* insert_peer refuses the Peer if there is one already; what it refuses is dropped.
InsertPeer(s, l) ==
  IF map[s] # None
  THEN UNCHANGED table
  ELSE /\ map' = [map EXCEPT ![s] = Len(kept[s]) + 1]
       /\ kept' = [kept EXCEPT ![s] = Append(@, l)]
       /\ task' = [task EXCEPT ![s] = Append(@, "forwarding")]
Refused(s, l) == IF map[s] # None THEN {l} ELSE {}

Remove(s) ==
  /\ map' = [map EXCEPT ![s] = None]
  /\ task' = [task EXCEPT ![s] = Unheld(s)]

\* Service::disconnect
Disconnect(s) ==
  /\ running[s] /\ map[s] # None
  /\ Remove(s)
  /\ UNCHANGED <<connecting, bootstrapping, kept, events, running, closed>>

EndStream(s, i) ==
  /\ running[s] /\ task[s][i] = "forwarding"
  /\ task' = [task EXCEPT ![s][i] = "ended"]
  /\ UNCHANGED <<connecting, bootstrapping, kept, map, events, running, closed>>

\* The other end is closed: the stream comes to its end.
StreamEnds(s, i) == kept[s][i] \in closed[Other(s)] /\ EndStream(s, i)

\* With a bug: a task leaves its socket open.
FinishesHalf(s, i) ==
  /\ running[s] /\ task[s][i] \in {"ended", "removed"}
  /\ map' = [map EXCEPT ![s] = None]
  /\ task' = [task EXCEPT ![s] = [Unheld(s) EXCEPT ![i] = "finished"]]
  /\ Tell(s, "LostPeer")
  /\ UNCHANGED <<connecting, bootstrapping, kept, running, closed>>

\* The task removes the UID, reports the loss and, being over, drops the stream: its end
\* of the connection closes only now.
Finish(s, i) ==
  /\ running[s] /\ task[s][i] \in {"ended", "removed"}
  /\ map' = [map EXCEPT ![s] = None]
  /\ task' = [task EXCEPT ![s] = [Unheld(s) EXCEPT ![i] = "finished"]]
  /\ Tell(s, "LostPeer")
  /\ closed' = [closed EXCEPT ![s] = @ \union {kept[s][i]}]
  /\ UNCHANGED <<connecting, bootstrapping, kept, running>>

\* The Service is dropped, and with the event loop every socket of it.
Stop(s) ==
  /\ running[s]
  /\ running' = [running EXCEPT ![s] = FALSE]
  /\ Remove(s)
  /\ closed' = [closed EXCEPT ![s] = Links]
  /\ UNCHANGED <<connecting, bootstrapping, kept, events>>

-----------------------------------------------------------------------------
(* connect *)

\* The ends of the lower side that no call of its is going to make its own any more.
LeftByLo == chosen[Hi] \ chosen'[Lo]

Connect(s) ==
  /\ running[s]
  /\ Connection!Begin(s)
  /\ UNCHANGED <<bootstrapping, table, events, running, closed>>

\* The higher side has chosen. It may be that nobody waits for that any more.
HiConnects ==
  /\ running[Hi] /\ Fresh \in Links
  /\ Connection!Settle(Hi, Fresh)
  /\ InsertPeer(Hi, Fresh)
  /\ Tell(Hi, "ConnectSuccess")
  /\ closed' = [closed EXCEPT ![Hi] = @ \union Refused(Hi, Fresh),
                              ![Lo] = IF call[Lo] = "running" THEN @ ELSE @ \union {Fresh}]
  /\ UNCHANGED <<bootstrapping, running>>

LoConnects(l) ==
  /\ running[Lo] /\ l \notin closed[Lo]
  /\ Connection!Settle(Lo, l)
  /\ InsertPeer(Lo, l)
  /\ Tell(Lo, "ConnectSuccess")
  /\ closed' = [closed EXCEPT ![Lo] = @ \union Refused(Lo, l) \union LeftByLo]
  /\ UNCHANGED <<bootstrapping, running>>

\* The call fails: 60 s at the most. Its connections are dropped with it.
ConnectFails(s) ==
  /\ running[s]
  /\ Connection!GiveUp(s)
  /\ closed' = [closed EXCEPT ![Lo] = IF s = Lo THEN @ \union LeftByLo ELSE @]
  /\ UNCHANGED <<bootstrapping, table, events, running>>

-----------------------------------------------------------------------------
(* start_bootstrap and set_accept_bootstrap *)

LeftByClient == granted[Acceptor] \ granted'[Client]

\* A bootstrap that is under way gives way to the new one.
StartBootstrap ==
  /\ running[Client]
  /\ boot' = TRUE
  /\ UNCHANGED <<connecting, accepting, granted, table, events, running>>
  /\ closed' = [closed EXCEPT ![Client] = @ \union LeftByClient]

\* stop_bootstrap, or failure: ten seconds at the most.
BootstrapEnds ==
  /\ running[Client] /\ boot
  /\ boot' = FALSE
  /\ UNCHANGED <<connecting, accepting, granted, table, events, running>>
  /\ closed' = [closed EXCEPT ![Client] = @ \union LeftByClient]

SetAcceptBootstrap ==
  /\ running[Acceptor]
  /\ accepting' = ~accepting
  /\ UNCHANGED <<connecting, boot, granted, table, events, running, closed>>

\* A request is granted, and the Peer yielded.
Accepts ==
  /\ running[Acceptor] /\ accepting /\ Fresh \in Links
  /\ granted' = [granted EXCEPT ![Acceptor] = @ \union {Fresh}]
  /\ InsertPeer(Acceptor, Fresh)
  /\ IF map[Acceptor] = None THEN Tell(Acceptor, "BootstrapAccept") ELSE UNCHANGED events
  /\ closed' = [closed EXCEPT ![Acceptor] = @ \union Refused(Acceptor, Fresh),
                              ![Client] = IF boot THEN @ ELSE @ \union {Fresh}]
  /\ UNCHANGED <<connecting, boot, accepting, running>>

\* The grant is read, and the bootstrap over.
BootstrapConnects(l) ==
  /\ running[Client] /\ boot
  /\ l \in granted[Acceptor] \ (granted[Client] \union closed[Client])
  /\ boot' = FALSE
  /\ granted' = [granted EXCEPT ![Client] = @ \union {l}]
  /\ InsertPeer(Client, l)
  /\ Tell(Client, "BootstrapConnect")
  /\ closed' = [closed EXCEPT ![Client] = @ \union Refused(Client, l) \union LeftByClient]
  /\ UNCHANGED <<connecting, accepting, running>>

-----------------------------------------------------------------------------
\* What the event loops and the timeouts see to.
TableStep(s) == \E i \in DOMAIN task[s] : StreamEnds(s, i) \/ Finish(s, i)

\* What the network does: a Peer's connection breaks.
Break == \E s \in Side : \E i \in DOMAIN task[s] : EndStream(s, i)

Operation ==
  \/ \E s \in Side : TableStep(s) \/ Connect(s) \/ ConnectFails(s)
  \/ HiConnects \/ \E l \in Links : LoConnects(l) \/ BootstrapConnects(l)
  \/ StartBootstrap \/ BootstrapEnds \/ SetAcceptBootstrap \/ Accepts

Disturbance == Break \/ \E s \in Side : Disconnect(s) \/ Stop(s)

Next ==
  \/ Operation /\ UNCHANGED calm
  \/ Disturbance /\ calm' = FALSE

Fairness ==
  /\ \A s \in Side : /\ WF_vars(TableStep(s) /\ UNCHANGED calm)
                     /\ WF_vars(ConnectFails(s) /\ UNCHANGED calm)
  /\ WF_vars(BootstrapEnds /\ UNCHANGED calm)

Spec == Init /\ [][Next]_vars /\ Fairness

-----------------------------------------------------------------------------
(* Properties *)

\* Each side's table, whatever the other does, goes through what ConnectionMap allows.
Table(s) == INSTANCE ConnectionMap WITH
  Uids <- {Other(s)}, MaxConns <- MaxLinks, MaxEvents <- 2 * MaxLinks,
  map <- [u \in {Other(s)} |-> map[s]],
  conns <- [i \in DOMAIN kept[s] |-> Other(s)],
  task <- task[s], events <- events[s], running <- running[s]
TablesFollow ==
  /\ \A s \in Side : Table(s)!Init
  /\ [][\A s \in Side : [Table(s)!Next]_(Table(s)!vars)]_vars

Link(s) == IF map[s] = None THEN None ELSE kept[s][map[s]]

\* A connection that both tables hold stays, whatever calls are made and however many
\* more connections they bring, until one side disconnects or goes, or it breaks.
ConnectionStays ==
  [][Link(Hi) = Link(Lo) /\ Link(Hi) # None /\ calm'
       => Link(Hi)' = Link(Hi) /\ Link(Lo)' = Link(Lo)]_vars

\* When no more connections come (MaxLinks bounds them), the two come to agree: the
\* tables hold the same connection or none, and each application that is left has been
\* told so. Half-open connections, refused Peers and losses reported twice are all over.
ThinksConnected(s) ==
  events[s] # <<>> /\ events[s][Len(events[s])].kind # "LostPeer"
AgreeInTheEnd ==
  <>[](/\ Link(Hi) = Link(Lo)
       /\ \A s \in Side : running[s] => (ThinksConnected(s) <=> Link(s) # None))
=============================================================================

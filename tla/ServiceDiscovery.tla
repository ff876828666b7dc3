-------------------------- MODULE ServiceDiscovery --------------------------
(***************************************************************************)
(* A peer that advertises its addresses on the local network               *)
(* (src/crust/src/net/service_discovery.rs, switched on and off by          *)
(* compat/service.rs) and the UDP server that answers for it               *)
(* (src/service_discovery/src/server.rs), with peers that ask by broadcast  *)
(* (discover.rs). Two tasks work for one ServiceDiscovery: a feeder that     *)
(* hands on each new set of addresses, and the server task. The port is     *)
(* fixed, so that one server at a time can have it.                         *)
(***************************************************************************)
EXTENDS Integers, Sequences

CONSTANTS
  AddrSets,      \* sets of addresses that may be published
  Discoverers,   \* peers that look for others on the local network
  None,
  SendBuffer,    \* answers the kernel holds for the server
  MaxRequests,   \* requests the kernel holds for the server
  MaxCopies,     \* bound: copies of one request that the network delivers
  MaxPublishes,  \* bound: changes of the published addresses
  MaxSwitches    \* bound: calls that switch advertising on

ASSUME ServiceDiscoveryAssumption ==
  /\ None \notin [to : Discoverers, data : AddrSets]
  /\ SendBuffer \in Nat \ {0}
  /\ MaxRequests \in Nat
  /\ MaxCopies \in Nat \ {0}
  /\ MaxPublishes \in Nat
  /\ MaxSwitches \in Nat

VARIABLES
  current,    \* Addresses.current of Listeners
  publishes,
  sd,         \* ServiceState.service_discovery is Some
  switches,
  feeder,     \* the task that owns the Server: none, running, or dropped (the
              \* DropNotify is gone and the task is yet to be polled)
  addrs_rx,   \* what the observer's channel holds
  data_rx,    \* what the server task's channel holds
  server,     \* the server task exists, and its socket has the port
  data,       \* ServerTask.data
  reply,      \* the answer being written, or None: the task is reading
  woken,      \* the server task has been notified
  interest,   \* what its socket will notify it of: none, read or write
  requests,   \* the socket's receive queue: who asked
  sndbuf,     \* answers the kernel is yet to send
  asked,      \* discoverers that have sent their one request
  req_air,    \* how many copies of each one's request are on their way
  got         \* what each discoverer has been told

vars == <<current, publishes, sd, switches, feeder, addrs_rx, data_rx, server, data, reply,
          woken, interest, requests, sndbuf, asked, req_air, got>>

switch == <<sd, switches>>
socket == <<requests, sndbuf>>
network == <<asked, req_air, got>>
task == <<data, reply, interest>>

Answers == [to : Discoverers, data : AddrSets]

\* Nothing advertised, nobody asking.
Init ==
  /\ current \in AddrSets
  /\ publishes = 0
  /\ sd = FALSE /\ switches = 0
  /\ feeder = "none"
  /\ addrs_rx = <<>> /\ data_rx = <<>>
  /\ server = FALSE /\ woken = FALSE
  /\ data = current
  /\ reply = None /\ interest = "none"
  /\ requests = <<>> /\ sndbuf = <<>>
  /\ asked = {} /\ req_air = [d \in Discoverers |-> 0]
  /\ got = [d \in Discoverers |-> {}]

-----------------------------------------------------------------------------
(* The peer that advertises *)

\* The listeners change: every observer whose receiver is alive is told.
Publish(addrs) ==
  /\ publishes < MaxPublishes /\ addrs # current
  /\ publishes' = publishes + 1
  /\ current' = addrs
  /\ addrs_rx' = IF feeder = "none" THEN addrs_rx ELSE Append(addrs_rx, addrs)
  /\ UNCHANGED <<switch, feeder, data_rx, server, task, woken, socket, network>>

\* Server::new: the port is bound, and the server task spawned.
ServerStarts ==
  /\ ~server
  /\ server' = TRUE /\ woken' = TRUE
  /\ data' = current /\ data_rx' = <<>>
  /\ reply' = None /\ interest' = "none"

\* set_service_discovery_listen(true), when the port is free: the present addresses and
\* the channel for later ones are taken together, and the feeder is spawned as well.
SwitchOn ==
  /\ switches < MaxSwitches
  /\ switches' = switches + 1
  /\ ServerStarts
  /\ sd' = TRUE
  /\ feeder' = "running" /\ addrs_rx' = <<>>
  /\ UNCHANGED <<current, publishes, socket, network>>

\* ... and when it is not, because it is on, or was until a moment ago and the server
\* task has not ended: the error is logged, and things are left as they are.
SwitchOnFails ==
  /\ switches < MaxSwitches
  /\ switches' = switches + 1
  /\ server
  /\ UNCHANGED <<current, publishes, sd, feeder, addrs_rx, data_rx, server, task, woken,
                 socket, network>>

\* set_service_discovery_listen(false) drops the ServiceDiscovery, if there is one, and
\* its DropNotify with it.
SwitchOff ==
  /\ sd
  /\ sd' = FALSE
  /\ feeder' = "dropped"
  /\ UNCHANGED <<current, publishes, switches, addrs_rx, data_rx, server, task, woken,
                 socket, network>>

\* for_each hands on every set of addresses that has come (Server::set_data).
Feed ==
  /\ feeder = "running" /\ addrs_rx # <<>>
  /\ data_rx' = data_rx \o addrs_rx
  /\ addrs_rx' = <<>>
  /\ woken' = TRUE
  /\ UNCHANGED <<current, publishes, switch, feeder, server, task, socket, network>>

\* until(drop_rx): the feeder ends, and drops the Server, which holds data_tx.
FeederEnds ==
  /\ feeder = "dropped"
  /\ feeder' = "none"
  /\ addrs_rx' = <<>>
  /\ woken' = TRUE
  /\ UNCHANGED <<current, publishes, switch, data_rx, server, task, socket, network>>

-----------------------------------------------------------------------------
(* ServerTask::poll. Requests that come while it runs are as good as those that came
   before, or notify it again: it is one step. *)

\* With a bug: the first of several sets of addresses is kept.
Earliest == IF data_rx = <<>> THEN data ELSE Head(data_rx)

\* The channel is drained, and the last set of addresses is the one that counts.
Latest == IF data_rx = <<>> THEN data ELSE data_rx[Len(data_rx)]

\* The answers the loop has to write: the one under way, and one for each request.
Outbox ==
  (IF reply = None THEN <<>> ELSE <<reply>>)
    \o [i \in DOMAIN requests |-> [to |-> requests[i], data |-> Latest]]

Lesser(a, b) == IF a < b THEN a ELSE b

\* How many of them the socket takes before it would block.
Written == Lesser(Len(Outbox), SendBuffer - Len(sndbuf))
Blocked == Written < Len(Outbox)

\* With a bug: after an answer the loop is left without another look at the socket.
InterestUnlessWritten == IF Blocked THEN "write" ELSE IF Written > 0 THEN "none" ELSE "read"

\* The loop ends where the socket would block, on a read or on a write.
Interest == IF Blocked THEN "write" ELSE "read"

\* With a bug: the end of the channel is only looked at between two answers.
ServerDroppedIfReading == feeder = "none" /\ reply = None

\* data_rx yields None: the Server has been dropped.
ServerDropped == feeder = "none"

\* The socket is closed with the task: the port is free.
ServerEnds ==
  /\ server /\ woken /\ ServerDropped
  /\ server' = FALSE /\ woken' = FALSE
  /\ data_rx' = <<>>
  /\ reply' = None /\ interest' = "none"
  /\ requests' = <<>> /\ sndbuf' = <<>>
  /\ UNCHANGED <<current, publishes, switch, feeder, addrs_rx, data, network>>

ServerPoll ==
  /\ server /\ woken /\ ~ServerDropped
  /\ woken' = FALSE
  /\ data' = Latest /\ data_rx' = <<>>
  /\ sndbuf' = sndbuf \o SubSeq(Outbox, 1, Written)
  /\ reply' = IF Blocked THEN Outbox[Written + 1] ELSE None
  /\ requests' = IF ~Blocked THEN <<>>
                 ELSE SubSeq(requests, Written + (IF reply = None THEN 2 ELSE 1), Len(requests))
  /\ interest' = Interest
  /\ UNCHANGED <<current, publishes, switch, feeder, addrs_rx, server, network>>

-----------------------------------------------------------------------------
(* The network and those who ask *)

\* discover: one request, by broadcast, never repeated; the network may double it.
Discover(d) ==
  /\ d \notin asked
  /\ asked' = asked \union {d}
  /\ \E copies \in 1..MaxCopies : req_air' = [req_air EXCEPT ![d] = copies]
  /\ UNCHANGED <<current, publishes, switch, feeder, addrs_rx, data_rx, server, task, woken,
                 socket, got>>

\* A request reaches the server's socket.
ArriveRequest(d) ==
  /\ req_air[d] > 0
  /\ server /\ Len(requests) < MaxRequests
  /\ requests' = Append(requests, d)
  /\ woken' = (woken \/ interest = "read")
  /\ req_air' = [req_air EXCEPT ![d] = @ - 1]
  /\ UNCHANGED <<current, publishes, switch, feeder, addrs_rx, data_rx, server, task, sndbuf,
                 asked, got>>

\* A request is lost, or finds no socket or no room.
LoseRequest(d) ==
  /\ req_air[d] > 0
  /\ req_air' = [req_air EXCEPT ![d] = @ - 1]
  /\ UNCHANGED <<current, publishes, switch, feeder, addrs_rx, data_rx, server, task, woken,
                 socket, asked, got>>

\* The kernel sends an answer, which is yielded by the Discover or lost. The task hears
\* of it if its last write would have blocked.
Transmit ==
  /\ sndbuf # <<>>
  /\ sndbuf' = Tail(sndbuf)
  /\ LET answer == Head(sndbuf)
     IN got' \in {got, [got EXCEPT ![answer.to] = @ \union {answer.data}]}
  /\ woken' = (woken \/ interest = "write")
  /\ UNCHANGED <<current, publishes, switch, feeder, addrs_rx, data_rx, server, task, requests,
                 asked, req_air>>

Tasks == Feed \/ FeederEnds \/ ServerEnds \/ ServerPoll

Next ==
  \/ \E addrs \in AddrSets : Publish(addrs)
  \/ SwitchOn \/ SwitchOnFails \/ SwitchOff
  \/ Tasks
  \/ \E d \in Discoverers : Discover(d) \/ ArriveRequest(d) \/ LoseRequest(d)
  \/ Transmit

Spec == Init /\ [][Next]_vars

\* The event loop polls every task that is notified, and the kernel sends what it holds.
FairSpec ==
  /\ Spec
  /\ WF_vars(Feed) /\ WF_vars(FeederEnds)
  /\ WF_vars(ServerEnds \/ ServerPoll)
  /\ WF_vars(Transmit)

-----------------------------------------------------------------------------
(* Properties *)

\* The types of the switch, the two tasks, the socket and the network; the kernel holds
\* no more answers than it can, and a server is there as long as its feeder.
TypeOK ==
  /\ current \in AddrSets /\ data \in AddrSets
  /\ publishes \in 0..MaxPublishes /\ switches \in 0..MaxSwitches
  /\ sd \in BOOLEAN /\ server \in BOOLEAN /\ woken \in BOOLEAN
  /\ feeder \in {"none", "running", "dropped"}
  /\ sd <=> feeder = "running"
  /\ feeder # "none" => server
  /\ addrs_rx \in Seq(AddrSets) /\ data_rx \in Seq(AddrSets)
  /\ reply \in Answers \union {None}
  /\ interest \in {"none", "read", "write"}
  /\ requests \in Seq(Discoverers) /\ Len(requests) <= MaxRequests
  /\ sndbuf \in Seq(Answers) /\ Len(sndbuf) <= SendBuffer
  /\ asked \in SUBSET Discoverers
  /\ req_air \in [Discoverers -> 0..MaxCopies]
  /\ got \in [Discoverers -> SUBSET AddrSets]

\* What is advertised catches up with what is published, as long as it is switched on:
\* no update is lost between the two channels, nor overtaken by an older one.
AdvertisesInTheEnd == (sd /\ data # current) ~> (~sd \/ data = current)

\* The server owes d an answer.
Owed(d) == d \in {requests[i] : i \in DOMAIN requests} \/ (reply # None /\ reply.to = d)

\* Every request that reaches the server is answered while it lives, however many come
\* at once and wherever a write blocks: no wake-up is lost between reading and writing.
RequestIsAnswered == \A d \in Discoverers : Owed(d) ~> ~Owed(d)

\* Switched off, the port is given back in the end: the ServiceDiscovery takes the feeder
\* along, the feeder the Server, and the Server the task, even amid an answer.
SwitchOffFreesPort == (server /\ ~sd) ~> ~server
=============================================================================

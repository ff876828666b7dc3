# A TLA+ model of crust-futures

Crust connects the nodes of a peer-to-peer network: it listens, maps addresses through NATs,
bootstraps to a network, connects pairs of peers that call each other at the same time, and keeps
the connections alive. `src/crust` is the library; `src/service_discovery`, `src/tokio-igd` and
`src/tokio-utils` are helper crates. Everything runs on futures (tokio-core, futures 0.1): a
component is a task that an event loop polls when something it waits for is ready. This directory
holds TLA+ modules of the components, TLC configurations that check them on small instances, and
proofs for TLAPS.

## Inventory

| Component | State it keeps | Operations | What is hard | What makes it correct |
|---|---|---|---|---|
| Socket (`net/socket.rs`) | handle: a channel to a task; task: one queue per priority, the stream | `start_send`, `poll`, drop; the task's poll | unbounded buffer cut by age, refused messages put back, flush before shutdown, wake-ups | order per priority, nothing below `MSG_DROP_PRIORITY` dropped, nothing too old sent, flushed before closed |
| Peer (`net/peer/peer.rs`) | a socket, two timers, `last_send_time` | `poll`, `start_send`, drop | a timer that is reset lazily; two readings of the clock; a timeout against a late message, from a Peer made later | unless a poll hangs: never silent for much longer than the period; no false alarm; a dead link is noticed |
| Connect (`net/peer/connect/connect.rs`) | the sockets a call has in hand | open, send, read, validate, choose, time out | two sides, several connections, every order of events, cuts | both settle on the same connection, nothing leaks |
| Demux (`.../demux.rs`) | the current bootstrap handler, a handler per UID, 128 slots | register, take a socket, route | handlers whose reader is gone; slots held by the silent | requests get to a live reader or are closed; whoever comes is taken in the end |
| Bootstrap (`.../bootstrap/*.rs`) | attempts in 64 slots | try, read, give up | slots held by the silent, late grants | one peer at most, and an entitled one |
| BootstrapAcceptor (`.../bootstrap_acceptor.rs`) | requests being handled | reload config, check, grant, deny | reload between checks, end of the channel amid handshakes | decided by the file, one answer, granted peers are received |
| Listeners (`net/listener.rs`) | the published addresses, observers, the list being polled | add, observe, drop, poll | the list changes while it is scanned; wake-ups | what is served is published and conversely |
| Acceptor (`net/peer/acceptor.rs`) | Listeners and Demux | facade | the switch of the service is thrown while tasks are yet to run | the addresses are in the end those of the switch |
| ConnectionMap (`compat/connection_map.rs`) | UID to peer, a task per peer | insert, send, remove, filter, clear | the task of an old connection ends after a new one is inserted | the table and the application agree |
| Compat service (`compat/service.rs`) | the switches, the table | closures on the event loop | results that come after a stop; one side has a Peer before the other, or without it | events match states; two services come to agree whether they are connected |
| Config (`config.rs`) | settings, file, observers, watcher thread | read, write, reload, observe | threads, edits from outside, failing writes | memory and disc agree, whitelists are enforced |
| ServiceDiscovery (`net/service_discovery.rs`, `service_discovery/src`) | a feeder task, a server task with its data, reading or writing; the port | switch on and off, feed, answer; discover | two channels and two tasks, back and forth between reading and writing, a port that is freed late | the last addresses are advertised, requests are answered, the port is given back |
| Event loop, Service, NAT, stun, cache, utilities | see `PROJECT.json` | | | |

Calls go from the service down (`Service` to `Acceptor` to `Listeners`/`Demux` to `connect`,
`BootstrapAcceptor`); sockets go up, through channels (`SocketIncoming` to the Demux, the Demux to
a connect call or the acceptor); the peers that come out go to the `ConnectionMap`, whose tasks
turn them into events. The configuration is shared by all under a lock and observed by the compat
service.

## Modules

Every module of a component is checked by a module `MC_<component>` that extends it; `<component>Proofs`,
where there is one, holds theorems about it. Operators
introduced by "With a bug" are variants of the definition that follows them; no specification uses
them. Each property has one that breaks it (`PROJECT.json`, "mutants"), which shows that the
property depends on the code in question.

**Socket.** `accepted` is the history of what `start_send` answered Ready for, so that a message is
its number in it and the contents never matter. `channel` is `write_tx`/`write_rx`. A poll of
`SocketTask` is cut where its loops go round (`task`: drain, expire, send, complete), since the
handle may be used on another thread and the kernel drains the stream meanwhile. The framed stream
is a counter: it refuses a message when `WireCapacity` frames are in it, and wakes the task when
this no longer holds, only if it was refused. Time does not pass within a poll. `Fail` is any I/O
error. *Not modelled*: reading, except that its failure drops the socket; frame sizes; that an I/O
error of the stream also fails the reader.

**MessageChannel** is what the handle of a Socket promises, without polls, queues or a clock.
`Socket!ImplementsChannel` maps it: `waiting` is what is in the channel or in the queues, so that
draining the one into the other is a stutter.

**Heartbeat.** Both ends of a connection. All times are relative to now, so that the state space is
finite without a bound on time. A poll goes through its phases one by one, and time may pass in each:
`StartPoll` reads `now` (`since_now` is how long ago that was), `HeartbeatTurn` is a turn of the
`while` loop, whose timer goes by the clock and not by `now`, `ReadSocket` reads the messages and
`CheckInactivity` looks at the inactivity timer last. The end that settles on the connection makes its
Peer when it sends the message that says so (Choose or Granted); the other's is made when that message
is read, up to `MaxDelay` later (`starting`, `Deliver`). The link delivers within `MaxDelay` or is cut
for good. A poll takes `MaxPoll` at the most, unless it goes round its loop for ever (`Hangs`, see the
disagreements below). From this follow `MaxSilence`, the period and two polls, and `MaxWait`, which adds
two delays and a poll; the assumption that `MaxWait` is less than `INACTIVITY_TIMEOUT` is what the
constants of `peer.rs` intend (20 s, 120 s).

**Rendezvous.** The sides are `Hi` and `Lo`, by the order of their UIDs. A connection is opened by
one side, and then enters through the other's Demux, or by hole punching on both. `end` is where
each side's socket is; `wire` what it has sent and the other has not read. Messages are their kind:
the request's UID is that of the peer, its name hash `name_hash`,
which is fixed when the system starts. Timeouts may strike at any time. `calm` is a history variable: it tells whether any action of
`Failure` (a cut, a timeout, a refusal) has happened yet, so that what is only promised without
failures can be stated of the one specification. *Not modelled*: the 128 slots of
`buffer_unordered`, third peers.

**Settlement** is what the exchange promises: a call ends with one Peer or none, the lower side makes
its own only what the higher has made its own. `Rendezvous!ImplementsSettlement` is the refinement;
the mapping keeps `call` and `chosen` and forgets the ends and the wires.

**Bootstrap.** One bootstrapping peer and all its contacts, with each contact's Demux, acceptor,
in-memory whitelist and file. Acceptors are numbered per contact; a new one replaces the old in the
Demux. The handshake with each contact reads one request and writes one answer. The cache,
the hard-coded contacts and service discovery are one set, `Contacts`; those on the blacklist are
not in it. Contacts are of three sorts: those that are there (`Answers`), those that refuse at once, and
the `Silent`, whose attempts are still `connecting` when the ten seconds of the bootstrap are over:
`try_peer.rs:79` gives them ten seconds of their own, which begin no earlier. `GiveUp` is the end of the
time. It is part of `Progress` when nothing else is left to come (`OnlySilenceIsLeft`), and a failure
before that. The file and settings of a contact of another network are fixed, as it denies us before it
looks at them (`HeedsFile`). `AcceptFails` is every way in which an acceptor drops a request without an
answer, a request of our own (`ConnectionFromOurself`) among them, and `Reloaded` includes that the file
cannot be read. *Not modelled*: several bootstrapping peers at one acceptor, except through the case
where the handshake is the last one of a replaced acceptor, which needs one. `calm` is the same
history variable as in Rendezvous, here of attempts that fail though the contact answers, acceptors
that are dropped or replaced, edits of the config file and an early end of the time.

**Listeners, Mapping and Acceptor.** `Listeners` is an open component: the actions of `Listeners` and of one
poll of `SocketIncoming`, cut at its loop turns, without a specification of its own. `polled` tells
for which listeners the task has registered its interest: only their events wake it. `Mapping` has
what `mapped_tcp_socket` makes of a port and the addresses that gateways and peers report within its
three seconds. `Acceptor` composes `Listeners` with the switch of the compat service, whose task for
each start finds out of a stop only when it is polled, and with the Demux, which polls the stream
only while one of its `Slots` is free. What a socket in a slot turns out to be is one action,
`Finish`. *Not modelled*: accept errors, which the Demux logs before it polls on; the observers of
`Addresses`, except as the feed of ServiceDiscovery.

**ConnectionMap.** Connections are numbered as they are inserted. `task` is the forwarding task of
each; `events` all that the application has been told. `Connected` stands for both connect and
bootstrap, which ignore what `insert_peer` returns; `Accepted` looks at it. That `until` looks at
the DropNotice before the stream is external (future_utils).

**Pair.** Two compat services with a table each, of which one bootstraps off the other. It puts
together what the other modules show: its `Connect` actions are those of `Settlement`, which Rendezvous
implements, and each of its tables is shown to go through the steps of `ConnectionMap`
(`TablesFollow`). Of a bootstrap it takes the order over: the acceptor has its Peer before the
client has, and the client may be gone by then. `closed` is where the two meet: an end closes when its
task has finished, when `insert_peer` refuses the Peer, when the call, the bootstrap or the Service it
belongs to ends; and the other end's stream is over after that. `calm` tells that nobody has
disconnected or gone and no connection has broken. *Not modelled*: calls of connect that overlap at
one side (Rendezvous has them one after the other, too), messages, the whitelist, and the events of
calls that fail, which do not concern the table.

**Config.** The settings are the two whitelists. `EditFile` is anybody editing the file, `Garbage`
included; `Write` the program doing it through the guard, changed or not. The watcher's event is a flag,
since the `notify` crate coalesces. The observer of the compat service reads the two whitelists under two
locks, hence in two steps. A peer that bootstraps off us is checked in one step (`AcceptPeer`) and put
into the map in another (`Insert`); in between, while the acceptor connects back to it and sends Granted
(`entering`), no filter sees it. Peers of connect and of our own bootstrap are not checked at all
(`JoinUnasked`). `slipped` is a history variable: it has the peers that got past the whitelists in one of
these two ways, until they go or a filter admits or drops them. A peer stands for its address and kind;
of several with the same, one is followed.

**ServiceDiscovery.** `feeder` is the task spawned by `ServiceDiscovery::new`, which hands each new
set of addresses from `addrs_rx` to `data_rx`; `server` is the `ServerTask`, which has the port as
long as it lives. `feeder = "dropped"` is the time between the drop of the ServiceDiscovery and the
feeder's next poll, during which the port is still bound, so that `SwitchOn` is not enabled and
`SwitchOnFails` is. A poll of the server is one action: `Outbox` is what it would write, `Written`
how much of it the socket takes, `interest` what the task is parked on when it returns. The network
delivers a request up to `MaxCopies` times, or loses it, as it may an answer. The port is the
configured one; with port 0 two servers could be up at once. *Not modelled*: messages that do not
deserialise, and responses sent to a server, both of which are read and passed over; several
advertising peers, which do not share anything.

## Runs

Bounds are constants named in each module's declarations and given in the `.cfg`.

| Run | Bounds | Shows |
|---|---|---|
| MC_Socket | 3 messages, 3 priorities (one never dropped), a stream of 1 frame, 3 ticks, age 1 | NeverDropped, InOrderPerPriority, FreshBacklog; ImplementsChannel, a refinement; HighPriorityHandedOver and DroppedSocketEnds, that is, no wake-up is lost. One frame in the stream and two messages behind it are what order, putting back and expiry across two queues need. |
| MC_Heartbeat | period 2, timeout 8, delay 1, polls of 1 tick, 1 data message in flight | NeverSilent, TimeoutIsJustified, DeadLinkIsNoticed. The timeout is the least that the assumption allows. A poll of one tick is enough for `now` and the timer to disagree; the hang is among the states. |
| MC_Rendezvous | 3 connections (one of each kind), 2 calls a side, 2 networks | Agreement, NoUnexpectedMessage, ChosenWasHeld, NothingLeaks, SameNetworkOnly; ImplementsSettlement, a refinement; Connects, as long as it is calm. Two connections are needed for a disagreement, a second call for stale handlers. |
| MC_Bootstrap | 4 contacts (one that grants, one of another network, one that refuses, one that is silent), 2 slots, 1 acceptor each, 1 edit | ContactIsEntitled, OnlyChosenRemains; RequestIsSettled; ReachesAGrantingContact, as long as it is calm and the silent leave a slot: one slot serves all the others in turn. |
| MC_Bootstrap_received | 2 contacts, 2 acceptors | violated: a replaced acceptor drops the peer it has just granted |
| MC_Acceptor | 3 starts of the switch, the first behind a NAT, 2 connections, 1 slot | PublishedIsServed, HeldIsKnown, ServedIsPublished; ArrivalIsAccepted, SwitchSettles. Three listeners are the least for swap_remove to move one past one that stays; one slot and two connections fill the Demux. |
| MC_Acceptor_shared | the same, with the port fixed | violated: a listener that goes withdraws addresses that another one serves |
| MC_ConnectionMap | 2 UIDs, 3 connections, 5 events | NoOrphans, MapHoldsLivePeers, ApplicationAgrees, MessagesFromKnownPeers. Two connections to one UID are needed for a late end to meet a new entry. |
| MC_ConnectionMap_lost | the same | violated: a late end takes the next connection along |
| MC_Pair | 2 connections that get as far as a Peer, any number of calls | TablesFollow, a refinement; ConnectionStays; AgreeInTheEnd. The higher side is the one that bootstraps, so that each side is first at one kind of connection. Two connections are needed for a refused Peer and for a late end that meets a new entry. |
| MC_Config | 1 address, 4 changes | InSync; WhitelistEnforced and EditIsEnforced as long as only the file is edited, but for the peers that slip by. One address and two kinds make two peers, one of which may be let in while the other is filtered. |
| MC_ServiceDiscovery | 2 discoverers, 2 copies of a request, 1 answer in the kernel, 2 requests waiting, 2 changes of address, 2 switches on | AdvertisesInTheEnd, RequestIsAnswered, SwitchOffFreesPort. Two requests and room for one answer are what it takes to block amid answering; two changes to have one overtake the other. |

MC_Rendezvous checks `TypeOK` as well: an end that is left half closed is none of the states it has. The `TypeOK` of the other modules says what the variables range over; what could break it
breaks one of their properties, too. Each is proved (`Typing`), but for that of ServiceDiscovery.

Deadlock is not checked: every component may stop (a task that has ended, a call that is over, a
bound reached).

**Fairness.** Socket: the event loop polls a notified task to the end and the peer goes on reading
(weak fairness of `PollStep` and `WireDrain`). Heartbeat: woken tasks are polled, a live link
delivers, and time passes; the last needs strong fairness because an unbounded number of messages
might be sent within a tick, which no real clock allows. Rendezvous and Bootstrap: weak fairness of `Progress`, whatever the ends can do without a
failure; a failure needs no fairness, and none is assumed of the application. A contact that is not
there refuses, and the timer of the bootstrap fires when all else has been done; the silent are never
given up before. Acceptor: the tasks that are
notified are polled, mappings are ready and silent sockets are dropped when their timers say so;
nothing is assumed of the application or the network. Pair: each side's forwarding tasks run, and a
call or a bootstrap that goes on ends at the latest with its timer (60 s, 10 s); `<>[]` then rests on
the bound on connections, not on calls, of which there may be any number. Config: the
watcher thread and the observer task run when they have something to do. ServiceDiscovery: notified tasks
are polled and the kernel sends the answers it holds; nothing is assumed of the network or the switch.

## Disagreements with the documentation

Three runs end in a violation on purpose; each checks a sentence of the documentation that the code
does not keep, quoted in `PROJECT.json` under "findings". The others that were met while modelling
have no run:

- `net/socket.rs:44-46` says that a socket that lags drops "its entire outgoing buffer"; lines
  213-222 drop the priorities from the first expired one on, and keep droppable ones before it.
- `compat/event.rs:25-26` has an event for a listener that fails to start; nothing sends it. After such
  a failure `tcp_listener` stays `Some` (`compat/service.rs:238`), so that further starts are ignored
  until a stop. `TaskFails` does as the code does.
- `config.rs:157-158` says of observers that they are notified "whenever a change is made to the
  config"; `ConfigWriteGuard` (line 210) changes the settings in place and notifies nobody, and the
  reload that follows finds nothing changed. `Write` does as the code does, and `EditIsEnforced` is
  claimed only until the application writes.
- With one whitelist disabled and the other not, the observer in `compat/service.rs:70` takes the
  disabled one for an empty one, whereas `config.rs:135` says that everybody is whitelisted then.
  `ObserverFilters` does as the code does.
- `net/peer/peer.rs:23-24` says of `Peer` that it "adds a heartbeat to keep the connection alive and detect
  when peers have disconnected". Its `poll` may do neither, and not return. It reads `now` once (line
  113), and the timer of the loop in line 114 goes by the clock. When `last_send_time + heartbeat_period`
  lies between the two, the timer has run out, line 115 sets it to the same past instant, and line 116
  finds that no period has passed since `last_send_time`: every turn is like the one before, and the
  event loop turns with it. `Hangs` is this state. It is five steps from the start in MC_Heartbeat: B's
  Peer is made; a tick; A is closed; B's task is woken by that and reads `now` one tick before its period
  is over; a tick; now the timer is out. `NeverSilent`, `TimeoutIsJustified` and `DeadLinkIsNoticed` except
  it by name and say that nothing else goes wrong. In the code it takes a wake-up for another reason
  within the time that two readings of the clock are apart.
- `bootstrap.rs:85` tries 64 contacts at a time. Silent ones hold their slots until the ten seconds of
  line 73 are over, since their own ten (`try_peer.rs:79`) begin later; 64 of them make the bootstrap
  fail, whoever is behind them. `ReachesAGrantingContact` says so in its premise: without
  `Cardinality(Silent) < Slots`, and with one slot, TLC finds the bootstrap that gives up.
- `config.rs:278` has "whitelisted nodes who are allowed to bootstrap off us or to connect to us".
  `bootstrap_acceptor.rs:152` asks before it connects back to the peer (three seconds) and sends Granted,
  and `compat/service.rs:131` inserts it without asking again. If the file is edited, reloaded and the
  observer's filter run in between, the peer is in the map although the whitelist leaves it out, until
  some later change makes the observer filter again. Peers of connect, of whom `connect.rs:112` filters
  only the addresses that are called, and of our own bootstrap are inserted unasked. Both are in
  `slipped`, and `WhitelistEnforced` and `EditIsEnforced` speak of the others.
- `connect.rs:112` filters the addresses a call connects to by the whitelist, and nothing filters the
  connections the Demux hands it; `Admits` is a guard of the opening actions only.

## Proofs

The theorems hold for every value of the constants: any set of connections with any openers, any
networks and number of calls; any UIDs, connections and events; any contacts and slots; any addresses
and number of edits; any period, delay, length of polls and timeout. They rest on the named assumptions of their
modules only: that the two sides differ and every connection has an opener (`RendezvousAssumption`),
that `None` is not a number (`ConnectionMapAssumption`) or a contact (`BootstrapAssumption`), the
types of the constants (`ConfigAssumption`, `SocketAssumption`), and that a period, three
polls and two delays are together shorter than the timeout (`HeartbeatAssumption`), that the two services of Pair differ and one of them bootstraps
(`PairAssumption`). Acceptor's need none, but for its types
(`AcceptorAssumption`, `ListenersAssumption`) and for one theorem the hypothesis `NoneShared`, below. TLC
evaluates each assumption in its runs.

*Rendezvous.* `Typing` is proved action by action; `EstablishKeepsType` does the part that three
actions share. `Agreement` (what the lower side made a Peer of, the higher side did) is not
inductive: the lower side acts on a message. The invariant that is, `AgreementInv`, adds
`ChoiceIsMade`, that a ChooseConnection still on its way on a connection is about one the higher
side has made a Peer of, and `SameNetworkOnly`, which in turn needs `Agreement`, because the lower
side chooses without looking at the network again. The lemmas follow the ways a step may touch the
higher side's wires: not at all, reading from their front (`ReadAnnouncesNothing`), a first Connect
or a cut (`ConnectAnnouncesNothing`), or an announcement that goes with the choice
(`EstablishKeepsAgreement`). `SidesAgree` and `OneNetwork` follow. `CallsTidyUp` (nothing leaks) needs only
`EndsInv`: what is in hand belongs to a running call (`HeldByCall`), the ends that have become
Peers' are those in `chosen` (`ChosenEnds`), and a connection is opened at both ends at once
(`OpenTogether`). Every step keeps it because each that ends a call closes what the call had.

`NoUnexpectedMessage` and `ChosenWasHeld` speak of the front of a wire; what makes them inductive is a
whole picture of the handshake on each connection. `HandshakesFit` says that `Fits` holds of every one:
it bounds, by where the two ends are and whether the connection has broken, what each has said that the
other has not read: at most a Connect, and behind it a Choose if the higher end is chosen. An end that
the Demux has taken in has said nothing, and the other waits for it or is closed, so that the higher side cannot have
been answered, let alone have chosen, before the lower side's call has the connection. Each
action moves one connection from one fitting picture to another (`ReadingHiFits`, `AnsweringLoFits`,
`ClosingFits`, ...) and leaves the others (`BystandersFit`). `NothingUnexpected` and `ChoiceIsOfTheHeld`
follow.

*Refinement.* `ExchangeSettles` says that Rendezvous implements Settlement. Initial states map by the
definitions; of the steps only three change `call` or `chosen`: a start, a side's end of its call, and
the two ways of making a Peer. The lower side's is where it matters: that the higher side has made the
connection its own before is `ChoiceIsMade` of `AgreementInv`, so the refinement rests on the invariant.

*ConnectionMap.* `NoOrphans` and `MapHoldsLivePeers` are inductive given the types. Everything that
removes goes through one lemma, `RemovalKeepsLinks`: entries leave and their tasks stop together,
which also covers the task that takes out an entry not its own. `InsertKeepsLinks` needs the guard
that the UID is free. `NothingOrphaned` and `TableIsLive` follow.

`ApplicationAgrees` speaks of the last event of each UID, so `AgreeInv` adds that there is one
(`LastExists`): then what the application is told is the new last word on its UID and on no other
(`TellSetsStatus`). A peer that comes is in the table (`ArrivalAgrees`), what is taken out has its
task to report it (`RemovalAgrees`), and a task that has reported leaves no entry (`FinishAgrees`).
`MessagesFromKnownPeers` uses all of this: who forwards is in the table (`NoOrphans`), so its last
status is a connecting event, and that is the event that precedes the message.

*Bootstrap.* A contact is chosen when its grant is read, some time after it was sent, and the acceptor
may have been edited since. So `EntitlementInv` adds that every grant on its way is to who is entitled,
and that the contact whose reachability is being checked is of the network, which was compared before.
`UndecidedInv`, that nothing is chosen while the future runs, makes `OnlyChosenRemains` inductive.

*Config.* `InSync` is inductive as it stands: whatever changes the file leaves an event behind, and
whatever takes the event reloads or ends the watcher. For `WhitelistEnforced`, `EnforcementInv` follows
a notification through the observer: it waits, or the observer has read the current list and is yet to
act on it, or everyone in the map or on the way into it is in the lists, but for those that slipped by.
The filter leaves those among the entering that it would have dropped in `slipped`; that nobody is both
entering and connected (`Apart`) makes sure that a peer that goes does not leave its like behind.

*Heartbeat.* `NeverSilent` rests on a sum: while the timer runs, what is left of it and the time since the
last message are a period at the most (`SendInv`), which is why a timer that `start_send` leaves alone
does no harm. Once it has run out, the time since then is bounded by the polls that may pass until it is
found (`Slack`), or the poll hangs, and then for good (`HangsForGood`). For `TimeoutIsJustified`,
`Since(q)` bounds how long ago q sent what is about to be heard of it: the link
holds messages in order (`Queue`), each sent within `MaxSilence` of the one before. `HeardInv` says that the
inactivity timer of the other has not run for longer than that and the delay by which q was made late,
unless a message waits to be read; what arrives amid a poll is read by the next, which is one poll more.
`StartInv` has the time before that: q has sent nothing, and the message that makes it is the first on
the link. A step of one side leaves the other's part of it alone (`OneSide`), a message in order of age
keeps it when it joins the link, and a tick counts on both sides. At the timeout the two add up to less
than `MaxWait`, so the link is dead or the other gone or hanging.

*Acceptor.* What makes `HeldIsKnown` and `PublishedIsServed` inductive is that a listener is once in one
of the two lists (`OnceInv`), and gets there only when its task has it (`TasksInv`): a listener that is
added is new, so that setting its addresses changes no one else's. The lemmas about lists
(`SwapRemoveRemoves`) say that `swap_remove` loses none but the one it is to remove and doubles none.

`ServedIsPublished` is false where two listeners share an address, as MC_Acceptor_shared shows; so
`NothingServedWithdrawn` has the hypothesis that they do not, `NoneShared`: no address that can be found
for one can be found for another. The ports of MC_Acceptor, which the system chooses, meet it. The
invariant adds that what has been found for a listener could be (`AddressesAreTheirs`): then what
`remove_listener` withdraws is of the one that goes alone. `Typing` needs that a slot is free while the
stream is polled (`SlotFree`), so that the Demux never handles more than `Slots` sockets.

*Socket.* One invariant, `SocketInv`, gives all four theorems. It orders the messages along their way:
what is handed over of a priority was sent before what is in its queue (`HandedInv`), that before what
is in the channel (`QueuesInv`), and nothing follows Shutdown there (`ChannelInv`). The order of age in a
queue is why a look at its front is enough (`FreshBacklog`), and the priority of a queue's messages why
nothing below `MSG_DROP_PRIORITY` goes with one that expires. In the refinement, `SendReady` delivers a
message without elders and `Expire` gives up a set closed under elders, both by the order; the stream
is closed with nothing waiting, because the shutdown was the last thing in the channel. Taking messages
out of the channel, and putting one back, are stutters.

*Pair.* Both theorems about the tables, for any number of connections, rest on one invariant, `Inv`:
connections are numbered as they come about, and each is made by connect or by bootstrapping at both
ends (`LinksOK`); and each side's books are in order (`Booked`): a task for each connection kept, an
entry only of a task that has not been told to stop, and no more connections and events than there
have been Peers and tasks that are over. The actions are sorted once into those that bring a Peer
(`Gains`, whichever of the four ways it comes), those of a task, those that take the entry out, and the
rest (`Rests`); from there on nothing depends on how a Peer came.

For `BothEndsStay`, `Calmly` says what there is as long as nobody has disconnected or gone and nothing
has broken: the entry's is the only task that is not over, its stream has ended only if the other end is
closed, and its own end is open. With the same connection in both tables neither task can then finish,
and every other Peer is refused: what is closed by the refusal, or by the end of a call or bootstrap, is
of a connection that the side has made no Peer of (`OnlyLeft`).

`TablesAreMaps` is the refinement: each action is a step of ConnectionMap at the side that acts
(`GainsFollows`, `FinishFollows`, ...) and a stutter at the other. The bounds `MaxConns` and `MaxEvents`
that ConnectionMap puts into its guards are met because of the books: `RoomForMore`. `TablesAreSound`
puts the two parts of the development together: by the refinement, the theorems of ConnectionMapProofs
hold of both tables, whatever the two services do to each other.

Only model-checked: everything about liveness (among it `Connects`, `ReachesAGrantingContact` and
`AgreeInTheEnd`), which TLAPS does not treat under fairness, and so all of ServiceDiscovery, whose
properties are of that kind. The two violations with a temporal or invariant property of their own
(MC_Bootstrap_received, MC_ConnectionMap_lost) are counterexamples; there is nothing to prove of them.

## Not modelled

- The exchanges of packets by which holes are punched (`net/nat/hole_punch.rs`) and gateways are asked
  (`tokio-igd`): inputs of Rendezvous and Mapping.
- The bootstrap cache: it reads a list of contacts from a file, once; part of `Contacts`.
- The event loop's queue of closures: closures run one after the other in the order in which they are
  sent, and none of the closures waits for another, so that running each as it comes loses nothing.
- A listener that always has a connection waiting keeps those behind it from being polled
  (`net/listener.rs:114`); arrivals are bounded in `MC_Acceptor`, so that this cannot happen there.
- `prepare_connection_info`, a snapshot of the addresses that may be out of date when it is used; the
  connections then fail, as any may in Rendezvous.
- Errors of the service discovery socket: `service_discovery/src/server.rs:109` and `:131` unwrap them, so
  that one panics the server's task and with it the event loop. The properties of ServiceDiscovery are
  about a server that lives.
- Serialisation, frame sizes, the errors' texts, and the helpers of `tokio-utils`, whose timeouts are
  actions where they are used.

`PROJECT.json` gives the reason for each component.

## Plan

1. Core (done): Rendezvous, Socket, ConnectionMap, Config, Heartbeat, Bootstrap, ServiceDiscovery.
2. Abstract specifications (done): MessageChannel for Socket, Settlement for Rendezvous.
3. Compositions (done): Acceptor, of Listeners, the Demux's slots and the listening switch; Pair, of two
   tables and what connects them.
4. Proofs (done): the safety properties of all the runs that pass, `ServedIsPublished` for listeners
   that share no address; the refinements of MessageChannel, Settlement and, by Pair, of ConnectionMap.
   Still of use: the types of ServiceDiscovery, that is, that a feeder never outlives its server.
5. The event loop's queue, with the blocking calls and the drop of a Service amid them.

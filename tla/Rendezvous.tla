----------------------------- MODULE Rendezvous -----------------------------
(***************************************************************************)
(* Two peers connect to each other at the same time                        *)
(* (src/crust/src/net/peer/connect/connect.rs) over several TCP connections *)
(* that either of them opens to the other's listener, where the Demux      *)
(* (demux.rs) takes them in, or that hole punching opens on both sides at  *)
(* once. They exchange Connect messages on every connection; the peer with *)
(* the higher UID chooses one and says so on it with ChooseConnection.     *)
(***************************************************************************)
EXTENDS Integers, Sequences

CONSTANTS
  Hi, Lo,    \* the two peers, by the order of their UIDs
  Conns,     \* the TCP connections that may come about
  Openers,   \* [Conns -> SUBSET {Hi, Lo}]: who connects; both when hole punched
  NameHashes, \* hashes of network names
  Admits,    \* [{Hi, Lo} -> BOOLEAN]: its node whitelist has the other's address
  MaxCalls   \* bound: times each side calls connect

Side == {Hi, Lo}

ASSUME RendezvousAssumption ==
  /\ Hi # Lo
  /\ Openers \in [Conns -> (SUBSET Side) \ {{}}]
  /\ Admits \in [Side -> BOOLEAN]
  /\ MaxCalls \in Nat

VARIABLES
  name_hash, \* the network each side is configured for
  call,    \* the latest connect future of each side
  calls,   \* how many times it has called connect
  chosen,  \* history: the connections a Peer was made from
  end,     \* each side's end of each connection
  wire,    \* messages a side has sent on a connection, not read yet
  cut,     \* connections the network has broken
  calm     \* history: nothing has failed so far

vars == <<name_hash, call, calls, chosen, end, wire, cut, calm>>

Other(s) == IF s = Hi THEN Lo ELSE Hi

\* idle: not open; demux: taken in, its first message awaited; routed: in the
\* connection handler's channel; waiting: Connect sent, the reply awaited;
\* candidate: Connect exchanged, the choice awaited (the lower side only).
EndStates == {"idle", "demux", "routed", "waiting", "candidate", "chosen", "closed"}
Held == {"routed", "waiting", "candidate"}

Init ==
  /\ name_hash \in [Side -> NameHashes]
  /\ call = [s \in Side |-> "idle"]
  /\ calls = [s \in Side |-> 0]
  /\ chosen = [s \in Side |-> {}]
  /\ end = [s \in Side |-> [c \in Conns |-> "idle"]]
  /\ wire = [s \in Side |-> [c \in Conns |-> <<>>]]
  /\ cut = {}
  /\ calm = TRUE

-----------------------------------------------------------------------------
\* With a bug: an end that nobody tidies up.
CloseHalf(s, c) == end' = [end EXCEPT ![s][c] = "half"]

Close(s, c) == end' = [end EXCEPT ![s][c] = "closed"]

\* With a bug: the sockets stay open.
ReleasedNone(s) == end[s]

\* The call's future is over: it drops the sockets it holds, except the chosen one.
Released(s) == [c \in Conns |-> IF end[s][c] \in Held THEN "closed" ELSE end[s][c]]

\* ... and resolves to the Peer made from c.
Choose(s, c) ==
  /\ chosen' = [chosen EXCEPT ![s] = @ \union {c}]
  /\ call' = [call EXCEPT ![s] = "connected"]
  /\ end' = [end EXCEPT ![s] = [Released(s) EXCEPT ![c] = "chosen"]]

\* What a side can read next on a connection.
Arrived(s, c) == wire[Other(s)][c]
Ended(s, c) == Arrived(s, c) = <<>> /\ (c \in cut \/ end[Other(s)][c] = "closed")

\* What both ends of a cut connection can still say to each other: nothing.
Sent(s, c, msgs) == IF c \in cut THEN wire[s][c] ELSE wire[s][c] \o msgs

\* With a bug: the name hash is not compared.
ValidAlways(s) == TRUE

\* validate_connect_request
Valid(s) == name_hash[Other(s)] = name_hash[s]

\* With a bug: each side takes the first connection it has.
ChoosesAlways(s) == TRUE

\* our_uid > their_uid
Chooses(s) == s = Hi

\* With a bug: the choice is sent ahead of the reply.
SaysChoiceFirst(s, reply) == IF Chooses(s) THEN <<"Choose">> \o reply ELSE reply

\* With a bug: the higher side keeps its choice to itself.
SaysNoChoice(s, reply) == reply

Says(s, reply) == IF Chooses(s) THEN Append(reply, "Choose") ELSE reply

\* A connection on which Connect has been exchanged joins all_connections. The
\* higher side takes the first there is and tells the other; the lower waits.
Establish(s, c, reply) ==
  /\ IF Chooses(s)
     THEN Choose(s, c)
     ELSE end' = [end EXCEPT ![s][c] = "candidate"] /\ UNCHANGED <<call, chosen>>
  /\ wire' = [t \in Side |->
                [wire[t] EXCEPT ![c] = IF t = s THEN Sent(s, c, Says(s, reply))
                                       ELSE IF reply = <<>> THEN Tail(@) ELSE @]]

-----------------------------------------------------------------------------
(* Demux::connect and the connections the call opens *)

\* The handler for the other's UID is registered, in place of an earlier call's,
\* and never taken away again.
Start(s) ==
  /\ call[s] # "running" /\ calls[s] < MaxCalls
  /\ call' = [call EXCEPT ![s] = "running"]
  /\ calls' = [calls EXCEPT ![s] = @ + 1]
  /\ UNCHANGED <<name_hash, chosen, end, wire, cut>>

\* TcpStream::connect to a direct address succeeds: the listener of the other
\* side takes the connection in. Only whitelisted addresses are tried.
OpenDirect(s, c) ==
  /\ call[s] = "running" /\ Openers[c] = {s} /\ Admits[s]
  /\ end[s][c] = "idle"
  /\ end' = [end EXCEPT ![s][c] = "waiting", ![Other(s)][c] = "demux"]
  /\ wire' = [wire EXCEPT ![s][c] = <<"Connect">>]
  /\ UNCHANGED <<name_hash, call, calls, chosen, cut>>

\* nat::tcp_hole_punch succeeds on both sides, which both take it for outgoing.
OpenPunched(c) ==
  /\ Openers[c] = Side
  /\ \A s \in Side : call[s] = "running" /\ Admits[s] /\ end[s][c] = "idle"
  /\ end' = [s \in Side |-> [end[s] EXCEPT ![c] = "waiting"]]
  /\ wire' = [s \in Side |-> [wire[s] EXCEPT ![c] = <<"Connect">>]]
  /\ UNCHANGED <<name_hash, call, calls, chosen, cut>>

\* The other's Connect comes back on a connection this side opened.
ReadReply(s, c) ==
  /\ end[s][c] = "waiting" /\ Arrived(s, c) # <<>>
  /\ IF Head(Arrived(s, c)) = "Connect" /\ Valid(s)
     THEN Establish(s, c, <<>>)
     ELSE Close(s, c) /\ UNCHANGED <<call, chosen, wire>>
  /\ UNCHANGED <<name_hash, calls, cut>>

\* The reply does not come within TIMEOUT_SEC.
ReplyTimeout(s, c) ==
  /\ end[s][c] = "waiting"
  /\ Close(s, c)
  /\ UNCHANGED <<name_hash, call, calls, chosen, wire, cut>>

-----------------------------------------------------------------------------
(* handle_incoming and the connections the call is given *)

\* With a bug: the Demux replies before it hands the connection over.
DemuxReadReplies(s, c) ==
  /\ end[s][c] = "demux" /\ Arrived(s, c) # <<>>
  /\ end' = [end EXCEPT ![s][c] = IF call[s] = "running" THEN "routed" ELSE "closed"]
  /\ wire' = [wire EXCEPT ![Other(s)][c] = Tail(@), ![s][c] = Sent(s, c, <<"Connect">>)]
  /\ UNCHANGED <<name_hash, call, calls, chosen, cut>>

\* With a bug: it goes to a handler whose call is over, as if it were not.
DemuxReadStale(s, c) ==
  /\ end[s][c] = "demux" /\ Arrived(s, c) # <<>>
  /\ end' = [end EXCEPT ![s][c] = "routed"]
  /\ wire' = [wire EXCEPT ![Other(s)][c] = Tail(@)]
  /\ UNCHANGED <<name_hash, call, calls, chosen, cut>>

\* A Connect goes to the handler of its UID. With no handler, or with the call
\* that reads from it over, the socket is dropped.
DemuxRead(s, c) ==
  /\ end[s][c] = "demux" /\ Arrived(s, c) # <<>>
  /\ end' = [end EXCEPT ![s][c] = IF call[s] = "running" THEN "routed" ELSE "closed"]
  /\ wire' = [wire EXCEPT ![Other(s)][c] = Tail(@)]
  /\ UNCHANGED <<name_hash, call, calls, chosen, cut>>

\* The first message does not come within ten seconds.
DemuxTimeout(s, c) ==
  /\ end[s][c] = "demux"
  /\ Close(s, c)
  /\ UNCHANGED <<name_hash, call, calls, chosen, wire, cut>>

\* direct_incoming: validated, and answered with a Connect of our own.
TakeRouted(s, c) ==
  /\ end[s][c] = "routed"
  /\ IF Valid(s)
     THEN Establish(s, c, <<"Connect">>)
     ELSE Close(s, c) /\ UNCHANGED <<call, chosen, wire>>
  /\ UNCHANGED <<name_hash, calls, cut>>

-----------------------------------------------------------------------------
\* The lower side reads ChooseConnection, or something it does not expect.
ReadChoice(c) ==
  /\ end[Lo][c] = "candidate" /\ Arrived(Lo, c) # <<>>
  /\ IF Head(Arrived(Lo, c)) = "Choose"
     THEN Choose(Lo, c)
     ELSE Close(Lo, c) /\ UNCHANGED <<call, chosen>>
  /\ wire' = [wire EXCEPT ![Hi][c] = Tail(@)]
  /\ UNCHANGED <<name_hash, calls, cut>>

\* A read that finds the connection closed or broken drops it.
ReadEnd(s, c) ==
  /\ end[s][c] \in {"demux", "waiting", "candidate"} /\ Ended(s, c)
  /\ Close(s, c)
  /\ UNCHANGED <<name_hash, call, calls, chosen, wire, cut>>

\* until(timeout): the call is over, with AllConnectionsFailed.
CallTimeout(s) ==
  /\ call[s] = "running"
  /\ call' = [call EXCEPT ![s] = "failed"]
  /\ end' = [end EXCEPT ![s] = Released(s)]
  /\ UNCHANGED <<name_hash, calls, chosen, wire, cut>>

\* The network breaks an open connection and loses what was on its way.
Cut(c) ==
  /\ c \notin cut /\ \E s \in Side : end[s][c] \in Held \union {"demux"}
  /\ cut' = cut \union {c}
  /\ wire' = [s \in Side |-> [wire[s] EXCEPT ![c] = <<>>]]
  /\ UNCHANGED <<name_hash, call, calls, chosen, end>>

Progress ==
  \/ \E c \in Conns : OpenPunched(c) \/ ReadChoice(c)
  \/ \E s \in Side, c \in Conns :
       \/ OpenDirect(s, c)
       \/ ReadReply(s, c)
       \/ DemuxRead(s, c)
       \/ TakeRouted(s, c)
       \/ ReadEnd(s, c)

Failure ==
  \/ \E s \in Side : CallTimeout(s)
  \/ \E s \in Side, c \in Conns : ReplyTimeout(s, c) \/ DemuxTimeout(s, c)
  \/ \E c \in Conns : Cut(c)

Next ==
  \/ ((\E s \in Side : Start(s)) \/ Progress) /\ UNCHANGED calm
  \/ Failure /\ calm' = FALSE

\* What the event loop of either side can do, it does in the end; nothing is
\* assumed of the application and of failures.
Spec == Init /\ [][Next]_vars /\ WF_vars(Progress /\ UNCHANGED calm)

-----------------------------------------------------------------------------
(* Properties *)

Messages == {"Connect", "Choose"}

\* The types of the two calls, the connections' ends and what is on the wires.
TypeOK ==
  /\ name_hash \in [Side -> NameHashes]
  /\ call \in [Side -> {"idle", "running", "connected", "failed"}]
  /\ calls \in [Side -> 0..MaxCalls]
  /\ chosen \in [Side -> SUBSET Conns]
  /\ end \in [Side -> [Conns -> EndStates]]
  /\ wire \in [Side -> [Conns -> Seq(Messages)]]
  /\ cut \in SUBSET Conns
  /\ calm \in BOOLEAN

\* A connection the lower side made a Peer of is one the higher side made a Peer of,
\* whatever was cut, timed out, retried or arrived in which order.
Agreement == chosen[Lo] \subseteq chosen[Hi]

\* ChooseConnection is only ever on the way where the lower side expects it: behind
\* the Connect it still has to read, or on an end that waits for the choice. So no
\* connection fails with UnexpectedMessage.
NoUnexpectedMessage ==
  \A c \in Conns :
    /\ end[Lo][c] = "candidate" /\ Arrived(Lo, c) # <<>> => Head(Arrived(Lo, c)) = "Choose"
    /\ \A s \in Side : end[s][c] \in {"waiting", "demux"} /\ Arrived(s, c) # <<>>
                         => Head(Arrived(s, c)) = "Connect"

\* The higher side commits only to a connection that the lower side's call has had
\* in its hands: never one that still lies in the lower side's Demux.
ChosenWasHeld ==
  \A c \in chosen[Hi] : end[Lo][c] \notin {"idle", "demux", "routed"}

\* Peers configured for different networks never connect.
SameNetworkOnly ==
  \A s \in Side : chosen[s] # {} => name_hash[Hi] = name_hash[Lo]

\* No connection outlives its call but the chosen one: with the call over, and the
\* Demux done with what it took in, every end is closed or was never opened, those
\* apart that a Peer was made of.
NothingLeaks ==
  \A s \in Side : call[s] # "running" =>
    \A c \in Conns : /\ end[s][c] \in {"idle", "demux", "closed", "chosen"}
                     /\ end[s][c] = "chosen" <=> c \in chosen[s]

\* Of one network, a connection opened once both calls run leads to a Peer on both
\* sides unless something fails: the handshake does not get stuck between the two ends.
Connects ==
  (/\ name_hash[Hi] = name_hash[Lo]
   /\ \A s \in Side : call[s] = "running" /\ Admits[s]
   /\ \E c \in Conns : \A s \in Side : end[s][c] = "idle")
    ~> (~calm \/ \A s \in Side : chosen[s] # {})

\* With all its connections, queues and timers, the exchange is a settlement: one Peer
\* a call at most, no connection made a Peer of twice, and the lower side only ever
\* follows the higher.
Settles == INSTANCE Settlement
ImplementsSettlement == Settles!Spec
=============================================================================

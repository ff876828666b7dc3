----------------------------- MODULE Bootstrap -----------------------------
(***************************************************************************)
(* A peer bootstraps to the network: it tries the contacts it knows, some   *)
(* at a time, and keeps the first that grants it                           *)
(* (net/peer/connect/bootstrap/bootstrap.rs and try_peer.rs). At the other  *)
(* end the contact's Demux routes the request to its BootstrapAcceptor      *)
(* (demux.rs, bootstrap_acceptor.rs), which grants or denies it.           *)
(***************************************************************************)
EXTENDS Integers, Sequences, FiniteSets

CONSTANTS
  Contacts,    \* cached, hard-coded and discovered, without the blacklisted
  Slots,       \* the contacts tried at a time (64)
  SameNetwork, \* the contacts configured for the same network name
  Answers,     \* the contacts that are there
  Silent,      \* those that cannot be reached and say nothing: the rest refuse at once
  Checks,      \* the contacts that require external reachability of nodes
  Reachable,   \* the contacts that could connect back to our listeners
  MaxAcceptors,\* bound: bootstrap acceptors a contact creates
  MaxEdits,    \* bound: edits of the contacts' config files
  None

Kinds == {"Node", "Client"}   \* CrustUser; a node asks for external reachability

ASSUME BootstrapAssumption ==
  /\ Slots \in Nat \ {0}
  /\ SameNetwork \subseteq Contacts /\ Answers \subseteq Contacts
  /\ Silent \subseteq Contacts \ Answers
  /\ Checks \subseteq Contacts /\ Reachable \subseteq Contacts
  /\ MaxAcceptors \in Nat /\ MaxEdits \in Nat
  /\ None \notin Contacts

VARIABLES
  client,    \* the bootstrap future
  kind,      \* whether we bootstrap as a node or a client
  chosen,    \* the contact we got a Peer from, or None
  try,       \* our attempt with each contact
  reply,     \* what the contact has answered and we have not read
  acc,       \* the contact's end of our connection
  handler,   \* the acceptor its Demux sends requests to: the latest, 0 for none
  owner,     \* the acceptor that was given our request
  dropped,   \* the acceptors whose BootstrapAcceptor has been dropped
  listed,    \* the kinds of user its configuration, as read last, lets us be
  file,      \* the same, in its config file
  edits,
  calm       \* history: nothing has gone wrong so far that Failure lists

moving == <<client, kind, chosen, try, reply, acc, handler, owner, dropped, listed,
            file, edits>>
vars == <<moving, calm>>
ours == <<client, kind, chosen, try>>
acceptors == <<handler, owner, dropped>>
config == <<listed, file, edits>>

TryStates == {"queued", "connecting", "requested", "granted", "over"}

\* With a bug: a contact that has failed still takes a slot.
EverTried == {c \in Contacts : try[c] # "queued"}

Active == {c \in Contacts : try[c] \in {"connecting", "requested"}}

\* demux: the request is to be read; routed: in the acceptor's channel; checking: the
\* connection back is awaited; accepted: the Peer is yielded to the application.
AccStates == {"none", "demux", "routed", "checking", "accepted", "closed"}

\* The contacts whose file decides anything: the others are not there, or deny us before
\* they look at theirs, which lets us be whatever we like.
HeedsFile == Answers \intersect SameNetwork

\* bootstrap() has been called.
Init ==
  /\ client = "running"
  /\ kind \in Kinds
  /\ chosen = None
  /\ try = [c \in Contacts |-> "queued"]
  /\ reply = [c \in Contacts |-> <<>>]
  /\ acc = [c \in Contacts |-> "none"]
  /\ handler = [c \in Contacts |-> 0]
  /\ owner = [c \in Contacts |-> 0]
  /\ dropped = [c \in Contacts |-> {}]
  /\ file \in [Contacts -> SUBSET Kinds]
  /\ \A c \in Contacts \ HeedsFile : file[c] = Kinds
  /\ listed = file
  /\ edits = 0
  /\ calm = TRUE

-----------------------------------------------------------------------------
(* The bootstrapping peer *)

\* buffer_unordered pulls the next contact while there is a slot.
TryPeer(c) ==
  /\ client = "running" /\ try[c] = "queued"
  /\ Cardinality(Active) < Slots
  /\ try' = [try EXCEPT ![c] = "connecting"]
  /\ UNCHANGED <<client, kind, chosen, reply, acc, acceptors, config>>

\* The TCP connection is made, and BootstrapRequest sent on it.
SendRequest(c) ==
  /\ try[c] = "connecting" /\ c \in Answers
  /\ try' = [try EXCEPT ![c] = "requested"]
  /\ acc' = [acc EXCEPT ![c] = "demux"]
  /\ UNCHANGED <<client, kind, chosen, reply, acceptors, config>>

\* With a bug: the other attempts go on.
KeepTrying(c) == [d \in Contacts |-> IF d = c THEN "granted" ELSE try[d]]

\* The future is over: whatever else was being tried is dropped.
Over(c) == [d \in Contacts |-> IF d = c THEN "granted" ELSE "over"]

\* BootstrapGranted makes the Peer; BootstrapDenied ends the attempt.
ReadReply(c) ==
  /\ try[c] = "requested" /\ reply[c] # <<>>
  /\ reply' = [reply EXCEPT ![c] = Tail(@)]
  /\ IF Head(reply[c]) = "Granted"
     THEN client' = "connected" /\ chosen' = c /\ try' = Over(c)
     ELSE try' = [try EXCEPT ![c] = "over"] /\ UNCHANGED <<client, chosen>>
  /\ UNCHANGED <<kind, acc, acceptors, config>>

\* The contact has closed the connection without an answer.
ReadEnd(c) ==
  /\ try[c] = "requested" /\ reply[c] = <<>> /\ acc[c] = "closed"
  /\ try' = [try EXCEPT ![c] = "over"]
  /\ UNCHANGED <<client, kind, chosen, reply, acc, acceptors, config>>

\* Refused, cut off, or nine seconds to shake hands are over. The ten seconds to connect
\* to a silent contact are never over in time: those of the future began before.
TryFails(c) ==
  /\ c \in Active \ Silent
  /\ try' = [try EXCEPT ![c] = "over"]
  /\ UNCHANGED <<client, kind, chosen, reply, acc, acceptors, config>>

\* until(timeout): AllPeersFailed after ten seconds; or the future is dropped.
GiveUp ==
  /\ client = "running"
  /\ client' = "failed"
  /\ try' = Over(None)
  /\ UNCHANGED <<kind, chosen, reply, acc, acceptors, config>>

\* Nothing but the end of the ten seconds is to be expected: what is not over waits for
\* the silent, or for a slot that they hold.
OnlySilenceIsLeft ==
  \A c \in Contacts :
    \/ try[c] = "over"
    \/ try[c] = "connecting" /\ c \in Silent
    \/ try[c] = "queued" /\ Cardinality(Active) >= Slots

-----------------------------------------------------------------------------
(* The contact *)

\* Demux::bootstrap_acceptor: the new acceptor takes the place of the old, whose
\* channel is thereby closed.
NewAcceptor(c) ==
  /\ handler[c] < MaxAcceptors
  /\ handler' = [handler EXCEPT ![c] = @ + 1]
  /\ UNCHANGED <<ours, reply, acc, owner, dropped, config>>

\* The contact stops accepting; the requests its acceptor was handling go with it.
DropAcceptor(c, g) ==
  /\ g <= handler[c] /\ g \notin dropped[c]
  /\ dropped' = [dropped EXCEPT ![c] = @ \union {g}]
  /\ acc' = [acc EXCEPT ![c] =
               IF owner[c] = g /\ @ \in {"routed", "checking"} THEN "closed" ELSE @]
  /\ UNCHANGED <<ours, reply, handler, owner, config>>

\* With a bug: a socket that nobody takes is kept for the acceptor to come.
DemuxKeeps(c) ==
  /\ acc[c] = "demux"
  /\ handler[c] # 0 /\ handler[c] \notin dropped[c]
  /\ acc' = [acc EXCEPT ![c] = "routed"]
  /\ owner' = [owner EXCEPT ![c] = handler[c]]
  /\ UNCHANGED <<ours, reply, handler, dropped, config>>

\* handle_incoming: the socket is dropped if there is no acceptor to take it.
DemuxRead(c) ==
  /\ acc[c] = "demux"
  /\ IF handler[c] # 0 /\ handler[c] \notin dropped[c]
     THEN /\ acc' = [acc EXCEPT ![c] = "routed"]
          /\ owner' = [owner EXCEPT ![c] = handler[c]]
     ELSE acc' = [acc EXCEPT ![c] = "closed"] /\ UNCHANGED owner
  /\ UNCHANGED <<ours, reply, handler, dropped, config>>

\* Somebody edits the contact's config file.
EditFile(c, kinds) ==
  /\ edits < MaxEdits /\ kinds # file[c]
  /\ file' = [file EXCEPT ![c] = kinds]
  /\ edits' = edits + 1
  /\ UNCHANGED <<ours, reply, acc, acceptors, listed>>

Answer(c, message, state) ==
  /\ reply' = [reply EXCEPT ![c] = Append(@, message)]
  /\ acc' = [acc EXCEPT ![c] = state]

\* BootstrapAcceptor::poll, when the handshake is done: the Peer is yielded, unless
\* the channel is closed and this was the last handshake, when the stream just ends.
StreamEnded(c) == handler[c] # owner[c]
Grant(c) == Answer(c, "Granted", IF StreamEnded(c) THEN "closed" ELSE "accepted")

\* With a bug: the name hash is not compared.
ForeignNever(c) == FALSE

Foreign(c) == c \notin SameNetwork

\* ConfigFile::reload; if the file cannot be read the settings stay as they are.
Reloaded(c) == {file[c], listed[c]}

\* bootstrap_accept: the config is reloaded, then the whitelist of the kind decides. A
\* node is let in after a connection back to it, unless the development setting disables
\* that.
Accept(c) ==
  /\ acc[c] = "routed"
  /\ IF Foreign(c)
     THEN Answer(c, "Denied", "closed") /\ UNCHANGED listed
     ELSE /\ \E kinds \in Reloaded(c) : listed' = [listed EXCEPT ![c] = kinds]
          /\ IF kind \notin listed'[c] THEN Answer(c, "Denied", "closed")
             ELSE IF kind = "Node" /\ c \in Checks
             THEN acc' = [acc EXCEPT ![c] = "checking"] /\ UNCHANGED reply
             ELSE Grant(c)
  /\ UNCHANGED <<ours, acceptors, file, edits>>

\* The request is dropped without an answer: we have asked ourselves, our address is not
\* to be had, or the answer cannot be sent.
AcceptFails(c) ==
  /\ acc[c] \in {"routed", "checking"}
  /\ acc' = [acc EXCEPT ![c] = "closed"]
  /\ UNCHANGED <<ours, reply, acceptors, config>>

\* The first connection back that succeeds; else they are refused or take too long.
ConnectBack(c) ==
  /\ acc[c] = "checking"
  /\ \/ c \in Reachable /\ Grant(c)
     \/ Answer(c, "Denied", "closed")
  /\ UNCHANGED <<ours, acceptors, config>>

\* The contact's Peer, or the Demux, finds that we have gone.
NoticeGone(c) ==
  /\ acc[c] \in {"demux", "accepted"} /\ try[c] = "over"
  /\ acc' = [acc EXCEPT ![c] = "closed"]
  /\ UNCHANGED <<ours, reply, acceptors, config>>

Handshake ==
  \E c \in Contacts :
    \/ TryPeer(c) \/ SendRequest(c) \/ ReadReply(c) \/ ReadEnd(c)
    \/ DemuxRead(c) \/ Accept(c) \/ ConnectBack(c) \/ NoticeGone(c)

\* What the two ends do of themselves, the refusal of a contact that is not there, and the
\* end of the ten seconds when all else has been done.
Progress ==
  \/ Handshake
  \/ \E c \in Contacts \ Answers : TryFails(c)
  \/ OnlySilenceIsLeft /\ GiveUp

\* The contacts that are there start to accept requests.
Operation == \E c \in Answers : handler[c] = 0 /\ NewAcceptor(c)

\* What may go wrong, or take too long, where there is an answer to be had: the ten
\* seconds are over before, or we are not interested any more.
Failure ==
  \/ GiveUp
  \/ \E c \in Answers :
       \/ TryFails(c) \/ AcceptFails(c)
       \/ handler[c] # 0 /\ NewAcceptor(c)
       \/ \E g \in 1..MaxAcceptors : DropAcceptor(c, g)
  \/ \E c \in HeedsFile, kinds \in SUBSET Kinds : EditFile(c, kinds)

Next ==
  \/ (Progress \/ Operation) /\ UNCHANGED calm
  \/ Failure /\ calm' = FALSE

\* The event loop polls what is ready, and the timer fires: the ends get on with what they
\* have to do.
Spec == Init /\ [][Next]_vars /\ WF_vars(Progress /\ UNCHANGED calm)

-----------------------------------------------------------------------------
(* Properties *)

\* The types of the two ends' state.
TypeOK ==
  /\ client \in {"running", "connected", "failed"}
  /\ kind \in Kinds
  /\ chosen \in Contacts \union {None}
  /\ try \in [Contacts -> TryStates]
  /\ reply \in [Contacts -> Seq({"Granted", "Denied"})]
  /\ acc \in [Contacts -> AccStates]
  /\ handler \in [Contacts -> 0..MaxAcceptors]
  /\ owner \in [Contacts -> 0..MaxAcceptors]
  /\ dropped \in [Contacts -> SUBSET (1..MaxAcceptors)]
  /\ listed \in [Contacts -> SUBSET Kinds]
  /\ file \in [Contacts -> SUBSET Kinds]
  /\ edits \in 0..MaxEdits
  /\ calm \in BOOLEAN

\* The contact we end up with is of our network and, if it requires that of nodes, has
\* connected back to us, whatever else was tried and answered meanwhile.
ContactIsEntitled ==
  chosen # None => /\ chosen \in SameNetwork
                   /\ kind = "Node" /\ chosen \in Checks => chosen \in Reachable

\* One Peer at most comes of it: with the future over, no other attempt is left open,
\* and the contact's grant that comes too late is not taken up.
OnlyChosenRemains ==
  client # "running" =>
    \A c \in Contacts : try[c] = IF c = chosen THEN "granted" ELSE "over"

\* Unless something goes wrong meanwhile, a contact that would grant us is reached, behind
\* any number of contacts that refuse, deny or drop us, as long as the silent ones leave a
\* slot to the others. They never give theirs back: when they hold all of them the ten
\* seconds pass and the bootstrap fails, however good the contacts behind them.
Grants(c) ==
  /\ c \in HeedsFile /\ kind \in file[c]
  /\ handler[c] # 0 /\ handler[c] \notin dropped[c]
  /\ kind = "Client" \/ c \notin Checks
ReachesAGrantingContact ==
  (/\ client = "running" /\ Cardinality(Silent) < Slots
   /\ \E c \in Contacts : Grants(c) /\ try[c] = "queued")
    ~> (client = "connected" \/ ~calm)

\* No attempt is left to its timeout by a contact that is there: answered, closed or
\* dropped with the rest, it gives its slot back, whether the contact accepts or not,
\* stops accepting while the request is in its hands, or reloads its settings.
RequestIsSettled ==
  []<>(\A c \in Contacts : try[c] # "requested")

\* The documentation of Service::bootstrap_acceptor: it "can be used to receive peers
\* who are bootstrapping to us". So one that keeps the acceptor receives the peer
\* that it has told it was granted.
GrantedIsReceived ==
  [][\A c \in Contacts :
       Len(reply'[c]) > Len(reply[c]) /\ reply'[c][1] = "Granted" => acc'[c] = "accepted"]_vars
=============================================================================

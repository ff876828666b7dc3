--------------------------- MODULE ConnectionMap ---------------------------
(***************************************************************************)
(* The compat layer's table of connected peers                             *)
(* (src/crust/src/compat/connection_map.rs) and the operations of          *)
(* compat/service.rs that fill and empty it. Each inserted peer has a task *)
(* of its own, spawned on the event loop, that forwards its messages until *)
(* the stream ends or the DropNotify kept in the table is dropped, and then *)
(* removes the peer's UID and tells the application LostPeer.              *)
(***************************************************************************)
EXTENDS Integers, Sequences

CONSTANTS
  Uids,
  None,
  MaxConns,   \* bound: peers handed to insert_peer and kept
  MaxEvents   \* bound: events delivered to the application

ASSUME ConnectionMapAssumption ==
  /\ None \notin Nat
  /\ MaxConns \in Nat
  /\ MaxEvents \in Nat

VARIABLES
  map,      \* [Uids -> a connection or None]
  conns,    \* the UIDs of the peers inserted so far
  task,     \* the state of each connection's task
  events,   \* what the application has been told
  running   \* the event loop has not been dropped

vars == <<map, conns, task, events, running>>

Conns == 1..Len(conns)

\* forwarding: the stream is open; ended: the stream has ended, the task is yet to
\* run; removed: the DropNotify is dropped, the task is yet to run; finished.
TaskStates == {"forwarding", "ended", "removed", "finished"}

Connecting == {"ConnectSuccess", "BootstrapConnect", "BootstrapAccept"}

Init ==
  /\ map = [u \in Uids |-> None]
  /\ conns = <<>>
  /\ task = <<>>
  /\ events = <<>>
  /\ running = TRUE

Tell(kind, u) == events' = Append(events, [kind |-> kind, uid |-> u])
Room == running /\ Len(events) < MaxEvents

\* With a bug: the tasks are not told.
RemovedQuietly(us) == task

\* Taking a set of UIDs out of the table drops their PeerWrappers.
Removed(us) ==
  [c \in Conns |-> IF \E u \in us : map[u] = c THEN "removed" ELSE task[c]]

\* With a bug: the entry stays in the table.
WithoutNone(us) == map

Without(us) == [u \in Uids |-> IF u \in us THEN None ELSE map[u]]

-----------------------------------------------------------------------------
\* insert_peer: a UID that is in the table already is refused, and the new peer
\* dropped.
InsertPeer(u) ==
  IF map[u] # None
  THEN UNCHANGED <<map, conns, task>>
  ELSE /\ Len(conns) < MaxConns
       /\ map' = [map EXCEPT ![u] = Len(conns) + 1]
       /\ conns' = Append(conns, u)
       /\ task' = Append(task, "forwarding")

\* connect and start_bootstrap succeed: they do not look at what insert_peer returns.
Connected(u, kind) ==
  /\ Room
  /\ kind \in {"ConnectSuccess", "BootstrapConnect"}
  /\ InsertPeer(u)
  /\ Tell(kind, u)
  /\ UNCHANGED running

\* A peer bootstraps off us: the application only hears of the one that is kept.
Accepted(u) ==
  /\ Room
  /\ InsertPeer(u)
  /\ IF map[u] = None THEN Tell("BootstrapAccept", u) ELSE UNCHANGED events
  /\ UNCHANGED running

\* Service::disconnect
Disconnect(u) ==
  /\ running /\ map[u] # None
  /\ map' = Without({u})
  /\ task' = Removed({u})
  /\ UNCHANGED <<conns, events, running>>

\* whitelist_filter: the table keeps the peers in the whitelist of their kind. Which
\* addresses those are is Config's business: any set of UIDs may be left.
WhitelistFilter(kept) ==
  /\ running
  /\ map' = Without(Uids \ kept)
  /\ task' = Removed(Uids \ kept)
  /\ UNCHANGED <<conns, events, running>>

\* With a bug: a message is read before the DropNotice is looked at.
ForwardsRemoved(c) == task[c] \in {"forwarding", "removed"}

Forwards(c) == task[c] = "forwarding"

\* The task forwards what the peer sends.
Forward(c) ==
  /\ Room
  /\ Forwards(c)
  /\ Tell("NewMessage", conns[c])
  /\ UNCHANGED <<map, conns, task, running>>

\* The remote peer is gone: its stream ends.
StreamEnds(c) ==
  /\ task[c] = "forwarding"
  /\ task' = [task EXCEPT ![c] = "ended"]
  /\ UNCHANGED <<map, conns, events, running>>

\* With a bug: the loss is reported only if the entry was still there.
FinishIfPresent(c) ==
  /\ Room
  /\ task[c] \in {"ended", "removed"}
  /\ map' = Without({conns[c]})
  /\ task' = [Removed({conns[c]}) EXCEPT ![c] = "finished"]
  /\ IF map[conns[c]] = c THEN Tell("LostPeer", conns[c]) ELSE UNCHANGED events
  /\ UNCHANGED <<conns, running>>

\* The task runs to its end: it removes its UID, whosever entry that now is, and
\* reports the peer lost.
Finish(c) ==
  /\ Room
  /\ task[c] \in {"ended", "removed"}
  /\ map' = Without({conns[c]})
  /\ task' = [Removed({conns[c]}) EXCEPT ![c] = "finished"]
  /\ Tell("LostPeer", conns[c])
  /\ UNCHANGED <<conns, running>>

\* The Service is dropped: the table is cleared and no task runs again.
Stop ==
  /\ running
  /\ running' = FALSE
  /\ map' = Without(Uids)
  /\ task' = Removed(Uids)
  /\ UNCHANGED <<conns, events>>

Next ==
  \/ \E u \in Uids :
       Accepted(u) \/ Disconnect(u) \/ \E kind \in Connecting : Connected(u, kind)
  \/ \E kept \in SUBSET Uids : WhitelistFilter(kept)
  \/ \E c \in Conns : Forward(c) \/ StreamEnds(c) \/ Finish(c)
  \/ Stop

Spec == Init /\ [][Next]_vars

-----------------------------------------------------------------------------
(* Properties *)

\* The types of the table, the connections, their tasks and the events.
TypeOK ==
  /\ map \in [Uids -> Conns \union {None}]
  /\ conns \in Seq(Uids)
  /\ task \in [Conns -> TaskStates]
  /\ events \in Seq([kind : Connecting \union {"NewMessage", "LostPeer"}, uid : Uids])
  /\ running \in BOOLEAN

\* A connection whose messages reach the application is the one in the table, so it
\* can be sent to and disconnected: no removal leaves a task behind.
NoOrphans == \A c \in Conns : task[c] = "forwarding" => map[conns[c]] = c

\* What is in the table is a connection to that UID whose DropNotify is still held.
MapHoldsLivePeers ==
  \A u \in Uids : map[u] # None => /\ conns[map[u]] = u
                                   /\ task[map[u]] \in {"forwarding", "ended"}

\* The last word on a peer's coming and going that the application has had.
StatusEvents(u) == {i \in DOMAIN events : events[i].uid = u /\ events[i].kind # "NewMessage"}
LastStatus(u) ==
  LET S == StatusEvents(u) IN
  IF S = {} THEN "LostPeer" ELSE events[CHOOSE i \in S : \A j \in S : j <= i].kind

LossPending(u) == \E c \in Conns : conns[c] = u /\ task[c] \in {"ended", "removed"}

\* The application and the table agree. A peer in the table is one the application
\* has been told of and not told to be lost; one it takes for connected is in the
\* table, or its LostPeer is on its way.
ApplicationAgrees ==
  \A u \in Uids :
    /\ map[u] # None => LastStatus(u) # "LostPeer"
    /\ running /\ LastStatus(u) # "LostPeer" => map[u] # None \/ LossPending(u)

\* Every message the application gets is from a peer it has been told of: no
\* NewMessage precedes the connecting event or follows the LostPeer.
MessagesFromKnownPeers ==
  \A i \in DOMAIN events : events[i].kind = "NewMessage" =>
    \E j \in 1..(i - 1) :
      /\ events[j].uid = events[i].uid /\ events[j].kind \in Connecting
      /\ \A k \in j..i : events[k].uid = events[i].uid => events[k].kind # "LostPeer"

\* The documentation of Event::LostPeer: it is "invoked when a peer disconnects or
\* can no longer be contacted", so a task's end takes no other peer that is neither
\* disconnected nor gone out of the table.
LostPeerIsLost ==
  [][\A c \in Conns : Len(events') > Len(events) /\ task[c] = "forwarding"
                        => task'[c] = "forwarding"]_vars
=============================================================================

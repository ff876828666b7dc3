----------------------------- MODULE Listeners -----------------------------
(***************************************************************************)
(* The set of listeners of an Acceptor (src/crust/src/net/listener.rs):    *)
(* Listeners adds a listener and publishes its addresses, the SocketIncoming *)
(* stream polls the listeners for connections, takes out those whose handle *)
(* has been dropped, and withdraws their addresses. Who polls the stream,   *)
(* and who adds and drops listeners, is for the modules that use this one.  *)
(*                                                                         *)
(* One poll of SocketIncoming is split at the turns of its loops, since     *)
(* handles are dropped and connections arrive while it runs.                *)
(***************************************************************************)
EXTENDS Integers, Sequences, Mapping

CONSTANTS
  PortOf,      \* the port that the first listener is bound to, the second, and so on
  Reports,     \* the addresses that may be reported of each
  MaxArrivals  \* bound: connections that arrive

ASSUME ListenersAssumption ==
  /\ Len(PortOf) \in Nat
  /\ DOMAIN Reports = DOMAIN PortOf
  /\ MaxArrivals \in Nat

\* Bound: as many listeners are started as have a port.
ListenerIds == DOMAIN PortOf

Addrs == UNION {SocketAddresses(PortOf[l], Reports[l]) : l \in ListenerIds}

VARIABLES
  open,          \* the Listeners are there, which hold a listeners_tx
  calls,         \* and so do these listener() calls under way
  addrs_of,      \* the addresses a listener was found to have
  held,          \* the listeners whose Listener handle, hence drop_tx, is alive
  listeners_rx,  \* listeners sent to SocketIncoming
  listeners,     \* SocketIncoming.listeners, in the order of the Vec
  polled,        \* listeners whose DropNotice has been polled: a drop wakes the task
  current,       \* Addresses.current
  pending,       \* connections to accept on each listener
  arrivals,      \* connections that have arrived in all
  phase,         \* where the poll of SocketIncoming is
  scan,          \* i of its second loop, counted from 1
  woken          \* the task that polls SocketIncoming has been notified

listenersVars == <<open, calls, addrs_of, held, listeners_rx, listeners, polled, current,
                   pending, arrivals, phase, scan, woken>>
poll == <<phase, scan>>
sockets == <<pending, arrivals>>

ListenersInit ==
  /\ open = TRUE
  /\ calls = {}
  /\ addrs_of = [l \in ListenerIds |-> {}]
  /\ held = {}
  /\ listeners_rx = <<>>
  /\ listeners = <<>>
  /\ polled = {}
  /\ current = {}
  /\ pending = [l \in ListenerIds |-> 0]
  /\ arrivals = 0
  /\ phase = "idle"
  /\ scan = 1
  /\ woken = TRUE

Elements(s) == {s[i] : i \in DOMAIN s}
Known == Elements(listeners_rx) \union Elements(listeners)

-----------------------------------------------------------------------------
(* Listeners, on the event loop as SocketIncoming is: never amid a poll *)

\* No sender of listeners is left.
Senderless == ~open /\ calls = {}

\* listener(): a socket is bound, and its mappings are asked for.
BeginListener(l) ==
  /\ open /\ phase = "idle"
  /\ calls' = calls \union {l}
  /\ UNCHANGED <<open, addrs_of, held, listeners_rx, listeners, polled, current, sockets, poll, woken>>

\* mapped_tcp_socket is ready when all mappings are or after three seconds, with
\* those that have come; the socket listens, and its addresses are published.
AddListener(l) ==
  /\ l \in calls /\ phase = "idle"
  /\ \E reports \in SUBSET Reports[l] :
       addrs_of' = [addrs_of EXCEPT ![l] = SocketAddresses(PortOf[l], reports)]
  /\ current' = current \union addrs_of'[l]
  /\ calls' = calls \ {l}
  /\ held' = held \union {l}
  /\ listeners_rx' = Append(listeners_rx, l)
  /\ woken' = TRUE
  /\ UNCHANGED <<open, listeners, polled, sockets, poll>>

\* Binding or listening fails, or the call is dropped.
AbandonListener(l) ==
  /\ l \in calls /\ phase = "idle"
  /\ calls' = calls \ {l}
  /\ woken' = (woken \/ (~open /\ calls = {l}))
  /\ UNCHANGED <<open, addrs_of, held, listeners_rx, listeners, polled, current, sockets, poll>>

\* The Listener handle is dropped.
DropHandle(l) ==
  /\ l \in held
  /\ held' = held \ {l}
  /\ woken' = (woken \/ l \in polled)
  /\ UNCHANGED <<open, calls, addrs_of, listeners_rx, listeners, polled, current, sockets, poll>>

\* The Acceptor that owns the Listeners is dropped.
DropListeners ==
  /\ open
  /\ open' = FALSE
  /\ woken' = (woken \/ calls = {})
  /\ UNCHANGED <<calls, addrs_of, held, listeners_rx, listeners, polled, current, sockets, poll>>

\* A connection arrives: the kernel takes it in, and wakes whoever has polled.
Arrive(l) ==
  /\ l \in Known /\ arrivals < MaxArrivals
  /\ pending' = [pending EXCEPT ![l] = @ + 1]
  /\ arrivals' = arrivals + 1
  /\ woken' = (woken \/ l \in polled)
  /\ UNCHANGED <<open, calls, addrs_of, held, listeners_rx, listeners, polled, current, poll>>

-----------------------------------------------------------------------------
(* SocketIncoming::poll *)

PollStart ==
  /\ phase = "idle" /\ woken
  /\ phase' = "take"
  /\ woken' = FALSE
  /\ UNCHANGED <<open, calls, addrs_of, held, listeners_rx, listeners, polled, current, sockets, scan>>

TakeListener ==
  /\ phase = "take" /\ listeners_rx # <<>>
  /\ listeners' = Append(listeners, Head(listeners_rx))
  /\ listeners_rx' = Tail(listeners_rx)
  /\ UNCHANGED <<open, calls, addrs_of, held, polled, current, sockets, poll, woken>>

\* No listener can come any more: the stream ends, and with it the task of the Demux,
\* whatever listeners there still are.
StreamEnd ==
  /\ phase = "take" /\ listeners_rx = <<>> /\ Senderless
  /\ phase' = "ended"
  /\ UNCHANGED <<open, calls, addrs_of, held, listeners_rx, listeners, polled, current, sockets,
                 scan, woken>>

TakenAll ==
  /\ phase = "take" /\ listeners_rx = <<>> /\ ~Senderless
  /\ phase' = "scan"
  /\ scan' = 1
  /\ UNCHANGED <<open, calls, addrs_of, held, listeners_rx, listeners, polled, current, sockets, woken>>

Scanning == phase = "scan" /\ scan <= Len(listeners)

Waiting(l) == pending[l] > 0

\* The handle is alive and a connection waits: the poll ends with its socket, and
\* the Demux polls again for the next.
ScanReady ==
  /\ Scanning /\ listeners[scan] \in held /\ Waiting(listeners[scan])
  /\ pending' = [pending EXCEPT ![listeners[scan]] = @ - 1]
  /\ polled' = polled \union {listeners[scan]}
  /\ phase' = "idle"
  /\ woken' = TRUE
  /\ UNCHANGED <<open, calls, addrs_of, held, listeners_rx, listeners, current, arrivals, scan>>

ScanNotReady ==
  /\ Scanning /\ listeners[scan] \in held /\ ~Waiting(listeners[scan])
  /\ polled' = polled \union {listeners[scan]}
  /\ scan' = scan + 1
  /\ UNCHANGED <<open, calls, addrs_of, held, listeners_rx, listeners, current, sockets, phase, woken>>

\* With a bug: the last element goes, whichever was to be removed.
Truncate(s, i) == SubSeq(s, 1, Len(s) - 1)

\* Vec::swap_remove: the last element takes the place of the one removed.
SwapRemove(s, i) ==
  [j \in 1..(Len(s) - 1) |-> IF j = i THEN s[Len(s)] ELSE s[j]]

\* With a bug: the addresses stay published.
WithdrawnNone(l) == current

\* With a bug: the condition of retain is inverted.
WithdrawnOthers(l) == current \intersect addrs_of[l]

Withdrawn(l) == current \ addrs_of[l]

\* The handle is gone: the listener is removed, which closes its socket and what
\* waits there, and its addresses are withdrawn.
ScanDropped ==
  /\ Scanning /\ listeners[scan] \notin held
  /\ listeners' = SwapRemove(listeners, scan)
  /\ current' = Withdrawn(listeners[scan])
  /\ polled' = polled \ {listeners[scan]}
  /\ pending' = [pending EXCEPT ![listeners[scan]] = 0]
  /\ UNCHANGED <<open, calls, addrs_of, held, listeners_rx, arrivals, poll, woken>>

ScanEnd ==
  /\ phase = "scan" /\ scan > Len(listeners)
  /\ phase' = "idle"
  /\ UNCHANGED <<open, calls, addrs_of, held, listeners_rx, listeners, polled, current, sockets, scan, woken>>

-----------------------------------------------------------------------------
(* Properties *)

\* The types of the listeners' and the poll's state.
ListenersTypeOK ==
  /\ open \in BOOLEAN
  /\ calls \in SUBSET ListenerIds
  /\ addrs_of \in [ListenerIds -> SUBSET Addrs]
  /\ held \in SUBSET ListenerIds
  /\ listeners_rx \in Seq(ListenerIds)
  /\ listeners \in Seq(ListenerIds)
  /\ polled \in SUBSET ListenerIds
  /\ current \in SUBSET Addrs
  /\ pending \in [ListenerIds -> Nat]
  /\ arrivals \in 0..MaxArrivals
  /\ phase \in {"idle", "take", "scan", "ended"}
  /\ scan \in Nat \ {0}
  /\ woken \in BOOLEAN

\* No address is published without a listener behind it that SocketIncoming polls,
\* or is about to: however removals are interleaved with additions.
PublishedIsServed == \A a \in current : \E l \in Known : a \in addrs_of[l]

\* A listener whose handle is alive has its socket polled, once and only once: swap_remove
\* loses none and the scan skips none.
HeldIsKnown ==
  /\ held \subseteq Known
  /\ \A i, j \in DOMAIN listeners : listeners[i] = listeners[j] => i = j

\* "The set of addresses that we're currently contactable on": it has the addresses
\* of every listener whose handle is alive.
ServedIsPublished == \A l \in held : addrs_of[l] \subseteq current
=============================================================================

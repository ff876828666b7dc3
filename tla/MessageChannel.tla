--------------------------- MODULE MessageChannel ---------------------------
(***************************************************************************)
(* What a Socket promises whoever sends through it (socket.rs, the comments *)
(* on MSG_DROP_PRIORITY, Socket and start_send), without queues, polls or a *)
(* clock: an accepted message waits until it is delivered; those of one     *)
(* priority are delivered in the order in which they were accepted; only    *)
(* droppable ones are ever given up, the oldest of a priority first; and    *)
(* the stream is closed only when nothing waits.                            *)
(***************************************************************************)
EXTENDS Integers, Sequences

CONSTANTS
  Priorities,
  MSG_DROP_PRIORITY  \* messages of lower-numbered priorities are never given up

VARIABLES
  open,       \* the sender still holds the socket
  accepted,   \* the priority of each message accepted
  waiting,    \* the numbers of those neither delivered nor given up
  delivered,  \* the numbers of those delivered, in order
  stream      \* "up", "closed" in order, or "broken"

vars == <<open, accepted, waiting, delivered, stream>>

Init ==
  /\ open = TRUE
  /\ accepted = <<>>
  /\ waiting = {}
  /\ delivered = <<>>
  /\ stream = "up"

\* A broken stream swallows what is sent without a word.
Accept(p) ==
  /\ open
  /\ accepted' = Append(accepted, p)
  /\ waiting' = IF stream = "up" THEN waiting \union {Len(accepted) + 1} ELSE waiting
  /\ UNCHANGED <<open, delivered, stream>>

Elders(m) == {n \in waiting : n < m /\ accepted[n] = accepted[m]}

Deliver(m) ==
  /\ stream = "up"
  /\ Elders(m) = {}
  /\ delivered' = Append(delivered, m)
  /\ waiting' = waiting \ {m}
  /\ UNCHANGED <<open, accepted, stream>>

GiveUp(stale) ==
  /\ stream = "up"
  /\ \A m \in stale : accepted[m] >= MSG_DROP_PRIORITY /\ Elders(m) \subseteq stale
  /\ waiting' = waiting \ stale
  /\ UNCHANGED <<open, accepted, delivered, stream>>

HangUp ==
  /\ open
  /\ open' = FALSE
  /\ UNCHANGED <<accepted, waiting, delivered, stream>>

Close ==
  /\ stream = "up" /\ ~open /\ waiting = {}
  /\ stream' = "closed"
  /\ UNCHANGED <<open, accepted, waiting, delivered>>

Break ==
  /\ stream = "up"
  /\ stream' = "broken"
  /\ waiting' = {}
  /\ UNCHANGED <<open, accepted, delivered>>

Next ==
  \/ \E p \in Priorities : Accept(p)
  \/ \E m \in waiting : Deliver(m)
  \/ \E stale \in SUBSET waiting : GiveUp(stale)
  \/ HangUp \/ Close \/ Break

Spec == Init /\ [][Next]_vars
=============================================================================

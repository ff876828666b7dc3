----------------------------- MODULE Heartbeat -----------------------------
(***************************************************************************)
(* Two Peers at the ends of one connection (src/crust/src/net/peer/peer.rs) *)
(* keep it alive with heartbeats and give it up when nothing comes.        *)
(*                                                                         *)
(* Time is counted in ticks, and every time is kept relative to now: the    *)
(* timers as what is left of them, last_send_time and the reading of the    *)
(* clock at the start of a poll as the time since then.                     *)
(***************************************************************************)
EXTENDS Integers, Sequences

CONSTANTS
  A,          \* the end that settled on the connection: its Peer is there first
  B,
  HEARTBEAT_PERIOD,
  INACTIVITY_TIMEOUT,
  MaxDelay,   \* how long a link that works takes to bring a message
  MaxPoll,    \* how long a poll takes, unless it hangs
  MaxData     \* bound: data messages are sent while fewer are in flight

Peer == {A, B}
Other(p) == IF p = A THEN B ELSE A

\* The longest a Peer goes without sending, and the longest the other waits for it: it
\* starts a delay late, and what comes amid a poll is read by the next.
MaxSilence == HEARTBEAT_PERIOD + 2 * MaxPoll
MaxWait == MaxSilence + 2 * MaxDelay + MaxPoll

ASSUME HeartbeatAssumption ==
  /\ A # B
  /\ HEARTBEAT_PERIOD \in Nat \ {0}
  /\ MaxDelay \in Nat /\ MaxPoll \in Nat
  /\ INACTIVITY_TIMEOUT \in Nat /\ MaxWait < INACTIVITY_TIMEOUT
  /\ MaxData \in Nat

VARIABLES
  status,      \* starting (before the Peer is made), alive, closed by its owner,
               \* lost or timed_out
  phase,       \* where its poll is: waiting for the next, in the heartbeat loop, or
               \* past the socket
  since_now,   \* the time since the poll has read now, before the loop; 0 out of polls
  since_send,  \* the time since last_send_time
  send_timer,  \* what is left of send_heartbeat_timeout
  recv_timer,  \* what is left of recv_heartbeat_timeout
  in_flight,   \* for each message a peer has sent and the link holds, its age
  arrived,     \* the peer's socket has a message to read
  cut          \* the peers whose link to the other has silently died

clocks == <<since_now, since_send, send_timer, recv_timer>>
vars == <<status, phase, clocks, in_flight, arrived, cut>>

\* from_handshaken_socket: A's Peer is made when the message that settles on the connection
\* (Choose, Granted) is sent, B's when that message, the first on the link, is read.
Init ==
  /\ status = [p \in Peer |-> IF p = A THEN "alive" ELSE "starting"]
  /\ phase = [p \in Peer |-> "waiting"]
  /\ since_now = [p \in Peer |-> 0]
  /\ since_send = [p \in Peer |-> 0]
  /\ send_timer = [p \in Peer |-> HEARTBEAT_PERIOD]
  /\ recv_timer = [p \in Peer |-> INACTIVITY_TIMEOUT]
  /\ in_flight = [p \in Peer |-> IF p = A THEN <<0>> ELSE <<>>]
  /\ arrived = [p \in Peer |-> FALSE]
  /\ cut = {}

Alive(p) == status[p] = "alive"
Gone(p) == status[p] \in {"closed", "lost", "timed_out"}

\* A message is given to the socket; a dead link does not bring it anywhere.
Transmit(p) == IF p \in cut THEN in_flight[p] ELSE Append(in_flight[p], 0)

\* With a bug: what is sent counts as activity of the other.
SendDataPutsOff(p) ==
  /\ Alive(p) /\ phase[p] = "waiting" /\ Len(in_flight[p]) < MaxData
  /\ in_flight' = [in_flight EXCEPT ![p] = Transmit(p)]
  /\ since_send' = [since_send EXCEPT ![p] = 0]
  /\ recv_timer' = [recv_timer EXCEPT ![p] = INACTIVITY_TIMEOUT]
  /\ UNCHANGED <<status, phase, since_now, send_timer, arrived, cut>>

\* Sink::start_send
SendData(p) ==
  /\ Alive(p) /\ phase[p] = "waiting" /\ Len(in_flight[p]) < MaxData
  /\ in_flight' = [in_flight EXCEPT ![p] = Transmit(p)]
  /\ since_send' = [since_send EXCEPT ![p] = 0]
  /\ UNCHANGED <<status, phase, since_now, send_timer, recv_timer, arrived, cut>>

\* The other's end of the stream is to be read: it was dropped, after all it sent.
AtEnd(p) ==
  /\ Gone(Other(p)) /\ Other(p) \notin cut
  /\ in_flight[Other(p)] = <<>> /\ ~arrived[p]

\* The task is woken by either timer and by the socket.
Due(p) ==
  /\ Alive(p) /\ phase[p] = "waiting"
  /\ send_timer[p] = 0 \/ recv_timer[p] = 0 \/ arrived[p] \/ AtEnd(p)

\* Stream::poll reads now, once. Time may pass in each phase of the poll.
StartPoll(p) ==
  /\ Due(p)
  /\ phase' = [phase EXCEPT ![p] = "heartbeat"]
  /\ UNCHANGED <<status, clocks, in_flight, arrived, cut>>

\* now - last_send_time, with now as read at the start of the poll.
Silent(p) == since_send[p] - since_now[p] >= HEARTBEAT_PERIOD

\* With a bug: the timer is set anew from now.
PeriodFromNow(p) == HEARTBEAT_PERIOD

\* What is left until last_send_time + heartbeat_period, which may be past.
UntilHeartbeat(p) ==
  IF since_send[p] >= HEARTBEAT_PERIOD THEN 0 ELSE HEARTBEAT_PERIOD - since_send[p]

\* A turn of the loop, as the timer, which goes by the clock and not by now, has run out.
\* The timer is set anew from the old last_send_time, and a heartbeat sent if now is a
\* period after that: of the two times in between, the clock's and now's, the first may be
\* past and the other not yet. Then no turn changes anything.
HeartbeatTurn(p) ==
  /\ phase[p] = "heartbeat" /\ send_timer[p] = 0
  /\ send_timer' = [send_timer EXCEPT ![p] = UntilHeartbeat(p)]
  /\ since_send' = [since_send EXCEPT ![p] = IF Silent(p) THEN since_now[p] ELSE @]
  /\ in_flight' = [in_flight EXCEPT ![p] = IF Silent(p) THEN Transmit(p) ELSE @]
  /\ UNCHANGED <<status, phase, since_now, recv_timer, arrived, cut>>

\* The loop goes round for ever, and the event loop of the Peer with it.
Hangs(p) ==
  /\ Alive(p) /\ phase[p] = "heartbeat" /\ send_timer[p] = 0
  /\ since_send[p] >= HEARTBEAT_PERIOD /\ ~Silent(p)

\* With a bug: a message does not put off the inactivity timeout.
DeadlineKept(p) == recv_timer[p]

UntilInactive(p) == IF arrived[p] THEN INACTIVITY_TIMEOUT ELSE recv_timer[p]

\* The loop is left, and what the socket has is read: every message puts off the
\* inactivity timeout, and data is returned, upon which the owner polls again.
ReadSocket(p) ==
  /\ phase[p] = "heartbeat" /\ send_timer[p] # 0
  /\ recv_timer' = [recv_timer EXCEPT ![p] = UntilInactive(p)]
  /\ arrived' = [arrived EXCEPT ![p] = FALSE]
  /\ \/ /\ AtEnd(p)
        /\ status' = [status EXCEPT ![p] = "lost"]
        /\ phase' = [phase EXCEPT ![p] = "waiting"]
        /\ since_now' = [since_now EXCEPT ![p] = 0]
     \/ /\ ~AtEnd(p)
        /\ phase' = [phase EXCEPT ![p] = "socket"]
        /\ UNCHANGED <<status, since_now>>
     \/ /\ arrived[p]
        /\ since_now' = [since_now EXCEPT ![p] = 0]
        /\ UNCHANGED <<status, phase>>
  /\ UNCHANGED <<since_send, send_timer, in_flight, cut>>

\* Last of all the inactivity timeout is looked at.
CheckInactivity(p) ==
  /\ phase[p] = "socket"
  /\ phase' = [phase EXCEPT ![p] = "waiting"]
  /\ since_now' = [since_now EXCEPT ![p] = 0]
  /\ status' = [status EXCEPT ![p] = IF recv_timer[p] = 0 THEN "timed_out" ELSE @]
  /\ UNCHANGED <<since_send, send_timer, recv_timer, in_flight, arrived, cut>>

Poll(p) == StartPoll(p) \/ HeartbeatTurn(p) \/ ReadSocket(p) \/ CheckInactivity(p)

\* The owner drops the Peer, or the attempt that was to become one is given up.
Close(p) ==
  /\ status[p] \in {"starting", "alive"} /\ phase[p] = "waiting"
  /\ status' = [status EXCEPT ![p] = "closed"]
  /\ UNCHANGED <<phase, clocks, in_flight, arrived, cut>>

-----------------------------------------------------------------------------
\* The first message makes B's Peer, the others are for it to read.
Deliver(p) ==
  /\ in_flight[p] # <<>>
  /\ in_flight' = [in_flight EXCEPT ![p] = Tail(@)]
  /\ IF status[Other(p)] = "starting"
     THEN status' = [status EXCEPT ![Other(p)] = "alive"] /\ UNCHANGED arrived
     ELSE arrived' = [arrived EXCEPT ![Other(p)] = TRUE] /\ UNCHANGED status
  /\ UNCHANGED <<phase, clocks, cut>>

\* The link from p dies, with what it held, and no one is told.
Cut(p) ==
  /\ p \notin cut
  /\ cut' = cut \union {p}
  /\ in_flight' = [in_flight EXCEPT ![p] = <<>>]
  /\ UNCHANGED <<status, phase, clocks, arrived>>

Countdown(t) == IF t = 0 THEN 0 ELSE t - 1

\* Time counts for a Peer that is there and, as a bound, does not hang.
Counts(p) == Alive(p) /\ ~Hangs(p)
InPoll(p) == phase[p] # "waiting"

\* A tick passes when no task waits to be polled, no poll takes too long and no message is
\* overdue.
Tick ==
  /\ \E p \in Peer : Counts(p)
  /\ \A p \in Peer :
       /\ ~Due(p)
       /\ Counts(p) /\ InPoll(p) => since_now[p] < MaxPoll
       /\ in_flight[p] # <<>> => Head(in_flight[p]) < MaxDelay
  /\ since_now' =
       [p \in Peer |-> IF Counts(p) /\ InPoll(p) THEN since_now[p] + 1 ELSE since_now[p]]
  /\ since_send' = [p \in Peer |-> IF Counts(p) THEN since_send[p] + 1 ELSE since_send[p]]
  /\ send_timer' = [p \in Peer |-> IF Counts(p) THEN Countdown(send_timer[p]) ELSE send_timer[p]]
  /\ recv_timer' = [p \in Peer |-> IF Counts(p) THEN Countdown(recv_timer[p]) ELSE recv_timer[p]]
  /\ in_flight' = [p \in Peer |-> [i \in DOMAIN in_flight[p] |-> in_flight[p][i] + 1]]
  /\ UNCHANGED <<status, phase, arrived, cut>>

Next ==
  \/ \E p \in Peer : SendData(p) \/ Poll(p) \/ Close(p) \/ Deliver(p) \/ Cut(p)
  \/ Tick

Spec == Init /\ [][Next]_vars

\* Woken tasks are polled and the link brings what it holds; time passes however
\* many messages are sent and read within a tick, hence strong fairness.
Fairness == SF_vars(Tick) /\ \A p \in Peer : WF_vars(Poll(p)) /\ WF_vars(Deliver(p))
FairSpec == Spec /\ Fairness

-----------------------------------------------------------------------------
(* Properties *)

\* The types of the peers, their timers and the link.
TypeOK ==
  /\ status \in [Peer -> {"starting", "alive", "closed", "lost", "timed_out"}]
  /\ phase \in [Peer -> {"waiting", "heartbeat", "socket"}]
  /\ since_now \in [Peer -> 0..MaxPoll]
  /\ since_send \in [Peer -> Nat]
  /\ send_timer \in [Peer -> 0..HEARTBEAT_PERIOD]
  /\ recv_timer \in [Peer -> 0..INACTIVITY_TIMEOUT]
  /\ in_flight \in [Peer -> Seq(0..MaxDelay)]
  /\ arrived \in [Peer -> BOOLEAN]
  /\ cut \in SUBSET Peer

\* Unless its poll hangs, a peer is never silent for longer than the period and the two
\* polls between which the timer may run out, however the data it sends falls between the
\* settings of the timer, which start_send does not touch.
NeverSilent == \A p \in Peer : Alive(p) => since_send[p] <= MaxSilence \/ Hangs(p)

\* No false alarm, although the other starts a delay later and polls take time: a Peer is
\* given up as inactive only if the link to it died, or the other was never made because
\* the first message did not get there, or it is gone, or hangs in its poll.
TimeoutIsJustified ==
  \A p \in Peer :
    status[p] = "timed_out" =>
      \/ Other(p) \in cut \/ Gone(Other(p)) \/ Hangs(Other(p))
      \/ status[Other(p)] = "starting" /\ p \in cut

\* A Peer whose link has died is noticed in the end, although TCP says nothing, unless the
\* poll of the one who would notice hangs.
DeadLinkIsNoticed == \A p \in Peer : (p \in cut) ~> (~Alive(Other(p)) \/ Hangs(Other(p)))
=============================================================================

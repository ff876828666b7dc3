-------------------------- MODULE HeartbeatProofs --------------------------
(* Proofs about Heartbeat, for any period, timeout, delay and length of     *)
(* polls that keep to HeartbeatAssumption.                                 *)
EXTENDS Heartbeat, SequenceTheorems, TLAPS

LEMMA OtherIsPeer == \A p \in Peer : Other(p) \in Peer /\ Other(p) # p /\ Other(Other(p)) = p
BY HeartbeatAssumption DEF Peer, Other

-----------------------------------------------------------------------------
(* The heartbeat timer *)

Timers ==
  /\ phase \in [Peer -> {"waiting", "heartbeat", "socket"}]
  /\ since_now \in [Peer -> 0..MaxPoll]
  /\ since_send \in [Peer -> Nat]
  /\ send_timer \in [Peer -> 0..HEARTBEAT_PERIOD]
  /\ status \in [Peer -> {"starting", "alive", "closed", "lost", "timed_out"}]

\* How long the timer may have run out unnoticed: since now was read, if the timer was found
\* running after that, and for the poll before as well, if not.
Slack(p) ==
  IF phase[p] = "waiting" THEN MaxPoll
  ELSE IF phase[p] = "heartbeat" THEN MaxPoll + since_now[p] ELSE since_now[p]

\* While the timer runs, the time since the Peer has sent and what is left of the timer make
\* up a period at the most: data only makes the one smaller, and the timer when it is set anew
\* gets what is missing. When it has run out, the slack is added, or the poll hangs.
SendInv ==
  /\ Timers
  /\ \A p \in Peer : InPoll(p) => Alive(p)
  /\ \A p \in Peer : send_timer[p] # 0 => since_send[p] + send_timer[p] <= HEARTBEAT_PERIOD
  /\ \A p \in Peer : Hangs(p) \/ since_send[p] <= HEARTBEAT_PERIOD + Slack(p)

LEMMA ConstantsAreNat ==
  /\ HEARTBEAT_PERIOD \in Nat \ {0} /\ MaxPoll \in Nat /\ MaxDelay \in Nat /\ INACTIVITY_TIMEOUT \in Nat
  /\ MaxSilence \in Nat /\ MaxSilence = HEARTBEAT_PERIOD + 2 * MaxPoll
  /\ MaxSilence + 2 * MaxDelay + MaxPoll < INACTIVITY_TIMEOUT
BY HeartbeatAssumption DEF MaxSilence, MaxWait

\* What a step of the poll of p or of its owner leaves of another Peer.
Untouched(q) ==
  /\ status'[q] = status[q] /\ phase'[q] = phase[q] /\ since_now'[q] = since_now[q]
  /\ since_send'[q] = since_send[q] /\ send_timer'[q] = send_timer[q]

\* SendInv, of one Peer.
SendOk(p) ==
  /\ InPoll(p) => Alive(p)
  /\ send_timer[p] # 0 => since_send[p] + send_timer[p] <= HEARTBEAT_PERIOD
  /\ Hangs(p) \/ since_send[p] <= HEARTBEAT_PERIOD + Slack(p)

LEMMA UntouchedIsOk ==
  ASSUME NEW q \in Peer, Untouched(q)
  PROVE  /\ Hangs(q)' <=> Hangs(q)
         /\ Alive(q)' <=> Alive(q)
         /\ SendOk(q) => SendOk(q)'
BY DEF Untouched, SendOk, Hangs, Silent, InPoll, Alive, Slack

\* The values a Peer's variables have.
LEMMA TimersOf ==
  ASSUME Timers, NEW p \in Peer
  PROVE  /\ phase[p] \in {"waiting", "heartbeat", "socket"}
         /\ since_now[p] \in Nat /\ since_now[p] <= MaxPoll
         /\ since_send[p] \in Nat
         /\ send_timer[p] \in Nat /\ send_timer[p] <= HEARTBEAT_PERIOD
         /\ status[p] \in {"starting", "alive", "closed", "lost", "timed_out"}
BY ConstantsAreNat DEF Timers

\* A poll that hangs goes on hanging.
LEMMA HangsForGood ==
  ASSUME Timers, NEW q \in Peer, Hangs(q), [Next]_vars
  PROVE  Hangs(q)'
<1> USE DEF Hangs, Silent, Alive
<1>1. /\ phase[q] = "heartbeat" /\ send_timer[q] = 0 /\ status[q] = "alive"
      /\ since_send[q] >= HEARTBEAT_PERIOD /\ since_send[q] - since_now[q] < HEARTBEAT_PERIOD
  BY TimersOf, ConstantsAreNat
<1>2. ASSUME NEW p \in Peer, SendData(p) PROVE Hangs(q)'
  BY <1>1, <1>2 DEF SendData, Timers
<1>3. ASSUME NEW p \in Peer, StartPoll(p) PROVE Hangs(q)'
  BY <1>1, <1>3 DEF StartPoll, Due, Timers, clocks
<1>4. ASSUME NEW p \in Peer, HeartbeatTurn(p) PROVE Hangs(q)'
  <2>1. CASE p = q
    <3>1. /\ UNCHANGED <<status, phase, since_now>>
          /\ send_timer' = [send_timer EXCEPT ![q] = 0] /\ since_send' = since_send
      BY <1>1, <1>4, <2>1 DEF HeartbeatTurn, UntilHeartbeat, Timers
    <3> QED BY <1>1, <3>1 DEF Timers
  <2>2. CASE p # q
    BY <1>1, <1>4, <2>2 DEF HeartbeatTurn, Timers
  <2> QED BY <2>1, <2>2
<1>5. ASSUME NEW p \in Peer, ReadSocket(p) PROVE Hangs(q)'
  <2>1. p # q
    BY <1>1, <1>5 DEF ReadSocket
  <2>2. Untouched(q)
    BY <1>5, <2>1 DEF ReadSocket, Untouched, Timers
  <2> QED BY <2>2, UntouchedIsOk
<1>6. ASSUME NEW p \in Peer, CheckInactivity(p) PROVE Hangs(q)'
  <2>1. p # q
    BY <1>1, <1>6 DEF CheckInactivity
  <2>2. Untouched(q)
    BY <1>6, <2>1 DEF CheckInactivity, Untouched, Timers
  <2> QED BY <2>2, UntouchedIsOk
<1>7. ASSUME NEW p \in Peer, Close(p) PROVE Hangs(q)'
  <2>1. p # q
    BY <1>1, <1>7 DEF Close
  <2>2. Untouched(q)
    BY <1>7, <2>1 DEF Close, clocks, Untouched, Timers
  <2> QED BY <2>2, UntouchedIsOk
<1>8. ASSUME NEW p \in Peer, Deliver(p) PROVE Hangs(q)'
  <2>1. Untouched(q)
    BY <1>1, <1>8 DEF Deliver, clocks, Untouched, Timers
  <2> QED BY <2>1, UntouchedIsOk
<1>9. ASSUME NEW p \in Peer, Cut(p) PROVE Hangs(q)'
  BY <1>1, <1>9 DEF Cut, clocks
<1>10. CASE Tick
  <2>1. ~Counts(q)
    BY DEF Counts
  <2>2. Untouched(q)
    BY <1>10, <2>1 DEF Tick, Untouched
  <2> QED BY <2>2, UntouchedIsOk
<1>11. CASE UNCHANGED vars
  BY <1>1, <1>11 DEF vars, clocks
<1> QED BY <1>2, <1>3, <1>4, <1>5, <1>6, <1>7, <1>8, <1>9, <1>10, <1>11 DEF Next, Poll

LEMMA HeartbeatTurnKeepsSend ==
  ASSUME SendInv, NEW p \in Peer, HeartbeatTurn(p)
  PROVE  SendInv'
<1>0. Timers /\ \A q \in Peer : SendOk(q)
  BY DEF SendInv, SendOk
<1>1. \A q \in Peer : q # p => Untouched(q)
  BY <1>0 DEF HeartbeatTurn, Untouched, Timers
<1>2. /\ phase'[p] = "heartbeat" /\ since_now'[p] = since_now[p] /\ status'[p] = status[p]
      /\ since_send'[p] = (IF Silent(p) THEN since_now[p] ELSE since_send[p])
      /\ send_timer'[p] = UntilHeartbeat(p)
  BY <1>0 DEF HeartbeatTurn, Timers
<1>3. /\ since_now[p] \in Nat /\ since_now[p] <= MaxPoll /\ since_send[p] \in Nat
      /\ phase[p] = "heartbeat" /\ send_timer[p] = 0
  BY <1>0, TimersOf DEF HeartbeatTurn
<1>4. UntilHeartbeat(p) \in 0..HEARTBEAT_PERIOD
  BY <1>3, ConstantsAreNat DEF UntilHeartbeat
<1>5. Timers'
  BY <1>0, <1>3, <1>4 DEF HeartbeatTurn, Timers
<1>6. SendOk(p)'
  <2>1. InPoll(p)' => Alive(p)'
    BY <1>0, <1>2, <1>3 DEF InPoll, Alive, SendOk
  <2>2. CASE Silent(p)
    <3>1. since_send[p] >= HEARTBEAT_PERIOD
      BY <1>3, <2>2, ConstantsAreNat DEF Silent
    <3> QED BY <1>2, <1>3, <2>1, <2>2, <3>1, ConstantsAreNat DEF SendOk, UntilHeartbeat, Slack
  <2>3. CASE ~Silent(p) /\ since_send[p] < HEARTBEAT_PERIOD
    BY <1>2, <1>3, <2>1, <2>3, ConstantsAreNat DEF SendOk, UntilHeartbeat, Slack
  <2>4. CASE ~Silent(p) /\ since_send[p] >= HEARTBEAT_PERIOD
    <3>1. Untouched(p)
      BY <1>2, <1>3, <2>4 DEF Untouched, UntilHeartbeat
    <3> QED BY <1>0, <3>1, UntouchedIsOk
  <2> QED BY <1>3, <2>2, <2>3, <2>4, ConstantsAreNat
<1> QED BY <1>0, <1>1, <1>5, <1>6, UntouchedIsOk DEF SendInv, SendOk

LEMMA TickKeepsSend ==
  ASSUME SendInv, Tick
  PROVE  SendInv'
<1>0. Timers /\ \A q \in Peer : SendOk(q)
  BY DEF SendInv, SendOk
<1>1. ASSUME NEW p \in Peer, ~Counts(p) PROVE Untouched(p)
  BY <1>1 DEF Tick, Untouched
<1>2. ASSUME NEW p \in Peer, Counts(p)
      PROVE  /\ phase'[p] = phase[p] /\ status'[p] = status[p]
             /\ since_now'[p] = (IF InPoll(p) THEN since_now[p] + 1 ELSE since_now[p])
             /\ InPoll(p) => since_now[p] < MaxPoll
             /\ since_send'[p] = since_send[p] + 1
             /\ send_timer'[p] = IF send_timer[p] = 0 THEN 0 ELSE send_timer[p] - 1
  BY <1>2 DEF Tick, Countdown
<1>3. Timers'
  <2>1. \A p \in Peer : /\ since_now'[p] \in 0..MaxPoll /\ since_send'[p] \in Nat
                        /\ send_timer'[p] \in 0..HEARTBEAT_PERIOD
    BY <1>0, <1>1, <1>2, TimersOf, ConstantsAreNat DEF Untouched
  <2> QED BY <1>0, <2>1 DEF Tick, Timers
<1>4. ASSUME NEW p \in Peer, Counts(p) PROVE SendOk(p)'
  <2>1. /\ SendOk(p) /\ ~Hangs(p) /\ Alive(p) /\ Alive(p)'
        /\ since_send[p] \in Nat /\ send_timer[p] \in Nat /\ since_now[p] \in Nat
        /\ phase[p] \in {"waiting", "heartbeat", "socket"}
    BY <1>0, <1>2, <1>4, TimersOf DEF Counts, Alive
  <2>2. CASE phase[p] = "waiting"
    <3>1. send_timer[p] # 0
      BY <2>1, <2>2 DEF Tick, Due
    <3>2. since_send[p] + send_timer[p] <= HEARTBEAT_PERIOD
      BY <2>1, <3>1 DEF SendOk
    <3>3. since_send'[p] + send_timer'[p] <= HEARTBEAT_PERIOD /\ since_send'[p] <= HEARTBEAT_PERIOD
      BY <1>2, <1>4, <2>1, <3>1, <3>2, ConstantsAreNat
    <3>4. Slack(p)' = MaxPoll
      BY <1>2, <1>4, <2>2 DEF Slack
    <3>5. since_send'[p] \in Nat
      BY <1>2, <1>4, <2>1
    <3> QED BY <2>1, <3>3, <3>4, <3>5, ConstantsAreNat DEF SendOk
  <2>3. CASE phase[p] # "waiting"
    <3>1. since_now'[p] = since_now[p] + 1 /\ phase'[p] = phase[p]
      BY <1>2, <1>4, <2>3 DEF InPoll
    <3>2. Slack(p) \in Nat /\ Slack(p)' = Slack(p) + 1
      BY <2>1, <2>3, <3>1, ConstantsAreNat DEF Slack
    <3>3. since_send[p] <= HEARTBEAT_PERIOD + Slack(p)
      BY <2>1 DEF SendOk
    <3>4. since_send'[p] <= HEARTBEAT_PERIOD + Slack(p)'
      BY <1>2, <1>4, <2>1, <3>2, <3>3, ConstantsAreNat
    <3>5. send_timer'[p] # 0 => since_send'[p] + send_timer'[p] <= HEARTBEAT_PERIOD
      BY <1>2, <1>4, <2>1, ConstantsAreNat DEF SendOk
    <3> QED BY <2>1, <3>4, <3>5 DEF SendOk
  <2> QED BY <2>2, <2>3
<1> QED BY <1>0, <1>1, <1>3, <1>4, UntouchedIsOk DEF SendInv, SendOk

LEMMA StepKeepsSend ==
  ASSUME SendInv, [Next]_vars
  PROVE  SendInv'
<1>0. Timers /\ \A q \in Peer : SendOk(q)
  BY DEF SendInv, SendOk
<1> USE ConstantsAreNat
<1>1. ASSUME NEW p \in Peer, SendData(p) PROVE SendInv'
  <2>1. \A q \in Peer : q # p => Untouched(q)
    BY <1>0, <1>1 DEF SendData, Untouched, Timers
  <2>2. Timers'
    BY <1>0, <1>1 DEF SendData, Timers
  <2>3. /\ since_send'[p] = 0 /\ send_timer'[p] = send_timer[p] /\ phase'[p] = "waiting"
        /\ send_timer[p] \in Nat /\ send_timer[p] <= HEARTBEAT_PERIOD
    BY <1>0, <1>1, TimersOf DEF SendData, Timers
  <2>4. SendOk(p)'
    BY <2>3 DEF SendOk, Slack, InPoll
  <2> QED BY <1>0, <2>1, <2>2, <2>4, UntouchedIsOk DEF SendInv, SendOk
<1>2. ASSUME NEW p \in Peer, StartPoll(p) PROVE SendInv'
  <2>1. \A q \in Peer : q # p => Untouched(q)
    BY <1>0, <1>2 DEF StartPoll, clocks, Untouched, Timers
  <2>2. Timers'
    BY <1>0, <1>2 DEF StartPoll, clocks, Timers
  <2>3. /\ phase[p] = "waiting" /\ phase'[p] = "heartbeat" /\ Alive(p)' /\ ~Hangs(p)
        /\ since_now'[p] = since_now[p] /\ since_now[p] \in Nat
        /\ since_send'[p] = since_send[p] /\ since_send[p] \in Nat /\ send_timer'[p] = send_timer[p]
    BY <1>0, <1>2, TimersOf DEF StartPoll, Due, clocks, Timers, Alive, Hangs
  <2>4. SendOk(p)'
    <3>1. SendOk(p)
      BY <1>0
    <3> QED BY <2>3, <3>1 DEF SendOk, Slack
  <2> QED BY <1>0, <2>1, <2>2, <2>4, UntouchedIsOk DEF SendInv, SendOk
<1>3. ASSUME NEW p \in Peer, HeartbeatTurn(p) PROVE SendInv'
  BY <1>3, HeartbeatTurnKeepsSend
<1>4. ASSUME NEW p \in Peer, ReadSocket(p) PROVE SendInv'
  <2>1. \A q \in Peer : q # p => Untouched(q)
    BY <1>0, <1>4 DEF ReadSocket, Untouched, Timers
  <2>2. Timers'
    BY <1>0, <1>4 DEF ReadSocket, Timers
  <2>3. /\ since_send'[p] = since_send[p] /\ since_send[p] \in Nat
        /\ send_timer'[p] = send_timer[p] /\ send_timer[p] \in Nat /\ send_timer[p] # 0
    BY <1>0, <1>4, TimersOf DEF ReadSocket
  <2>7. Slack(p)' \in Nat
    <3>1. phase'[p] \in {"waiting", "heartbeat", "socket"} /\ since_now'[p] \in Nat
      BY <2>2 DEF Timers
    <3> QED BY <3>1 DEF Slack
  <2>4. InPoll(p)' => Alive(p)'
    <3>1. Alive(p)
      BY <1>0, <1>4 DEF ReadSocket, SendOk, InPoll
    <3> QED BY <1>0, <1>4, <3>1 DEF ReadSocket, InPoll, Alive, Timers
  <2>5. since_send[p] + send_timer[p] <= HEARTBEAT_PERIOD
    BY <1>0, <2>3 DEF SendOk
  <2>6. SendOk(p)'
    BY <2>3, <2>4, <2>5, <2>7 DEF SendOk
  <2> QED BY <1>0, <2>1, <2>2, <2>6, UntouchedIsOk DEF SendInv, SendOk
<1>5. ASSUME NEW p \in Peer, CheckInactivity(p) PROVE SendInv'
  <2>1. \A q \in Peer : q # p => Untouched(q)
    BY <1>0, <1>5 DEF CheckInactivity, Untouched, Timers
  <2>2. Timers'
    BY <1>0, <1>5 DEF CheckInactivity, Timers
  <2>3. /\ phase[p] = "socket" /\ phase'[p] = "waiting" /\ ~Hangs(p)
        /\ since_now[p] \in Nat /\ since_now[p] <= MaxPoll
        /\ since_send'[p] = since_send[p] /\ since_send[p] \in Nat /\ send_timer'[p] = send_timer[p]
    BY <1>0, <1>5, TimersOf DEF CheckInactivity, Timers, Hangs
  <2>4. SendOk(p)'
    <3>1. SendOk(p)
      BY <1>0
    <3> QED BY <2>3, <3>1 DEF SendOk, Slack, InPoll
  <2> QED BY <1>0, <2>1, <2>2, <2>4, UntouchedIsOk DEF SendInv, SendOk
<1>6. ASSUME NEW p \in Peer, Close(p) PROVE SendInv'
  <2>1. \A q \in Peer : q # p => Untouched(q)
    BY <1>0, <1>6 DEF Close, clocks, Untouched, Timers
  <2>2. Timers'
    BY <1>0, <1>6 DEF Close, clocks, Timers
  <2>3. SendOk(p)'
    <3>1. SendOk(p) /\ ~Hangs(p)
      BY <1>0, <1>6 DEF Close, Hangs
    <3> QED BY <1>6, <3>1 DEF Close, clocks, SendOk, Slack, InPoll
  <2> QED BY <1>0, <2>1, <2>2, <2>3, UntouchedIsOk DEF SendInv, SendOk
<1>7. ASSUME NEW p \in Peer, Deliver(p) PROVE SendInv'
  <2>1. Other(p) \in Peer
    BY OtherIsPeer
  <2>2. Timers'
    BY <1>0, <1>7 DEF Deliver, clocks, Timers
  <2>3. \A q \in Peer : \/ status'[q] = status[q]
                        \/ status[q] = "starting" /\ status'[q] = "alive"
    <3>1. CASE status[Other(p)] = "starting"
      BY <1>0, <1>7, <2>1, <3>1 DEF Deliver, clocks, Timers
    <3>2. CASE status[Other(p)] # "starting"
      BY <1>7, <3>2 DEF Deliver, clocks
    <3> QED BY <3>1, <3>2
  <2>4. ASSUME NEW q \in Peer PROVE SendOk(q)'
    <3>1. CASE status'[q] = status[q]
      <4>1. Untouched(q)
        BY <1>7, <3>1 DEF Deliver, clocks, Untouched
      <4> QED BY <1>0, <4>1, UntouchedIsOk
    <3>2. CASE status[q] = "starting" /\ status'[q] = "alive"
      <4>1. SendOk(q) /\ ~Hangs(q)
        BY <1>0, <3>2 DEF Hangs, Alive
      <4> QED BY <1>7, <3>2, <4>1 DEF Deliver, clocks, SendOk, Slack, InPoll, Alive
    <3> QED BY <2>3, <3>1, <3>2
  <2> QED BY <2>2, <2>4 DEF SendInv, SendOk
<1>8. ASSUME NEW p \in Peer, Cut(p) PROVE SendInv'
  <2>1. \A q \in Peer : Untouched(q)
    BY <1>8 DEF Cut, clocks, Untouched
  <2>2. Timers'
    BY <1>0, <1>8 DEF Cut, clocks, Timers
  <2> QED BY <1>0, <2>1, <2>2, UntouchedIsOk DEF SendInv, SendOk
<1>9. CASE Tick
  BY <1>9, TickKeepsSend
<1>10. CASE UNCHANGED vars
  BY <1>0, <1>10, UntouchedIsOk DEF vars, clocks, Untouched, SendInv, SendOk, Timers
<1> QED BY <1>1, <1>2, <1>3, <1>4, <1>5, <1>6, <1>7, <1>8, <1>9, <1>10 DEF Next, Poll

LEMMA InitiallySend ==
  ASSUME Init PROVE SendInv
BY ConstantsAreNat DEF Init, SendInv, Timers, InPoll, Slack

LEMMA SilenceIsBounded ==
  ASSUME SendInv, NEW p \in Peer
  PROVE  Hangs(p) \/ since_send[p] <= MaxSilence
<1>1. /\ phase[p] \in {"waiting", "heartbeat", "socket"}
      /\ since_now[p] \in Nat /\ since_now[p] <= MaxPoll /\ since_send[p] \in Nat
  BY TimersOf DEF SendInv
<1>2. Slack(p) \in Nat /\ Slack(p) <= 2 * MaxPoll
  BY <1>1, ConstantsAreNat DEF Slack
<1> QED BY <1>1, <1>2, ConstantsAreNat DEF SendInv

\* A Peer whose poll does not hang is never silent for longer than the period and two polls,
\* for any period and any length of polls.
THEOREM AlwaysHeard == Spec => []NeverSilent
<1>1. SendInv => NeverSilent
  BY SilenceIsBounded DEF NeverSilent
<1> QED BY <1>1, InitiallySend, StepKeepsSend, PTL DEF Spec

-----------------------------------------------------------------------------
(* The inactivity timeout *)

\* What a link holds, in the order in which it was sent and none of it overdue.
Queue == {s \in Seq(0..MaxDelay) : \A i, j \in 1..Len(s) : i < j => s[i] >= s[j]}

LEMMA EmptyIsQueue == <<>> \in Queue
BY DEF Queue

LEMMA AppendKeepsOrder ==
  ASSUME NEW s \in Queue
  PROVE  /\ Append(s, 0) \in Queue /\ Append(s, 0) # <<>>
         /\ Head(Append(s, 0)) = IF s = <<>> THEN 0 ELSE Head(s)
<1> DEFINE t == Append(s, 0)
<1>1. 0 \in 0..MaxDelay /\ s \in Seq(0..MaxDelay) /\ MaxDelay \in Nat
  BY HeartbeatAssumption DEF Queue
<1>2. /\ t \in Seq(0..MaxDelay) /\ t # <<>> /\ Len(t) = Len(s) + 1
      /\ \A i \in 1..Len(s) : t[i] = s[i]
      /\ t[Len(s) + 1] = 0
  BY <1>1, AppendProperties
<1>3. \A i \in 1..Len(s) : s[i] \in 0..MaxDelay
  BY <1>1, ElementOfSeq
<1>4. Len(s) \in Nat
  BY <1>1
<1> HIDE DEF t
<1>5. ASSUME NEW i \in 1..Len(t), NEW j \in 1..Len(t), i < j PROVE t[i] >= t[j]
  <2>1. i \in 1..Len(s) /\ t[i] = s[i] /\ s[i] >= 0
    BY <1>1, <1>2, <1>3, <1>4, <1>5
  <2>2. CASE j \in 1..Len(s)
    BY <1>2, <1>5, <2>1, <2>2 DEF Queue
  <2>3. CASE j = Len(s) + 1
    BY <1>2, <2>1, <2>3
  <2> QED BY <1>2, <1>4, <2>2, <2>3
<1>6. Head(t) = t[1]
  BY <1>2
<1>7. s # <<>> => 1 \in 1..Len(s) /\ Head(s) = s[1]
  BY <1>1
<1>8. s = <<>> => Len(s) = 0
  OBVIOUS
<1>9. Head(t) = IF s = <<>> THEN 0 ELSE Head(s)
  BY <1>2, <1>6, <1>7, <1>8
<1> QED BY <1>2, <1>5, <1>9 DEF Queue, t

LEMMA TailKeepsOrder ==
  ASSUME NEW s \in Queue, s # <<>>
  PROVE  Tail(s) \in Queue
<1> DEFINE t == Tail(s)
<1>1. s \in Seq(0..MaxDelay) /\ Len(s) \in Nat
  BY DEF Queue
<1>2. t \in Seq(0..MaxDelay) /\ Len(t) = Len(s) - 1 /\ \A i \in 1..Len(t) : t[i] = s[i + 1]
  BY <1>1, HeadTailProperties
<1> HIDE DEF t
<1>3. ASSUME NEW i \in 1..Len(t), NEW j \in 1..Len(t), i < j PROVE t[i] >= t[j]
  <2>1. i + 1 \in 1..Len(s) /\ j + 1 \in 1..Len(s) /\ i + 1 < j + 1
    BY <1>1, <1>2, <1>3
  <2>2. s[i + 1] >= s[j + 1]
    BY <2>1 DEF Queue
  <2> QED BY <1>2, <2>2
<1> QED BY <1>2, <1>3 DEF Queue, t

\* A tick makes every message older; the first is the oldest.
Aged(s) == [i \in DOMAIN s |-> s[i] + 1]

LEMMA TickKeepsOrder ==
  ASSUME NEW s \in Queue, s # <<>> => Head(s) < MaxDelay
  PROVE  /\ Aged(s) \in Queue /\ (Aged(s) = <<>> <=> s = <<>>)
         /\ s # <<>> => Head(Aged(s)) = Head(s) + 1
<1>1. s \in Seq(0..MaxDelay) /\ Len(s) \in Nat /\ DOMAIN s = 1..Len(s) /\ MaxDelay \in Nat
  BY HeartbeatAssumption DEF Queue
<1>2. \A i \in 1..Len(s) : s[i] \in 0..MaxDelay
  BY <1>1, ElementOfSeq
<1>3. ASSUME NEW i \in 1..Len(s) PROVE s[i] + 1 \in 0..MaxDelay
  <2>1. 1 \in 1..Len(s) /\ s # <<>> /\ Head(s) = s[1]
    BY <1>1, <1>3
  <2>2. s[1] >= s[i]
    <3>1. CASE i = 1
      BY <1>2, <2>1, <3>1
    <3>2. CASE 1 < i
      BY <2>1, <3>2 DEF Queue
    <3> QED BY <1>3, <3>1, <3>2
  <2> QED BY <1>1, <1>2, <2>1, <2>2
<1> DEFINE t == [i \in 1..Len(s) |-> s[i] + 1]
<1>4. t \in Seq(0..MaxDelay) /\ Len(t) = Len(s)
  BY <1>1, <1>3
<1>5. \A i \in 1..Len(s) : t[i] = s[i] + 1
  OBVIOUS
<1>6. Aged(s) = t
  BY <1>1 DEF Aged
<1> HIDE DEF t
<1>7. t \in Queue
  <2>1. ASSUME NEW i \in 1..Len(t), NEW j \in 1..Len(t), i < j PROVE t[i] >= t[j]
    <3>1. i \in 1..Len(s) /\ j \in 1..Len(s) /\ s[i] >= s[j]
      BY <1>4, <2>1 DEF Queue
    <3> QED BY <1>2, <1>5, <3>1
  <2> QED BY <1>4, <2>1 DEF Queue
<1>8. t = <<>> <=> s = <<>>
  BY <1>1, <1>4, EmptySeq
<1>9. s # <<>> => Head(t) = Head(s) + 1
  <2>1. SUFFICES ASSUME s # <<>> PROVE Head(t) = Head(s) + 1
    OBVIOUS
  <2>2. 1 \in 1..Len(s) /\ Head(s) = s[1] /\ Head(t) = t[1]
    BY <1>1, <1>4, <1>8, <2>1
  <2> QED BY <1>5, <2>2
<1> QED BY <1>6, <1>7, <1>8, <1>9

-----------------------------------------------------------------------------
(* What a Peer has heard of the other *)

LinkOk ==
  /\ recv_timer \in [Peer -> 0..INACTIVITY_TIMEOUT]
  /\ in_flight \in [Peer -> Queue]
  /\ arrived \in [Peer -> BOOLEAN]
  /\ cut \in SUBSET Peer
  /\ \A p \in cut : in_flight[p] = <<>>

\* The link from q works, and both Peers are there and get on with their polls.
Hears(q) ==
  /\ Alive(q) /\ ~Hangs(q) /\ q \notin cut
  /\ Alive(Other(q)) /\ ~Hangs(Other(q))

\* How long ago q has sent what the other heard of it last, at the most: a message on its way
\* was sent within MaxSilence of the one before.
Since(q) == IF in_flight[q] = <<>> THEN since_send[q] ELSE MaxSilence + Head(in_flight[q])

\* The inactivity timer of the other has not run for longer than that, but for the delay with
\* which q was made. What has arrived amid a poll is read by the next: until this one ends,
\* the timer runs on for as long as it takes.
Heard(q) ==
  LET o == Other(q) IN
  IF arrived[o]
  THEN phase[o] = "socket" =>
         recv_timer[o] + MaxSilence + 2 * MaxDelay + since_now[o] >= INACTIVITY_TIMEOUT
  ELSE recv_timer[o] + Since(q) + MaxDelay >= INACTIVITY_TIMEOUT

HeardInv == \A q \in Peer : Hears(q) => Heard(q)

\* Before q is made it has sent nothing, and the message that makes it is the first on the
\* link, unless that is cut or whoever sent it is gone.
StartOk(q) ==
  status[q] = "starting" =>
    LET o == Other(q) IN
    /\ status[o] # "starting"
    /\ in_flight[q] = <<>> /\ since_send[q] = 0 /\ recv_timer[q] = INACTIVITY_TIMEOUT
    /\ ~arrived[q] /\ ~arrived[o]
    /\ Alive(o) /\ o \notin cut =>
         /\ in_flight[o] # <<>>
         /\ Hangs(o) \/ recv_timer[o] + Head(in_flight[o]) >= INACTIVITY_TIMEOUT

StartInv == \A q \in Peer : StartOk(q)

Justified(p) ==
  status[p] = "timed_out" =>
    \/ Other(p) \in cut \/ Gone(Other(p)) \/ Hangs(Other(p))
    \/ status[Other(p)] = "starting" /\ p \in cut

TimeoutInv ==
  /\ SendInv /\ LinkOk
  /\ HeardInv /\ StartInv
  /\ \A p \in Peer : Justified(p)

LEMMA InitiallyTimeout ==
  ASSUME Init PROVE TimeoutInv
<1> USE ConstantsAreNat
<1>1. /\ \A p \in Peer : /\ recv_timer[p] = INACTIVITY_TIMEOUT /\ arrived[p] = FALSE /\ since_send[p] = 0
                         /\ status[p] = (IF p = A THEN "alive" ELSE "starting")
                         /\ in_flight[p] = (IF p = A THEN <<0>> ELSE <<>>)
      /\ cut = {}
  BY DEF Init
<1>2. <<0>> \in Queue
  <2>1. \A i, j \in 1..Len(<<0>>) : ~(i < j)
    OBVIOUS
  <2>2. 0 \in 0..MaxDelay
    OBVIOUS
  <2> QED BY <2>1, <2>2 DEF Queue
<1>3. LinkOk
  BY <1>2, EmptyIsQueue DEF Init, LinkOk
<1>4. HeardInv
  <2>1. ASSUME NEW q \in Peer PROVE ~Hears(q)
    <3>1. q # Other(q) /\ Other(q) \in Peer
      BY OtherIsPeer
    <3> QED BY <1>1, <3>1 DEF Hears, Alive
  <2> QED BY <2>1 DEF HeardInv
<1>5. ASSUME NEW q \in Peer PROVE StartOk(q)
  <2>1. SUFFICES ASSUME q # A PROVE StartOk(q)
    BY <1>1 DEF StartOk
  <2>2. Other(q) = A /\ A \in Peer
    BY <2>1 DEF Peer, Other
  <2>3. in_flight[A] = <<0>> /\ Head(<<0>>) = 0
    BY <1>1, <2>2
  <2> QED BY <1>1, <2>1, <2>2, <2>3 DEF StartOk
<1>6. \A p \in Peer : Justified(p)
  BY <1>1 DEF Justified
<1> QED BY <1>3, <1>4, <1>5, <1>6, InitiallySend DEF TimeoutInv, StartInv

\* The values a Peer's timer and link have.
LEMMA LinkOf ==
  ASSUME LinkOk, NEW q \in Peer
  PROVE  /\ recv_timer[q] \in Nat /\ recv_timer[q] <= INACTIVITY_TIMEOUT
         /\ in_flight[q] \in Queue /\ arrived[q] \in BOOLEAN
         /\ in_flight[q] # <<>> => Head(in_flight[q]) \in Nat /\ Head(in_flight[q]) <= MaxDelay
<1>1. in_flight[q] # <<>> => Head(in_flight[q]) \in 0..MaxDelay
  <2>1. in_flight[q] \in Seq(0..MaxDelay)
    BY DEF LinkOk, Queue
  <2> QED BY <2>1, HeadTailProperties
<1> QED BY <1>1, ConstantsAreNat DEF LinkOk

LEMMA SinceIsBounded ==
  ASSUME SendInv, LinkOk, NEW q \in Peer
  PROVE  /\ Since(q) \in Nat
         /\ Hangs(q) \/ Since(q) <= MaxSilence + MaxDelay
<1>1. since_send[q] \in Nat
  BY TimersOf DEF SendInv
<1>2. Hangs(q) \/ since_send[q] <= MaxSilence
  BY SilenceIsBounded
<1> QED BY <1>1, <1>2, LinkOf, ConstantsAreNat DEF Since

\* A message that joins the link does not make less of the time since the last one, and leaves
\* the first message where it is.
LEMMA TransmitKeepsSince ==
  ASSUME SendInv, LinkOk, NEW q \in Peer, ~Hangs(q),
         in_flight' = [in_flight EXCEPT ![q] = Transmit(q)]
  PROVE  /\ in_flight' \in [Peer -> Queue]
         /\ q \in cut => in_flight' = in_flight
         /\ q \notin cut => Since(q)' \in Nat /\ Since(q)' >= Since(q)
         /\ in_flight[q] # <<>> => in_flight'[q] # <<>> /\ Head(in_flight'[q]) = Head(in_flight[q])
<1>1. in_flight[q] \in Queue
  BY LinkOf
<1>2. /\ Append(in_flight[q], 0) \in Queue /\ Append(in_flight[q], 0) # <<>>
      /\ Head(Append(in_flight[q], 0)) = IF in_flight[q] = <<>> THEN 0 ELSE Head(in_flight[q])
  BY <1>1, AppendKeepsOrder
<1>3. in_flight' \in [Peer -> Queue]
  BY <1>1, <1>2 DEF LinkOk, Transmit
<1>4. in_flight'[q] = Transmit(q)
  BY DEF LinkOk
<1>5. ASSUME q \notin cut PROVE Since(q)' \in Nat /\ Since(q)' >= Since(q)
  <2>1. in_flight'[q] = Append(in_flight[q], 0)
    BY <1>4, <1>5 DEF Transmit
  <2>2. Since(q)' = MaxSilence + (IF in_flight[q] = <<>> THEN 0 ELSE Head(in_flight[q]))
    BY <1>2, <2>1 DEF Since, MaxSilence
  <2>3. Since(q) \in Nat
    BY SinceIsBounded
  <2>4. since_send[q] <= MaxSilence
    BY SilenceIsBounded
  <2>5. in_flight[q] # <<>> => Since(q) = MaxSilence + Head(in_flight[q]) /\ Head(in_flight[q]) \in Nat
    BY LinkOf DEF Since
  <2>6. in_flight[q] = <<>> => Since(q) = since_send[q]
    BY DEF Since
  <2> QED BY <2>2, <2>3, <2>4, <2>5, <2>6, ConstantsAreNat
<1>6. q \in cut => in_flight' = in_flight
  BY DEF Transmit, LinkOk
<1>7. in_flight[q] # <<>> => in_flight'[q] # <<>> /\ Head(in_flight'[q]) = Head(in_flight[q])
  BY <1>2, <1>4, <1>6 DEF Transmit
<1> QED BY <1>3, <1>5, <1>6, <1>7

\* What is heard does not get less while the timer, the link's far end and the poll there
\* stand still and the time since the last message does not shrink.
LEMMA SameIsHeard ==
  ASSUME SendInv, LinkOk, NEW q \in Peer, Heard(q),
         Since(q)' \in Nat, Since(q)' >= Since(q),
         recv_timer'[Other(q)] = recv_timer[Other(q)], arrived'[Other(q)] = arrived[Other(q)],
         phase'[Other(q)] = phase[Other(q)], since_now'[Other(q)] = since_now[Other(q)]
  PROVE  Heard(q)'
<1>1. /\ Other(q) \in Peer /\ Since(q) \in Nat /\ recv_timer[Other(q)] \in Nat
      /\ arrived[Other(q)] \in BOOLEAN
  BY SinceIsBounded, OtherIsPeer, LinkOf
<1>2. Other(q)' = Other(q) /\ MaxSilence' = MaxSilence
  BY DEF Other, MaxSilence
<1>3. CASE arrived[Other(q)]
  BY <1>2, <1>3 DEF Heard
<1>4. CASE ~arrived[Other(q)]
  BY <1>1, <1>2, <1>4, ConstantsAreNat DEF Heard
<1> QED BY <1>3, <1>4

-----------------------------------------------------------------------------
(* Steps *)

\* A step of one Peer, or of its owner: the other's side is left alone, and so is what is on
\* the way from the other.
Apart(p) ==
  /\ cut' = cut /\ \A q \in Peer \ {p} :
       /\ Untouched(q) /\ recv_timer'[q] = recv_timer[q]
       /\ arrived'[q] = arrived[q] /\ in_flight'[q] = in_flight[q]

\* To such a step it is left to show what it makes of the Peer itself.
LEMMA OneSide ==
  ASSUME TimeoutInv, NEW p \in Peer, Apart(p), [Next]_vars,
         SendInv', LinkOk',
         Hears(p)' => Since(p)' >= Since(p),
         Hears(Other(p)) /\ Heard(Other(p)) /\ Hears(Other(p))' => Heard(Other(p))',
         StartOk(p)', StartOk(Other(p))',
         status[p] # "alive" => status'[p] # "alive",
         Gone(p) => Gone(p)',
         status'[p] = "starting" => status[p] = "starting",
         status[p] = "starting" => Gone(p)' \/ status'[p] = "starting",
         Justified(p)'
  PROVE  TimeoutInv'
<1> USE DEF TimeoutInv
<1> DEFINE o == Other(p)
<1>0. o \in Peer /\ o # p /\ Other(o) = p /\ \A q \in Peer : q = p \/ q = o
  BY OtherIsPeer DEF Peer, Other
<1>1. /\ Untouched(o) /\ recv_timer'[o] = recv_timer[o] /\ arrived'[o] = arrived[o]
      /\ in_flight'[o] = in_flight[o] /\ cut' = cut
  BY <1>0 DEF Apart
<1>2. (Hangs(o)' <=> Hangs(o)) /\ (Alive(o)' <=> Alive(o)) /\ (Gone(o)' <=> Gone(o))
  BY <1>0, <1>1, UntouchedIsOk DEF Untouched, Gone
<1>3. Hangs(p) => Hangs(p)'
  BY HangsForGood DEF SendInv
<1>4. Alive(p)' => Alive(p)
  BY DEF Alive
<1>5. (Hears(p)' => Hears(p)) /\ (Hears(o)' => Hears(o))
  BY <1>0, <1>1, <1>2, <1>3, <1>4 DEF Hears
<1>6. Hears(p)' => Heard(p)'
  <2>1. SUFFICES ASSUME Hears(p)' PROVE Heard(p)'
    OBVIOUS
  <2>2. Heard(p)
    BY <1>5, <2>1 DEF HeardInv
  <2>3. Since(p)' \in Nat
    <3>1. since_send'[p] \in Nat
      BY DEF SendInv, Timers
    <3>2. in_flight'[p] # <<>> => Head(in_flight'[p]) \in Nat
      <4>1. in_flight'[p] \in Seq(0..MaxDelay)
        BY DEF LinkOk, Queue
      <4> QED BY <4>1, HeadTailProperties, ConstantsAreNat
    <3>3. MaxSilence' = MaxSilence
      BY DEF MaxSilence
    <3> QED BY <3>1, <3>2, <3>3, ConstantsAreNat DEF Since
  <2> QED BY <1>1, <2>1, <2>2, <2>3, SameIsHeard DEF Untouched
<1>7. Hears(o)' => Heard(o)'
  BY <1>0, <1>5 DEF HeardInv
<1>8. Justified(o)'
  <2>1. Justified(o)
    BY <1>0
  <2> QED BY <1>0, <1>1, <1>3, <2>1 DEF Justified, Untouched
<1>9. HeardInv' /\ StartInv' /\ \A q \in Peer : Justified(q)'
  BY <1>0, <1>6, <1>7, <1>8 DEF HeardInv, StartInv
<1> QED BY <1>9

LEMMA SendDataKeepsTimeout ==
  ASSUME TimeoutInv, NEW p \in Peer, SendData(p)
  PROVE  TimeoutInv'
<1> USE DEF TimeoutInv
<1> DEFINE o == Other(p)
<1>0. o \in Peer /\ o # p /\ Other(o) = p /\ Other(p) = o
  BY OtherIsPeer
<1>1. Next
  BY DEF Next
<1>2. SendInv'
  BY <1>1, StepKeepsSend
<1>3. ~Hangs(p) /\ Alive(p) /\ status' = status
  BY DEF SendData, Hangs
<1>4. /\ in_flight' \in [Peer -> Queue]
      /\ p \in cut => in_flight' = in_flight
      /\ p \notin cut => Since(p)' \in Nat /\ Since(p)' >= Since(p)
      /\ in_flight[p] # <<>> => in_flight'[p] # <<>> /\ Head(in_flight'[p]) = Head(in_flight[p])
  BY <1>3, TransmitKeepsSince DEF SendData
<1>5. LinkOk'
  BY <1>4 DEF SendData, LinkOk
<1>6. Apart(p)
  BY DEF SendData, Apart, Untouched, LinkOk, SendInv, Timers
<1>7. Hears(p)' => Since(p)' >= Since(p)
  BY <1>4, <1>6 DEF Hears, Apart
<1>8. Since(o)' = Since(o) /\ Since(o) \in Nat
  BY <1>0, <1>6, SinceIsBounded DEF Since, Apart, Untouched, MaxSilence
<1>9. Heard(o) => Heard(o)'
  BY <1>0, <1>8, ConstantsAreNat, LinkOf, SameIsHeard DEF SendData
<1>10. StartOk(p)' /\ StartOk(o)'
  <2>1. StartOk(p)'
    BY <1>3 DEF StartOk, Alive
  <2>2. ASSUME status[o] = "starting" PROVE StartOk(o)'
    <3>1. StartOk(o)
      BY <1>0 DEF StartInv
    <3>2. recv_timer' = recv_timer /\ arrived' = arrived /\ cut' = cut
      BY DEF SendData
    <3>3. in_flight'[o] = in_flight[o] /\ since_send'[o] = since_send[o]
      BY <1>0, <1>6 DEF Apart, Untouched
    <3> QED BY <1>0, <1>3, <1>4, <2>2, <3>1, <3>2, <3>3 DEF StartOk
  <2> QED BY <1>3, <2>1, <2>2 DEF StartOk
<1>11. Justified(p)'
  BY <1>3 DEF Justified, Alive
<1> QED BY <1>0, <1>1, <1>2, <1>3, <1>5, <1>6, <1>7, <1>9, <1>10, <1>11, OneSide DEF Alive, Gone

LEMMA StartPollKeepsTimeout ==
  ASSUME TimeoutInv, NEW p \in Peer, StartPoll(p)
  PROVE  TimeoutInv'
<1> USE DEF TimeoutInv
<1> DEFINE o == Other(p)
<1>0. o \in Peer /\ o # p /\ Other(o) = p /\ Other(p) = o
  BY OtherIsPeer
<1>1. Next
  BY DEF Next, Poll
<1>2. SendInv'
  BY <1>1, StepKeepsSend
<1>3. /\ ~Hangs(p) /\ Alive(p) /\ status' = status /\ phase'[p] = "heartbeat"
      /\ UNCHANGED <<since_now, since_send, send_timer, recv_timer, in_flight, arrived, cut>>
  BY DEF StartPoll, Due, Hangs, clocks, SendInv, Timers
<1>5. LinkOk'
  BY <1>3 DEF LinkOk
<1>6. Apart(p)
  BY <1>3 DEF StartPoll, Apart, Untouched, SendInv, Timers
<1>7. Since(p)' = Since(p) /\ Since(o)' = Since(o) /\ Since(p) \in Nat /\ Since(o) \in Nat
  BY <1>0, <1>3, SinceIsBounded DEF Since, MaxSilence
<1>9. Heard(o) => Heard(o)'
  BY <1>0, <1>3, <1>7 DEF Heard, MaxSilence
<1>10. StartOk(p)' /\ StartOk(o)'
  <2>1. StartOk(p)'
    BY <1>3 DEF StartOk, Alive
  <2>2. StartOk(o)
    BY <1>0 DEF StartInv
  <2> QED BY <1>0, <1>3, <2>1, <2>2 DEF StartOk, Alive, Hangs
<1>11. Justified(p)'
  BY <1>3 DEF Justified, Alive
<1> QED BY <1>0, <1>1, <1>2, <1>3, <1>5, <1>6, <1>7, <1>9, <1>10, <1>11, OneSide DEF Alive, Gone

LEMMA HeartbeatTurnKeepsTimeout ==
  ASSUME TimeoutInv, NEW p \in Peer, HeartbeatTurn(p)
  PROVE  TimeoutInv'
<1> USE DEF TimeoutInv
<1> DEFINE o == Other(p)
<1>0. o \in Peer /\ o # p /\ Other(o) = p /\ Other(p) = o
  BY OtherIsPeer
<1>1. Next
  BY DEF Next, Poll
<1>2. SendInv' /\ (Hangs(p) => Hangs(p)')
  BY <1>1, StepKeepsSend, HangsForGood DEF SendInv
<1>3. Alive(p) /\ phase[p] = "heartbeat" /\ UNCHANGED <<status, phase, since_now, recv_timer, arrived, cut>>
  BY DEF HeartbeatTurn, SendInv, InPoll
<1>4. /\ in_flight' \in [Peer -> Queue]
      /\ \A q \in cut : in_flight'[q] = in_flight[q]
      /\ ~Hangs(p) /\ p \notin cut => Since(p)' \in Nat /\ Since(p)' >= Since(p)
      /\ in_flight[p] # <<>> => in_flight'[p] # <<>> /\ Head(in_flight'[p]) = Head(in_flight[p])
  <2>1. CASE Silent(p)
    <3>1. in_flight' = [in_flight EXCEPT ![p] = Transmit(p)] /\ ~Hangs(p)
      BY <2>1 DEF HeartbeatTurn, Hangs
    <3>2. \A q \in cut : in_flight'[q] = in_flight[q]
      BY <3>1 DEF LinkOk, Transmit
    <3> QED BY <3>1, <3>2, TransmitKeepsSince
  <2>2. CASE ~Silent(p)
    <3>1. in_flight' = in_flight /\ since_send' = since_send
      BY <2>2 DEF HeartbeatTurn, LinkOk, SendInv, Timers
    <3>2. Since(p)' = Since(p) /\ Since(p) \in Nat
      BY <3>1, SinceIsBounded DEF Since, MaxSilence
    <3> QED BY <3>1, <3>2 DEF LinkOk
  <2> QED BY <2>1, <2>2
<1>5. LinkOk'
  BY <1>3, <1>4 DEF LinkOk
<1>6. Apart(p)
  BY <1>3 DEF HeartbeatTurn, Apart, Untouched, LinkOk, SendInv, Timers
<1>7. Hears(p)' => Since(p)' >= Since(p)
  BY <1>2, <1>3, <1>4 DEF Hears
<1>8. Since(o)' = Since(o) /\ Since(o) \in Nat
  BY <1>0, <1>6, SinceIsBounded DEF Since, Apart, Untouched, MaxSilence
<1>9. Heard(o) => Heard(o)'
  BY <1>0, <1>3, <1>8, ConstantsAreNat, LinkOf, SameIsHeard
<1>10. StartOk(p)' /\ StartOk(o)'
  <2>1. StartOk(p)'
    BY <1>3 DEF StartOk, Alive
  <2>2. ASSUME status[o] = "starting" PROVE StartOk(o)'
    <3>1. StartOk(o)
      BY <1>0 DEF StartInv
    <3>3. in_flight'[o] = in_flight[o] /\ since_send'[o] = since_send[o]
      BY <1>0, <1>6 DEF Apart, Untouched
    <3> QED BY <1>0, <1>2, <1>3, <1>4, <2>2, <3>1, <3>3 DEF StartOk, Alive
  <2> QED BY <1>3, <2>1, <2>2 DEF StartOk
<1>11. Justified(p)'
  BY <1>3 DEF Justified, Alive
<1> QED BY <1>0, <1>1, <1>2, <1>3, <1>5, <1>6, <1>7, <1>9, <1>10, <1>11, OneSide DEF Alive, Gone

LEMMA ReadSocketKeepsTimeout ==
  ASSUME TimeoutInv, NEW p \in Peer, ReadSocket(p)
  PROVE  TimeoutInv'
<1> USE DEF TimeoutInv
<1> DEFINE o == Other(p)
<1>0. o \in Peer /\ o # p /\ Other(o) = p /\ Other(p) = o
  BY OtherIsPeer
<1>1. Next
  BY DEF Next, Poll
<1>2. SendInv'
  BY <1>1, StepKeepsSend
<1>3. /\ Alive(p) /\ UNCHANGED <<since_send, send_timer, in_flight, cut>>
      /\ arrived'[p] = FALSE /\ recv_timer'[p] = UntilInactive(p)
      /\ UntilInactive(p) \in 0..INACTIVITY_TIMEOUT
      /\ status'[p] \in {"alive", "lost"}
  <2>1. Alive(p)
    BY DEF ReadSocket, SendInv, InPoll
  <2>2. UntilInactive(p) \in 0..INACTIVITY_TIMEOUT
    BY ConstantsAreNat DEF UntilInactive, LinkOk
  <2> QED BY <2>1, <2>2 DEF ReadSocket, Alive, SendInv, Timers, LinkOk
<1>5. LinkOk'
  BY <1>3 DEF ReadSocket, LinkOk
<1>6. Apart(p)
  BY <1>3 DEF ReadSocket, Apart, Untouched, LinkOk, SendInv, Timers
<1>7. Since(p)' = Since(p) /\ Since(o)' = Since(o) /\ Since(p) \in Nat /\ Since(o) \in Nat
  BY <1>0, <1>3, SinceIsBounded DEF Since, MaxSilence
<1>9. Heard(o) => Heard(o)'
  <2>1. SUFFICES ASSUME Heard(o) PROVE recv_timer'[p] + Since(o)' + MaxDelay >= INACTIVITY_TIMEOUT
    BY <1>0, <1>3 DEF Heard
  <2>2. CASE arrived[p]
    BY <1>3, <1>7, <2>2, ConstantsAreNat DEF UntilInactive
  <2>3. CASE ~arrived[p]
    BY <1>0, <1>3, <1>7, <2>1, <2>3 DEF UntilInactive, Heard
  <2> QED BY <2>2, <2>3
<1>10. StartOk(p)' /\ StartOk(o)'
  <2>1. StartOk(p)'
    BY <1>3 DEF StartOk
  <2>2. ASSUME status[o] = "starting" PROVE StartOk(o)'
    <3>1. StartOk(o)
      BY <1>0, <2>2 DEF StartInv, StartOk
    <3>2. ~arrived[p] /\ ~arrived[o]
      BY <1>0, <2>2, <3>1 DEF StartOk
    <3>3. recv_timer'[p] = recv_timer[p] /\ arrived'[o] = arrived[o] /\ recv_timer'[o] = recv_timer[o]
      BY <1>0, <1>3, <1>6, <3>2 DEF UntilInactive, Apart
    <3>4. ~Hangs(p)
      BY DEF ReadSocket, Hangs
    <3> QED BY <1>0, <1>3, <2>2, <3>1, <3>2, <3>3, <3>4 DEF StartOk, Alive
  <2>3. status'[o] = status[o]
    BY <1>0, <1>6 DEF Apart, Untouched
  <2> QED BY <2>1, <2>2, <2>3 DEF StartOk
<1>11. Justified(p)'
  BY <1>3 DEF Justified
<1> QED BY <1>0, <1>1, <1>2, <1>3, <1>5, <1>6, <1>7, <1>9, <1>10, <1>11, OneSide DEF Alive, Gone

\* Here the timeout strikes. If the other is there, its poll goes on and its link works, it has
\* been heard of so lately that the timer cannot have run out.
LEMMA CheckInactivityKeepsTimeout ==
  ASSUME TimeoutInv, NEW p \in Peer, CheckInactivity(p)
  PROVE  TimeoutInv'
<1> USE DEF TimeoutInv
<1> DEFINE o == Other(p)
<1>0. o \in Peer /\ o # p /\ Other(o) = p /\ Other(p) = o
  BY OtherIsPeer
<1>1. Next
  BY DEF Next, Poll
<1>2. SendInv'
  BY <1>1, StepKeepsSend
<1>3. /\ Alive(p) /\ ~Hangs(p) /\ phase[p] = "socket" /\ phase'[p] = "waiting"
      /\ UNCHANGED <<since_send, send_timer, recv_timer, in_flight, arrived, cut>>
      /\ status'[p] = IF recv_timer[p] = 0 THEN "timed_out" ELSE "alive"
  BY DEF CheckInactivity, SendInv, InPoll, Hangs, Timers, Alive
<1>5. LinkOk'
  BY <1>3 DEF LinkOk
<1>6. Apart(p)
  BY <1>3 DEF CheckInactivity, Apart, Untouched, SendInv, Timers
<1>7. Since(p)' = Since(p) /\ Since(o)' = Since(o) /\ Since(p) \in Nat /\ Since(o) \in Nat
  BY <1>0, <1>3, SinceIsBounded DEF Since, MaxSilence
<1>9. Heard(o) => Heard(o)'
  BY <1>0, <1>3, <1>7 DEF Heard, MaxSilence
<1>10. StartOk(p)' /\ StartOk(o)'
  <2>1. StartOk(p)'
    BY <1>3 DEF StartOk
  <2>2. StartOk(o)
    BY <1>0 DEF StartInv
  <2>3. status'[o] = status[o]
    BY <1>0, <1>6 DEF Apart, Untouched
  <2> QED BY <1>0, <1>3, <2>1, <2>2, <2>3 DEF StartOk, Alive, Hangs
<1>11. Justified(p)'
  <2>1. /\ Untouched(o) /\ (Hangs(o)' <=> Hangs(o)) /\ (Gone(o)' <=> Gone(o))
        /\ status'[o] = status[o] /\ cut' = cut
    BY <1>0, <1>3, <1>6, UntouchedIsOk DEF Apart, Untouched, Gone
  <2>2. SUFFICES ASSUME recv_timer[p] = 0, o \notin cut, ~Gone(o), ~Hangs(o),
                        ~(status[o] = "starting" /\ p \in cut)
                 PROVE  FALSE
    BY <1>0, <1>3, <2>1 DEF Justified
  <2>3. CASE status[o] = "starting"
    <3>1. in_flight[p] # <<>> /\ recv_timer[p] + Head(in_flight[p]) >= INACTIVITY_TIMEOUT
      BY <1>0, <1>3, <2>2, <2>3 DEF StartInv, StartOk
    <3> QED BY <2>2, <3>1, LinkOf, ConstantsAreNat
  <2>4. CASE status[o] # "starting"
    <3>1. Alive(o)
      BY <1>0, <2>2, <2>4, TimersOf DEF Gone, Alive, SendInv
    <3>2. Heard(o)
      BY <1>0, <1>3, <2>2, <3>1 DEF Hears, HeardInv
    <3>3. CASE arrived[p]
      <4>1. 0 + MaxSilence + 2 * MaxDelay + since_now[p] >= INACTIVITY_TIMEOUT
        BY <1>0, <1>3, <2>2, <3>2, <3>3 DEF Heard
      <4>2. since_now[p] \in Nat /\ since_now[p] <= MaxPoll
        BY TimersOf DEF SendInv
      <4> QED BY <4>1, <4>2, ConstantsAreNat
    <3>4. CASE ~arrived[p]
      <4>1. 0 + Since(o) + MaxDelay >= INACTIVITY_TIMEOUT
        BY <1>0, <2>2, <3>2, <3>4 DEF Heard
      <4>2. Since(o) <= MaxSilence + MaxDelay
        BY <1>0, <2>2, SinceIsBounded
      <4> QED BY <1>7, <4>1, <4>2, ConstantsAreNat
    <3> QED BY <3>3, <3>4
  <2> QED BY <2>3, <2>4
<1> QED BY <1>0, <1>1, <1>2, <1>3, <1>5, <1>6, <1>7, <1>9, <1>10, <1>11, OneSide DEF Alive, Gone

LEMMA CloseKeepsTimeout ==
  ASSUME TimeoutInv, NEW p \in Peer, Close(p)
  PROVE  TimeoutInv'
<1> USE DEF TimeoutInv
<1> DEFINE o == Other(p)
<1>0. o \in Peer /\ o # p /\ Other(o) = p /\ Other(p) = o
  BY OtherIsPeer
<1>1. Next
  BY DEF Next
<1>2. SendInv'
  BY <1>1, StepKeepsSend
<1>3. /\ status[p] \in {"starting", "alive"} /\ status'[p] = "closed"
      /\ UNCHANGED <<phase, since_now, since_send, send_timer, recv_timer, in_flight, arrived, cut>>
  BY DEF Close, clocks, SendInv, Timers
<1>5. LinkOk'
  BY <1>3 DEF LinkOk
<1>6. Apart(p)
  BY <1>3 DEF Close, Apart, Untouched, SendInv, Timers
<1>7. Since(p)' = Since(p) /\ Since(o)' = Since(o) /\ Since(p) \in Nat /\ Since(o) \in Nat
  BY <1>0, <1>3, SinceIsBounded DEF Since, MaxSilence
<1>9. Heard(o) => Heard(o)'
  BY <1>0, <1>3, <1>7 DEF Heard, MaxSilence
<1>10. StartOk(p)' /\ StartOk(o)'
  <2>1. StartOk(p)'
    BY <1>3 DEF StartOk
  <2>2. StartOk(o)
    BY <1>0 DEF StartInv
  <2>3. status'[o] = status[o]
    BY <1>0, <1>6 DEF Apart, Untouched
  <2> QED BY <1>0, <1>3, <2>1, <2>2, <2>3 DEF StartOk, Alive, Hangs
<1>11. Justified(p)'
  BY <1>3 DEF Justified
<1> QED BY <1>0, <1>1, <1>2, <1>3, <1>5, <1>6, <1>7, <1>9, <1>10, <1>11, OneSide DEF Alive, Gone

LEMMA DeliverKeepsTimeout ==
  ASSUME TimeoutInv, NEW p \in Peer, Deliver(p)
  PROVE  TimeoutInv'
<1> USE DEF TimeoutInv
<1> DEFINE o == Other(p)
<1>0. o \in Peer /\ o # p /\ Other(o) = p /\ Other(p) = o /\ \A q \in Peer : q = p \/ q = o
  BY OtherIsPeer DEF Peer, Other
<1>1. Next
  BY DEF Next
<1>2. SendInv' /\ \A q \in Peer : Hangs(q) => Hangs(q)'
  BY <1>1, StepKeepsSend, HangsForGood DEF SendInv
<1>3. /\ UNCHANGED <<phase, since_now, since_send, send_timer, recv_timer, cut>>
      /\ in_flight[p] # <<>> /\ p \notin cut
      /\ in_flight'[p] = Tail(in_flight[p]) /\ in_flight'[o] = in_flight[o]
      /\ arrived'[p] = arrived[p] /\ status'[p] = status[p]
  BY <1>0 DEF Deliver, clocks, LinkOk, SendInv, Timers
<1>4. status[p] # "starting"
  BY <1>0, <1>3 DEF StartInv, StartOk
<1>5. LinkOk'
  <2>1. Tail(in_flight[p]) \in Queue
    BY <1>3, LinkOf, TailKeepsOrder
  <2> QED BY <1>0, <1>3, <2>1 DEF Deliver, LinkOk
<1>6. Since(o)' = Since(o) /\ Since(o) \in Nat
  BY <1>0, <1>3, SinceIsBounded DEF Since, MaxSilence
<1>7. Since(p)' \in Nat
  <2>1. since_send'[p] \in Nat
    BY <1>2 DEF SendInv, Timers
  <2>2. in_flight'[p] # <<>> => Head(in_flight'[p]) \in Nat
    <3>1. in_flight'[p] \in Seq(0..MaxDelay)
      BY <1>5 DEF LinkOk, Queue
    <3> QED BY <3>1, HeadTailProperties, ConstantsAreNat
  <2> QED BY <2>1, <2>2, ConstantsAreNat DEF Since, MaxSilence
<1>8. CASE status[o] = "starting"
  <2>1. status'[o] = "alive" /\ arrived'[o] = arrived[o] /\ StartOk(o)
    BY <1>0, <1>8 DEF Deliver, SendInv, Timers, StartInv
  <2>2. /\ in_flight[o] = <<>> /\ since_send[o] = 0 /\ recv_timer[o] = INACTIVITY_TIMEOUT
        /\ ~arrived[o] /\ ~arrived[p]
        /\ Alive(p) /\ ~Hangs(p) => recv_timer[p] + Head(in_flight[p]) >= INACTIVITY_TIMEOUT
    BY <1>0, <1>3, <1>8, <2>1 DEF StartOk
  <2>3. Heard(p)'
    <3>1. recv_timer'[o] + Since(p)' + MaxDelay >= INACTIVITY_TIMEOUT
      BY <1>3, <1>7, <2>2, ConstantsAreNat
    <3> QED BY <1>0, <2>1, <2>2, <3>1 DEF Heard
  <2>4. Hears(o)' => Heard(o)'
    <3>1. SUFFICES ASSUME Hears(o)' PROVE Heard(o)'
      OBVIOUS
    <3>2. Alive(p) /\ ~Hangs(p)
      BY <1>0, <1>2, <1>3, <3>1 DEF Hears, Alive
    <3>3. recv_timer[p] + MaxDelay >= INACTIVITY_TIMEOUT
      BY <1>0, <1>3, <2>2, <3>2, LinkOf, ConstantsAreNat
    <3>4. recv_timer'[p] + Since(o)' + MaxDelay >= INACTIVITY_TIMEOUT
      BY <1>0, <1>3, <1>6, <3>3, LinkOf, ConstantsAreNat
    <3> QED BY <1>0, <1>3, <2>2, <3>4 DEF Heard
  <2>5. HeardInv'
    BY <1>0, <2>3, <2>4 DEF HeardInv
  <2>6. StartInv'
    BY <1>0, <1>3, <1>4, <2>1 DEF StartInv, StartOk
  <2>7. \A q \in Peer : Justified(q)'
    <3>1. Justified(o)'
      BY <2>1 DEF Justified
    <3>2. Justified(p)'
      <4>1. Justified(p)
        OBVIOUS
      <4> QED BY <1>0, <1>2, <1>3, <1>8, <4>1 DEF Justified, Gone
    <3> QED BY <1>0, <3>1, <3>2
  <2> QED BY <1>2, <1>5, <2>5, <2>6, <2>7
<1>9. CASE status[o] # "starting"
  <2>1. status' = status /\ arrived'[o] = TRUE
    BY <1>0, <1>9 DEF Deliver, LinkOk
  <2>2. \A q \in Peer : Hears(q)' <=> Hears(q)
    BY <1>3, <2>1 DEF Hears, Alive, Hangs, Silent
  <2>3. Hears(p) => Heard(p)'
    <3>1. SUFFICES ASSUME Hears(p), phase[o] = "socket"
                   PROVE  recv_timer[o] + MaxSilence + 2 * MaxDelay + since_now[o] >= INACTIVITY_TIMEOUT
      BY <1>0, <1>3, <2>1 DEF Heard, MaxSilence
    <3>2. Heard(p)
      BY <3>1 DEF HeardInv
    <3>3. CASE arrived[o]
      BY <1>0, <3>1, <3>2, <3>3 DEF Heard
    <3>4. CASE ~arrived[o]
      <4>1. recv_timer[o] + Since(p) + MaxDelay >= INACTIVITY_TIMEOUT
        BY <1>0, <3>2, <3>4 DEF Heard
      <4>2. Since(p) \in Nat /\ Since(p) <= MaxSilence + MaxDelay
        BY <3>1, SinceIsBounded DEF Hears
      <4>3. since_now[o] \in Nat /\ recv_timer[o] \in Nat
        BY <1>0, LinkOf, TimersOf DEF SendInv
      <4> QED BY <4>1, <4>2, <4>3, ConstantsAreNat
    <3> QED BY <3>3, <3>4
  <2>4. Hears(o) => Heard(o)'
    BY <1>0, <1>3, <1>6 DEF HeardInv, Heard, MaxSilence
  <2>5. HeardInv'
    BY <1>0, <2>2, <2>3, <2>4 DEF HeardInv
  <2>6. StartInv'
    BY <1>0, <1>4, <1>9, <2>1 DEF StartInv, StartOk
  <2>7. \A q \in Peer : Justified(q)'
    BY <1>2, <1>3, <2>1, OtherIsPeer DEF Justified, Gone
  <2> QED BY <1>2, <1>5, <2>5, <2>6, <2>7
<1> QED BY <1>8, <1>9

LEMMA CutKeepsTimeout ==
  ASSUME TimeoutInv, NEW p \in Peer, Cut(p)
  PROVE  TimeoutInv'
<1> USE DEF TimeoutInv
<1>1. SendInv'
  BY StepKeepsSend DEF Next
<1>2. /\ UNCHANGED <<status, phase, since_now, since_send, send_timer, recv_timer, arrived>>
      /\ cut' = cut \union {p} /\ \A q \in Peer \ {p} : in_flight'[q] = in_flight[q]
      /\ in_flight'[p] = <<>>
  BY DEF Cut, clocks, LinkOk
<1>3. LinkOk'
  BY <1>2, EmptyIsQueue DEF Cut, LinkOk
<1>4. \A q \in Peer : (Hangs(q)' <=> Hangs(q)) /\ (Gone(q)' <=> Gone(q)) /\ (Alive(q)' <=> Alive(q))
  BY <1>2 DEF Hangs, Silent, Alive, Gone
<1>5. ASSUME NEW q \in Peer, Hears(q)' PROVE Heard(q)'
  <2>1. Hears(q) /\ q # p
    BY <1>2, <1>4, <1>5, OtherIsPeer DEF Hears
  <2>2. Since(q)' = Since(q)
    BY <1>2, <2>1 DEF Since, MaxSilence
  <2>3. Heard(q)
    BY <2>1 DEF HeardInv
  <2> QED BY <1>2, <2>2, <2>3 DEF Heard, MaxSilence
<1>6. ASSUME NEW q \in Peer PROVE StartOk(q)'
  <2>1. StartOk(q)
    BY DEF StartInv
  <2>2. CASE Other(q) \in cut'
    BY <1>2, <2>1, <2>2, OtherIsPeer DEF StartOk
  <2>3. CASE Other(q) \notin cut'
    <3>1. Other(q) # p /\ Other(q) \in Peer /\ Other(q) \notin cut
      BY <1>2, <2>3, OtherIsPeer
    <3> QED BY <1>2, <1>4, <2>1, <3>1 DEF StartOk
  <2> QED BY <2>2, <2>3
<1>7. \A q \in Peer : Justified(q)'
  BY <1>2, <1>4, OtherIsPeer DEF Justified
<1> QED BY <1>1, <1>3, <1>5, <1>6, <1>7 DEF HeardInv, StartInv

\* What a tick takes from a timer it adds to an age.
LEMMA TickKeepsSum ==
  ASSUME NEW left \in Nat, NEW left1 \in Nat, NEW age \in Nat, NEW total \in Nat,
         left1 >= left - 1, left + age >= total
  PROVE  left1 + (age + 1) >= total
OBVIOUS

\* With a tick what is left of the timer is one less at the most, and the last message one tick
\* older.
LEMMA TickKeepsTimeout ==
  ASSUME TimeoutInv, Tick
  PROVE  TimeoutInv'
<1> USE DEF TimeoutInv
<1>1. SendInv' /\ \A q \in Peer : Hangs(q) => Hangs(q)'
  BY StepKeepsSend, HangsForGood DEF Next, SendInv
<1>2. \A q \in Peer : /\ Aged(in_flight[q]) \in Queue /\ (Aged(in_flight[q]) = <<>> <=> in_flight[q] = <<>>)
                      /\ in_flight[q] # <<>> => Head(Aged(in_flight[q])) = Head(in_flight[q]) + 1
  BY TickKeepsOrder, LinkOf DEF Tick
<1>3. in_flight' = [q \in Peer |-> Aged(in_flight[q])]
  BY DEF Tick, Aged
<1>4. UNCHANGED <<status, phase, arrived, cut>>
  BY DEF Tick
<1>5. \A q \in Peer :
        /\ Counts(q) => /\ since_send'[q] = since_send[q] + 1
                        /\ InPoll(q) => since_now'[q] = since_now[q] + 1
                        /\ recv_timer'[q] = IF recv_timer[q] = 0 THEN 0 ELSE recv_timer[q] - 1
        /\ ~Counts(q) => since_send'[q] = since_send[q] /\ recv_timer'[q] = recv_timer[q]
  BY DEF Tick, Countdown
<1>6. \A q \in Peer : recv_timer'[q] \in 0..INACTIVITY_TIMEOUT
  BY <1>5, LinkOf, ConstantsAreNat
<1>7. LinkOk'
  <2>1. recv_timer' \in [Peer -> 0..INACTIVITY_TIMEOUT]
    BY <1>6 DEF Tick
  <2>2. in_flight' \in [Peer -> Queue] /\ \A q \in cut' : in_flight'[q] = <<>>
    BY <1>2, <1>3, <1>4 DEF LinkOk
  <2> QED BY <1>4, <2>1, <2>2 DEF LinkOk
<1>8. ASSUME NEW q \in Peer, Hears(q)' PROVE Heard(q)'
  <2> DEFINE o == Other(q)
  <2>1. o \in Peer /\ Hears(q) /\ Counts(q) /\ Counts(o) /\ Heard(q)
    BY <1>1, <1>4, <1>8, OtherIsPeer DEF Hears, HeardInv, Counts, Alive
  <2>2. recv_timer[o] \in Nat /\ recv_timer'[o] \in Nat /\ recv_timer'[o] >= recv_timer[o] - 1
    BY <1>5, <1>6, <2>1, LinkOf, ConstantsAreNat
  <2>3. CASE arrived[o]
    <3>1. SUFFICES ASSUME phase[o] = "socket"
                   PROVE  recv_timer'[o] + MaxSilence + 2 * MaxDelay + since_now'[o] >= INACTIVITY_TIMEOUT
      BY <1>4, <2>3 DEF Heard, MaxSilence
    <3>2. since_now'[o] = since_now[o] + 1 /\ since_now[o] \in Nat
      BY <1>5, <2>1, <3>1, TimersOf DEF InPoll, SendInv
    <3>3. recv_timer[o] + MaxSilence + 2 * MaxDelay + since_now[o] >= INACTIVITY_TIMEOUT
      BY <2>1, <2>3, <3>1 DEF Heard
    <3> QED BY <2>2, <3>2, <3>3, ConstantsAreNat
  <2>4. CASE ~arrived[o]
    <3>1. Since(q)' = Since(q) + 1 /\ Since(q) \in Nat
      BY <1>2, <1>3, <1>5, <2>1, SinceIsBounded, LinkOf, ConstantsAreNat DEF Since, MaxSilence
    <3>2. recv_timer[o] + Since(q) + MaxDelay >= INACTIVITY_TIMEOUT
      BY <2>1, <2>4 DEF Heard
    <3>3. recv_timer'[o] + Since(q)' + MaxDelay >= INACTIVITY_TIMEOUT
      BY <2>2, <3>1, <3>2, ConstantsAreNat
    <3> QED BY <1>4, <2>4, <3>3 DEF Heard
  <2> QED BY <2>3, <2>4
<1>9. ASSUME NEW q \in Peer, status[q] = "starting" PROVE StartOk(q)'
  <2> DEFINE o == Other(q)
  <2>1. o \in Peer /\ StartOk(q) /\ ~Counts(q)
    BY <1>9, OtherIsPeer DEF StartInv, Counts, Alive
  <2>2. /\ status[o] # "starting"
        /\ in_flight[q] = <<>> /\ since_send[q] = 0 /\ recv_timer[q] = INACTIVITY_TIMEOUT
        /\ ~arrived[q] /\ ~arrived[o]
    BY <1>9, <2>1 DEF StartOk
  <2>3. in_flight'[q] = <<>> /\ since_send'[q] = 0 /\ recv_timer'[q] = INACTIVITY_TIMEOUT
    BY <1>2, <1>3, <1>5, <2>1, <2>2
  <2>4. ASSUME Alive(o), o \notin cut, ~Hangs(o)'
        PROVE  in_flight'[o] # <<>> /\ recv_timer'[o] + Head(in_flight'[o]) >= INACTIVITY_TIMEOUT
    <3>1. ~Hangs(o) /\ Counts(o)
      BY <1>1, <2>1, <2>4 DEF Counts
    <3>2. in_flight[o] # <<>> /\ recv_timer[o] + Head(in_flight[o]) >= INACTIVITY_TIMEOUT
      BY <1>9, <2>1, <2>4, <3>1 DEF StartOk
    <3>3. in_flight'[o] # <<>> /\ Head(in_flight'[o]) = Head(in_flight[o]) + 1 /\ Head(in_flight[o]) \in Nat
      BY <1>2, <1>3, <2>1, <3>2, LinkOf
    <3>4. recv_timer[o] \in Nat /\ recv_timer'[o] \in Nat /\ recv_timer'[o] >= recv_timer[o] - 1
      BY <1>5, <1>6, <2>1, <3>1, LinkOf, ConstantsAreNat
    <3>5. recv_timer'[o] + (Head(in_flight[o]) + 1) >= INACTIVITY_TIMEOUT
      <4>1. INACTIVITY_TIMEOUT \in Nat
        BY ConstantsAreNat
      <4> HIDE DEF TimeoutInv, o
      <4> QED BY <3>2, <3>3, <3>4, <4>1, TickKeepsSum
    <3> QED BY <3>3, <3>5
  <2>5. in_flight'[o] # <<>> <=> in_flight[o] # <<>>
    BY <1>2, <1>3, <2>1
  <2>6. Alive(o) /\ o \notin cut => in_flight'[o] # <<>>
    BY <1>9, <2>1, <2>5 DEF StartOk
  <2> QED BY <1>4, <2>2, <2>3, <2>4, <2>6 DEF StartOk, Alive
<1>10. \A q \in Peer : StartOk(q)'
  BY <1>4, <1>9 DEF StartOk
<1>11. \A q \in Peer : Justified(q)'
  BY <1>1, <1>4, OtherIsPeer DEF Justified, Gone
<1> QED BY <1>1, <1>7, <1>8, <1>10, <1>11 DEF HeardInv, StartInv

LEMMA StepKeepsTimeout ==
  ASSUME TimeoutInv, [Next]_vars
  PROVE  TimeoutInv'
<1>1. CASE UNCHANGED vars
  <2>1. SendInv'
    BY StepKeepsSend DEF TimeoutInv
  <2> QED BY <1>1, <2>1 DEF vars, clocks, TimeoutInv, LinkOk, HeardInv, Hears, Heard, Since, StartInv,
                            StartOk, Justified, Alive, Gone, Hangs, Silent, MaxSilence
<1>2. CASE Next
  BY <1>2, SendDataKeepsTimeout, StartPollKeepsTimeout, HeartbeatTurnKeepsTimeout, ReadSocketKeepsTimeout,
     CheckInactivityKeepsTimeout, CloseKeepsTimeout, DeliverKeepsTimeout, CutKeepsTimeout, TickKeepsTimeout
     DEF Next, Poll
<1> QED BY <1>1, <1>2

\* No false alarm, for any period, delay, timeout and length of polls that leave room for each
\* other, although the second Peer is made a delay later: a Peer is given up as inactive only
\* if the link to it died, or never brought the message that makes it, or it is gone or hangs.
THEOREM NoFalseAlarm == Spec => []TimeoutIsJustified
<1>1. TimeoutInv => TimeoutIsJustified
  BY DEF TimeoutInv, Justified, TimeoutIsJustified
<1> QED BY <1>1, InitiallyTimeout, StepKeepsTimeout, PTL DEF Spec

\* The timers never exceed what they are set to, no poll that does not hang takes longer than
\* MaxPoll, and no message is on a link for longer than MaxDelay, for any constants that leave
\* room for each other.
THEOREM Typing == Spec => []TypeOK
<1>1. TimeoutInv => TypeOK
  <2>1. \A q \in Queue : q \in Seq(0..MaxDelay)
    BY DEF Queue
  <2> QED BY <2>1 DEF TimeoutInv, SendInv, Timers, LinkOk, TypeOK
<1> QED BY <1>1, InitiallyTimeout, StepKeepsTimeout, PTL DEF Spec
=============================================================================

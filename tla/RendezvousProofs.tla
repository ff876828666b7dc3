-------------------------- MODULE RendezvousProofs --------------------------
(* Proofs about Rendezvous, for any set of connections and number of calls. *)
EXTENDS Rendezvous, SequenceTheorems, TLAPS

-----------------------------------------------------------------------------
(* The operators *)

\* There are two sides, and each is the other's other.
LEMMA TwoSides ==
  /\ Hi \in Side /\ Lo \in Side /\ Hi # Lo
  /\ Other(Hi) = Lo /\ Other(Lo) = Hi
  /\ \A s \in Side : s = Hi \/ s = Lo
BY RendezvousAssumption DEF Side, Other

\* An update of one entry of a table of tables keeps its type.
LEMMA UpdateKeepsType ==
  ASSUME NEW S, NEW T, NEW V, NEW f \in [S -> [T -> V]], NEW s \in S, NEW t \in T, NEW v \in V
  PROVE  [f EXCEPT ![s][t] = v] \in [S -> [T -> V]]
OBVIOUS

\* What is left of a queue that is read, if there is something to read.
LEMMA TailKeepsType ==
  ASSUME NEW V, NEW q \in Seq(V), q # <<>>
  PROVE  Tail(q) \in Seq(V)
OBVIOUS

\* What a side says is a sequence of messages.
LEMMA SaysMessages ==
  ASSUME NEW s \in Side, NEW reply \in {<<>>, <<"Connect">>}
  PROVE  Says(s, reply) \in Seq(Messages)
<1>1. "Connect" \in Messages /\ "Choose" \in Messages
  BY DEF Messages
<1>2. <<>> \in Seq(Messages) /\ <<"Connect">> \in Seq(Messages)
  BY <1>1
<1>3. reply \in Seq(Messages)
  BY <1>2
<1>4. Append(reply, "Choose") \in Seq(Messages)
  BY <1>1, <1>3
<1> QED BY <1>3, <1>4 DEF Says

\* A connection is sent messages, or nothing when it is cut.
LEMMA SentKeepsType ==
  ASSUME wire \in [Side -> [Conns -> Seq(Messages)]],
         NEW s \in Side, NEW c \in Conns, NEW msgs \in Seq(Messages)
  PROVE  Sent(s, c, msgs) \in Seq(Messages)
BY DEF Sent

\* Releasing and choosing leave every end in one of its states.
LEMMA ReleasedKeepsType ==
  ASSUME end \in [Side -> [Conns -> EndStates]], NEW s \in Side
  PROVE  Released(s) \in [Conns -> EndStates]
BY DEF Released, EndStates

\* Releasing all and choosing one is typed too.
LEMMA ChooseKeepsType ==
  ASSUME TypeOK, NEW s \in Side, NEW c \in Conns, Choose(s, c)
  PROVE  /\ call' \in [Side -> {"idle", "running", "connected", "failed"}]
         /\ chosen' \in [Side -> SUBSET Conns]
         /\ end' \in [Side -> [Conns -> EndStates]]
<1>1. Released(s) \in [Conns -> EndStates]
  BY ReleasedKeepsType DEF TypeOK
<1>2. [Released(s) EXCEPT ![c] = "chosen"] \in [Conns -> EndStates]
  BY <1>1 DEF EndStates
<1> QED BY <1>2 DEF Choose, TypeOK

\* A connection on which Connect has been exchanged keeps all types.
LEMMA EstablishKeepsType ==
  ASSUME TypeOK, NEW s \in Side, NEW c \in Conns, NEW reply \in {<<>>, <<"Connect">>},
         reply = <<>> => Arrived(s, c) # <<>>, Establish(s, c, reply), UNCHANGED <<name_hash, calls, cut>>, calm' \in BOOLEAN
  PROVE  TypeOK'
<1>1. wire' \in [Side -> [Conns -> Seq(Messages)]]
  <2>1. wire \in [Side -> [Conns -> Seq(Messages)]]
    BY DEF TypeOK
  <2>2. Sent(s, c, Says(s, reply)) \in Seq(Messages)
    BY <2>1, SaysMessages, SentKeepsType
  <2>3. ASSUME NEW t \in Side, t # s
        PROVE  (IF reply = <<>> THEN Tail(wire[t][c]) ELSE wire[t][c]) \in Seq(Messages)
    <3>1. t = Other(s)
      BY <2>3, TwoSides
    <3>2. reply = <<>> => wire[t][c] # <<>>
      BY <3>1 DEF Arrived
    <3>3. wire[t][c] \in Seq(Messages)
      BY <2>1
    <3> QED BY <3>2, <3>3, TailKeepsType
  <2> QED BY <2>1, <2>2, <2>3 DEF Establish
<1>2. CASE Chooses(s)
  BY <1>1, <1>2, ChooseKeepsType DEF Establish, TypeOK
<1>3. CASE ~Chooses(s)
  <2>1. "candidate" \in EndStates
    BY DEF EndStates
  <2>2. end' = [end EXCEPT ![s][c] = "candidate"]
    BY <1>3 DEF Establish
  <2>3. end \in [Side -> [Conns -> EndStates]]
    BY DEF TypeOK
  <2>4. end' \in [Side -> [Conns -> EndStates]]
    BY <2>1, <2>2, <2>3, UpdateKeepsType
  <2> QED BY <1>1, <1>3, <2>4 DEF Establish, TypeOK
<1> QED BY <1>2, <1>3

-----------------------------------------------------------------------------
\* The state keeps its types.
THEOREM Typing == Spec => []TypeOK
<1>1. Init => TypeOK
  BY RendezvousAssumption DEF Init, TypeOK, EndStates
<1>2. TypeOK /\ [Next]_vars => TypeOK'
  <2> SUFFICES ASSUME TypeOK, [Next]_vars PROVE TypeOK'
    OBVIOUS
  <2>0. calm' \in BOOLEAN
    BY DEF Next, vars, TypeOK
  <2> USE <2>0
  <2>1. ASSUME NEW s \in Side, NEW c \in Conns, Close(s, c),
               UNCHANGED <<name_hash, call, calls, chosen, wire, cut>>
        PROVE  TypeOK'
    <3>1. "closed" \in EndStates
      BY DEF EndStates
    <3> QED BY <2>1, <3>1, UpdateKeepsType DEF Close, TypeOK
  <2>2. ASSUME NEW s \in Side, Start(s) PROVE TypeOK'
    BY <2>2, RendezvousAssumption DEF Start, TypeOK
  <2>3. ASSUME NEW c \in Conns, OpenPunched(c) PROVE TypeOK'
    <3>1. "waiting" \in EndStates /\ <<"Connect">> \in Seq(Messages)
      BY DEF EndStates, Messages
    <3> QED BY <2>3, <3>1 DEF OpenPunched, TypeOK
  <2>4. ASSUME NEW c \in Conns, ReadChoice(c) PROVE TypeOK'
    <3>1. wire[Hi][c] # <<>>
      BY <2>4, TwoSides DEF ReadChoice, Arrived
    <3>2. Tail(wire[Hi][c]) \in Seq(Messages)
      BY <3>1, TwoSides, TailKeepsType DEF TypeOK
    <3>3. wire' \in [Side -> [Conns -> Seq(Messages)]]
      BY <2>4, <3>2, TwoSides, UpdateKeepsType DEF ReadChoice, TypeOK
    <3>4. CASE Head(Arrived(Lo, c)) = "Choose"
      BY <2>4, <3>3, <3>4, ChooseKeepsType, TwoSides DEF ReadChoice, TypeOK
    <3>5. CASE Head(Arrived(Lo, c)) # "Choose"
      <4>1. "closed" \in EndStates
        BY DEF EndStates
      <4>2. end' = [end EXCEPT ![Lo][c] = "closed"]
        BY <2>4, <3>5 DEF ReadChoice, Close
      <4>3. end \in [Side -> [Conns -> EndStates]] /\ Lo \in Side
        BY TwoSides DEF TypeOK
      <4>4. end' \in [Side -> [Conns -> EndStates]]
        BY <4>1, <4>2, <4>3, UpdateKeepsType
      <4> QED BY <2>4, <3>3, <3>5, <4>4 DEF ReadChoice, TypeOK
    <3> QED BY <3>4, <3>5
  <2>5. ASSUME NEW s \in Side, NEW c \in Conns, OpenDirect(s, c) PROVE TypeOK'
    <3>1. "waiting" \in EndStates /\ "demux" \in EndStates /\ <<"Connect">> \in Seq(Messages)
      BY DEF EndStates, Messages
    <3>2. Other(s) \in Side
      BY TwoSides
    <3>3. [end EXCEPT ![s][c] = "waiting"] \in [Side -> [Conns -> EndStates]]
      BY <3>1, UpdateKeepsType DEF TypeOK
    <3>4. end' \in [Side -> [Conns -> EndStates]]
      BY <2>5, <3>1, <3>2, <3>3, UpdateKeepsType DEF OpenDirect
    <3>5. wire' \in [Side -> [Conns -> Seq(Messages)]]
      BY <2>5, <3>1, UpdateKeepsType DEF OpenDirect, TypeOK
    <3> QED BY <2>5, <3>4, <3>5 DEF OpenDirect, TypeOK
  <2>6. ASSUME NEW s \in Side, NEW c \in Conns, ReadReply(s, c) PROVE TypeOK'
    <3>1. CASE Head(Arrived(s, c)) = "Connect" /\ Valid(s)
      BY <2>6, <3>1, EstablishKeepsType DEF ReadReply
    <3>2. CASE ~(Head(Arrived(s, c)) = "Connect" /\ Valid(s))
      BY <2>1, <2>6, <3>2 DEF ReadReply
    <3> QED BY <3>1, <3>2
  <2>7. ASSUME NEW s \in Side, NEW c \in Conns, DemuxRead(s, c) PROVE TypeOK'
    <3>1. "routed" \in EndStates /\ "closed" \in EndStates
      BY DEF EndStates
    <3>2. Other(s) \in Side
      BY TwoSides
    <3>3. Tail(wire[Other(s)][c]) \in Seq(Messages)
      BY <2>7, <3>2, TailKeepsType DEF DemuxRead, Arrived, TypeOK
    <3>4. wire' \in [Side -> [Conns -> Seq(Messages)]]
      BY <2>7, <3>2, <3>3, UpdateKeepsType DEF DemuxRead, TypeOK
    <3>5. end' \in [Side -> [Conns -> EndStates]]
      BY <2>7, <3>1, UpdateKeepsType DEF DemuxRead, TypeOK
    <3> QED BY <2>7, <3>4, <3>5 DEF DemuxRead, TypeOK
  <2>8. ASSUME NEW s \in Side, NEW c \in Conns, TakeRouted(s, c) PROVE TypeOK'
    <3>1. CASE Valid(s)
      BY <2>8, <3>1, EstablishKeepsType DEF TakeRouted
    <3>2. CASE ~Valid(s)
      BY <2>1, <2>8, <3>2 DEF TakeRouted
    <3> QED BY <3>1, <3>2
  <2>9. ASSUME NEW s \in Side, NEW c \in Conns,
               ReadEnd(s, c) \/ ReplyTimeout(s, c) \/ DemuxTimeout(s, c)
        PROVE  TypeOK'
    BY <2>1, <2>9 DEF ReadEnd, ReplyTimeout, DemuxTimeout
  <2>10. ASSUME NEW s \in Side, CallTimeout(s) PROVE TypeOK'
    <3>1. Released(s) \in [Conns -> EndStates]
      BY ReleasedKeepsType DEF TypeOK
    <3> QED BY <2>10, <3>1 DEF CallTimeout, TypeOK
  <2>11. ASSUME NEW c \in Conns, Cut(c) PROVE TypeOK'
    BY <2>11 DEF Cut, TypeOK
  <2>12. CASE UNCHANGED vars
    BY <2>12 DEF vars, TypeOK
  <2> QED
    BY <2>2, <2>3, <2>4, <2>5, <2>6, <2>7, <2>8, <2>9, <2>10, <2>11, <2>12
    DEF Next, Progress, Failure
<1> QED BY <1>1, <1>2, PTL DEF Spec

-----------------------------------------------------------------------------
(* The ends of the connections *)

\* What a call has in hand is dropped with it.
HeldByCall == \A s \in Side, c \in Conns : end[s][c] \in Held => call[s] = "running"

\* The connections a Peer was made of are those whose end says so.
ChosenEnds == \A s \in Side, c \in Conns : end[s][c] = "chosen" <=> c \in chosen[s]

\* A connection is opened on both sides at once.
OpenTogether == \A s \in Side, c \in Conns : end[s][c] = "idle" <=> end[Other(s)][c] = "idle"

EndsInv == HeldByCall /\ ChosenEnds /\ OpenTogether

\* A step on one connection that keeps the calls: the end it changes neither opens a
\* connection nor makes a Peer, and it is held only by a running call.
LEMMA OneEndChanges ==
  ASSUME TypeOK, EndsInv, NEW s \in Side, NEW c \in Conns, NEW e \in EndStates \ {"idle", "chosen"},
         end[s][c] \notin {"idle", "chosen"}, e \in Held => call[s] = "running",
         end' = [end EXCEPT ![s][c] = e], UNCHANGED <<call, chosen>>
  PROVE  EndsInv'
<1>1. \A t \in Side, d \in Conns : end'[t][d] = IF t = s /\ d = c THEN e ELSE end[t][d]
  BY DEF TypeOK
<1>2. HeldByCall'
  BY <1>1 DEF EndsInv, HeldByCall
<1>3. ChosenEnds'
  BY <1>1 DEF EndsInv, ChosenEnds
<1>4. OpenTogether'
  <2> SUFFICES ASSUME NEW t \in Side, NEW d \in Conns
               PROVE  end'[t][d] = "idle" <=> end'[Other(t)][d] = "idle"
    BY DEF OpenTogether
  <2>1. Other(t) \in Side /\ (end[t][d] = "idle" <=> end[Other(t)][d] = "idle")
    BY TwoSides DEF EndsInv, OpenTogether
  <2>2. \A u \in Side : end'[u][d] = "idle" <=> end[u][d] = "idle"
    BY <1>1
  <2> QED BY <2>1, <2>2
<1> QED BY <1>2, <1>3, <1>4 DEF EndsInv

\* Releasing takes away what is held and nothing else.
LEMMA ReleasedEnds ==
  ASSUME TypeOK, NEW s \in Side, NEW c \in Conns
  PROVE  /\ Released(s)[c] \notin Held
         /\ Released(s)[c] = "chosen" <=> end[s][c] = "chosen"
         /\ Released(s)[c] = "idle" <=> end[s][c] = "idle"
BY DEF Released, Held, TypeOK

\* A side's call ends, with a Peer of a connection that was open or with none.
LEMMA CallEnds ==
  ASSUME TypeOK, EndsInv, NEW s \in Side, NEW peers \in SUBSET Conns, NEW outcome, NEW ends,
         \A c \in peers : end[s][c] # "idle",
         \A c \in Conns : ends[c] = IF c \in peers THEN "chosen" ELSE Released(s)[c],
         call' = [call EXCEPT ![s] = outcome],
         end' = [end EXCEPT ![s] = ends],
         chosen' = [chosen EXCEPT ![s] = @ \union peers]
  PROVE  EndsInv'
<1>1. \A t \in Side \ {s} : end'[t] = end[t] /\ call'[t] = call[t] /\ chosen'[t] = chosen[t]
  BY DEF TypeOK
<1>2. chosen'[s] = chosen[s] \union peers /\ end'[s] = ends
  BY DEF TypeOK
<1>3. \A c \in Conns : end'[s][c] \notin Held
  BY <1>2, ReleasedEnds DEF Held
<1>4. \A t \in Side, c \in Conns : end'[t][c] = "idle" <=> end[t][c] = "idle"
  BY <1>1, <1>2, ReleasedEnds
<1>5. HeldByCall'
  BY <1>1, <1>3 DEF EndsInv, HeldByCall
<1>6. ChosenEnds'
  <2>1. \A c \in Conns : end'[s][c] = "chosen" <=> c \in chosen'[s]
    BY <1>2, ReleasedEnds DEF EndsInv, ChosenEnds
  <2> QED BY <1>1, <2>1 DEF EndsInv, ChosenEnds
<1>7. OpenTogether'
  <2> SUFFICES ASSUME NEW t \in Side, NEW d \in Conns
               PROVE  end'[t][d] = "idle" <=> end'[Other(t)][d] = "idle"
    BY DEF OpenTogether
  <2>1. Other(t) \in Side /\ (end[t][d] = "idle" <=> end[Other(t)][d] = "idle")
    BY TwoSides DEF EndsInv, OpenTogether
  <2> QED BY <1>4, <2>1
<1> QED BY <1>5, <1>6, <1>7 DEF EndsInv

\* A Peer is made of an open connection, and its call is over.
LEMMA ChooseKeepsEnds ==
  ASSUME TypeOK, EndsInv, NEW s \in Side, NEW c \in Conns, end[s][c] # "idle", Choose(s, c)
  PROVE  EndsInv'
<1>1. Released(s) \in [Conns -> EndStates]
  BY ReleasedKeepsType DEF TypeOK
<1> DEFINE ends == [Released(s) EXCEPT ![c] = "chosen"]
<1>2. \A d \in Conns : ends[d] = IF d \in {c} THEN "chosen" ELSE Released(s)[d]
  BY <1>1
<1>3. /\ call' = [call EXCEPT ![s] = "connected"]
      /\ end' = [end EXCEPT ![s] = ends]
      /\ chosen' = [chosen EXCEPT ![s] = @ \union {c}]
  BY DEF Choose
<1>4. {c} \in SUBSET Conns /\ \A d \in {c} : end[s][d] # "idle"
  OBVIOUS
<1> HIDE DEF ends
<1> QED BY <1>2, <1>3, <1>4, CallEnds

\* So is one on which Connect has been exchanged, or the choice is awaited on it.
LEMMA EstablishKeepsEnds ==
  ASSUME TypeOK, EndsInv, NEW s \in Side, NEW c \in Conns, NEW reply,
         end[s][c] \in {"waiting", "routed"}, Establish(s, c, reply)
  PROVE  EndsInv'
<1>1. end[s][c] \notin {"idle", "chosen"} /\ call[s] = "running"
  BY DEF EndsInv, HeldByCall, Held
<1>2. "candidate" \in EndStates \ {"idle", "chosen"}
  BY DEF EndStates
<1>3. CASE Chooses(s)
  BY <1>1, <1>3, ChooseKeepsEnds DEF Establish
<1>4. CASE ~Chooses(s)
  BY <1>1, <1>2, <1>4, OneEndChanges DEF Establish
<1> QED BY <1>3, <1>4

\* The connections keep to their ends at every step.
LEMMA StepKeepsEnds ==
  TypeOK /\ EndsInv /\ [Next]_vars => EndsInv'
<1> SUFFICES ASSUME TypeOK, EndsInv, [Next]_vars PROVE EndsInv'
  OBVIOUS
<1>1. ASSUME NEW s \in Side, NEW c \in Conns, Close(s, c), end[s][c] \notin {"idle", "chosen"},
             UNCHANGED <<call, chosen>>
      PROVE  EndsInv'
  <2>1. "closed" \in EndStates \ {"idle", "chosen"} /\ "closed" \notin Held
    BY DEF EndStates, Held
  <2> QED BY <1>1, <2>1, OneEndChanges DEF Close
<1>2. ASSUME NEW s \in Side, Start(s) PROVE EndsInv'
  BY <1>2 DEF Start, EndsInv, HeldByCall, ChosenEnds, OpenTogether, TypeOK
<1>3. ASSUME NEW s \in Side, NEW c \in Conns, OpenDirect(s, c) PROVE EndsInv'
  <2>1. Other(s) \in Side /\ Other(s) # s /\ Other(Other(s)) = s
    BY TwoSides
  <2>2. end[s][c] = "idle" /\ end[Other(s)][c] = "idle" /\ call[s] = "running"
    BY <1>3, <2>1 DEF OpenDirect, EndsInv, OpenTogether
  <2>3. \A t \in Side, d \in Conns :
          end'[t][d] = IF d # c THEN end[t][d] ELSE IF t = s THEN "waiting" ELSE "demux"
    BY <1>3, <2>1, TwoSides DEF OpenDirect, TypeOK
  <2>4. c \notin chosen[s] /\ c \notin chosen[Other(s)]
    BY <2>1, <2>2 DEF EndsInv, ChosenEnds
  <2>5. HeldByCall'
    BY <1>3, <2>2, <2>3 DEF OpenDirect, EndsInv, HeldByCall, Held
  <2>6. ChosenEnds'
    <3>1. UNCHANGED chosen
      BY <1>3 DEF OpenDirect
    <3>2. \A t \in Side : c \notin chosen[t]
      BY <2>4, TwoSides DEF Other
    <3> QED BY <2>3, <3>1, <3>2 DEF EndsInv, ChosenEnds
  <2>7. OpenTogether'
    BY <2>3, TwoSides DEF EndsInv, OpenTogether
  <2> QED BY <2>5, <2>6, <2>7 DEF EndsInv
<1>4. ASSUME NEW c \in Conns, OpenPunched(c) PROVE EndsInv'
  <2>1. \A t \in Side, d \in Conns : end'[t][d] = IF d = c THEN "waiting" ELSE end[t][d]
    BY <1>4 DEF OpenPunched, TypeOK
  <2>2. \A t \in Side : call[t] = "running" /\ c \notin chosen[t]
    BY <1>4 DEF OpenPunched, EndsInv, ChosenEnds
  <2>3. HeldByCall'
    BY <1>4, <2>1, <2>2 DEF OpenPunched, EndsInv, HeldByCall
  <2>4. ChosenEnds'
    BY <1>4, <2>1, <2>2 DEF OpenPunched, EndsInv, ChosenEnds
  <2>5. OpenTogether'
    BY <2>1, TwoSides DEF EndsInv, OpenTogether
  <2> QED BY <2>3, <2>4, <2>5 DEF EndsInv
<1>5. ASSUME NEW s \in Side, NEW c \in Conns, ReadReply(s, c) PROVE EndsInv'
  BY <1>1, <1>5, EstablishKeepsEnds DEF ReadReply
<1>6. ASSUME NEW s \in Side, NEW c \in Conns, DemuxRead(s, c) PROVE EndsInv'
  <2> DEFINE e == IF call[s] = "running" THEN "routed" ELSE "closed"
  <2>1. e \in EndStates \ {"idle", "chosen"} /\ (e \in Held => call[s] = "running")
    BY DEF EndStates, Held
  <2>2. end' = [end EXCEPT ![s][c] = e] /\ end[s][c] \notin {"idle", "chosen"}
        /\ UNCHANGED <<call, chosen>>
    BY <1>6 DEF DemuxRead
  <2> QED BY <2>1, <2>2, OneEndChanges
<1>7. ASSUME NEW s \in Side, NEW c \in Conns, TakeRouted(s, c) PROVE EndsInv'
  BY <1>1, <1>7, EstablishKeepsEnds DEF TakeRouted
<1>8. ASSUME NEW c \in Conns, ReadChoice(c) PROVE EndsInv'
  BY <1>1, <1>8, ChooseKeepsEnds, TwoSides DEF ReadChoice
<1>9. ASSUME NEW s \in Side, NEW c \in Conns,
             ReadEnd(s, c) \/ ReplyTimeout(s, c) \/ DemuxTimeout(s, c)
      PROVE  EndsInv'
  BY <1>1, <1>9 DEF ReadEnd, ReplyTimeout, DemuxTimeout
<1>10. ASSUME NEW s \in Side, CallTimeout(s) PROVE EndsInv'
  <2>1. /\ call' = [call EXCEPT ![s] = "failed"]
        /\ end' = [end EXCEPT ![s] = Released(s)]
        /\ chosen' = [chosen EXCEPT ![s] = @ \union {}]
    BY <1>10 DEF CallTimeout, TypeOK
  <2>2. {} \in SUBSET Conns /\ \A c \in {} : end[s][c] # "idle"
    OBVIOUS
  <2>3. \A c \in Conns : Released(s)[c] = IF c \in {} THEN "chosen" ELSE Released(s)[c]
    OBVIOUS
  <2> QED BY <2>1, <2>2, <2>3, CallEnds
<1>11. ASSUME NEW c \in Conns, Cut(c) PROVE EndsInv'
  BY <1>11 DEF Cut, EndsInv, HeldByCall, ChosenEnds, OpenTogether
<1>12. CASE UNCHANGED vars
  BY <1>12 DEF vars, EndsInv, HeldByCall, ChosenEnds, OpenTogether
<1> QED
  BY <1>2, <1>3, <1>4, <1>5, <1>6, <1>7, <1>8, <1>9, <1>10, <1>11, <1>12
  DEF Next, Progress, Failure

\* No connection is open at first.
LEMMA InitiallyNoEnds == Init => EndsInv
<1> SUFFICES ASSUME Init PROVE EndsInv
  OBVIOUS
<1>1. \A s \in Side : chosen[s] = {} /\ \A c \in Conns : end[s][c] = "idle"
  BY DEF Init
<1>2. \A s \in Side : Other(s) \in Side
  BY TwoSides
<1> QED BY <1>1, <1>2 DEF EndsInv, HeldByCall, ChosenEnds, OpenTogether, Held

\* A call that is over leaves no connection open but those it made a Peer of.
THEOREM CallsTidyUp == Spec => []NothingLeaks
<1>1. TypeOK /\ EndsInv => NothingLeaks
  BY DEF TypeOK, EndsInv, HeldByCall, ChosenEnds, NothingLeaks, EndStates, Held
<1> QED BY <1>1, Typing, InitiallyNoEnds, StepKeepsEnds, PTL DEF Spec

-----------------------------------------------------------------------------
(* Agreement *)

\* The higher side has told the lower to choose c, and the lower has not read it.
Announced(c) == \E i \in 1..Len(wire[Hi][c]) : wire[Hi][c][i] = "Choose"

\* Why the sides agree: what is announced has been chosen already.
ChoiceIsMade == \A c \in Conns : Announced(c) => c \in chosen[Hi]

AgreementInv == ChoiceIsMade /\ Agreement /\ SameNetworkOnly

\* The queue's tail announces nothing the queue does not.
LEMMA TailAnnounces ==
  ASSUME NEW q \in Seq(Messages), q # <<>>, NEW i \in 1..Len(Tail(q)), Tail(q)[i] = "Choose"
  PROVE  \E j \in 1..Len(q) : q[j] = "Choose"
<1>1. Len(Tail(q)) = Len(q) - 1 /\ Len(q) \in Nat
  OBVIOUS
<1>2. i + 1 \in 1..Len(q) /\ q[i + 1] = Tail(q)[i]
  BY <1>1
<1> QED BY <1>2

\* A step that makes no Peer and announces nothing new.
LEMMA NothingChosen ==
  ASSUME AgreementInv, UNCHANGED <<name_hash, chosen>>,
         \A c \in Conns : Announced(c)' => Announced(c)
  PROVE  AgreementInv'
<1>1. ChoiceIsMade'
  BY DEF AgreementInv, ChoiceIsMade
<1>2. Agreement' /\ SameNetworkOnly'
  BY DEF AgreementInv, Agreement, SameNetworkOnly
<1> QED BY <1>1, <1>2 DEF AgreementInv

\* A step that only reads what the higher side says on c announces nothing.
LEMMA ReadAnnouncesNothing ==
  ASSUME TypeOK, NEW c \in Conns, wire[Hi][c] # <<>>,
         \A d \in Conns : wire'[Hi][d] = IF d = c THEN Tail(wire[Hi][d]) ELSE wire[Hi][d]
  PROVE  \A d \in Conns : Announced(d)' => Announced(d)
<1> SUFFICES ASSUME NEW d \in Conns, Announced(d)' PROVE Announced(d)
  OBVIOUS
<1>1. CASE d = c
  <2>1. wire[Hi][c] \in Seq(Messages)
    BY TwoSides DEF TypeOK
  <2>2. wire'[Hi][c] = Tail(wire[Hi][c])
    OBVIOUS
  <2>3. PICK i \in 1..Len(wire'[Hi][c]) : wire'[Hi][c][i] = "Choose"
    BY <1>1 DEF Announced
  <2> QED BY <1>1, <2>1, <2>2, <2>3, TailAnnounces DEF Announced
<1>2. CASE d # c
  BY <1>2 DEF Announced
<1> QED BY <1>1, <1>2

\* The higher side announces the connection it chooses, the lower side none.
LEMMA EstablishKeepsAgreement ==
  ASSUME TypeOK, AgreementInv, NEW s \in Side, NEW c \in Conns, NEW reply \in {<<>>, <<"Connect">>},
         reply = <<>> => Arrived(s, c) # <<>>, Establish(s, c, reply), Valid(s), UNCHANGED name_hash
  PROVE  AgreementInv'
<1>1. name_hash[Hi] = name_hash[Lo]
  BY TwoSides DEF Valid
<1>2. CASE s = Hi
  <2>1. chosen' = [chosen EXCEPT ![Hi] = @ \union {c}]
    BY <1>2 DEF Establish, Chooses, Choose
  <2>2. chosen'[Hi] = chosen[Hi] \union {c} /\ chosen'[Lo] = chosen[Lo]
    BY <2>1, TwoSides DEF TypeOK
  <2>3. ASSUME NEW d \in Conns, Announced(d)' PROVE d \in chosen'[Hi]
    <3>1. CASE d = c
      BY <2>2, <3>1
    <3>2. CASE d # c
      <4>1. wire'[Hi][d] = wire[Hi][d]
        BY <1>2, <3>2, TwoSides DEF Establish, TypeOK
      <4>2. Announced(d)
        BY <2>3, <4>1 DEF Announced
      <4> QED BY <2>2, <4>2 DEF AgreementInv, ChoiceIsMade
    <3> QED BY <3>1, <3>2
  <2>4. ChoiceIsMade'
    BY <2>3 DEF ChoiceIsMade
  <2>5. Agreement'
    BY <2>2 DEF AgreementInv, Agreement
  <2>6. SameNetworkOnly'
    BY <1>1 DEF SameNetworkOnly
  <2> QED BY <2>4, <2>5, <2>6 DEF AgreementInv
<1>3. CASE s = Lo
  <2>1. UNCHANGED chosen
    BY <1>3, TwoSides DEF Establish, Chooses
  <2>2. \A d \in Conns : wire'[Hi][d] = IF d = c /\ reply = <<>> THEN Tail(wire[Hi][d])
                                        ELSE wire[Hi][d]
    BY <1>3, TwoSides DEF Establish, TypeOK
  <2>3. CASE reply = <<>>
    <3>1. wire[Hi][c] # <<>>
      BY <1>3, <2>3, TwoSides DEF Arrived
    <3>2. \A d \in Conns : Announced(d)' => Announced(d)
      BY <2>2, <2>3, <3>1, ReadAnnouncesNothing
    <3> QED BY <2>1, <3>2, NothingChosen
  <2>4. CASE reply # <<>>
    <3>1. \A d \in Conns : Announced(d)' => Announced(d)
      BY <2>2, <2>4 DEF Announced
    <3> QED BY <2>1, <3>1, NothingChosen
  <2> QED BY <2>3, <2>4
<1> QED BY <1>2, <1>3, TwoSides

\* A step that leaves the higher side's wires alone and makes no Peer.
LEMMA QuietKeepsAgreement ==
  ASSUME AgreementInv, UNCHANGED <<name_hash, chosen>>, wire'[Hi] = wire[Hi]
  PROVE  AgreementInv'
<1>1. \A c \in Conns : Announced(c)' => Announced(c)
  BY DEF Announced
<1> QED BY <1>1, NothingChosen

\* A Connect on a wire that was read empty announces nothing.
LEMMA ConnectAnnouncesNothing ==
  ASSUME TypeOK, AgreementInv, UNCHANGED <<name_hash, chosen>>,
         \A c \in Conns : wire'[Hi][c] \in {wire[Hi][c], <<>>, <<"Connect">>}
  PROVE  AgreementInv'
<1>1. ASSUME NEW c \in Conns, Announced(c)' PROVE Announced(c)
  <2>1. CASE wire'[Hi][c] = wire[Hi][c]
    BY <1>1, <2>1 DEF Announced
  <2>2. CASE wire'[Hi][c] = <<>>
    BY <1>1, <2>2 DEF Announced
  <2>3. CASE wire'[Hi][c] = <<"Connect">>
    BY <1>1, <2>3 DEF Announced
  <2> QED BY <2>1, <2>2, <2>3
<1> QED BY <1>1, NothingChosen

\* The lower side chooses what it has been told to, and that has been chosen.
LEMMA ReadChoiceKeepsAgreement ==
  ASSUME TypeOK, AgreementInv, NEW c \in Conns, ReadChoice(c)
  PROVE  AgreementInv'
<1>1. wire[Hi][c] # <<>> /\ wire[Hi][c] \in Seq(Messages) /\ UNCHANGED name_hash
  BY TwoSides DEF ReadChoice, Arrived, TypeOK
<1>2. wire' = [wire EXCEPT ![Hi][c] = Tail(@)]
  BY DEF ReadChoice
<1>3. \A d \in Conns : wire'[Hi][d] = IF d = c THEN Tail(wire[Hi][d]) ELSE wire[Hi][d]
  BY <1>2, TwoSides DEF TypeOK
<1>4. \A d \in Conns : Announced(d)' => Announced(d)
  BY <1>1, <1>3, ReadAnnouncesNothing
<1>5. CASE Head(Arrived(Lo, c)) = "Choose"
  <2>1. wire[Hi][c][1] = "Choose" /\ 1 \in 1..Len(wire[Hi][c])
    BY <1>1, <1>5, TwoSides DEF Arrived
  <2>2. c \in chosen[Hi]
    BY <2>1 DEF Announced, AgreementInv, ChoiceIsMade
  <2>3. chosen' = [chosen EXCEPT ![Lo] = @ \union {c}]
    BY <1>5 DEF ReadChoice, Choose
  <2>4. chosen'[Lo] = chosen[Lo] \union {c} /\ chosen'[Hi] = chosen[Hi]
    BY <2>3, TwoSides DEF TypeOK
  <2>5. ChoiceIsMade'
    BY <1>4, <2>4 DEF AgreementInv, ChoiceIsMade
  <2>6. Agreement'
    BY <2>2, <2>4 DEF AgreementInv, Agreement
  <2>7. SameNetworkOnly'
    BY <1>1, <2>2, TwoSides DEF AgreementInv, SameNetworkOnly
  <2> QED BY <2>5, <2>6, <2>7 DEF AgreementInv
<1>6. CASE Head(Arrived(Lo, c)) # "Choose"
  <2>1. UNCHANGED chosen
    BY <1>6 DEF ReadChoice
  <2> QED BY <1>1, <1>4, <2>1, NothingChosen
<1> QED BY <1>5, <1>6

\* A step of any kind.
LEMMA StepKeepsAgreement ==
  TypeOK /\ AgreementInv /\ [Next]_vars => AgreementInv'
<1> SUFFICES ASSUME TypeOK, AgreementInv, [Next]_vars PROVE AgreementInv'
  OBVIOUS
<1>1. ASSUME NEW s \in Side, Start(s) PROVE AgreementInv'
  BY <1>1, QuietKeepsAgreement DEF Start
<1>2. ASSUME NEW s \in Side, NEW c \in Conns, OpenDirect(s, c) PROVE AgreementInv'
  <2>1. wire' = [wire EXCEPT ![s][c] = <<"Connect">>] /\ UNCHANGED <<name_hash, chosen>>
    BY <1>2 DEF OpenDirect
  <2>2. \A d \in Conns : wire'[Hi][d] \in {wire[Hi][d], <<>>, <<"Connect">>}
    BY <2>1, TwoSides DEF TypeOK
  <2> QED BY <2>1, <2>2, ConnectAnnouncesNothing
<1>3. ASSUME NEW c \in Conns, OpenPunched(c) PROVE AgreementInv'
  <2>1. wire' = [s \in Side |-> [wire[s] EXCEPT ![c] = <<"Connect">>]]
        /\ UNCHANGED <<name_hash, chosen>>
    BY <1>3 DEF OpenPunched
  <2>2. \A d \in Conns : wire'[Hi][d] \in {wire[Hi][d], <<>>, <<"Connect">>}
    BY <2>1, TwoSides DEF TypeOK
  <2> QED BY <2>1, <2>2, ConnectAnnouncesNothing
<1>4. ASSUME NEW s \in Side, NEW c \in Conns, ReadReply(s, c) PROVE AgreementInv'
  <2>1. CASE Head(Arrived(s, c)) = "Connect" /\ Valid(s)
    BY <1>4, <2>1, EstablishKeepsAgreement DEF ReadReply
  <2>2. CASE ~(Head(Arrived(s, c)) = "Connect" /\ Valid(s))
    BY <1>4, <2>2, QuietKeepsAgreement DEF ReadReply
  <2> QED BY <2>1, <2>2
<1>5. ASSUME NEW s \in Side, NEW c \in Conns, DemuxRead(s, c) PROVE AgreementInv'
  <2>1. wire[Other(s)][c] # <<>> /\ UNCHANGED <<name_hash, chosen>>
        /\ wire' = [wire EXCEPT ![Other(s)][c] = Tail(@)]
    BY <1>5 DEF DemuxRead, Arrived
  <2>2. CASE s = Lo
    <3>1. wire[Hi][c] # <<>> /\ wire' = [wire EXCEPT ![Hi][c] = Tail(@)]
      BY <2>1, <2>2, TwoSides
    <3>2. \A d \in Conns : wire'[Hi][d] = IF d = c THEN Tail(wire[Hi][d]) ELSE wire[Hi][d]
      BY <3>1, TwoSides DEF TypeOK
    <3>3. \A d \in Conns : Announced(d)' => Announced(d)
      BY <3>1, <3>2, ReadAnnouncesNothing
    <3> QED BY <2>1, <3>3, NothingChosen
  <2>3. CASE s = Hi
    <3>1. wire' = [wire EXCEPT ![Lo][c] = Tail(@)]
      BY <2>1, <2>3, TwoSides
    <3>2. wire'[Hi] = wire[Hi]
      BY <3>1, TwoSides DEF TypeOK
    <3> QED BY <2>1, <3>2, QuietKeepsAgreement
  <2> QED BY <2>2, <2>3, TwoSides
<1>6. ASSUME NEW s \in Side, NEW c \in Conns, TakeRouted(s, c) PROVE AgreementInv'
  <2>1. CASE Valid(s)
    BY <1>6, <2>1, EstablishKeepsAgreement DEF TakeRouted
  <2>2. CASE ~Valid(s)
    BY <1>6, <2>2, QuietKeepsAgreement DEF TakeRouted
  <2> QED BY <2>1, <2>2
<1>7. ASSUME NEW c \in Conns, ReadChoice(c) PROVE AgreementInv'
  BY <1>7, ReadChoiceKeepsAgreement
<1>8. ASSUME NEW s \in Side, NEW c \in Conns,
             ReadEnd(s, c) \/ ReplyTimeout(s, c) \/ DemuxTimeout(s, c)
      PROVE  AgreementInv'
  BY <1>8, QuietKeepsAgreement DEF ReadEnd, ReplyTimeout, DemuxTimeout
<1>9. ASSUME NEW s \in Side, CallTimeout(s) PROVE AgreementInv'
  BY <1>9, QuietKeepsAgreement DEF CallTimeout
<1>10. ASSUME NEW c \in Conns, Cut(c) PROVE AgreementInv'
  <2>1. wire' = [s \in Side |-> [wire[s] EXCEPT ![c] = <<>>]] /\ UNCHANGED <<name_hash, chosen>>
    BY <1>10 DEF Cut
  <2>2. \A d \in Conns : wire'[Hi][d] \in {wire[Hi][d], <<>>, <<"Connect">>}
    BY <2>1, TwoSides DEF TypeOK
  <2> QED BY <2>1, <2>2, ConnectAnnouncesNothing
<1>11. CASE UNCHANGED vars
  BY <1>11, QuietKeepsAgreement DEF vars
<1> QED
  BY <1>1, <1>2, <1>3, <1>4, <1>5, <1>6, <1>7, <1>8, <1>9, <1>10, <1>11
  DEF Next, Progress, Failure

\* Nothing is announced or chosen at first.
LEMMA InitiallyAgreed == Init => AgreementInv
<1> SUFFICES ASSUME Init PROVE AgreementInv
  OBVIOUS
<1>1. chosen[Hi] = {} /\ chosen[Lo] = {} /\ \A c \in Conns : wire[Hi][c] = <<>>
  BY TwoSides DEF Init
<1>2. \A c \in Conns : ~Announced(c)
  BY <1>1 DEF Announced
<1>3. \A s \in Side : chosen[s] = {}
  BY <1>1, TwoSides
<1> QED BY <1>1, <1>2, <1>3 DEF AgreementInv, ChoiceIsMade, Agreement, SameNetworkOnly

\* Whatever is cut, timed out or retried, the lower side makes a Peer only of a
\* connection that the higher side makes one of.
THEOREM SidesAgree == Spec => []Agreement
<1>1. AgreementInv => Agreement
  BY DEF AgreementInv
<1> QED BY <1>1, Typing, InitiallyAgreed, StepKeepsAgreement, PTL DEF Spec

\* Peers of different networks never connect.
THEOREM OneNetwork == Spec => []SameNetworkOnly
<1>1. AgreementInv => SameNetworkOnly
  BY DEF AgreementInv
<1> QED BY <1>1, Typing, InitiallyAgreed, StepKeepsAgreement, PTL DEF Spec

-----------------------------------------------------------------------------
(* The handshake on a connection *)

TakenIn == {"demux", "routed"}

\* How the two ends of a connection and what they have said and the other has not read
\* fit together: hi and lo are the states of the ends, hiSaid and loSaid what is on the
\* wires. Each conjunct but the first two bounds what an end can read next, or says what
\* the other end has done by then.
Fits(hi, lo, hiSaid, loSaid, broken) ==
  /\ broken => hiSaid = <<>> /\ loSaid = <<>> /\ hi # "idle"
  /\ hi = "idle" => hiSaid = <<>> /\ loSaid = <<>>
  /\ lo = "demux" => hiSaid \in {<<>>, <<"Connect">>}
  /\ lo = "routed" => hiSaid = <<>>
  /\ lo = "waiting" => \/ hiSaid \in {<<>>, <<"Connect">>}
                       \/ hi = "chosen" /\ hiSaid = <<"Connect", "Choose">>
  /\ lo = "candidate" => hiSaid = <<>> \/ (hi = "chosen" /\ hiSaid = <<"Choose">>)
  /\ hi \in {"demux", "waiting"} => loSaid \in {<<>>, <<"Connect">>}
  /\ hi = "routed" => loSaid = <<>>
  /\ lo \in TakenIn => hi \in {"waiting", "closed"} /\ loSaid = <<>>
  /\ hi \in TakenIn => lo \in {"waiting", "closed"} /\ hiSaid = <<>>
  /\ hi = "waiting" /\ lo \in {"waiting", "demux"} /\ ~broken => hiSaid = <<"Connect">>

\* Every handshake is at a point where its ends fit.
HandshakesFit ==
  \A c \in Conns : Fits(end[Hi][c], end[Lo][c], wire[Hi][c], wire[Lo][c], c \in cut)

\* The three things that can be on their way, and what is left of them when one is read.
LEMMA ShortWires ==
  /\ <<"Connect">> # <<>> /\ Head(<<"Connect">>) = "Connect" /\ Tail(<<"Connect">>) = <<>>
  /\ <<"Choose">> # <<>> /\ Head(<<"Choose">>) = "Choose" /\ Tail(<<"Choose">>) = <<>>
  /\ <<"Connect", "Choose">> # <<>> /\ Head(<<"Connect", "Choose">>) = "Connect"
  /\ Tail(<<"Connect", "Choose">>) = <<"Choose">>
OBVIOUS

\* What is said on an empty wire is what is on it; the choice comes behind a Connect.
LEMMA SaidOnWires ==
  /\ <<>> \o <<"Choose">> = <<"Choose">>
  /\ <<>> \o <<"Connect">> = <<"Connect">>
  /\ <<>> \o <<"Connect", "Choose">> = <<"Connect", "Choose">>
  /\ <<"Connect">> \o <<"Choose">> = <<"Connect", "Choose">>
  /\ Append(<<>>, "Choose") = <<"Choose">>
  /\ Append(<<"Connect">>, "Choose") = <<"Connect", "Choose">>
<1>1. <<"Choose">> \in Seq(Messages) /\ <<"Connect">> \in Seq(Messages) /\ <<"Connect", "Choose">> \in Seq(Messages) /\ <<>> \in Seq(Messages)
  BY DEF Messages
<1>2. /\ <<>> \o <<"Choose">> = <<"Choose">>
      /\ <<>> \o <<"Connect">> = <<"Connect">>
      /\ <<>> \o <<"Connect", "Choose">> = <<"Connect", "Choose">>
  BY <1>1, ConcatEmptySeq
<1>3. Append(<<>>, "Choose") = <<"Choose">>
  OBVIOUS
<1>4. Append(<<"Connect">>, "Choose") = <<"Connect", "Choose">>
  <2> DEFINE q == Append(<<"Connect">>, "Choose")
             r == <<"Connect", "Choose">>
  <2>1. q \in Seq(Messages) /\ Len(q) = 2 /\ q[1] = "Connect" /\ q[2] = "Choose"
    BY <1>1, AppendProperties DEF Messages
  <2>2. r \in Seq(Messages) /\ Len(r) = 2 /\ r[1] = "Connect" /\ r[2] = "Choose"
    BY <1>1
  <2> HIDE DEF q, r
  <2>3. \A i \in 1..2 : q[i] = r[i]
    BY <2>1, <2>2
  <2>4. q = r
    BY <2>1, <2>2, <2>3, SeqEqual
  <2> QED BY <2>4 DEF q, r
<1>5. <<"Connect">> \o <<"Choose">> = <<"Connect", "Choose">>
  BY <1>1, <1>4, AppendIsConcat DEF Messages
<1> QED BY <1>2, <1>3, <1>4, <1>5

\* Closing an end that is open and no Peer's leaves the ends fitting.
LEMMA ClosingFits ==
  ASSUME NEW hi, NEW lo, NEW hiSaid, NEW loSaid, NEW broken \in BOOLEAN,
         Fits(hi, lo, hiSaid, loSaid, broken)
  PROVE  /\ hi \notin {"idle", "chosen"} => Fits("closed", lo, hiSaid, loSaid, broken)
         /\ lo # "idle" => Fits(hi, "closed", hiSaid, loSaid, broken)
BY DEF Fits, TakenIn

\* The higher side reads the reply it waits for: the lower side has read, or still has
\* before it, the Connect that the choice is to come behind.
LEMMA ReadingHiFits ==
  ASSUME NEW lo, NEW hiSaid, NEW loSaid, NEW broken \in BOOLEAN,
         Fits("waiting", lo, hiSaid, loSaid, broken), loSaid # <<>>
  PROVE  Fits("chosen", lo, IF broken THEN hiSaid ELSE hiSaid \o <<"Choose">>, Tail(loSaid), broken)
<1>1. ~broken /\ lo \notin TakenIn /\ loSaid = <<"Connect">>
  BY DEF Fits
<1>2. lo = "waiting" => hiSaid = <<"Connect">>
  BY <1>1 DEF Fits
<1>3. lo = "candidate" => hiSaid = <<>>
  BY DEF Fits
<1> QED BY <1>1, <1>2, <1>3, ShortWires, SaidOnWires DEF Fits, TakenIn

\* It answers on a connection it was given: Connect, and at once the choice.
LEMMA AnsweringHiFits ==
  ASSUME NEW lo, NEW hiSaid, NEW loSaid, NEW broken \in BOOLEAN,
         Fits("routed", lo, hiSaid, loSaid, broken)
  PROVE  Fits("chosen", lo, IF broken THEN hiSaid ELSE hiSaid \o <<"Connect", "Choose">>,
              loSaid, broken)
<1>1. hiSaid = <<>> /\ lo \in {"waiting", "closed"}
  BY DEF Fits, TakenIn
<1> QED BY <1>1, SaidOnWires DEF Fits, TakenIn

\* The lower side reads the reply it waits for, and awaits the choice.
LEMMA ReadingLoFits ==
  ASSUME NEW hi, NEW hiSaid, NEW loSaid, NEW broken \in BOOLEAN,
         Fits(hi, "waiting", hiSaid, loSaid, broken), hiSaid # <<>>, hi # "idle"
  PROVE  Fits(hi, "candidate", Tail(hiSaid), loSaid, broken)
<1>1. hi \notin TakenIn /\ ~broken
  BY DEF Fits
<1>2. hiSaid = <<"Connect">> \/ (hi = "chosen" /\ hiSaid = <<"Connect", "Choose">>)
  BY DEF Fits
<1> QED BY <1>1, <1>2, ShortWires DEF Fits, TakenIn

\* It answers on a connection it was given, and awaits the choice.
LEMMA AnsweringLoFits ==
  ASSUME NEW hi, NEW hiSaid, NEW loSaid, NEW broken \in BOOLEAN,
         Fits(hi, "routed", hiSaid, loSaid, broken)
  PROVE  Fits(hi, "candidate", hiSaid, IF broken THEN loSaid ELSE loSaid \o <<"Connect">>, broken)
<1>1. hiSaid = <<>> /\ loSaid = <<>> /\ hi \in {"waiting", "closed"}
  BY DEF Fits, TakenIn
<1> QED BY <1>1, SaidOnWires DEF Fits, TakenIn

\* The Demux of either side reads the first message of a connection.
LEMMA DemuxingFits ==
  ASSUME NEW e, NEW hiSaid, NEW loSaid, NEW broken \in BOOLEAN, NEW f \in {"routed", "closed"}
  PROVE  /\ Fits("demux", e, hiSaid, loSaid, broken) /\ loSaid # <<>>
              => Fits(f, e, hiSaid, Tail(loSaid), broken)
         /\ Fits(e, "demux", hiSaid, loSaid, broken) /\ hiSaid # <<>>
              => Fits(e, f, Tail(hiSaid), loSaid, broken)
<1>1. ASSUME Fits("demux", e, hiSaid, loSaid, broken), loSaid # <<>>
      PROVE  Fits(f, e, hiSaid, Tail(loSaid), broken)
  <2>1. loSaid = <<"Connect">> /\ hiSaid = <<>> /\ e \in {"waiting", "closed"} /\ ~broken
    BY <1>1 DEF Fits, TakenIn
  <2> QED BY <2>1, ShortWires DEF Fits, TakenIn
<1>2. ASSUME Fits(e, "demux", hiSaid, loSaid, broken), hiSaid # <<>>
      PROVE  Fits(e, f, Tail(hiSaid), loSaid, broken)
  <2>1. hiSaid = <<"Connect">> /\ loSaid = <<>> /\ e \in {"waiting", "closed"} /\ ~broken
    BY <1>2 DEF Fits, TakenIn
  <2> QED BY <2>1, ShortWires DEF Fits, TakenIn
<1> QED BY <1>1, <1>2
\* A connection nothing happens to, or one open end of which is closed.
LEMMA BystandersFit ==
  ASSUME HandshakesFit, EndsInv, UNCHANGED cut, NEW c \in Conns, NEW s \in Side,
         end'[Other(s)][c] = end[Other(s)][c],
         \/ end'[s][c] = end[s][c]
         \/ end'[s][c] = "closed" /\ end[s][c] \notin {"idle", "chosen"},
         \A t \in Side : wire'[t][c] = wire[t][c]
  PROVE  Fits(end'[Hi][c], end'[Lo][c], wire'[Hi][c], wire'[Lo][c], c \in cut')
<1>1. Fits(end[Hi][c], end[Lo][c], wire[Hi][c], wire[Lo][c], c \in cut)
  BY DEF HandshakesFit
<1>2. wire'[Hi][c] = wire[Hi][c] /\ wire'[Lo][c] = wire[Lo][c] /\ cut' = cut
  BY TwoSides
<1>3. (c \in cut) \in BOOLEAN
  OBVIOUS
<1>4. CASE s = Hi
  <2>1. end'[Lo][c] = end[Lo][c]
    BY <1>4, TwoSides
  <2>2. CASE end'[Hi][c] = end[Hi][c]
    BY <1>1, <1>2, <2>1, <2>2
  <2>3. CASE end'[Hi][c] = "closed" /\ end[Hi][c] \notin {"idle", "chosen"}
    <3>1. Fits("closed", end[Lo][c], wire[Hi][c], wire[Lo][c], c \in cut)
      BY <1>1, <1>3, <2>3, ClosingFits
    <3> QED BY <1>2, <2>1, <2>3, <3>1
  <2> QED BY <1>4, <2>2, <2>3
<1>5. CASE s = Lo
  <2>1. end'[Hi][c] = end[Hi][c]
    BY <1>5, TwoSides
  <2>2. CASE end'[Lo][c] = end[Lo][c]
    BY <1>1, <1>2, <2>1, <2>2
  <2>3. CASE end'[Lo][c] = "closed" /\ end[Lo][c] # "idle"
    <3>1. Fits(end[Hi][c], "closed", wire[Hi][c], wire[Lo][c], c \in cut)
      BY <1>1, <1>3, <2>3, ClosingFits
    <3> QED BY <1>2, <2>1, <2>3, <3>1
  <2> QED BY <1>5, <2>2, <2>3
<1> QED BY <1>4, <1>5, TwoSides

\* What a side's call lets go of was open, and no Peer's.
LEMMA ReleasedWasOpen ==
  ASSUME TypeOK, NEW s \in Side, NEW c \in Conns
  PROVE  \/ Released(s)[c] = end[s][c]
         \/ Released(s)[c] = "closed" /\ end[s][c] \notin {"idle", "chosen"}
BY DEF Released, Held

\* A step that closes one open end.
LEMMA CloseFits ==
  ASSUME TypeOK, EndsInv, HandshakesFit, NEW s \in Side, NEW c \in Conns,
         end[s][c] \notin {"idle", "chosen"}, Close(s, c), UNCHANGED <<wire, cut>>
  PROVE  HandshakesFit'
<1>1. end' = [end EXCEPT ![s][c] = "closed"]
  BY DEF Close
<1>2. \A t \in Side, d \in Conns : end'[t][d] = IF t = s /\ d = c THEN "closed" ELSE end[t][d]
  BY <1>1 DEF TypeOK
<1>3. Other(s) \in Side /\ Other(s) # s
  BY TwoSides
<1>4. \A d \in Conns : Fits(end'[Hi][d], end'[Lo][d], wire'[Hi][d], wire'[Lo][d], d \in cut')
  BY <1>2, <1>3, BystandersFit
<1> QED BY <1>4 DEF HandshakesFit

\* What a side says on c, and reads from it, is seen on no other connection.
LEMMA EstablishWires ==
  ASSUME TypeOK, NEW s \in Side, NEW c \in Conns, NEW reply, Establish(s, c, reply)
  PROVE  /\ wire'[s][c] = Sent(s, c, Says(s, reply))
         /\ wire'[Other(s)][c] = IF reply = <<>> THEN Tail(wire[Other(s)][c]) ELSE wire[Other(s)][c]
         /\ \A t \in Side, d \in Conns \ {c} : wire'[t][d] = wire[t][d]
<1>1. Other(s) \in Side /\ Other(s) # s
  BY TwoSides
<1> QED BY <1>1 DEF Establish, TypeOK

\* Establishing a connection takes its own handshake on, and drops others.
LEMMA EstablishFits ==
  ASSUME TypeOK, EndsInv, HandshakesFit, NEW s \in Side, NEW c \in Conns,
         NEW reply \in {<<>>, <<"Connect">>},
         reply = <<>> => end[s][c] = "waiting" /\ Arrived(s, c) # <<>>,
         reply # <<>> => end[s][c] = "routed",
         Establish(s, c, reply), UNCHANGED cut
  PROVE  HandshakesFit'
<1>1. Fits(end[Hi][c], end[Lo][c], wire[Hi][c], wire[Lo][c], c \in cut) /\ (c \in cut) \in BOOLEAN
  BY DEF HandshakesFit
<1>2. end[s][c] \notin {"idle", "chosen"} /\ Other(s) \in Side /\ Other(s) # s
  BY TwoSides
<1>3. end[Other(s)][c] # "idle"
  BY <1>2 DEF EndsInv, OpenTogether
<1>4. \A d \in Conns : end'[Other(s)][d] = end[Other(s)][d]
  BY <1>2 DEF Establish, Choose, TypeOK
<1>5. ASSUME NEW d \in Conns \ {c}
      PROVE  Fits(end'[Hi][d], end'[Lo][d], wire'[Hi][d], wire'[Lo][d], d \in cut')
  <2>1. \A t \in Side : wire'[t][d] = wire[t][d]
    BY EstablishWires
  <2>2. \/ end'[s][d] = end[s][d]
        \/ end'[s][d] = "closed" /\ end[s][d] \notin {"idle", "chosen"}
    <3>1. CASE Chooses(s)
      <4>1. end' = [end EXCEPT ![s] = [Released(s) EXCEPT ![c] = "chosen"]]
        BY <3>1 DEF Establish, Choose
      <4>2. end'[s][d] = Released(s)[d]
        BY <4>1 DEF TypeOK, Released
      <4> QED BY <4>2, ReleasedWasOpen
    <3>2. CASE ~Chooses(s)
      BY <3>2 DEF Establish, TypeOK
    <3> QED BY <3>1, <3>2
  <2> QED BY <1>4, <2>1, <2>2, BystandersFit
<1>6. CASE s = Hi
  <2>1. end' = [end EXCEPT ![Hi] = [Released(Hi) EXCEPT ![c] = "chosen"]]
    BY <1>6 DEF Establish, Choose, Chooses
  <2>2. end'[Hi][c] = "chosen" /\ end'[Lo][c] = end[Lo][c]
    BY <1>4, <1>6, <2>1, TwoSides DEF TypeOK, Released
  <2>3. wire'[Hi][c] = Sent(Hi, c, Append(reply, "Choose"))
    BY <1>6, EstablishWires DEF Says, Chooses
  <2>4. CASE reply = <<>>
    <3>1. wire'[Hi][c] = IF c \in cut THEN wire[Hi][c] ELSE wire[Hi][c] \o <<"Choose">>
      BY <2>3, <2>4, SaidOnWires DEF Sent
    <3>2. wire'[Lo][c] = Tail(wire[Lo][c]) /\ wire[Lo][c] # <<>> /\ end[Hi][c] = "waiting"
      BY <1>6, <2>4, EstablishWires, TwoSides DEF Arrived
    <3>3. Fits(end'[Hi][c], end'[Lo][c], wire'[Hi][c], wire'[Lo][c], c \in cut)
      BY <1>1, <2>2, <3>1, <3>2, ReadingHiFits
    <3> QED BY <1>5, <3>3 DEF HandshakesFit
  <2>5. CASE reply = <<"Connect">>
    <3>1. wire'[Hi][c] = IF c \in cut THEN wire[Hi][c] ELSE wire[Hi][c] \o <<"Connect", "Choose">>
      BY <2>3, <2>5, SaidOnWires DEF Sent
    <3>2. reply # <<>>
      BY <2>5, ShortWires
    <3>3. wire'[Lo][c] = wire[Lo][c] /\ end[Hi][c] = "routed"
      BY <1>6, <3>2, EstablishWires, TwoSides
    <3>4. Fits(end'[Hi][c], end'[Lo][c], wire'[Hi][c], wire'[Lo][c], c \in cut)
      BY <1>1, <2>2, <3>1, <3>3, AnsweringHiFits
    <3> QED BY <1>5, <3>4 DEF HandshakesFit
  <2> QED BY <2>4, <2>5
<1>7. CASE s = Lo
  <2>1. end' = [end EXCEPT ![Lo][c] = "candidate"]
    BY <1>7, TwoSides DEF Establish, Chooses
  <2>2. end'[Lo][c] = "candidate" /\ end'[Hi][c] = end[Hi][c] /\ end[Hi][c] # "idle"
    BY <1>3, <1>4, <1>7, <2>1, TwoSides DEF TypeOK
  <2>3. wire'[Lo][c] = Sent(Lo, c, reply)
    BY <1>7, EstablishWires, TwoSides DEF Says, Chooses
  <2>4. CASE reply = <<>>
    <3>1. wire[Lo][c] \o <<>> = wire[Lo][c]
      BY TwoSides, ConcatEmptySeq DEF TypeOK
    <3>2. wire'[Lo][c] = wire[Lo][c]
      BY <2>3, <2>4, <3>1 DEF Sent
    <3>3. wire'[Hi][c] = Tail(wire[Hi][c]) /\ wire[Hi][c] # <<>> /\ end[Lo][c] = "waiting"
      BY <1>7, <2>4, EstablishWires, TwoSides DEF Arrived
    <3>4. Fits(end'[Hi][c], end'[Lo][c], wire'[Hi][c], wire'[Lo][c], c \in cut)
      BY <1>1, <2>2, <3>2, <3>3, ReadingLoFits
    <3> QED BY <1>5, <3>4 DEF HandshakesFit
  <2>5. CASE reply = <<"Connect">>
    <3>1. wire'[Lo][c] = IF c \in cut THEN wire[Lo][c] ELSE wire[Lo][c] \o <<"Connect">>
      BY <2>3, <2>5 DEF Sent
    <3>2. reply # <<>>
      BY <2>5, ShortWires
    <3>3. wire'[Hi][c] = wire[Hi][c] /\ end[Lo][c] = "routed"
      BY <1>7, <3>2, EstablishWires, TwoSides
    <3>4. Fits(end'[Hi][c], end'[Lo][c], wire'[Hi][c], wire'[Lo][c], c \in cut)
      BY <1>1, <2>2, <3>1, <3>3, AnsweringLoFits
    <3> QED BY <1>5, <3>4 DEF HandshakesFit
  <2> QED BY <2>4, <2>5
<1> QED BY <1>6, <1>7, TwoSides

\* A connection is opened by one side, and lies in the other's Demux.
LEMMA OpenDirectFits ==
  ASSUME TypeOK, EndsInv, HandshakesFit, NEW s \in Side, NEW c \in Conns, OpenDirect(s, c)
  PROVE  HandshakesFit'
<1>1. Other(s) \in Side /\ Other(s) # s /\ Other(Other(s)) = s
  BY TwoSides
<1>2. end[s][c] = "idle" /\ end[Other(s)][c] = "idle"
  BY <1>1 DEF OpenDirect, EndsInv, OpenTogether
<1>3. end[Hi][c] = "idle"
  BY <1>2, TwoSides
<1>4. c \notin cut /\ wire[Hi][c] = <<>> /\ wire[Lo][c] = <<>>
  BY <1>3 DEF HandshakesFit, Fits
<1>5. \A t \in Side, d \in Conns :
        /\ end'[t][d] = IF d # c THEN end[t][d] ELSE IF t = s THEN "waiting" ELSE "demux"
        /\ wire'[t][d] = IF d = c /\ t = s THEN <<"Connect">> ELSE wire[t][d]
  BY <1>1, TwoSides DEF OpenDirect, TypeOK
<1>6. UNCHANGED cut
  BY DEF OpenDirect
<1>7. ASSUME NEW d \in Conns \ {c}
      PROVE  Fits(end'[Hi][d], end'[Lo][d], wire'[Hi][d], wire'[Lo][d], d \in cut')
  BY <1>5, <1>6, TwoSides DEF HandshakesFit
<1>8. Fits(end'[Hi][c], end'[Lo][c], wire'[Hi][c], wire'[Lo][c], c \in cut')
  <2>1. CASE s = Hi
    <3>1. end'[Hi][c] = "waiting" /\ end'[Lo][c] = "demux"
      BY <1>5, <2>1, TwoSides
    <3>2. wire'[Hi][c] = <<"Connect">> /\ wire'[Lo][c] = <<>> /\ c \notin cut'
      BY <1>4, <1>5, <1>6, <2>1, TwoSides
    <3> QED BY <3>1, <3>2 DEF Fits, TakenIn
  <2>2. CASE s = Lo
    <3>1. end'[Hi][c] = "demux" /\ end'[Lo][c] = "waiting"
      BY <1>5, <2>2, TwoSides
    <3>2. wire'[Hi][c] = <<>> /\ wire'[Lo][c] = <<"Connect">> /\ c \notin cut'
      BY <1>4, <1>5, <1>6, <2>2, TwoSides
    <3> QED BY <3>1, <3>2 DEF Fits, TakenIn
  <2> QED BY <2>1, <2>2, TwoSides
<1> QED BY <1>7, <1>8 DEF HandshakesFit

\* A connection is punched, and both sides have said Connect.
LEMMA OpenPunchedFits ==
  ASSUME TypeOK, HandshakesFit, NEW c \in Conns, OpenPunched(c)
  PROVE  HandshakesFit'
<1>1. end[Hi][c] = "idle"
  BY TwoSides DEF OpenPunched
<1>2. c \notin cut
  BY <1>1 DEF HandshakesFit, Fits
<1>3. \A t \in Side, d \in Conns :
        /\ end'[t][d] = IF d = c THEN "waiting" ELSE end[t][d]
        /\ wire'[t][d] = IF d = c THEN <<"Connect">> ELSE wire[t][d]
  BY DEF OpenPunched, TypeOK
<1>4. UNCHANGED cut
  BY DEF OpenPunched
<1>5. ASSUME NEW d \in Conns
      PROVE  Fits(end'[Hi][d], end'[Lo][d], wire'[Hi][d], wire'[Lo][d], d \in cut')
  <2>1. CASE d = c
    <3>1. /\ end'[Hi][d] = "waiting" /\ end'[Lo][d] = "waiting" /\ d \notin cut'
          /\ wire'[Hi][d] = <<"Connect">> /\ wire'[Lo][d] = <<"Connect">>
      BY <1>2, <1>3, <1>4, <2>1, TwoSides
    <3> QED BY <3>1 DEF Fits, TakenIn
  <2>2. CASE d # c
    BY <1>3, <1>4, <2>2, TwoSides DEF HandshakesFit
  <2> QED BY <2>1, <2>2
<1> QED BY <1>5 DEF HandshakesFit

\* The Demux reads a Connect, and gives the connection to the call or drops it.
LEMMA DemuxReadFits ==
  ASSUME TypeOK, HandshakesFit, NEW s \in Side, NEW c \in Conns, DemuxRead(s, c)
  PROVE  HandshakesFit'
<1> DEFINE e == IF call[s] = "running" THEN "routed" ELSE "closed"
<1>1. e \in {"routed", "closed"}
  OBVIOUS
<1>2. Other(s) \in Side /\ Other(s) # s
  BY TwoSides
<1>3. /\ end' = [end EXCEPT ![s][c] = e]
      /\ wire' = [wire EXCEPT ![Other(s)][c] = Tail(@)]
      /\ end[s][c] = "demux" /\ wire[Other(s)][c] # <<>> /\ UNCHANGED cut
  BY DEF DemuxRead, Arrived
<1> HIDE DEF e
<1>4. \A t \in Side, d \in Conns :
        /\ end'[t][d] = IF d = c /\ t = s THEN e ELSE end[t][d]
        /\ wire'[t][d] = IF d = c /\ t = Other(s) THEN Tail(wire[t][d]) ELSE wire[t][d]
  BY <1>2, <1>3 DEF TypeOK
<1>5. Fits(end[Hi][c], end[Lo][c], wire[Hi][c], wire[Lo][c], c \in cut) /\ (c \in cut) \in BOOLEAN
  BY DEF HandshakesFit
<1>6. Fits(end'[Hi][c], end'[Lo][c], wire'[Hi][c], wire'[Lo][c], c \in cut)
  <2>1. CASE s = Hi
    <3>1. /\ end'[Hi][c] = e /\ end'[Lo][c] = end[Lo][c] /\ end[Hi][c] = "demux"
          /\ wire'[Hi][c] = wire[Hi][c] /\ wire'[Lo][c] = Tail(wire[Lo][c]) /\ wire[Lo][c] # <<>>
      BY <1>3, <1>4, <2>1, TwoSides
    <3> QED BY <1>1, <1>5, <3>1, DemuxingFits
  <2>2. CASE s = Lo
    <3>1. /\ end'[Hi][c] = end[Hi][c] /\ end'[Lo][c] = e /\ end[Lo][c] = "demux"
          /\ wire'[Hi][c] = Tail(wire[Hi][c]) /\ wire'[Lo][c] = wire[Lo][c] /\ wire[Hi][c] # <<>>
      BY <1>3, <1>4, <2>2, TwoSides
    <3> QED BY <1>1, <1>5, <3>1, DemuxingFits
  <2> QED BY <2>1, <2>2, TwoSides
<1>7. ASSUME NEW d \in Conns \ {c}
      PROVE  Fits(end'[Hi][d], end'[Lo][d], wire'[Hi][d], wire'[Lo][d], d \in cut')
  BY <1>3, <1>4, TwoSides DEF HandshakesFit
<1> QED BY <1>3, <1>6, <1>7 DEF HandshakesFit

\* The lower side is done with c: it has read all it can, and what it holds besides c is
\* dropped if it was the choice.
LEMMA ReadChoiceFits ==
  ASSUME TypeOK, EndsInv, HandshakesFit, NEW c \in Conns, ReadChoice(c)
  PROVE  HandshakesFit'
<1>1. /\ end[Lo][c] = "candidate" /\ wire[Hi][c] # <<>> /\ UNCHANGED cut
      /\ wire' = [wire EXCEPT ![Hi][c] = Tail(@)]
  BY TwoSides DEF ReadChoice, Arrived
<1>2. Fits(end[Hi][c], end[Lo][c], wire[Hi][c], wire[Lo][c], c \in cut)
  BY DEF HandshakesFit
<1>3. end[Hi][c] = "chosen" /\ wire[Hi][c] = <<"Choose">> /\ c \notin cut
  BY <1>1, <1>2 DEF Fits
<1>4. end' = [end EXCEPT ![Lo] = [Released(Lo) EXCEPT ![c] = "chosen"]]
  BY <1>3, ShortWires, TwoSides DEF ReadChoice, Arrived, Choose
<1>5. /\ end'[Hi] = end[Hi] /\ end'[Lo] = [Released(Lo) EXCEPT ![c] = "chosen"]
      /\ wire'[Lo] = wire[Lo] /\ wire'[Hi] = [wire[Hi] EXCEPT ![c] = Tail(@)]
  BY <1>1, <1>4, TwoSides DEF TypeOK
<1>6. end'[Lo][c] = "chosen" /\ wire'[Hi][c] = <<>> /\ end'[Hi][c] = "chosen" /\ c \notin cut'
  BY <1>1, <1>3, <1>5, ShortWires, TwoSides DEF TypeOK, Released
<1>7. Fits(end'[Hi][c], end'[Lo][c], wire'[Hi][c], wire'[Lo][c], c \in cut')
  BY <1>6 DEF Fits, TakenIn
<1>8. ASSUME NEW d \in Conns \ {c}
      PROVE  Fits(end'[Hi][d], end'[Lo][d], wire'[Hi][d], wire'[Lo][d], d \in cut')
  <2>1. \A t \in Side : wire'[t][d] = wire[t][d]
    BY <1>5, TwoSides DEF TypeOK
  <2>2. end'[Lo][d] = Released(Lo)[d] /\ end'[Hi][d] = end[Hi][d]
    BY <1>5 DEF Released
  <2>3. \/ end'[Lo][d] = end[Lo][d]
        \/ end'[Lo][d] = "closed" /\ end[Lo][d] \notin {"idle", "chosen"}
    BY <2>2, ReleasedWasOpen, TwoSides
  <2> QED BY <1>1, <2>1, <2>2, <2>3, BystandersFit, TwoSides
<1> QED BY <1>7, <1>8 DEF HandshakesFit

\* A call that times out drops what it holds.
LEMMA CallTimeoutFits ==
  ASSUME TypeOK, EndsInv, HandshakesFit, NEW s \in Side, CallTimeout(s)
  PROVE  HandshakesFit'
<1>1. Other(s) \in Side /\ Other(s) # s
  BY TwoSides
<1>2. end' = [end EXCEPT ![s] = Released(s)] /\ UNCHANGED <<wire, cut>>
  BY DEF CallTimeout
<1>3. end'[s] = Released(s) /\ end'[Other(s)] = end[Other(s)]
  BY <1>1, <1>2 DEF TypeOK
<1>4. \A c \in Conns : Fits(end'[Hi][c], end'[Lo][c], wire'[Hi][c], wire'[Lo][c], c \in cut')
  BY <1>2, <1>3, ReleasedWasOpen, BystandersFit
<1> QED BY <1>4 DEF HandshakesFit

\* Nothing is on its way on a connection that is cut.
LEMMA CutFits ==
  ASSUME TypeOK, EndsInv, HandshakesFit, NEW c \in Conns, Cut(c)
  PROVE  HandshakesFit'
<1>1. /\ UNCHANGED end /\ cut' = cut \union {c}
      /\ wire' = [s \in Side |-> [wire[s] EXCEPT ![c] = <<>>]]
  BY DEF Cut
<1>2. end[Hi][c] # "idle"
  BY TwoSides DEF Cut, Held, EndsInv, OpenTogether
<1>3. wire'[Hi][c] = <<>> /\ wire'[Lo][c] = <<>> /\ c \in cut'
  BY <1>1, TwoSides DEF TypeOK
<1>4. Fits(end[Hi][c], end[Lo][c], wire[Hi][c], wire[Lo][c], c \in cut)
  BY DEF HandshakesFit
<1>5. Fits(end'[Hi][c], end'[Lo][c], wire'[Hi][c], wire'[Lo][c], c \in cut')
  BY <1>1, <1>2, <1>3, <1>4 DEF Fits, TakenIn
<1>6. ASSUME NEW d \in Conns \ {c}
      PROVE  Fits(end'[Hi][d], end'[Lo][d], wire'[Hi][d], wire'[Lo][d], d \in cut')
  <2>1. wire'[Hi][d] = wire[Hi][d] /\ wire'[Lo][d] = wire[Lo][d] /\ ((d \in cut') <=> (d \in cut))
    BY <1>1, TwoSides DEF TypeOK
  <2>2. CASE d \in cut
    BY <1>1, <2>1, <2>2 DEF HandshakesFit, Fits
  <2>3. CASE d \notin cut
    BY <1>1, <2>1, <2>3 DEF HandshakesFit, Fits
  <2> QED BY <2>2, <2>3
<1> QED BY <1>5, <1>6 DEF HandshakesFit

\* Every step takes the handshakes from one point to a next.
LEMMA StepKeepsHandshakes ==
  TypeOK /\ EndsInv /\ HandshakesFit /\ [Next]_vars => HandshakesFit'
<1> SUFFICES ASSUME TypeOK, EndsInv, HandshakesFit, [Next]_vars PROVE HandshakesFit'
  OBVIOUS
<1>1. ASSUME UNCHANGED <<end, wire, cut>> PROVE HandshakesFit'
  BY <1>1 DEF HandshakesFit
<1>2. ASSUME NEW s \in Side, Start(s) PROVE HandshakesFit'
  BY <1>1, <1>2 DEF Start
<1>3. ASSUME NEW s \in Side, NEW c \in Conns, ReadReply(s, c) PROVE HandshakesFit'
  <2>1. CASE Head(Arrived(s, c)) = "Connect" /\ Valid(s)
    <3>1. Establish(s, c, <<>>) /\ UNCHANGED cut
      BY <1>3, <2>1 DEF ReadReply
    <3>2. end[s][c] = "waiting" /\ Arrived(s, c) # <<>>
      BY <1>3 DEF ReadReply
    <3> QED BY <3>1, <3>2, EstablishFits
  <2>2. CASE ~(Head(Arrived(s, c)) = "Connect" /\ Valid(s))
    BY <1>3, <2>2, CloseFits DEF ReadReply
  <2> QED BY <2>1, <2>2
<1>4. ASSUME NEW s \in Side, NEW c \in Conns, TakeRouted(s, c) PROVE HandshakesFit'
  <2>1. CASE Valid(s)
    <3>1. Establish(s, c, <<"Connect">>) /\ UNCHANGED cut /\ end[s][c] = "routed"
      BY <1>4, <2>1 DEF TakeRouted
    <3>2. <<"Connect">> # <<>>
      BY ShortWires
    <3> QED BY <3>1, <3>2, EstablishFits
  <2>2. CASE ~Valid(s)
    BY <1>4, <2>2, CloseFits DEF TakeRouted
  <2> QED BY <2>1, <2>2
<1>5. ASSUME NEW s \in Side, NEW c \in Conns,
             ReadEnd(s, c) \/ ReplyTimeout(s, c) \/ DemuxTimeout(s, c)
      PROVE  HandshakesFit'
  BY <1>5, CloseFits DEF ReadEnd, ReplyTimeout, DemuxTimeout
<1>6. CASE UNCHANGED vars
  BY <1>1, <1>6 DEF vars
<1> QED
  BY <1>2, <1>3, <1>4, <1>5, <1>6, OpenDirectFits, OpenPunchedFits, DemuxReadFits,
     ReadChoiceFits, CallTimeoutFits, CutFits
  DEF Next, Progress, Failure

\* No connection is open at first, and nothing on any wire.
LEMMA InitiallyFit == Init => HandshakesFit
<1> SUFFICES ASSUME Init, NEW c \in Conns
             PROVE  Fits(end[Hi][c], end[Lo][c], wire[Hi][c], wire[Lo][c], c \in cut)
  BY DEF HandshakesFit
<1>1. /\ end[Hi][c] = "idle" /\ end[Lo][c] = "idle" /\ c \notin cut
      /\ wire[Hi][c] = <<>> /\ wire[Lo][c] = <<>>
  BY TwoSides DEF Init
<1> QED BY <1>1 DEF Fits, TakenIn

\* Neither side ever reads a message it does not expect: the choice comes behind the
\* Connect, and only where it is awaited, whatever is cut, timed out or retried.
THEOREM NothingUnexpected == Spec => []NoUnexpectedMessage
<1>1. TypeOK /\ HandshakesFit => NoUnexpectedMessage
  <2> SUFFICES ASSUME HandshakesFit, NEW c \in Conns
               PROVE  /\ end[Lo][c] = "candidate" /\ Arrived(Lo, c) # <<>>
                           => Head(Arrived(Lo, c)) = "Choose"
                      /\ \A s \in Side : end[s][c] \in {"waiting", "demux"} /\ Arrived(s, c) # <<>>
                                           => Head(Arrived(s, c)) = "Connect"
    BY DEF NoUnexpectedMessage
  <2>1. Fits(end[Hi][c], end[Lo][c], wire[Hi][c], wire[Lo][c], c \in cut)
    BY DEF HandshakesFit
  <2>2. Arrived(Hi, c) = wire[Lo][c] /\ Arrived(Lo, c) = wire[Hi][c]
    BY TwoSides DEF Arrived
  <2>3. end[Lo][c] = "candidate" /\ wire[Hi][c] # <<>> => Head(wire[Hi][c]) = "Choose"
    BY <2>1, ShortWires DEF Fits
  <2>4. end[Lo][c] \in {"waiting", "demux"} /\ wire[Hi][c] # <<>> => Head(wire[Hi][c]) = "Connect"
    BY <2>1, ShortWires DEF Fits
  <2>5. end[Hi][c] \in {"waiting", "demux"} /\ wire[Lo][c] # <<>> => Head(wire[Lo][c]) = "Connect"
    BY <2>1, ShortWires DEF Fits
  <2> QED BY <2>2, <2>3, <2>4, <2>5, TwoSides
<1> QED BY <1>1, Typing, InitiallyNoEnds, StepKeepsEnds, InitiallyFit, StepKeepsHandshakes, PTL
        DEF Spec

\* The higher side makes no Peer of a connection that still lies in the lower side's
\* Demux or in the channel to its call.
THEOREM ChoiceIsOfTheHeld == Spec => []ChosenWasHeld
<1>1. TypeOK /\ EndsInv /\ HandshakesFit => ChosenWasHeld
  <2> SUFFICES ASSUME TypeOK, EndsInv, HandshakesFit, NEW c \in chosen[Hi]
               PROVE  end[Lo][c] \notin {"idle", "demux", "routed"}
    BY DEF ChosenWasHeld
  <2>1. c \in Conns
    BY TwoSides DEF TypeOK
  <2>2. end[Hi][c] = "chosen"
    BY <2>1, TwoSides DEF EndsInv, ChosenEnds
  <2>3. end[Lo][c] # "idle"
    BY <2>1, <2>2, TwoSides DEF EndsInv, OpenTogether
  <2>4. end[Lo][c] \notin TakenIn
    BY <2>1, <2>2 DEF HandshakesFit, Fits
  <2> QED BY <2>3, <2>4 DEF TakenIn
<1> QED BY <1>1, Typing, InitiallyNoEnds, StepKeepsEnds, InitiallyFit, StepKeepsHandshakes, PTL
        DEF Spec

-----------------------------------------------------------------------------
(* The exchange implements the settlement *)

\* A Peer is made by a running call, of a connection it has made none of before, and
\* by the lower side of one of the higher's: a step of the settlement.
LEMMA ChooseSettles ==
  ASSUME TypeOK, EndsInv, NEW s \in Side, NEW c \in Conns, end[s][c] \in Held,
         s = Lo => c \in chosen[Hi], Choose(s, c)
  PROVE  Settles!Next
<1>1. call[s] = "running" /\ c \notin chosen[s]
  BY DEF EndsInv, HeldByCall, ChosenEnds, Held
<1>2. Settles!Settle(s, c)
  BY <1>1 DEF Choose, Settles!Settle
<1> QED BY <1>2 DEF Settles!Next, Settles!Side, Side

\* Only the higher side makes a Peer of a connection as soon as Connect is exchanged.
LEMMA EstablishSettles ==
  ASSUME TypeOK, EndsInv, NEW s \in Side, NEW c \in Conns, NEW reply, end[s][c] \in Held,
         Establish(s, c, reply)
  PROVE  [Settles!Next]_Settles!vars
<1>1. CASE Chooses(s)
  BY <1>1, ChooseSettles, TwoSides DEF Establish, Chooses
<1>2. CASE ~Chooses(s)
  BY <1>2 DEF Establish, Settles!vars
<1> QED BY <1>1, <1>2

\* The lower side makes one of a connection that has been announced, hence chosen.
LEMMA ReadChoiceSettles ==
  ASSUME TypeOK, EndsInv, AgreementInv, NEW c \in Conns, ReadChoice(c)
  PROVE  [Settles!Next]_Settles!vars
<1>1. wire[Hi][c] # <<>> /\ wire[Hi][c] \in Seq(Messages) /\ end[Lo][c] \in Held
  BY TwoSides DEF ReadChoice, Arrived, TypeOK, Held
<1>2. CASE Head(Arrived(Lo, c)) = "Choose"
  <2>1. wire[Hi][c][1] = "Choose" /\ 1 \in 1..Len(wire[Hi][c])
    BY <1>1, <1>2, TwoSides DEF Arrived
  <2>2. c \in chosen[Hi]
    BY <2>1 DEF Announced, AgreementInv, ChoiceIsMade
  <2>3. Choose(Lo, c)
    BY <1>2 DEF ReadChoice
  <2> QED BY <1>1, <2>2, <2>3, ChooseSettles, TwoSides
<1>3. CASE Head(Arrived(Lo, c)) # "Choose"
  BY <1>3 DEF ReadChoice, Settles!vars
<1> QED BY <1>2, <1>3

\* Every step of the exchange is a step of the settlement or leaves it alone.
LEMMA StepSettles ==
  TypeOK /\ EndsInv /\ AgreementInv /\ [Next]_vars => [Settles!Next]_Settles!vars
<1> SUFFICES ASSUME TypeOK, EndsInv, AgreementInv, [Next]_vars
             PROVE  [Settles!Next]_Settles!vars
  OBVIOUS
<1>1. ASSUME NEW s \in Side, Start(s) PROVE Settles!Next
  BY <1>1 DEF Start, Settles!Next, Settles!Begin, Settles!Side, Side
<1>2. ASSUME NEW s \in Side, CallTimeout(s) PROVE Settles!Next
  BY <1>2 DEF CallTimeout, Settles!Next, Settles!GiveUp, Settles!Side, Side
<1>3. ASSUME NEW s \in Side, NEW c \in Conns, ReadReply(s, c)
      PROVE  [Settles!Next]_Settles!vars
  <2>1. end[s][c] \in Held
    BY <1>3 DEF ReadReply, Held
  <2> QED BY <1>3, <2>1, EstablishSettles DEF ReadReply, Settles!vars
<1>4. ASSUME NEW s \in Side, NEW c \in Conns, TakeRouted(s, c)
      PROVE  [Settles!Next]_Settles!vars
  <2>1. end[s][c] \in Held
    BY <1>4 DEF TakeRouted, Held
  <2> QED BY <1>4, <2>1, EstablishSettles DEF TakeRouted, Settles!vars
<1>5. ASSUME NEW c \in Conns, ReadChoice(c) PROVE [Settles!Next]_Settles!vars
  BY <1>5, ReadChoiceSettles
<1>6. ASSUME NEW c \in Conns, OpenPunched(c) \/ Cut(c) PROVE UNCHANGED Settles!vars
  BY <1>6 DEF OpenPunched, Cut, Settles!vars
<1>7. ASSUME NEW s \in Side, NEW c \in Conns,
             \/ OpenDirect(s, c) \/ DemuxRead(s, c) \/ ReadEnd(s, c)
             \/ ReplyTimeout(s, c) \/ DemuxTimeout(s, c)
      PROVE  UNCHANGED Settles!vars
  BY <1>7 DEF OpenDirect, DemuxRead, ReadEnd, ReplyTimeout, DemuxTimeout, Settles!vars
<1>8. CASE UNCHANGED vars
  BY <1>8 DEF vars, Settles!vars
<1> QED BY <1>1, <1>2, <1>3, <1>4, <1>5, <1>6, <1>7, <1>8 DEF Next, Progress, Failure

\* The exchange over any number of connections implements the settlement.
THEOREM ExchangeSettles == Spec => ImplementsSettlement
<1>1. Init => Settles!Init
  BY DEF Init, Settles!Init, Settles!Side, Side
<1> QED
  BY <1>1, Typing, InitiallyNoEnds, StepKeepsEnds, InitiallyAgreed, StepKeepsAgreement,
     StepSettles, PTL
  DEF Spec, ImplementsSettlement, Settles!Spec
=============================================================================

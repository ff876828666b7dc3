-------------------------- MODULE BootstrapProofs --------------------------
(* Proofs about Bootstrap, for any contacts, slots, whitelists and number   *)
(* of acceptors and edits.                                                 *)
EXTENDS Bootstrap, TLAPS

-----------------------------------------------------------------------------
(* The ways of a step *)

ContactStep(c) ==
  \/ TryPeer(c) \/ SendRequest(c) \/ ReadReply(c) \/ ReadEnd(c) \/ TryFails(c)
  \/ NewAcceptor(c) \/ \E g \in 1..MaxAcceptors : DropAcceptor(c, g)
  \/ DemuxRead(c) \/ \E kinds \in SUBSET Kinds : EditFile(c, kinds)
  \/ Accept(c) \/ AcceptFails(c) \/ ConnectBack(c) \/ NoticeGone(c)

\* A step is about one contact, or gives up.
LEMMA NextCases ==
  ASSUME Next
  PROVE  GiveUp \/ \E c \in Contacts : ContactStep(c)
<1>1. Answers \subseteq Contacts
  BY BootstrapAssumption
<1> QED BY <1>1 DEF Next, Progress, Operation, Failure, Handshake, ContactStep, HeedsFile

-----------------------------------------------------------------------------
(* Types *)

LEMMA AnswerKeepsType ==
  ASSUME TypeOK, NEW c \in Contacts, NEW message \in {"Granted", "Denied"},
         NEW state \in AccStates, Answer(c, message, state)
  PROVE  /\ reply' \in [Contacts -> Seq({"Granted", "Denied"})]
         /\ acc' \in [Contacts -> AccStates]
<1>1. Append(reply[c], message) \in Seq({"Granted", "Denied"})
  BY DEF TypeOK
<1> QED BY <1>1 DEF Answer, TypeOK

\* A grant is an answer that ends the handshake.
LEMMA GrantKeepsType ==
  ASSUME TypeOK, NEW c \in Contacts, Grant(c)
  PROVE  /\ reply' \in [Contacts -> Seq({"Granted", "Denied"})]
         /\ acc' \in [Contacts -> AccStates]
<1>1. (IF StreamEnded(c) THEN "closed" ELSE "accepted") \in AccStates
  BY DEF AccStates
<1> QED BY <1>1, AnswerKeepsType DEF Grant

\* The state keeps its types.
THEOREM Typing == Spec => []TypeOK
<1>1. Init => TypeOK
  BY BootstrapAssumption DEF Init, TypeOK, TryStates, AccStates
<1>2. TypeOK /\ [Next]_vars => TypeOK'
  <2> SUFFICES ASSUME TypeOK, [Next]_vars PROVE TypeOK'
    OBVIOUS
  <2>1. CASE UNCHANGED vars
    BY <2>1 DEF vars, moving, TypeOK
  <2>2. ASSUME Next PROVE calm' \in BOOLEAN
    BY <2>2 DEF Next, TypeOK
  <2>3. ASSUME Next, GiveUp PROVE TypeOK'
    BY <2>2, <2>3 DEF GiveUp, Over, TypeOK, TryStates, acceptors, config
  <2>4. ASSUME Next, NEW c \in Contacts, ContactStep(c) PROVE TypeOK'
    <3>1. CASE TryPeer(c) \/ SendRequest(c) \/ ReadEnd(c) \/ TryFails(c)
      BY <2>2, <2>4, <3>1
      DEF TryPeer, SendRequest, ReadEnd, TryFails, TypeOK, TryStates, AccStates, acceptors, config
    <3>2. CASE ReadReply(c)
      <4>1. Tail(reply[c]) \in Seq({"Granted", "Denied"})
        BY <3>2 DEF ReadReply, TypeOK
      <4>2. reply' \in [Contacts -> Seq({"Granted", "Denied"})]
        BY <3>2, <4>1 DEF ReadReply, TypeOK
      <4>3. try' \in [Contacts -> TryStates]
        BY <3>2 DEF ReadReply, Over, TypeOK, TryStates
      <4> QED BY <2>2, <2>4, <3>2, <4>2, <4>3 DEF ReadReply, TypeOK, acceptors, config
    <3>3. CASE NewAcceptor(c)
      <4>1. handler[c] + 1 \in 0..MaxAcceptors
        BY <3>3, BootstrapAssumption DEF NewAcceptor, TypeOK
      <4> QED BY <2>2, <2>4, <3>3, <4>1 DEF NewAcceptor, TypeOK, ours, config
    <3>4. ASSUME NEW g \in 1..MaxAcceptors, DropAcceptor(c, g) PROVE TypeOK'
      BY <2>2, <2>4, <3>4 DEF DropAcceptor, TypeOK, AccStates, ours, config
    <3>5. CASE DemuxRead(c)
      BY <2>2, <2>4, <3>5 DEF DemuxRead, TypeOK, AccStates, ours, config
    <3>6. ASSUME NEW kinds \in SUBSET Kinds, EditFile(c, kinds) PROVE TypeOK'
      <4>1. edits' \in 0..MaxEdits
        BY <3>6, BootstrapAssumption DEF EditFile, TypeOK
      <4> QED BY <2>2, <2>4, <3>6, <4>1 DEF EditFile, TypeOK, ours, acceptors
    <3>7. CASE Accept(c)
      <4>1. reply' \in [Contacts -> Seq({"Granted", "Denied"})] /\ acc' \in [Contacts -> AccStates]
        <5>1. CASE Grant(c)
          BY <5>1, GrantKeepsType
        <5>2. CASE Answer(c, "Denied", "closed")
          BY <5>2, AnswerKeepsType DEF AccStates
        <5>3. CASE acc' = [acc EXCEPT ![c] = "checking"] /\ UNCHANGED reply
          BY <5>3 DEF TypeOK, AccStates
        <5> QED BY <3>7, <5>1, <5>2, <5>3 DEF Accept
      <4>2. listed' \in [Contacts -> SUBSET Kinds]
        BY <3>7 DEF Accept, Reloaded, TypeOK
      <4> QED BY <2>2, <2>4, <3>7, <4>1, <4>2 DEF Accept, TypeOK, ours, acceptors
    <3>8. CASE ConnectBack(c)
      <4>1. reply' \in [Contacts -> Seq({"Granted", "Denied"})] /\ acc' \in [Contacts -> AccStates]
        BY <3>8, GrantKeepsType, AnswerKeepsType DEF ConnectBack, AccStates
      <4> QED BY <2>2, <2>4, <3>8, <4>1 DEF ConnectBack, TypeOK, ours, acceptors, config
    <3>9. CASE NoticeGone(c) \/ AcceptFails(c)
      BY <2>2, <2>4, <3>9
      DEF NoticeGone, AcceptFails, TypeOK, AccStates, ours, acceptors, config
    <3> QED BY <2>4, <3>1, <3>2, <3>3, <3>4, <3>5, <3>6, <3>7, <3>8, <3>9 DEF ContactStep
  <2> QED BY <2>1, <2>3, <2>4, NextCases
<1> QED BY <1>1, <1>2, PTL DEF Spec

-----------------------------------------------------------------------------
(* Whom we end up with *)

Entitled(c) ==
  /\ c \in SameNetwork
  /\ kind = "Node" /\ c \in Checks => c \in Reachable

\* A grant that is under way is one we are entitled to, and who connects back to us has
\* made sure that we are of its network.
GrantsAreEntitled ==
  \A c \in Contacts : \A i \in 1..Len(reply[c]) : reply[c][i] = "Granted" => Entitled(c)
CheckedIsOfNetwork == \A c \in Contacts : acc[c] = "checking" => c \in SameNetwork

EntitlementInv == GrantsAreEntitled /\ CheckedIsOfNetwork /\ ContactIsEntitled

\* An answer is added: a grant only to who is entitled.
LEMMA AnswerKeepsGrants ==
  ASSUME TypeOK, GrantsAreEntitled, NEW c \in Contacts, NEW message, NEW state,
         Answer(c, message, state), message = "Granted" => Entitled(c), UNCHANGED kind
  PROVE  GrantsAreEntitled'
<1> SUFFICES ASSUME NEW d \in Contacts, NEW i \in 1..Len(reply'[d]), reply'[d][i] = "Granted"
             PROVE  Entitled(d)'
  BY DEF GrantsAreEntitled
<1>1. reply \in [Contacts -> Seq({"Granted", "Denied"})]
  BY DEF TypeOK
<1>2. Entitled(d)' <=> Entitled(d)
  BY DEF Entitled
<1>3. CASE d # c
  BY <1>1, <1>2, <1>3 DEF Answer, GrantsAreEntitled
<1>4. CASE d = c
  <2>1. reply'[c] = Append(reply[c], message) /\ reply[c] \in Seq({"Granted", "Denied"})
    BY <1>1 DEF Answer
  <2>2. CASE i \in 1..Len(reply[c])
    <3>1. reply'[c][i] = reply[c][i]
      BY <2>1, <2>2
    <3> QED BY <1>2, <1>4, <2>2, <3>1 DEF GrantsAreEntitled
  <2>3. CASE i = Len(reply[c]) + 1
    <3>1. reply'[c][i] = message
      BY <2>1, <2>3
    <3> QED BY <1>2, <1>4, <3>1
  <2>4. i \in 1..(Len(reply[c]) + 1)
    BY <1>4, <2>1
  <2> QED BY <2>1, <2>2, <2>3, <2>4
<1> QED BY <1>3, <1>4

\* An answer to a handshake that checks nothing more leaves the other checks as they are.
LEMMA AnswerKeepsChecks ==
  ASSUME TypeOK, CheckedIsOfNetwork, NEW c \in Contacts, NEW message, NEW state,
         Answer(c, message, state), state # "checking"
  PROVE  CheckedIsOfNetwork'
BY DEF TypeOK, Answer, CheckedIsOfNetwork

\* What does not touch the answers, the choice or the checks changes nothing of it.
LEMMA OthersKeepEntitlement ==
  ASSUME EntitlementInv, UNCHANGED <<kind, chosen, reply>>,
         \A c \in Contacts : acc'[c] = "checking" => acc[c] = "checking"
  PROVE  EntitlementInv'
BY DEF EntitlementInv, GrantsAreEntitled, CheckedIsOfNetwork, ContactIsEntitled, Entitled

LEMMA StepKeepsEntitlement ==
  ASSUME TypeOK, EntitlementInv, [Next]_vars
  PROVE  EntitlementInv'
<1>1. CASE UNCHANGED vars
  BY <1>1, OthersKeepEntitlement DEF vars, moving
<1>2. CASE GiveUp
  BY <1>2, OthersKeepEntitlement DEF GiveUp
<1>3. ASSUME NEW c \in Contacts, ContactStep(c) PROVE EntitlementInv'
  <2>1. CASE TryPeer(c) \/ SendRequest(c) \/ ReadEnd(c) \/ TryFails(c) \/ NewAcceptor(c)
             \/ DemuxRead(c) \/ NoticeGone(c) \/ AcceptFails(c)
    <3>1. UNCHANGED <<kind, chosen, reply>>
      BY <2>1 DEF TryPeer, SendRequest, ReadEnd, TryFails, NewAcceptor, DemuxRead, NoticeGone,
             AcceptFails, ours
    <3>2. \A d \in Contacts : acc'[d] = "checking" => acc[d] = "checking"
      BY <2>1 DEF TryPeer, SendRequest, ReadEnd, TryFails, NewAcceptor, DemuxRead, NoticeGone,
             AcceptFails, TypeOK
    <3> QED BY <3>1, <3>2, OthersKeepEntitlement
  <2>2. ASSUME NEW g \in 1..MaxAcceptors, DropAcceptor(c, g) PROVE EntitlementInv'
    <3>1. \A d \in Contacts : acc'[d] = "checking" => acc[d] = "checking"
      BY <2>2 DEF DropAcceptor, TypeOK
    <3> QED BY <2>2, <3>1, OthersKeepEntitlement DEF DropAcceptor, ours
  <2>3. ASSUME NEW kinds \in SUBSET Kinds, EditFile(c, kinds) PROVE EntitlementInv'
    BY <2>3, OthersKeepEntitlement DEF EditFile, ours
  <2>4. CASE ReadReply(c)
    <3>1. reply \in [Contacts -> Seq({"Granted", "Denied"})] /\ reply[c] # <<>>
      BY <2>4 DEF TypeOK, ReadReply
    <3>2. reply[c][1] = Head(reply[c]) /\ 1 \in 1..Len(reply[c])
      BY <3>1
    <3>3. GrantsAreEntitled'
      <4> SUFFICES ASSUME NEW d \in Contacts, NEW i \in 1..Len(reply'[d]), reply'[d][i] = "Granted"
                   PROVE  Entitled(d)'
        BY DEF GrantsAreEntitled
      <4>1. Entitled(d)' <=> Entitled(d)
        BY <2>4 DEF ReadReply, Entitled
      <4>2. CASE d # c
        BY <2>4, <3>1, <4>1, <4>2 DEF ReadReply, EntitlementInv, GrantsAreEntitled
      <4>3. CASE d = c
        <5>1. reply'[c] = Tail(reply[c])
          BY <2>4, <3>1 DEF ReadReply
        <5>2. i + 1 \in 1..Len(reply[c]) /\ reply[c][i + 1] = "Granted"
          BY <3>1, <4>3, <5>1
        <5> QED BY <4>1, <4>3, <5>2 DEF EntitlementInv, GrantsAreEntitled
      <4> QED BY <4>2, <4>3
    <3>4. CheckedIsOfNetwork'
      BY <2>4 DEF ReadReply, EntitlementInv, CheckedIsOfNetwork
    <3>5. ContactIsEntitled'
      <4>1. CASE Head(reply[c]) = "Granted"
        <5>1. Entitled(c)
          BY <3>2, <4>1 DEF EntitlementInv, GrantsAreEntitled
        <5> QED BY <2>4, <4>1, <5>1 DEF ReadReply, ContactIsEntitled, Entitled
      <4>2. CASE Head(reply[c]) # "Granted"
        BY <2>4, <4>2 DEF ReadReply, EntitlementInv, ContactIsEntitled
      <4> QED BY <4>1, <4>2
    <3> QED BY <3>3, <3>4, <3>5 DEF EntitlementInv
  <2>5. CASE Accept(c)
    <3>1. UNCHANGED <<kind, chosen>>
      BY <2>5 DEF Accept, ours
    <3>2. ContactIsEntitled'
      BY <3>1 DEF EntitlementInv, ContactIsEntitled
    <3>3. CASE Answer(c, "Denied", "closed")
      BY <3>1, <3>2, <3>3, AnswerKeepsGrants, AnswerKeepsChecks DEF EntitlementInv
    <3>4. CASE c \in SameNetwork /\ acc' = [acc EXCEPT ![c] = "checking"] /\ UNCHANGED reply
      <4>1. CheckedIsOfNetwork'
        BY <3>4 DEF EntitlementInv, CheckedIsOfNetwork, TypeOK
      <4>2. GrantsAreEntitled'
        BY <3>1, <3>4 DEF EntitlementInv, GrantsAreEntitled, Entitled
      <4> QED BY <3>2, <4>1, <4>2 DEF EntitlementInv
    <3>5. CASE c \in SameNetwork /\ ~(kind = "Node" /\ c \in Checks) /\ Grant(c)
      <4>1. Entitled(c)
        BY <3>5 DEF Entitled
      <4> QED BY <3>1, <3>2, <3>5, <4>1, AnswerKeepsGrants, AnswerKeepsChecks
          DEF EntitlementInv, Grant
    <3> QED BY <2>5, <3>3, <3>4, <3>5 DEF Accept, Foreign
  <2>6. CASE ConnectBack(c)
    <3>1. UNCHANGED <<kind, chosen>>
      BY <2>6 DEF ConnectBack, ours
    <3>2. ContactIsEntitled'
      BY <3>1 DEF EntitlementInv, ContactIsEntitled
    <3>3. CASE Answer(c, "Denied", "closed")
      BY <3>1, <3>2, <3>3, AnswerKeepsGrants, AnswerKeepsChecks DEF EntitlementInv
    <3>4. CASE c \in Reachable /\ Grant(c)
      <4>1. Entitled(c)
        BY <2>6, <3>4 DEF ConnectBack, Entitled, EntitlementInv, CheckedIsOfNetwork
      <4> QED BY <3>1, <3>2, <3>4, <4>1, AnswerKeepsGrants, AnswerKeepsChecks
          DEF EntitlementInv, Grant
    <3> QED BY <2>6, <3>3, <3>4 DEF ConnectBack
  <2> QED BY <1>3, <2>1, <2>2, <2>3, <2>4, <2>5, <2>6 DEF ContactStep
<1> QED BY <1>1, <1>2, <1>3, NextCases

\* The contact we end up with is entitled to be, for any contacts and any order of their
\* answers, timeouts, edits and changes of acceptor.
THEOREM OnlyTheEntitled == Spec => []ContactIsEntitled
<1>1. Init => EntitlementInv
  BY DEF Init, EntitlementInv, GrantsAreEntitled, CheckedIsOfNetwork, ContactIsEntitled
<1>2. EntitlementInv => ContactIsEntitled
  BY DEF EntitlementInv
<1> QED BY <1>1, <1>2, Typing, StepKeepsEntitlement, PTL DEF Spec

-----------------------------------------------------------------------------
(* When the future is over *)

\* Nothing is chosen while contacts are being tried.
UndecidedInv == OnlyChosenRemains /\ (client = "running" => chosen = None)

LEMMA StepKeepsOne ==
  ASSUME TypeOK, UndecidedInv, [Next]_vars
  PROVE  UndecidedInv'
<1>1. None \notin Contacts
  BY BootstrapAssumption
<1>2. CASE UNCHANGED <<client, chosen, try>>
  BY <1>2 DEF UndecidedInv, OnlyChosenRemains
<1>3. CASE GiveUp
  BY <1>1, <1>3 DEF GiveUp, Over, UndecidedInv, OnlyChosenRemains
<1>4. ASSUME NEW c \in Contacts, ContactStep(c) PROVE UndecidedInv'
  <2>1. CASE TryPeer(c)
    BY <2>1 DEF TryPeer, UndecidedInv, OnlyChosenRemains
  <2>2. ASSUME try[c] \in {"connecting", "requested"} PROVE client = "running"
    BY <2>2 DEF UndecidedInv, OnlyChosenRemains, TypeOK
  <2>3. CASE SendRequest(c) \/ ReadEnd(c) \/ TryFails(c)
    <3>1. client = "running" /\ UNCHANGED <<client, chosen>>
      BY <2>2, <2>3 DEF SendRequest, ReadEnd, TryFails, Active
    <3> QED BY <3>1 DEF UndecidedInv, OnlyChosenRemains
  <2>4. CASE ReadReply(c)
    <3>1. client = "running"
      BY <2>2, <2>4 DEF ReadReply
    <3>2. CASE Head(reply[c]) = "Granted"
      BY <2>4, <3>2 DEF ReadReply, Over, UndecidedInv, OnlyChosenRemains
    <3>3. CASE Head(reply[c]) # "Granted"
      BY <2>4, <3>1, <3>3 DEF ReadReply, UndecidedInv, OnlyChosenRemains
    <3> QED BY <3>2, <3>3
  <2>5. CASE NewAcceptor(c) \/ (\E g \in 1..MaxAcceptors : DropAcceptor(c, g)) \/ DemuxRead(c)
             \/ (\E kinds \in SUBSET Kinds : EditFile(c, kinds)) \/ Accept(c) \/ ConnectBack(c)
             \/ NoticeGone(c) \/ AcceptFails(c)
    BY <1>2, <2>5
    DEF NewAcceptor, DropAcceptor, DemuxRead, EditFile, Accept, ConnectBack, NoticeGone,
        AcceptFails, ours
  <2> QED BY <1>4, <2>1, <2>3, <2>4, <2>5 DEF ContactStep
<1> QED BY <1>2, <1>3, <1>4, NextCases DEF vars, moving

\* When the future is over, no attempt is left but the one that was chosen, however many
\* contacts and slots there are.
THEOREM NoAttemptIsLeft == Spec => []OnlyChosenRemains
<1>1. Init => UndecidedInv
  BY DEF Init, UndecidedInv, OnlyChosenRemains
<1>2. UndecidedInv => OnlyChosenRemains
  BY DEF UndecidedInv
<1> QED BY <1>1, <1>2, Typing, StepKeepsOne, PTL DEF Spec
=============================================================================

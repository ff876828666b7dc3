---------------------------- MODULE ConfigProofs ----------------------------
(* Proofs about Config, for any addresses and number of changes.           *)
EXTENDS Config, TLAPS

-----------------------------------------------------------------------------
(* Types *)

\* Whoever reloads, memory has settings afterwards.
LEMMA ReloadKeepsType ==
  ASSUME TypeOK, Reload, Parses
  PROVE  cfg' \in Settings /\ notified' \in Nat
BY DEF TypeOK, Reload, Parses

\* The state keeps its types.
THEOREM Typing == Spec => []TypeOK
<1>1. Init => TypeOK
  <2> SUFFICES ASSUME Init PROVE TypeOK
    OBVIOUS
  <2>1. cfg \in Settings /\ file = cfg
    BY DEF Init, Settings, Whitelists
  <2>2. observer \in {<<>>} \union {<<w>> : w \in Whitelists}
    BY Zenon DEF Init
  <2>3. notified \in Nat /\ edits \in 0..MaxEdits
    BY ConfigAssumption DEF Init
  <2>5. entering \in SUBSET Peers /\ connected \in SUBSET Peers
        /\ slipped \in SUBSET (entering \union connected)
    BY DEF Init
  <2>4. fs_event \in BOOLEAN /\ watcher \in BOOLEAN /\ written \in BOOLEAN /\ unsynced \in BOOLEAN
    BY DEF Init
  <2> QED BY <2>1, <2>2, <2>3, <2>4, <2>5 DEF TypeOK
<1>2. TypeOK /\ [Next]_vars => TypeOK'
  <2> SUFFICES ASSUME TypeOK, [Next]_vars PROVE TypeOK'
    OBVIOUS
  <2>1. ASSUME Edit PROVE edits' \in 0..MaxEdits
    BY <2>1, ConfigAssumption DEF Edit, TypeOK
  <2>2. ASSUME NEW content \in Settings \union {Garbage}, EditFile(content) PROVE TypeOK'
    BY <2>1, <2>2 DEF EditFile, TypeOK, peer_vars
  <2>3. ASSUME NEW settings \in Settings, Write(settings) PROVE TypeOK'
    BY <2>1, <2>3 DEF Write, TypeOK, peer_vars
  <2>4. CASE WatcherReload
    BY <2>4, ReloadKeepsType DEF WatcherReload, TypeOK, peer_vars
  <2>5. CASE ExplicitReload
    BY <2>5, ReloadKeepsType DEF ExplicitReload, TypeOK, peer_vars
  <2>6. CASE ObserverReadsClients
    <3>1. cfg["Client"] \in Whitelists
      BY DEF TypeOK, Settings, Users
    <3>2. notified' \in Nat
      BY <2>6 DEF ObserverReadsClients, TypeOK
    <3> QED BY <2>6, <3>1, <3>2 DEF ObserverReadsClients, TypeOK, settings_vars, peer_vars
  <2>7. CASE ObserverFilters
    <3>1. connected' \subseteq connected /\ slipped' \subseteq entering /\ entering' = entering
      BY <2>7 DEF ObserverFilters
    <3> QED BY <2>7, <3>1 DEF ObserverFilters, TypeOK, settings_vars
  <2>8. ASSUME NEW p \in Peers,
               AcceptPeer(p) \/ Insert(p) \/ EntryFails(p) \/ JoinUnasked(p) \/ PeerGoes(p)
        PROVE  TypeOK'
    <3>1. /\ entering' \in SUBSET Peers /\ connected' \in SUBSET Peers
          /\ slipped' \in SUBSET (entering' \union connected')
      BY <2>8 DEF TypeOK, AcceptPeer, Insert, EntryFails, JoinUnasked, PeerGoes
    <3>2. UNCHANGED <<settings_vars, notified, observer>>
      BY <2>8 DEF PeerStep, AcceptPeer, Insert, EntryFails, JoinUnasked, PeerGoes
    <3> QED BY <3>1, <3>2 DEF TypeOK, settings_vars
  <2>9. CASE UNCHANGED vars
    BY <2>9 DEF vars, TypeOK, settings_vars, peer_vars
  <2> QED BY <2>2, <2>3, <2>4, <2>5, <2>6, <2>7, <2>8, <2>9 DEF Next
<1> QED BY <1>1, <1>2, PTL DEF Spec

-----------------------------------------------------------------------------
(* Memory and disc *)

\* Memory and disc agree whenever the watcher has nothing left to do, for any number of edits,
\* writes and reloads. The invariant is inductive as it stands: whatever changes the file
\* leaves an event behind, whatever takes the event reloads or ends the watcher.
THEOREM DiscAndMemoryAgree == Spec => []InSync
<1>1. Init => InSync
  BY DEF Init, InSync
<1>2. InSync /\ [Next]_vars => InSync'
  <2> SUFFICES ASSUME InSync, [Next]_vars PROVE InSync'
    OBVIOUS
  <2>1. ASSUME NEW content, EditFile(content) PROVE InSync'
    BY <2>1 DEF EditFile, InSync
  <2>2. ASSUME NEW settings, Write(settings) PROVE InSync'
    BY <2>2 DEF Write, InSync
  <2>3. CASE WatcherReload
    BY <2>3 DEF WatcherReload, Reload, InSync
  <2>4. CASE ExplicitReload
    BY <2>4 DEF ExplicitReload, Reload, InSync
  <2>5. CASE UNCHANGED <<cfg, file, fs_event, watcher, unsynced>>
    BY <2>5 DEF InSync
  <2> QED BY <2>1, <2>2, <2>3, <2>4, <2>5
      DEF Next, ObserverReadsClients, ObserverFilters, AcceptPeer, Insert, EntryFails,
          JoinUnasked, PeerGoes, PeerStep, settings_vars, vars
<1> QED BY <1>1, <1>2, PTL DEF Spec

-----------------------------------------------------------------------------
(* The whitelists *)

\* Whoever is on the way into the map is not in it.
Apart == entering \intersect connected = {}

LEMMA AlwaysApart == Spec => []Apart
<1>1. Init => Apart
  BY DEF Init, Apart
<1>2. Apart /\ [Next]_vars => Apart'
  <2> SUFFICES ASSUME Apart, [Next]_vars PROVE Apart'
    OBVIOUS
  <2>1. CASE ObserverFilters
    BY <2>1 DEF ObserverFilters, Apart
  <2>2. ASSUME NEW p \in Peers,
               AcceptPeer(p) \/ Insert(p) \/ EntryFails(p) \/ JoinUnasked(p) \/ PeerGoes(p)
        PROVE  Apart'
    BY <2>2 DEF AcceptPeer, Insert, EntryFails, JoinUnasked, PeerGoes, Apart
  <2>3. CASE UNCHANGED peer_vars
    BY <2>3 DEF peer_vars, Apart
  <2> QED BY <2>1, <2>2, <2>3
      DEF Next, EditFile, Write, WatcherReload, ExplicitReload, ObserverReadsClients, vars
<1> QED BY <1>1, <1>2, PTL DEF Spec

\* Nobody that a filter could see is left out, be it in the map or on the way into it.
EveryoneWhitelisted ==
  \A p \in (entering \union connected) \ slipped : Whitelisted(p, cfg)

\* Either a notification is still to come, or the observer is about to filter with what it
\* has read of the settings in force, or nobody is left out. What it has read may be old,
\* but then there is a notification.
EnforcementInv ==
  ~written => \/ notified > 0
              \/ observer # <<>> /\ observer[1] = cfg["Client"]
              \/ observer = <<>> /\ EveryoneWhitelisted

\* A reload that changes anything is notified.
LEMMA ReloadIsNotified ==
  ASSUME TypeOK, EnforcementInv, Reload, UNCHANGED <<written, observer, peer_vars>>
  PROVE  EnforcementInv'
<1>1. CASE cfg # file
  BY <1>1 DEF Reload, TypeOK, EnforcementInv
<1>2. CASE cfg = file
  BY <1>2 DEF Reload, EnforcementInv, EveryoneWhitelisted, Whitelisted, peer_vars
<1> QED BY <1>1, <1>2

\* Filtering by the settings in force leaves only the whitelisted, but for those it could
\* not see.
LEMMA FilterEnforces ==
  ASSUME TypeOK, ObserverFilters, observer[1] = cfg["Client"]
  PROVE  EveryoneWhitelisted'
<1>1. UNCHANGED <<cfg, entering>>
  BY DEF ObserverFilters, settings_vars
<1> SUFFICES ASSUME NEW p \in (entering' \union connected') \ slipped' PROVE Whitelisted(p, cfg)
  BY <1>1 DEF EveryoneWhitelisted, Whitelisted
<1>2. p \in Peers /\ p[1] \in Users
  BY <1>1 DEF ObserverFilters, TypeOK, Peers
<1>3. ~Dropped(p, cfg["Client"], cfg["Node"])
  BY <1>1, <1>2 DEF ObserverFilters
<1>4. CASE cfg["Client"] = Disabled /\ cfg["Node"] = Disabled
  BY <1>2, <1>4 DEF Whitelisted, Users
<1>5. CASE Admitted(p, cfg["Client"], cfg["Node"])
  BY <1>2, <1>5 DEF Admitted, OrEmpty, Whitelisted, Users
<1> QED BY <1>3, <1>4, <1>5 DEF Dropped

\* Whoever comes in is whitelisted or has slipped by; nobody who has goes unnoticed.
LEMMA PeerStepKeepsEnforcement ==
  ASSUME EnforcementInv, Apart, NEW p \in Peers,
         AcceptPeer(p) \/ Insert(p) \/ EntryFails(p) \/ JoinUnasked(p) \/ PeerGoes(p)
  PROVE  EnforcementInv'
<1>1. UNCHANGED <<cfg, written, notified, observer>> /\ observer = <<>>
  BY DEF PeerStep, settings_vars, AcceptPeer, Insert, EntryFails, JoinUnasked, PeerGoes
<1>2. \A q \in (entering' \union connected') \ slipped' :
        q \in (entering \union connected) \ slipped \/ Whitelisted(q, cfg)
  <2>1. CASE AcceptPeer(p)
    BY <2>1 DEF AcceptPeer
  <2>2. CASE Insert(p)
    BY <2>2 DEF Insert
  <2>3. CASE EntryFails(p)
    <3>1. entering' = entering \ {p} /\ connected' = connected /\ slipped' = slipped \ {p}
      BY <2>3 DEF EntryFails
    <3> SUFFICES ASSUME NEW q \in (entering' \union connected') \ slipped', q \in slipped
                 PROVE  Whitelisted(q, cfg)
      BY <3>1
    <3>2. q = p
      BY <3>1
    <3> QED BY <3>1, <3>2, <2>3 DEF Apart, EntryFails
  <2>4. CASE JoinUnasked(p)
    BY <2>4 DEF JoinUnasked
  <2>5. CASE PeerGoes(p)
    <3>1. connected' = connected \ {p} /\ entering' = entering /\ slipped' = slipped \ {p}
      BY <2>5 DEF PeerGoes
    <3> SUFFICES ASSUME NEW q \in (entering' \union connected') \ slipped', q \in slipped
                 PROVE  Whitelisted(q, cfg)
      BY <3>1
    <3>2. q = p
      BY <3>1
    <3> QED BY <3>1, <3>2, <2>5 DEF Apart, PeerGoes
  <2> QED BY <2>1, <2>2, <2>3, <2>4, <2>5
<1>3. EveryoneWhitelisted => EveryoneWhitelisted'
  BY <1>1, <1>2 DEF EveryoneWhitelisted, Whitelisted
<1> QED BY <1>1, <1>3 DEF EnforcementInv

LEMMA StepKeepsEnforcement ==
  ASSUME TypeOK, Apart, EnforcementInv, [Next]_vars
  PROVE  EnforcementInv'
<1>1. ASSUME NEW content, EditFile(content) PROVE EnforcementInv'
  BY <1>1 DEF EditFile, EnforcementInv, EveryoneWhitelisted, Whitelisted, peer_vars
<1>2. ASSUME NEW settings, Write(settings) PROVE EnforcementInv'
  BY <1>2 DEF Write, EnforcementInv
<1>3. CASE WatcherReload
  <2>1. CASE Parses
    BY <1>3, <2>1, ReloadIsNotified DEF WatcherReload
  <2>2. CASE ~Parses
    BY <1>3, <2>2 DEF WatcherReload, EnforcementInv, EveryoneWhitelisted, Whitelisted, peer_vars
  <2> QED BY <2>1, <2>2
<1>4. CASE ExplicitReload
  BY <1>4, ReloadIsNotified DEF ExplicitReload
<1>5. CASE ObserverReadsClients
  BY <1>5 DEF ObserverReadsClients, EnforcementInv, settings_vars
<1>6. CASE ObserverFilters
  <2>1. CASE observer[1] = cfg["Client"]
    BY <1>6, <2>1, FilterEnforces DEF ObserverFilters, EnforcementInv
  <2>2. CASE observer[1] # cfg["Client"]
    BY <1>6, <2>2 DEF ObserverFilters, EnforcementInv, settings_vars
  <2> QED BY <2>1, <2>2
<1>7. ASSUME NEW p \in Peers,
             AcceptPeer(p) \/ Insert(p) \/ EntryFails(p) \/ JoinUnasked(p) \/ PeerGoes(p)
      PROVE  EnforcementInv'
  BY <1>7, PeerStepKeepsEnforcement
<1>8. CASE UNCHANGED vars
  BY <1>8 DEF vars, EnforcementInv, EveryoneWhitelisted, Whitelisted, settings_vars, peer_vars
<1> QED BY <1>1, <1>2, <1>3, <1>4, <1>5, <1>6, <1>7, <1>8 DEF Next

\* Once every notification has been acted on, nobody is connected whom the whitelists leave
\* out, but for peers that were still being let in when the filter ran or joined unasked:
\* for any addresses and any number of edits between and amid the observer's reads, and
\* between the check of a whitelist and the insertion it allows.
THEOREM WhitelistsHold == Spec => []WhitelistEnforced
<1>1. Init => EnforcementInv
  BY DEF Init, EnforcementInv, EveryoneWhitelisted
<1>2. TypeOK /\ EnforcementInv => WhitelistEnforced
  BY DEF TypeOK, EnforcementInv, EveryoneWhitelisted, WhitelistEnforced
<1> QED BY <1>1, <1>2, Typing, AlwaysApart, StepKeepsEnforcement, PTL DEF Spec
=============================================================================

------------------------------- MODULE Config -------------------------------
(***************************************************************************)
(* The shared configuration (src/crust/src/config.rs), its file, the thread *)
(* that watches the file, and the observer that the compat service attaches *)
(* to it (compat/service.rs) to drop the peers that a new whitelist leaves  *)
(* out. Of the settings only the two whitelists are kept.                   *)
(***************************************************************************)
EXTENDS Integers

CONSTANTS
  Ips,
  Disabled,   \* a whitelist that is None
  Garbage,    \* the content of a file that does not parse
  MaxEdits    \* bound: changes made to the file or the configuration

Users == {"Node", "Client"}
Peers == Users \X Ips

ASSUME ConfigAssumption ==
  /\ MaxEdits \in Nat

VARIABLES
  cfg,       \* ConfigWrapper.cfg: [Users -> a whitelist or Disabled]
  file,      \* what is on disc: settings, or Garbage
  fs_event,  \* the file changed and the watcher thread has not been told yet
  watcher,   \* the watcher thread is running
  written,   \* history: the application has changed the settings itself
  unsynced,  \* history: a write to the file has failed
  notified,  \* notifications in the observer's channel
  observer,  \* the whitelist of clients the observer has read, if it is
             \* between its two reads
  entering,  \* peers a whitelist has let in that are not in the connection map yet
  connected, \* the peers in the connection map, with their addresses
  slipped,   \* history: those of entering and connected that no filter could drop, though
             \* the whitelists it went by, or those in force when they joined, left them out
  edits

settings_vars == <<cfg, file, fs_event, watcher, written, unsynced, edits>>
peer_vars == <<entering, connected, slipped>>
vars == <<settings_vars, notified, observer, peer_vars>>

Whitelists == {Disabled} \union SUBSET Ips
Settings == [Users -> Whitelists]

\* is_peer_whitelisted
Whitelisted(p, settings) == settings[p[1]] # Disabled => p[2] \in settings[p[1]]

\* ConfigFile::open_path reads the file; neither whitelist is set by default.
Init ==
  /\ cfg = [k \in Users |-> Disabled]
  /\ file = cfg
  /\ fs_event = FALSE
  /\ watcher = TRUE
  /\ written = FALSE
  /\ unsynced = FALSE
  /\ notified = 0
  /\ observer = <<>>
  /\ entering = {} /\ connected = {} /\ slipped = {}
  /\ edits = 0

Edit == edits < MaxEdits /\ edits' = edits + 1

\* Somebody edits the file.
EditFile(content) ==
  /\ Edit /\ content # file
  /\ file' = content
  /\ fs_event' = TRUE
  /\ UNCHANGED <<cfg, watcher, written, unsynced, notified, observer, peer_vars>>

\* With a bug: observers do not hear of it.
ReloadQuietly == cfg' = file /\ UNCHANGED notified

\* ConfigWrapper::reload of a file that parses: observers hear of a change.
Reload ==
  /\ cfg' = file
  /\ notified' = IF cfg # file THEN notified + 1 ELSE notified

Parses == file # Garbage

\* With a bug: a file that does not parse is passed over, and the watcher goes on.
WatcherReloadLenient ==
  /\ watcher /\ fs_event
  /\ fs_event' = FALSE
  /\ IF Parses THEN Reload ELSE UNCHANGED <<cfg, notified>>
  /\ UNCHANGED <<file, watcher, written, unsynced, observer, peer_vars, edits>>

\* The watcher thread reloads, and ends on the first file that does not parse.
WatcherReload ==
  /\ watcher /\ fs_event
  /\ fs_event' = FALSE
  /\ IF Parses
     THEN Reload /\ UNCHANGED watcher
     ELSE watcher' = FALSE /\ UNCHANGED <<cfg, notified>>
  /\ UNCHANGED <<file, written, unsynced, observer, peer_vars, edits>>

\* ConfigFile::reload, as the bootstrap acceptor calls it; its error is logged.
ExplicitReload ==
  /\ Parses
  /\ Reload
  /\ UNCHANGED <<file, fs_event, watcher, written, unsynced, observer, peer_vars, edits>>

\* ConfigFile::write and the drop of its guard: the settings change under the lock,
\* then the file, unless writing it fails.
Write(settings) ==
  /\ Edit
  /\ cfg' = settings
  /\ written' = TRUE
  /\ \/ file' = settings /\ fs_event' = TRUE /\ UNCHANGED unsynced
     \/ unsynced' = TRUE /\ UNCHANGED <<file, fs_event>>
  /\ UNCHANGED <<watcher, notified, observer, peer_vars>>

\* The observer takes a notification and locks the config to read a whitelist ...
ObserverReadsClients ==
  /\ observer = <<>> /\ notified > 0
  /\ notified' = notified - 1
  /\ observer' = <<cfg["Client"]>>
  /\ UNCHANGED <<settings_vars, peer_vars>>

OrEmpty(whitelist) == IF whitelist = Disabled THEN {} ELSE whitelist

\* With a bug: the two whitelists are taken for each other.
AdmittedSwapped(p, client_ips, node_ips) ==
  p[2] \in OrEmpty(IF p[1] = "Node" THEN client_ips ELSE node_ips)

Admitted(p, client_ips, node_ips) ==
  p[2] \in OrEmpty(IF p[1] = "Node" THEN node_ips ELSE client_ips)

\* Nothing is filtered while both whitelists are disabled; otherwise a disabled one admits
\* nobody.
Dropped(p, client_ips, node_ips) ==
  ~(client_ips = Disabled /\ node_ips = Disabled) /\ ~Admitted(p, client_ips, node_ips)

\* ... and once more for the other, which may be of a later configuration. The filter sees
\* the connection map only, not the peers that are still being let in.
ObserverFilters ==
  /\ observer # <<>>
  /\ LET drop == {p \in Peers : Dropped(p, observer[1], cfg["Node"])}
     IN /\ connected' = connected \ drop
        /\ slipped' = entering \intersect drop
  /\ observer' = <<>>
  /\ UNCHANGED <<settings_vars, notified, entering>>

\* What the event loop does with peers is never between the observer's two reads.
PeerStep == observer = <<>> /\ UNCHANGED <<settings_vars, notified, observer>>

\* bootstrap_accept asks is_peer_whitelisted, and then connects back and sends Granted ...
AcceptPeer(p) ==
  /\ PeerStep
  /\ p \notin entering \union connected /\ Whitelisted(p, cfg)
  /\ entering' = entering \union {p}
  /\ UNCHANGED <<connected, slipped>>

\* ... after which the peer is put into the map, whatever the whitelists say by then ...
Insert(p) ==
  /\ PeerStep
  /\ p \in entering
  /\ entering' = entering \ {p}
  /\ connected' = connected \union {p}
  /\ UNCHANGED slipped

\* ... unless it could not be reached or Granted could not be sent.
EntryFails(p) ==
  /\ PeerStep
  /\ p \in entering
  /\ entering' = entering \ {p}
  /\ slipped' = slipped \ {p}
  /\ UNCHANGED connected

\* A peer of connect or of our own bootstrap: no whitelist is asked. It is always a node.
JoinUnasked(p) ==
  /\ PeerStep
  /\ p \notin entering \union connected /\ p[1] = "Node"
  /\ connected' = connected \union {p}
  /\ slipped' = IF Whitelisted(p, cfg) THEN slipped ELSE slipped \union {p}
  /\ UNCHANGED entering

\* A connection ends for another reason.
PeerGoes(p) ==
  /\ PeerStep
  /\ p \in connected
  /\ connected' = connected \ {p}
  /\ slipped' = slipped \ {p}
  /\ UNCHANGED entering

Next ==
  \/ \E content \in Settings \union {Garbage} : EditFile(content)
  \/ \E settings \in Settings : Write(settings)
  \/ WatcherReload \/ ExplicitReload
  \/ ObserverReadsClients \/ ObserverFilters
  \/ \E p \in Peers :
       AcceptPeer(p) \/ Insert(p) \/ EntryFails(p) \/ JoinUnasked(p) \/ PeerGoes(p)

Spec == Init /\ [][Next]_vars

\* The watcher thread and the event loop keep running.
FairSpec ==
  /\ Spec
  /\ WF_vars(WatcherReload)
  /\ WF_vars(ObserverReadsClients) /\ WF_vars(ObserverFilters)

-----------------------------------------------------------------------------
(* Properties *)

\* The types of the configuration, the file and the observer's state.
TypeOK ==
  /\ cfg \in Settings
  /\ file \in Settings \union {Garbage}
  /\ fs_event \in BOOLEAN /\ watcher \in BOOLEAN
  /\ written \in BOOLEAN /\ unsynced \in BOOLEAN
  /\ notified \in Nat
  /\ observer \in {<<>>} \union {<<w>> : w \in Whitelists}
  /\ entering \in SUBSET Peers /\ connected \in SUBSET Peers
  /\ slipped \in SUBSET (entering \union connected)
  /\ edits \in 0..MaxEdits

\* With a watcher that lives and nothing left for it to do, memory and disc agree,
\* whatever order edits of the file, writes and reloads came in.
InSync == watcher /\ ~fs_event /\ ~unsynced => cfg = file

\* As long as settings are only edited in the file: once every notification has been
\* acted on, no peer is connected that the whitelists leave out. Two reads that see
\* different configurations do no lasting harm, and neither do peers that come and go and
\* settings that change in between. Left out of it, because the code does not see to them:
\* a peer that a filter came too early for, and one of connect or our own bootstrap that
\* joined against the whitelists. Both stay until a later filter.
WhitelistEnforced ==
  ~written /\ notified = 0 /\ observer = <<>> =>
    \A p \in connected \ slipped : Whitelisted(p, cfg)

LeftOut(p) == file # Garbage /\ ~Whitelisted(p, file)

\* A peer that an edit of the file leaves out is dropped in the end, while the watcher
\* lives and the application does not write the settings itself: the edit goes through the
\* watcher, the reload, the observers and two reads of the settings, whatever else is
\* edited, reloaded or let in meanwhile. A peer that slipped by is left to the next filter.
EditIsEnforced ==
  \A p \in Peers :
    (p \in connected \ slipped /\ LeftOut(p)) ~>
      (p \notin connected \/ ~LeftOut(p) \/ ~watcher \/ written)
=============================================================================

------------------------------ MODULE Acceptor ------------------------------
(***************************************************************************)
(* An Acceptor (src/crust/src/net/peer/acceptor.rs) as the compat service   *)
(* uses it: the switch that starts and stops listening, with the task it    *)
(* spawns for each start (compat/service.rs); the Listeners; and the task of *)
(* the Demux (net/peer/connect/demux.rs), which takes sockets out of the    *)
(* SocketIncoming stream for as long as it has a slot free, and has each    *)
(* one's first message read. What becomes of the messages is the subject of *)
(* Rendezvous and Bootstrap.                                                *)
(***************************************************************************)
EXTENDS Listeners

CONSTANTS
  None,
  Slots  \* sockets that buffer_unordered handles at a time, 128 in the code

ASSUME AcceptorAssumption ==
  /\ None \notin ListenerIds
  /\ Slots \in Nat \ {0}

VARIABLES
  tcp_listener,  \* the listener whose drop_tx the service keeps, or None
  task,          \* the task start_listening_tcp spawned for each listener
  handling       \* how many sockets the Demux is handling

vars == <<listenersVars, tcp_listener, task, handling>>

Init ==
  /\ ListenersInit
  /\ tcp_listener = None
  /\ task = [l \in ListenerIds |-> "none"]
  /\ handling = 0

-----------------------------------------------------------------------------
(* start_listening_tcp, stop_tcp_listener and the task *)

\* Listeners are numbered as they are started.
Unused(l) == task[l] = "none" /\ \A k \in ListenerIds : k < l => task[k] # "none"

\* A start is ignored while the service has a listener.
StartListening(l) ==
  /\ tcp_listener = None /\ Unused(l)
  /\ BeginListener(l)
  /\ tcp_listener' = l
  /\ task' = [task EXCEPT ![l] = "starting"]
  /\ UNCHANGED handling

\* drop_tx goes; the task finds out when it is polled.
StopListening ==
  /\ tcp_listener # None
  /\ tcp_listener' = None
  /\ UNCHANGED <<listenersVars, task, handling>>

\* The listener is up: Event::ListenerStarted.
TaskListens(l) ==
  /\ task[l] = "starting" /\ tcp_listener = l
  /\ AddListener(l)
  /\ task' = [task EXCEPT ![l] = "listening"]
  /\ UNCHANGED <<tcp_listener, handling>>

\* It is not: an error is logged, and the service keeps the drop_tx of a task that is over.
TaskFails(l) ==
  /\ task[l] = "starting" /\ tcp_listener = l
  /\ AbandonListener(l)
  /\ task' = [task EXCEPT ![l] = "over"]
  /\ UNCHANGED <<tcp_listener, handling>>

\* until(drop_rx): whatever the task has got by then is dropped.
TaskStops(l) ==
  /\ task[l] \in {"starting", "listening"} /\ tcp_listener # l
  /\ IF task[l] = "starting" THEN AbandonListener(l) ELSE DropHandle(l)
  /\ task' = [task EXCEPT ![l] = "over"]
  /\ UNCHANGED <<tcp_listener, handling>>

-----------------------------------------------------------------------------
(* The task of the Demux *)

\* The stream is polled while a slot is free.
PollStream ==
  /\ handling < Slots
  /\ PollStart
  /\ UNCHANGED <<tcp_listener, task, handling>>

\* With all slots taken it is not, and what has woken the task is forgotten.
PollFull ==
  /\ handling = Slots /\ phase = "idle" /\ woken
  /\ woken' = FALSE
  /\ UNCHANGED <<open, calls, addrs_of, held, listeners_rx, listeners, polled, current,
                 sockets, poll, tcp_listener, task, handling>>

\* A socket from the stream takes a slot.
TakeSocket ==
  /\ ScanReady
  /\ handling' = handling + 1
  /\ UNCHANGED <<tcp_listener, task>>

\* With a bug: with a slot free again, the stream is not polled.
FinishQuietly ==
  /\ handling > 0 /\ phase \in {"idle", "ended"}
  /\ handling' = handling - 1
  /\ UNCHANGED <<listenersVars, tcp_listener, task>>

\* With a bug: a socket that says nothing is kept.
FinishNever == FALSE /\ UNCHANGED vars

\* handle_incoming: the first message comes, and the socket is handed to the acceptor
\* or the connect call it asks for, or is sent its own address; or none comes within
\* ten seconds, the socket ends, or the message is unexpected, and it is dropped.
\* With a slot free the stream is polled again.
Finish ==
  /\ handling > 0 /\ phase \in {"idle", "ended"}
  /\ handling' = handling - 1
  /\ woken' = TRUE
  /\ UNCHANGED <<open, calls, addrs_of, held, listeners_rx, listeners, polled, current,
                 sockets, poll, tcp_listener, task>>

StreamStep ==
  /\ TakeListener \/ TakenAll \/ StreamEnd \/ ScanNotReady \/ ScanDropped \/ ScanEnd
  /\ UNCHANGED <<tcp_listener, task, handling>>

-----------------------------------------------------------------------------
Service ==
  \/ \E l \in ListenerIds : StartListening(l)
  \/ StopListening
  \/ DropListeners /\ UNCHANGED <<tcp_listener, task, handling>>

Network == \E l \in ListenerIds : Arrive(l) /\ UNCHANGED <<tcp_listener, task, handling>>

Tasks ==
  \/ \E l \in ListenerIds : TaskListens(l) \/ TaskFails(l) \/ TaskStops(l)
  \/ PollStream \/ PollFull \/ TakeSocket \/ Finish
  \/ StreamStep

Next == Service \/ Network \/ Tasks

\* The event loop polls the tasks that are notified, the mappings are ready after three
\* seconds and a silent socket is given up after ten; nothing is assumed of the
\* application or of those who connect.
Spec == Init /\ [][Next]_vars /\ WF_vars(Tasks)

-----------------------------------------------------------------------------
(* Properties *)

\* The types of the switch, its tasks and the slots, and of the listeners' state.
TypeOK ==
  /\ ListenersTypeOK
  /\ tcp_listener \in ListenerIds \union {None}
  /\ task \in [ListenerIds -> {"none", "starting", "listening", "over"}]
  /\ handling \in 0..Slots

\* A connection to a listener that is not stopped is accepted in the end, though the
\* slots be taken by connections that never say a word.
ArrivalIsAccepted ==
  \A l \in ListenerIds :
    pending[l] > 0 ~> (pending[l] = 0 \/ tcp_listener # l \/ phase = "ended")

\* When the switch is left alone, the addresses published are in the end those of the
\* listener it is on for, and none when it is off: whatever stops and starts came
\* before, however slow their tasks, and with the Demux full or not.
SwitchSettles ==
  <>[](phase = "ended" \/ current = IF tcp_listener = None THEN {} ELSE addrs_of[tcp_listener])
=============================================================================

---------------------------- MODULE PanelStream ----------------------------
(***************************************************************************)
(* The panel's end of the event stream: event-stream.js and the methods of *)
(* codex-bridge-panel.js around it, the two WebSocket commands of the      *)
(* integration they call (websocket_api.py, subscribe_events and           *)
(* get_events), and through them EventBroker and EventJournal.             *)
(*                                                                         *)
(* view is what the panel shows.  "chat": the transcript of one chat, built *)
(* from its events, with snapshots (_refreshActiveThread) and polling      *)
(* (_runPollTick) as fallbacks.  "system": the state of account and        *)
(* runtime, of which the events only say that it has to be read again.     *)
(* The two subscriptions share no state of the panel, so a behaviour has   *)
(* one of them.  A message of a subscription that was given up is ignored  *)
(* by its generation, which is to say it is lost.                          *)
(***************************************************************************)
EXTENDS EventBroker

CONSTANTS
    Chat,       \* the selected chat
    System,     \* the scope of account and runtime
    Views,      \* the views a run looks at
    MaxSelects  \* bound: selections and refreshes the user asks for

\* None is no snapshot being read.
ASSUME PanelAssumption ==
    /\ Chat \in Chats /\ Views \subseteq {"chat", "system"}
    /\ None \notin [by : {"select", "event", "user", "poll", "system"}, floor : Nat, at : Nat,
                    got : SUBSET Nat, ready : BOOLEAN]

VARIABLES
    view,          \* what is shown
    shown,         \* the events the panel holds
    sequence,      \* _sequence, which is the cursor of _eventStream too
    needsSnapshot, \* _eventStream.needsSnapshot
    link,          \* off, pending or on: the subscription as the panel sees it
    asked,         \* the cursor of the subscribe command in force
    request,       \* a subscribe command on its way
    wire,          \* envelopes on their way to the panel
    timer,         \* a reconnect timer, or the timer of a refresh
    refresh,       \* a snapshot being read
    polling,       \* _pollActive
    poll,          \* the answer of a poll that has not been applied
    selects        \* user actions so far

panelVars == <<view, shown, sequence, needsSnapshot, link, asked, request, wire,
               timer, refresh, polling, poll, selects>>
vars == <<journalVars, brokerVars, panelVars>>

Wanted == IF view = "chat" THEN {Chat} ELSE {System}

\* A snapshot being read: by whom it was asked for, the cursor it may not
\* fall behind, the next page, and the events so far.
Reading(by, floor) ==
    [by |-> by, floor |-> floor, at |-> 0, got |-> {}, ready |-> FALSE]

\* A chat has just been selected; the panel has just been opened.
PanelInit ==
    /\ JournalInit /\ BrokerInit
    /\ view \in Views
    /\ shown = {} /\ sequence = 0 /\ needsSnapshot = FALSE
    /\ link = IF view = "chat" THEN "off" ELSE "pending"
    /\ asked = 0 /\ request = IF view = "chat" THEN None ELSE 0
    /\ wire = <<>> /\ timer = FALSE /\ polling = FALSE /\ poll = None
    /\ refresh = Reading(IF view = "chat" THEN "select" ELSE "system", 0)
    /\ selects = 0

\* Every snapshot and every poll takes a new _threadSnapshotEpoch: what was
\* being read before is thrown away, and a selection starts polling however
\* its snapshot ends.
Settle ==
    /\ refresh' = None /\ poll' = None
    /\ polling' = (polling \/ (refresh # None /\ refresh.by = "select"))

Read(by, floor) ==
    /\ refresh' = Reading(by, floor) /\ poll' = None
    /\ polling' = (polling \/ (refresh # None /\ refresh.by = "select"))

-----------------------------------------------------------------------------
(* The subscription *)

\* _startEventSubscription, _startSystemEventSubscription: the old one is
\* stopped, which closes it in Home Assistant and loses what is on its way.
Start(after) ==
    /\ link' = "pending" /\ asked' = after /\ request' = after
    /\ sub' = None /\ wire' = <<>> /\ timer' = FALSE

\* _stopEventSubscription, _retireEventSubscription, _retireSystemEventSubscription
Stop(reconnect) ==
    /\ link' = "off" /\ request' = None
    /\ sub' = None /\ wire' = <<>> /\ timer' = reconnect
    /\ UNCHANGED asked

\* As if a subscription that is refused were not tried again.
ForgetSubscription ==
    /\ request # None /\ link = "pending" /\ Fault
    /\ link' = "off" /\ request' = None /\ timer' = FALSE
    /\ UNCHANGED <<journalVars, cursor, saved, history, phase, answer, receipt, fired, sub,
                   view, shown, sequence, needsSnapshot, asked, wire, refresh, polling,
                   poll, selects>>

\* Home Assistant carries out the command, or cannot.
OpenSubscription ==
    /\ request # None
    /\ Subscribe(request, Wanted)
    /\ request' = None
    /\ UNCHANGED <<journalVars, cursor, saved, history, phase, answer, receipt, fired,
                   faults, view, shown, sequence, needsSnapshot, link, asked, wire, timer,
                   refresh, polling, poll, selects>>

RefuseSubscription ==
    /\ request # None /\ link = "pending" /\ Fault
    /\ link' = "off" /\ request' = None /\ timer' = TRUE
    /\ UNCHANGED <<journalVars, cursor, saved, history, phase, answer, receipt, fired, sub,
                   view, shown, sequence, needsSnapshot, asked, wire, refresh, polling,
                   poll, selects>>

\* The result of the command reaches the panel.
Linked ==
    /\ link = "pending" /\ request = None
    /\ link' = "on"
    /\ UNCHANGED <<journalVars, brokerVars, view, shown, sequence, needsSnapshot, asked,
                   request, wire, timer, refresh, polling, poll, selects>>

\* The reconnect timer of the chat's subscription, and the timer of the system's.
Reconnect ==
    /\ timer /\ link = "off"
    /\ Start(sequence)
    /\ UNCHANGED <<journalVars, cursor, saved, history, phase, answer, receipt, fired,
                   faults, view, shown, sequence, needsSnapshot, refresh, polling, poll,
                   selects>>

\* ws_subscribe_events, _forward_v1: one envelope goes out; a closed
\* subscription ends with its last one.  A heartbeat means nothing to the panel.
Forward ==
    /\ sub # None /\ sub.queue # <<>>
    /\ sub' = IF ~sub.open THEN None ELSE [sub EXCEPT !.queue = Tail(@)]
    /\ wire' = IF Head(sub.queue) = Heartbeat THEN wire ELSE Append(wire, Head(sub.queue))
    /\ UNCHANGED <<journalVars, cursor, saved, history, phase, answer, receipt, fired,
                   faults, view, shown, sequence, needsSnapshot, link, asked, request,
                   timer, refresh, polling, poll, selects>>

\* The WebSocket breaks and comes back; its library repeats the commands of
\* the subscriptions that were not given up, with the cursors they had.
LoseConnection ==
    /\ wire' = <<>>
    /\ request' = IF link = "off" THEN None ELSE asked

Disconnect ==
    /\ Fault /\ link # "off"
    /\ LoseConnection /\ sub' = None
    /\ UNCHANGED <<journalVars, cursor, saved, history, phase, answer, receipt, fired,
                   view, shown, sequence, needsSnapshot, link, asked, timer, refresh,
                   polling, poll, selects>>

RestartHomeAssistant ==
    /\ Restart /\ LoseConnection
    /\ IF view = "chat" THEN Settle ELSE UNCHANGED <<refresh, polling, poll>>
    /\ UNCHANGED <<view, shown, sequence, needsSnapshot, link, asked, timer, selects>>


-----------------------------------------------------------------------------
(* The transcript of a chat *)

brokerOnly == <<cursor, saved, history, phase, answer, receipt, fired, faults>>

\* acceptEvent and _handleSubscribedEvent.  A control of the stream comes with
\* the cursor of Home Assistant and is a replay when the panel is past it; the
\* status of the stream comes without a cursor and is not an event at all.
IsNews(e) == e.kind \in {"event", "snapshot"} /\ e.at > sequence

AcceptEvent(e) ==
    /\ e.kind = "event" /\ IsNews(e) /\ ~needsSnapshot
    /\ shown' = shown \cup {e.at} /\ sequence' = e.at
    /\ wire' = Tail(wire)
    /\ \/ UNCHANGED <<refresh, polling, poll>>
       \/ Settle \* _scheduleLiveRefresh, when the event is of a run
    /\ UNCHANGED <<journalVars, brokerVars, view, needsSnapshot, link, asked, request,
                   timer, selects>>

AcceptControl(e) ==
    /\ IsNews(e) /\ (e.kind = "snapshot" \/ needsSnapshot)
    /\ sequence' = IF e.kind = "snapshot" THEN e.at ELSE sequence
    /\ needsSnapshot' = TRUE
    /\ Stop(FALSE)
    /\ Read("event", sequence')
    /\ UNCHANGED <<journalVars, brokerOnly, view, shown, selects>>

Ignore(e) ==
    /\ ~IsNews(e)
    /\ wire' = Tail(wire)
    /\ UNCHANGED <<journalVars, brokerVars, view, shown, sequence, needsSnapshot, link,
                   asked, request, timer, refresh, polling, poll, selects>>

ReceiveChat ==
    /\ view = "chat" /\ wire # <<>>
    /\ AcceptEvent(Head(wire)) \/ AcceptControl(Head(wire)) \/ Ignore(Head(wire))

\* _selectThread
Select ==
    /\ view = "chat" /\ selects < MaxSelects /\ selects' = selects + 1
    /\ Stop(FALSE)
    /\ shown' = {} /\ sequence' = 0 /\ needsSnapshot' = FALSE
    /\ refresh' = Reading("select", 0) /\ poll' = None /\ polling' = FALSE
    /\ UNCHANGED <<journalVars, brokerOnly, view>>

\* _refreshActiveThread, after an upload, a prompt or the retry of an error
UserRefresh ==
    /\ view = "chat" /\ selects < MaxSelects /\ selects' = selects + 1
    /\ Read("user", 0)
    /\ UNCHANGED <<journalVars, brokerVars, view, shown, sequence, needsSnapshot, link,
                   asked, request, wire, timer>>

\* _loadThreadEventHistory: one page.  An expired cursor ends the history.
LoadPage ==
    /\ view = "chat" /\ refresh # None /\ ~refresh.ready
    /\ LET page == Replay(refresh.at, {Chat}) IN
       refresh' = [refresh EXCEPT !.got = @ \cup page.events,
                                  !.at = page.next, !.ready = ~page.more]
    /\ UNCHANGED <<journalVars, brokerVars, view, shown, sequence, needsSnapshot, link,
                   asked, request, wire, timer, polling, poll, selects>>

\* The snapshot replaces what is shown, and a subscription starts behind it.
Commit ==
    /\ view = "chat" /\ refresh # None /\ refresh.ready
    /\ shown' = refresh.got
    /\ sequence' = Max(refresh.got \cup {refresh.floor})
    /\ needsSnapshot' = FALSE
    /\ Settle
    /\ Start(sequence')
    /\ UNCHANGED <<journalVars, brokerOnly, view, selects>>

RefreshFails ==
    /\ view = "chat" /\ refresh # None /\ Fault
    /\ Settle
    /\ UNCHANGED <<journalVars, cursor, saved, history, phase, answer, receipt, fired, sub,
                   view, shown, sequence, needsSnapshot, link, asked, request, wire, timer,
                   selects>>

\* _runPollTick
MayTick ==
    /\ view = "chat" /\ polling /\ poll = None
    /\ refresh # None => refresh.by # "poll"

TickSnapshot ==
    /\ MayTick /\ needsSnapshot
    /\ Stop(FALSE) /\ Read("poll", sequence)
    /\ UNCHANGED <<journalVars, brokerOnly, view, shown, sequence, needsSnapshot, selects>>

TickEvents ==
    /\ MayTick /\ ~needsSnapshot /\ link # "on"
    /\ poll' = Replay(sequence, {Chat}) /\ refresh' = None
    /\ UNCHANGED <<journalVars, brokerVars, view, shown, sequence, needsSnapshot, link,
                   asked, request, wire, timer, polling, selects>>

TickLinked ==
    /\ MayTick /\ ~needsSnapshot /\ link = "on" /\ refresh # None
    /\ Settle
    /\ UNCHANGED <<journalVars, brokerVars, view, shown, sequence, needsSnapshot, link,
                   asked, request, wire, timer, selects>>

\* acceptEvents on the answer of get_events
ApplyEvents ==
    /\ poll # None /\ (poll.kind = "page" \/ Larger(poll.next, poll.floor) <= sequence)
    /\ shown' = shown \cup (poll.events \ 0..sequence)
    /\ sequence' = Max(poll.events \cup {sequence})
    /\ poll' = None
    /\ UNCHANGED <<journalVars, brokerVars, view, needsSnapshot, link, asked, request,
                   wire, timer, refresh, polling, selects>>

ApplyGap ==
    /\ poll # None /\ poll.kind = "gone" /\ Larger(poll.next, poll.floor) > sequence
    /\ sequence' = Larger(poll.next, poll.floor) /\ needsSnapshot' = TRUE
    /\ Stop(FALSE) /\ Read("poll", sequence')
    /\ UNCHANGED <<journalVars, brokerOnly, view, shown, selects>>

PollFails ==
    /\ poll # None /\ Fault
    /\ poll' = None
    /\ UNCHANGED <<journalVars, cursor, saved, history, phase, answer, receipt, fired, sub,
                   view, shown, sequence, needsSnapshot, link, asked, request, wire, timer,
                   refresh, polling, selects>>

-----------------------------------------------------------------------------
(* Account and runtime: _handleSystemEvent, _scheduleSystemRefresh *)

ReceiveSystem ==
    /\ view = "system" /\ wire # <<>>
    /\ LET e == Head(wire)
           read == \/ e.kind \in {"snapshot", "status"}
                   \/ e.kind = "event" /\ e.at > sequence
       IN  /\ sequence' = Larger(sequence, e.at)
           /\ refresh' = IF read THEN Reading("system", 0) ELSE refresh
           /\ IF e.hard THEN Stop(TRUE)
              ELSE wire' = Tail(wire) /\ UNCHANGED <<sub, link, asked, request, timer>>
    /\ UNCHANGED <<journalVars, brokerOnly, view, shown, needsSnapshot, polling, poll,
                   selects>>

\* _refreshAuthStatus reads the state that the last event led to.
ReadSystem ==
    /\ view = "system" /\ refresh # None /\ ~refresh.ready
    /\ shown' = DOMAIN written /\ refresh' = None
    /\ UNCHANGED <<journalVars, brokerVars, view, sequence, needsSnapshot, link, asked,
                   request, wire, timer, polling, poll, selects>>

\* It cannot: it shows an error and leaves it at that.
ReadSystemFails ==
    /\ view = "system" /\ refresh # None /\ ~refresh.ready /\ Fault
    /\ refresh' = [refresh EXCEPT !.ready = TRUE]
    /\ UNCHANGED <<journalVars, cursor, saved, history, phase, answer, receipt, fired, sub,
                   view, shown, sequence, needsSnapshot, link, asked, request, wire, timer,
                   polling, poll, selects>>

-----------------------------------------------------------------------------
Write(s) == WriteEvent(s) /\ UNCHANGED <<brokerVars, panelVars>>
Purge(s) == PurgeThread(s) /\ UNCHANGED <<brokerVars, panelVars>>

HomeAssistant ==
    /\ \/ Fetch \/ FetchNothing \/ FetchFails \/ FetchRefused \/ SkipGap \/ AnnounceGap
       \/ SaveReceipt \/ Fire \/ ListenerFails \/ ConsumeEvent \/ FinishPage
    /\ UNCHANGED panelVars

Poll == TickSnapshot \/ TickEvents \/ TickLinked \/ ApplyEvents \/ ApplyGap

PanelNext ==
    \/ \E s \in Scope : Write(s)
    \/ \E s \in Chats \ Wanted : Purge(s)
    \/ HomeAssistant \/ RestartHomeAssistant
    \/ OpenSubscription \/ RefuseSubscription \/ Linked \/ Reconnect \/ Forward
    \/ Disconnect \/ ReceiveChat \/ ReceiveSystem \/ ReadSystem \/ ReadSystemFails
    \/ Select \/ UserRefresh \/ LoadPage \/ Commit \/ RefreshFails
    \/ Poll \/ PollFails

PanelSpec == PanelInit /\ [][PanelNext]_vars

\* Tasks, timers and messages that are due are run; of the steps named together
\* one at most is possible.  The App, the user and failures owe nothing.
Broker == BrokerStep /\ UNCHANGED panelVars
Connect == OpenSubscription \/ Linked \/ Reconnect
Receive == ReceiveChat \/ ReceiveSystem
Show == ReadSystem \/ LoadPage \/ Commit

PanelFairness ==
    /\ WF_vars(Broker) /\ WF_vars(Connect) /\ WF_vars(Forward)
    /\ WF_vars(Receive) /\ WF_vars(Show) /\ WF_vars(Poll)

PanelFairSpec == PanelSpec /\ PanelFairness

-----------------------------------------------------------------------------
(* Properties *)

Complete ==
    IF view = "chat" THEN Retained(Chat) \subseteq shown
    ELSE {c \in DOMAIN written : written[c] = System} \subseteq shown

\* The panel believes in a subscription that Home Assistant has ended.
Deaf == link = "on" /\ sub = None /\ request = None /\ wire = <<>> /\ ~needsSnapshot

\* The oldest events of the chat are gone, which TranscriptCurrent is about.
Trimmed == view = "chat" /\ minimum[Chat] > 0

\* The panel shows an error, until the next event makes it read again (or the user,
\* or the poll of a chat, which reads the status from time to time).
Failed == view = "system" /\ refresh # None /\ refresh.ready

\* What the panel says it has read up to, it shows: an event is skipped only
\* when the panel knows that it needs a snapshot, or has the read pending, or
\* says that the read has failed.
NoSilentGap ==
    \/ view = "chat" /\ needsSnapshot
    \/ Trimmed
    \/ view = "system" /\ refresh # None
    \/ {c \in 1..sequence : written[c] \in Wanted} \subseteq shown

\* task_events.py: a task's event is put on the bus at most once, whatever is
\* replayed after a failing listener or a restart.
FiredOnce == \A c \in 1..MaxEvents : fired[c] <= 1

\* When nothing fails any more, the panel comes to show everything, or the error of
\* its last read, unless its subscription was ended without its noticing.
CatchesUp == <>[](Complete \/ Deaf \/ Trimmed \/ Failed)

\* websocket_api.py says of a stream that stopped that polling will retry.
PollingRetries == <>[]Complete

\* The panel takes a replay from the start of the journal for the transcript.
TranscriptCurrent ==
    view = "chat" /\ link = "on" /\ ~needsSnapshot
        => Retained(Chat) \cap 1..sequence \subseteq shown

=============================================================================

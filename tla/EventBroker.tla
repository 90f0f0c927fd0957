---------------------------- MODULE EventBroker ----------------------------
(***************************************************************************)
(* event_broker.py of the Home Assistant integration: one task reads the   *)
(* App's journal page by page and hands every event to the durable         *)
(* listeners and then to the subscriptions of open panels.  It keeps the   *)
(* newest events for subscriptions that start a little behind; whoever is  *)
(* further behind, or too slow for his queue, gets one envelope that tells *)
(* him to take a snapshot and is dropped.  task_events.py is the durable   *)
(* listener that puts the events of tasks on Home Assistant's bus.         *)
(*                                                                         *)
(* One subscription is followed.  Home Assistant may crash: its cursor is  *)
(* saved behind the events, never before.  An authentication failure ends  *)
(* the task for good and is left out.                                      *)
(***************************************************************************)
EXTENDS EventJournal

CONSTANTS
    None,        \* no subscription, no request
    HistorySize, \* history_size
    QueueSize,   \* queue_size
    TaskScopes,  \* scopes whose events the forwarder puts on the bus
    MaxFaults    \* bound: failed requests, listeners and saves, and crashes

ASSUME BrokerAssumption == HistorySize \in Nat \ {0}

VARIABLES
    cursor,    \* EventBroker._cursor
    saved,     \* what the store holds of it
    history,   \* _history, cursors in order
    phase,     \* where _run is
    answer,    \* the response being consumed
    receipt,   \* TaskEventForwarder._cursor and its store
    fired,     \* per cursor, how often it was put on the bus
    sub,       \* the subscription
    faults     \* failures so far

brokerVars == <<cursor, saved, history, phase, answer, receipt, fired, sub, faults>>

NoAnswer == [kind |-> "none", events |-> {}, more |-> FALSE, next |-> 0, floor |-> 0]

Event(c) == [kind |-> "event", at |-> c, hard |-> FALSE]
SnapshotRequired(c) == [kind |-> "snapshot", at |-> c, hard |-> FALSE]
Status(hard) == [kind |-> "status", at |-> 0, hard |-> hard]
Heartbeat == [kind |-> "heartbeat", at |-> 0, hard |-> FALSE]

BrokerInit ==
    /\ cursor = 0 /\ saved = 0 /\ history = <<>>
    /\ phase = "idle" /\ answer = NoAnswer
    /\ receipt = 0 /\ fired = [c \in 1..MaxEvents |-> 0]
    /\ sub = None /\ faults = 0

Fault == faults < MaxFaults /\ faults' = faults + 1

\* EventSubscription.matches
Matches(s, c) == c > s.after /\ written[c] \in s.scopes

\* _replace_then_close
Closed(s, envelope) == [s EXCEPT !.open = FALSE, !.queue = <<envelope>>]

\* As if an event were dropped when the queue is full.
PutOrDrop(s, envelope) ==
    IF Len(s.queue) < QueueSize THEN [s EXCEPT !.queue = Append(@, envelope)] ELSE s

\* _put: an envelope the queue has no room for ends the subscription.
Put(s, envelope) ==
    IF Len(s.queue) < QueueSize THEN [s EXCEPT !.queue = Append(@, envelope)]
    ELSE Closed(s, SnapshotRequired(cursor'))

Live == sub # None /\ sub.open

\* _publish_event, _publish_envelope, _publish_snapshot
PublishEvent(c) == sub' = IF Live /\ Matches(sub, c) THEN Put(sub, Event(c)) ELSE sub
PublishEnvelope(e) == sub' = IF Live THEN Put(sub, e) ELSE sub
PublishSnapshot(e) == sub' = IF Live THEN Closed(sub, e) ELSE sub

\* The events with these cursors, oldest first.
InOrder(cursors) ==
    [i \in 1..Cardinality(cursors) |-> Event(CHOOSE c \in cursors : Rank(c, cursors) = i)]

\* _replay_history, for a subscription that has just been made
WithHistory(s) ==
    LET matching == {c \in Range(history) : Matches(s, c)} IN
    IF s.after >= cursor THEN s
    ELSE IF \/ history = <<>>
            \/ history[Len(history)] # cursor
            \/ s.after < history[1] - 1
            \/ Cardinality(matching) > QueueSize
         THEN Closed(s, SnapshotRequired(cursor))
         ELSE [s EXCEPT !.queue = InOrder(matching)]

\* subscribe
Subscribe(after, scopes) ==
    sub' = WithHistory([after |-> after, scopes |-> scopes, open |-> TRUE, queue |-> <<>>])

\* _append_history
Remember(c) ==
    history' = Append(IF Len(history) >= HistorySize THEN Tail(history) ELSE history, c)

-----------------------------------------------------------------------------
\* The App has nothing after the cursor.
Idle == LET page == Replay(cursor, Scope) IN
    page.kind = "page" /\ page.events = {} /\ page.next = cursor

\* _run asks for the page after its cursor; the App answers.
Fetch ==
    /\ phase = "idle" /\ ~Idle
    /\ answer' = Replay(cursor, Scope)
    /\ phase' = "consuming"
    /\ UNCHANGED <<journalVars, cursor, saved, history, receipt, fired, sub, faults>>

\* The long poll ends with nothing new.
FetchNothing ==
    /\ phase = "idle" /\ Idle
    /\ UNCHANGED cursor
    /\ PublishEnvelope(Heartbeat)
    /\ UNCHANGED <<journalVars, saved, history, phase, answer, receipt, fired, faults>>

\* The App cannot be reached: its readers are told, and it is asked again.
FetchFails ==
    /\ phase = "idle" /\ Fault
    /\ UNCHANGED cursor
    /\ PublishEnvelope(Status(FALSE))
    /\ UNCHANGED <<journalVars, saved, history, phase, answer, receipt, fired>>

\* _retry_after_failure: the App answered nonsense or refused; every
\* subscription gets the status and is closed.
FetchRefused ==
    /\ phase = "idle" /\ Fault
    /\ PublishSnapshot(Status(TRUE))
    /\ UNCHANGED <<journalVars, cursor, saved, history, phase, answer, receipt, fired>>

Fresh == {c \in answer.events : c > cursor}

\* The page does not continue what has been read.
Gap ==
    \/ answer.kind = "gone"
    \/ cursor < answer.floor
    \/ Fresh # {} /\ Min(Fresh) > cursor + 1
    \/ answer.events = {} /\ answer.next > cursor

\* _consume and _recover_snapshot on a gap, up to the save of the cursor
SkipGap ==
    /\ phase = "consuming" /\ Gap
    /\ cursor' = Max({cursor, answer.floor, answer.next})
    /\ history' = <<>>
    /\ phase' = "gap"
    /\ UNCHANGED <<journalVars, saved, answer, receipt, fired, sub, faults>>

\* _persist_cursor; a store that fails is passed over.
Persist ==
    \/ saved' = cursor' /\ UNCHANGED faults
    \/ saved' = saved /\ Fault

\* ... and from there
AnnounceGap ==
    /\ phase = "gap"
    /\ UNCHANGED cursor
    /\ Persist
    /\ PublishSnapshot(SnapshotRequired(cursor))
    /\ phase' = "idle" /\ answer' = NoAnswer
    /\ UNCHANGED <<journalVars, history, receipt, fired>>

Current == Min(Fresh)
IsTask(c) == written[c] \in TaskScopes /\ c > receipt

\* TaskEventForwarder._handle saves the receipt ...
SaveReceipt ==
    /\ phase = "consuming" /\ ~Gap /\ Fresh # {} /\ IsTask(Current)
    /\ receipt' = Current
    /\ phase' = "firing"
    /\ UNCHANGED <<journalVars, cursor, saved, history, answer, fired, sub, faults>>

\* ... and puts the event on the bus.
Fire ==
    /\ phase = "firing"
    /\ fired' = [fired EXCEPT ![Current] = @ + 1]
    /\ phase' = "consuming"
    /\ UNCHANGED <<journalVars, cursor, saved, history, answer, receipt, sub, faults>>

\* A listener, or the save of the receipt, fails: the page is asked for again
\* from the event it did not take.
ListenerFails ==
    /\ phase = "consuming" /\ ~Gap /\ Fresh # {} /\ Fault
    /\ UNCHANGED cursor
    /\ PublishEnvelope(Status(FALSE))
    /\ phase' = "idle" /\ answer' = NoAnswer
    /\ UNCHANGED <<journalVars, saved, history, receipt, fired>>

\* Every listener has taken the event.
ConsumeEvent ==
    /\ phase = "consuming" /\ ~Gap /\ Fresh # {} /\ ~IsTask(Current)
    /\ cursor' = Current
    /\ Remember(Current)
    /\ PublishEvent(Current)
    /\ UNCHANGED <<journalVars, saved, phase, answer, receipt, fired, faults>>

\* The page is done.
FinishPage ==
    /\ phase = "consuming" /\ ~Gap /\ Fresh = {}
    /\ cursor' = Larger(cursor, answer.next)
    /\ Persist
    /\ phase' = "idle" /\ answer' = NoAnswer
    /\ UNCHANGED <<journalVars, history, receipt, fired, sub>>

\* As if the receipt of the forwarder were kept with the broker's cursor.
RestartWithoutReceipt ==
    /\ Fault
    /\ cursor' \in {saved, 0} /\ receipt' = cursor'
    /\ history' = <<>> /\ phase' = "idle" /\ answer' = NoAnswer
    /\ sub' = None
    /\ UNCHANGED <<journalVars, saved, fired>>

\* Home Assistant stops and starts.  A store that cannot be read is taken for
\* an empty one.
Restart ==
    /\ Fault
    /\ cursor' \in {saved, 0}
    /\ history' = <<>> /\ phase' = "idle" /\ answer' = NoAnswer
    /\ sub' = None
    /\ UNCHANGED <<journalVars, saved, receipt, fired>>

BrokerStep == Fetch \/ SkipGap \/ AnnounceGap \/ SaveReceipt \/ Fire \/ ConsumeEvent
              \/ FinishPage

=============================================================================

---------------------------- MODULE Automations ----------------------------
(***************************************************************************)
(* Scheduled tasks: automations.py (AutomationStore), the claim route of   *)
(* routes/automations.py, the dispatcher of app.py and the report a turn's *)
(* end makes to the store.  Home Assistant owns the clock: it reads the    *)
(* next occurrence, and when it is due asks for a run with a key made of   *)
(* the revision and the occurrence.  The store decides once per key what   *)
(* becomes of it; a queued run is dispatched by the handler that asked.    *)
(*                                                                         *)
(* One automation is modelled.  Every operation of the store is atomic: it *)
(* holds the store's lock and saves automations.json before it returns.    *)
(* The steps of a handler are not: the claim, the admission of the prompt, *)
(* its submission, the link of the run to its turn are four durable writes *)
(* of three owners, and requests, turns and crashes come in between.       *)
(***************************************************************************)
EXTENDS Naturals, FiniteSets

CONSTANTS
    Manual,       \* run-now requests; each gets a key of its own
    Handler,      \* threads that serve a claim request
    None,         \* no run, no occurrence, no key
    Outcome,      \* the statuses a turn's end is reported with
    MaxDue,       \* bound: the schedule's occurrences are 1 .. MaxDue
    MaxRuns,      \* max_runs_per_automation
    MaxRevision,  \* bound: edits of the definition
    MaxCrashes    \* bound: crashes of the Bridge process

Due == 1 .. MaxDue

\* The idempotency keys: a revision and an occurrence, or a run-now request.
Scheduled == (1 .. MaxRevision) \X Due
Key == Scheduled \cup Manual

ActiveStatus == {"queued", "running"}
TerminalStatus == {"completed", "failed", "cancelled", "blocked", "interrupted_restart"}
SkippedStatus ==
    {"skipped_paused", "skipped_misfire", "skipped_overlap", "skipped_capacity"}

RunRecord ==
    [status : ActiveStatus \cup TerminalStatus \cup SkippedStatus,
     linked : BOOLEAN, started : BOOLEAN]

ASSUME AutomationsAssumption ==
    /\ MaxDue \in Nat /\ MaxRuns \in Nat \ {0}
    /\ MaxRevision \in Nat \ {0} /\ MaxCrashes \in Nat
    /\ Outcome \subseteq {"completed", "failed", "cancelled", "interrupted_restart"}
    /\ Manual \cap Scheduled = {}
    /\ None \notin Key \cup Due \cup RunRecord

VARIABLES
    clock,    \* the occurrences whose time has come are 1 .. clock
    task,     \* the definition: exists, enabled, revision, next (next_run_at)
    run,      \* per key: its run record, or None
    settled,  \* the finished records in their order: who finished before whom
    offered,  \* the keys Home Assistant may ask for
    handler,  \* what each handler is about to do, and for which key
    turn,     \* per key: what the runtime broker did for its run
    started,  \* history: the turns started for each occurrence
    up,       \* the Bridge process: down, starting or serving
    crashes,
    doubled   \* history: the keys asked for while a handler still served them

vars == <<clock, task, run, settled, offered, handler, turn, started, up, crashes,
          doubled>>

Active(r) == r # None /\ r.status \in ActiveStatus

\* A turn may end before its handler has recorded that it started.
PendingLink(r) ==
    r # None /\ r.status \in TerminalStatus /\ r.linked /\ ~r.started

Idle == [at |-> "idle", key |-> None]

Init ==
    /\ clock = 0
    /\ task = [exists |-> TRUE, enabled |-> TRUE, revision |-> 1,
               next |-> IF MaxDue = 0 THEN None ELSE 1]
    /\ run = [k \in Key |-> None]
    /\ settled = {}
    /\ offered = Manual
    /\ handler = [h \in Handler |-> Idle]
    /\ turn = [k \in Key |-> "none"]
    /\ started = [d \in Due |-> 0]
    /\ up = "serving"
    /\ crashes = 0
    /\ doubled = {}

\* The first occurrence after now; None when the schedule has ended.
NextRun == IF clock < MaxDue THEN clock + 1 ELSE None

-----------------------------------------------------------------------------
(* The history keeps the newest MaxRuns finished records.  The records the *)
(* operation just wrote are kept in any case; active records and those     *)
(* whose link is still to come do not count.                               *)

Countable(r) == r # None /\ ~Active(r) /\ ~PendingLink(r)
Finished(rs) == {k \in Key : rs[k] # None /\ ~Active(rs[k])}

\* The order once k has finished, last of all.
Settles(k) == settled \cup (Finished(run) \X {k})

\* _prune_runs: the keys it removes from rs, whose records finished in the
\* given order, while the records of kept are protected.
Excess(rs, order, kept) ==
    LET old == {k \in Key : Countable(rs[k]) /\ k \notin kept}
        own == Cardinality({k \in kept : Countable(rs[k])})
        room == IF own < MaxRuns THEN MaxRuns - own ELSE 0
        Newer(k) == {j \in old : <<k, j>> \in order}
    IN  {k \in old : Cardinality(Newer(k)) >= room}

\* Record rs, settled in the given order, and prune what is too much.  Home
\* Assistant asks again for five minutes at most, far less than it takes to
\* fill the history: a pruned key is not asked for again, and the key of a
\* run-now request is used once.
Saves(rs, order, kept) ==
    LET gone == Excess(rs, order, kept)
    IN  /\ run' = [k \in Key |-> IF k \in gone THEN None ELSE rs[k]]
        /\ settled' = {p \in order : p[1] \notin gone /\ p[2] \notin gone}
        /\ offered' = offered \ (gone \cup (kept \cap Manual))

\* complete: an active record gets its last status.
Completes(k, status, linked) ==
    Saves([run EXCEPT ![k] = [@ EXCEPT !.status = status, !.linked = linked]],
          Settles(k), {k})

-----------------------------------------------------------------------------
(* The definition.                                                         *)

\* Time passes and the next occurrence comes due.
Tick ==
    /\ clock < MaxDue
    /\ clock' = clock + 1
    /\ UNCHANGED <<task, run, settled, offered, handler, turn, started,
                   up, crashes, doubled>>

\* scheduler_snapshot: Home Assistant learns the next occurrence.
Snapshot ==
    /\ up = "serving"
    /\ task.exists /\ task.enabled /\ task.next # None
    /\ offered' = offered \cup {<<task.revision, task.next>>}
    /\ UNCHANGED <<clock, task, run, settled, handler, turn, started,
                   up, crashes, doubled>>

Edits(record) ==
    /\ up = "serving"
    /\ task.exists /\ task.revision < MaxRevision
    /\ task' = record
    /\ UNCHANGED <<clock, run, settled, offered, handler, turn, started,
                   up, crashes, doubled>>

\* update: an edit of the text keeps the pending occurrence, an edit of the
\* schedule computes a new one.
Update ==
    \E next \in {task.next, IF task.enabled THEN NextRun ELSE None} :
        Edits([task EXCEPT !.revision = @ + 1, !.next = next])

\* pause and resume.
SetEnabled(enabled) ==
    /\ task.enabled # enabled
    /\ Edits([task EXCEPT !.enabled = enabled, !.revision = @ + 1,
                          !.next = IF enabled THEN NextRun ELSE None])

\* delete: only a paused automation with no active run, its history with it.
Delete ==
    /\ up = "serving"
    /\ task.exists /\ ~task.enabled
    /\ \A k \in Key : ~Active(run[k])
    /\ task' = [task EXCEPT !.exists = FALSE]
    /\ run' = [k \in Key |-> None]
    /\ settled' = {}
    /\ UNCHANGED <<clock, offered, handler, turn, started,
                   up, crashes, doubled>>

-----------------------------------------------------------------------------
(* A claim and its dispatch.                                               *)

\* As if only a run that has started reserved the automation.
ClaimStatusRunning(k, late, capacity) ==
    IF ~task.enabled THEN "skipped_paused"
    ELSE IF k \in Scheduled /\ late THEN "skipped_misfire"
    ELSE IF \E other \in Key : run[other] # None /\ run[other].status = "running"
    THEN "skipped_overlap"
    ELSE IF ~capacity THEN "skipped_capacity"
    ELSE "queued"

\* The checks of _claim, in their order.
ClaimStatus(k, late, capacity) ==
    IF ~task.enabled THEN "skipped_paused"
    ELSE IF k \in Scheduled /\ late THEN "skipped_misfire"
    ELSE IF \E other \in Key : Active(run[other]) THEN "skipped_overlap"
    ELSE IF ~capacity THEN "skipped_capacity"
    ELSE "queued"

Moves(h, at, k) == handler' = [handler EXCEPT ![h] = [at |-> at, key |-> k]]
Answers(h) == handler' = [handler EXCEPT ![h] = Idle]

\* A request arrives at an idle handler.  Home Assistant asks for an
\* occurrence once it is due, and again when it got no answer in time, be it
\* that the first request is still being served.
Arrives(h, k) ==
    /\ up = "serving"
    /\ handler[h] = Idle
    /\ k \in offered
    /\ k \in Scheduled => k[2] <= clock
    /\ doubled' = IF \E other \in Handler : handler[other].key = k
                  THEN doubled \cup {k} ELSE doubled

\* _claim of a key the store knows: the record it has.  The route dispatches
\* it while it is queued.
ClaimAgain(h, k) ==
    /\ Arrives(h, k)
    /\ run[k] # None /\ run[k].status = "queued"
    /\ Moves(h, "dispatch", k)
    /\ UNCHANGED <<clock, task, run, settled, offered, turn, started, up, crashes>>

\* _claim of a new key: a record with its status, and the next occurrence.
Claim(h, k) ==
    /\ Arrives(h, k)
    /\ run[k] = None
    /\ task.exists
    /\ k \in Scheduled => k[1] = task.revision
    /\ \E late \in BOOLEAN, capacity \in BOOLEAN :
        LET status == ClaimStatus(k, late, capacity)
            rs == [run EXCEPT ![k] =
                      [status |-> status, linked |-> FALSE, started |-> FALSE]]
        IN  IF status = "queued"
            THEN /\ Saves(rs, settled, {k})
                 /\ Moves(h, "dispatch", k)
            ELSE /\ Saves(rs, Settles(k), {k})
                 /\ Answers(h)
    /\ task' = IF k \in Scheduled THEN [task EXCEPT !.next = NextRun] ELSE task
    /\ turn' = [turn EXCEPT ![k] = "none"]  \* a new run is a new request
    /\ UNCHANGED <<clock, started, up, crashes>>

\* The broker holds its lock while it ends a turn and reports the end.
BrokerFree == \A k \in Key : turn[k] # "reporting"

\* dispatch_automation, admit_prompt: the run's id is the id of the request,
\* so that a prompt admitted before is found again; one that is just being
\* admitted by another handler is an error.
Admit(h) ==
    LET k == handler[h].key
    IN  /\ handler[h].at = "dispatch"
        /\ BrokerFree
        /\ \/ /\ turn[k] = "none"
              /\ turn' = [turn EXCEPT ![k] = "admitted"]
              /\ Moves(h, "submit", k)
           \/ /\ turn[k] = "admitted"
              /\ Moves(h, "block", k)
              /\ UNCHANGED turn
           \/ /\ turn[k] \in {"live", "ended"}
              /\ Moves(h, "link", k)
              /\ UNCHANGED turn
        /\ UNCHANGED <<clock, task, run, settled, offered, started,
                       up, crashes, doubled>>

\* submit_prompt: the runtime owns the prompt.
Submit(h) ==
    LET k == handler[h].key
    IN  /\ handler[h].at = "submit"
        /\ BrokerFree
        /\ turn' = [turn EXCEPT ![k] = "live"]
        /\ started' = IF k \in Scheduled
                      THEN [started EXCEPT ![k[2]] = @ + 1] ELSE started
        /\ Moves(h, "link", k)
        /\ UNCHANGED <<clock, task, run, settled, offered,
                       up, crashes, doubled>>

\* The runtime is not ready, the target is gone, the prompt is not admitted
\* or the submission fails, which gives the admission back.
Refuse(h) ==
    LET k == handler[h].key
    IN  /\ handler[h].at \in {"dispatch", "submit"}
        /\ handler[h].at = "submit" => BrokerFree
        /\ turn' = IF handler[h].at = "submit"
                   THEN [turn EXCEPT ![k] = "none"] ELSE turn
        /\ Moves(h, "block", k)
        /\ UNCHANGED <<clock, task, run, settled, offered, started,
                       up, crashes, doubled>>

\* mark_running: link the run to its turn.  A turn that has already ended
\* left a linked record, to which only the start is added.
Link(h) ==
    LET k == handler[h].key
        linked == [run EXCEPT ![k].started = TRUE]
    IN  /\ handler[h].at = "link"
        /\ \/ /\ run[k] # None /\ run[k].status = "queued"
              /\ run' = [run EXCEPT ![k] =
                            [status |-> "running", linked |-> TRUE, started |-> TRUE]]
              /\ Answers(h)
              /\ UNCHANGED <<settled, offered>>
           \/ /\ PendingLink(run[k])
              /\ Saves(linked, settled, {k})
              /\ Answers(h)
           \/ /\ run[k] # None /\ run[k].status \in TerminalStatus
              /\ run[k].linked /\ run[k].started
              /\ Answers(h)
              /\ UNCHANGED <<run, settled, offered>>
           \/ /\ run[k] # None => \/ run[k].status = "running"
                                  \/ run[k].status # "queued" /\ ~run[k].linked
              /\ Moves(h, "block", k)
              /\ UNCHANGED <<run, settled, offered>>
        /\ UNCHANGED <<clock, task, turn, started, up, crashes, doubled>>

\* As if complete did not look at the status the record has.
BlockFinished(h) ==
    LET k == handler[h].key
    IN  /\ handler[h].at = "block"
        /\ IF run[k] # None
           THEN Completes(k, "blocked", run[k].linked)
           ELSE UNCHANGED <<run, settled, offered>>
        /\ Answers(h)
        /\ UNCHANGED <<clock, task, turn, started, up, crashes, doubled>>

\* The route records a dispatch that raised; a record that is no longer
\* active is left alone and the request fails.
Block(h) ==
    LET k == handler[h].key
    IN  /\ handler[h].at = "block"
        /\ IF Active(run[k])
           THEN Completes(k, "blocked", run[k].linked)
           ELSE UNCHANGED <<run, settled, offered>>
        /\ Answers(h)
        /\ UNCHANGED <<clock, task, turn, started, up, crashes, doubled>>

-----------------------------------------------------------------------------
(* The turn, and the process.                                              *)

\* _terminalize_locked: the end of the turn is durable.  At the start of a
\* process the broker ends every turn the last one left behind.
TurnEnds(k) ==
    /\ up # "down"
    /\ BrokerFree
    /\ turn[k] = "live"
    /\ turn' = [turn EXCEPT ![k] = "reporting"]
    /\ UNCHANGED <<clock, task, run, settled, offered, handler, started,
                   up, crashes, doubled>>

\* As if complete_runtime_run did not look at the status the record has.
ReportFinished(k) ==
    /\ turn[k] = "reporting"
    /\ turn' = [turn EXCEPT ![k] = "ended"]
    /\ IF run[k] # None
       THEN \E status \in Outcome : Completes(k, status, TRUE)
       ELSE UNCHANGED <<run, settled, offered>>
    /\ UNCHANGED <<clock, task, handler, started, up, crashes, doubled>>

\* automation_run_terminal, complete_runtime_run: the store learns of it,
\* even when the handler has not linked the run yet.
Report(k) ==
    /\ turn[k] = "reporting"
    /\ turn' = [turn EXCEPT ![k] = "ended"]
    /\ IF Active(run[k])
       THEN \E status \in IF up = "starting" THEN {"interrupted_restart"} ELSE Outcome :
                Completes(k, status, TRUE)
       ELSE UNCHANGED <<run, settled, offered>>
    /\ UNCHANGED <<clock, task, handler, started, up, crashes, doubled>>

\* The process dies: handlers and admissions are gone, what is durable stays.
Crash ==
    /\ up # "down"
    /\ crashes < MaxCrashes
    /\ up' = "down"
    /\ crashes' = crashes + 1
    /\ handler' = [h \in Handler |-> Idle]
    /\ turn' = [k \in Key |-> CASE turn[k] = "admitted" -> "none"
                                [] turn[k] = "reporting" -> "ended"
                                [] OTHER -> turn[k]]
    /\ UNCHANGED <<clock, task, run, settled, offered, started, doubled>>

\* _recover_runs_after_restart: a queued claim nobody linked is over, and a
\* link nobody will make any more counts as made.
Recovered(k) ==
    CASE PendingLink(run[k]) -> [run[k] EXCEPT !.started = TRUE]
      [] run[k] # None /\ run[k].status = "queued" ->
            [run[k] EXCEPT !.status = "interrupted_restart"]
      [] OTHER -> run[k]

Restart ==
    LET rs == [k \in Key |-> Recovered(k)]
        changed == {k \in Key : rs[k] # run[k]}
        over == {k \in changed : Active(run[k])}
        order == settled \cup (Finished(run) \X over)
    IN  /\ up = "down"
        /\ up' = "starting"
        /\ IF changed = {} THEN UNCHANGED <<run, settled, offered>>
           ELSE Saves(rs, order, changed)
        /\ UNCHANGED <<clock, task, handler, turn, started, crashes, doubled>>

\* As if the Bridge answered before the broker has ended the turns it found.
ServeEarly ==
    /\ up = "starting"
    /\ up' = "serving"
    /\ UNCHANGED <<clock, task, run, settled, offered, handler, turn,
                   started, crashes, doubled>>

\* The broker's start is over and the Bridge answers requests.
Serve ==
    /\ up = "starting"
    /\ \A k \in Key : turn[k] \notin {"live", "reporting"}
    /\ up' = "serving"
    /\ UNCHANGED <<clock, task, run, settled, offered, handler, turn,
                   started, crashes, doubled>>

Next ==
    \/ Tick
    \/ Snapshot
    \/ Update
    \/ \E enabled \in BOOLEAN : SetEnabled(enabled)
    \/ Delete
    \/ \E h \in Handler : \/ \E k \in Key : ClaimAgain(h, k) \/ Claim(h, k)
                          \/ Admit(h)
                          \/ Submit(h)
                          \/ Refuse(h)
                          \/ Link(h)
                          \/ Block(h)
    \/ \E k \in Key : TurnEnds(k) \/ Report(k)
    \/ Crash
    \/ Restart
    \/ Serve

Spec == Init /\ [][Next]_vars

-----------------------------------------------------------------------------
(* Properties.                                                             *)

\* The records and the handlers keep their shape, and the finished records that
\* are still in automations.json have each one place in the retention order.
TypeOK ==
    /\ clock \in 0 .. MaxDue
    /\ task \in [exists : BOOLEAN, enabled : BOOLEAN,
                 revision : 1 .. MaxRevision, next : Due \cup {None}]
    /\ run \in [Key -> RunRecord \cup {None}]
    /\ settled \subseteq Finished(run) \X Finished(run)
    /\ \A j, k \in Finished(run) :
          (<<j, k>> \in settled) <=> (j # k /\ <<k, j>> \notin settled)
    /\ \A i, j, k \in Finished(run) :
          <<i, j>> \in settled /\ <<j, k>> \in settled => <<i, k>> \in settled
    /\ offered \subseteq Key
    /\ handler \in [Handler -> [at : {"idle", "dispatch", "submit", "link", "block"},
                               key : Key \cup {None}]]
    /\ turn \in [Key -> {"none", "admitted", "live", "reporting", "ended"}]
    /\ started \in [Due -> Nat]
    /\ up \in {"down", "starting", "serving"}
    /\ crashes \in 0 .. MaxCrashes
    /\ doubled \subseteq Key

\* A run the store shows as finished (routes/automations.py answers it to
\* Home Assistant and the panel) has no prompt or turn left in the runtime:
\* neither a failed dispatch nor a restart reports the end of work that
\* goes on.  A key asked for twice at once is the exception: the second
\* handler finds the prompt half admitted and blocks the run under the first.
FinishedIsOver ==
    \A k \in Key \ doubled :
        (up = "serving" /\ run[k] # None /\ ~Active(run[k]))
            => turn[k] \notin {"admitted", "live"}

\* A finished record keeps its outcome: a late link or a late report does not
\* bring a run back to life or change what was reported of it.
OutcomeStays ==
    [][\A k \in Key :
          (run[k] # None /\ ~Active(run[k]) /\ run'[k] # None)
              => run'[k].status = run[k].status]_vars

\* An active record has an owner who will finish it: a handler that is
\* dispatching it, or a turn whose end is still to be reported.  Without one
\* it would refuse every later claim as an overlap, and the deletion.
Owned(k) ==
    \/ \E h \in Handler : handler[h].key = k
    \/ turn[k] \in {"live", "reporting"}

\* _recover_runs_after_restart leaves a linked record to the broker, whose
\* start ends the turns it finds: no active record is left without an owner.
RestartFreesReservation ==
    up = "serving" => \A k \in Key : Active(run[k]) => Owned(k)

\* However claims, run-now requests, retries of Home Assistant, edits, fast turns
\* and crashes interleave: the runtime never holds two turns of one automation,
\* but for a run blocked under its handler as above (the overlap policy of
\* _claim); an occurrence starts at most one turn (a claim advances next_run_at,
\* and a restart keeps the record of what it gave up); in a process that follows
\* no crash every active record has an owner; and the record a handler is about
\* to link is still there (_prune_runs spares it), unless the automation is
\* deleted or a second request has blocked the run.
OneTurn ==
    /\ Cardinality({k \in Key \ doubled : turn[k] \in {"admitted", "live"}}) <= 1
    /\ \A d \in Due : started[d] <= 1
    /\ up = "serving" /\ crashes = 0 => \A k \in Key : Active(run[k]) => Owned(k)
    /\ \A h \in Handler :
          handler[h].at = "link" /\ handler[h].key \notin doubled /\ task.exists
              => run[handler[h].key] # None

=============================================================================

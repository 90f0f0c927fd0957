--------------------------- MODULE RuntimeBroker ---------------------------
(***************************************************************************)
(* runtime_broker.py: the life of a prompt from acceptance to its single   *)
(* terminal state, through worker threads, the Codex app-server process,   *)
(* cancellation, deadlines, budget stops, shutdown, crash and recovery.    *)
(*                                                                         *)
(* Every action is one section of code under the broker's lock, or one     *)
(* step a thread takes between two such sections.  What a locked section   *)
(* changes it also persists before it unlocks, so the run records are the  *)
(* durable state and everything else is lost in a crash.  The gate is the  *)
(* one of RuntimeGate with max_active_turns = 1, which the broker's        *)
(* constructor demands: holder is its active prompt lease.                 *)
(*                                                                         *)
(* Clocks are left out: a deadline may pass, and a request may fail or     *)
(* time out, whenever the code looks.  The terminal states cancelled,      *)
(* failed and interrupted differ only in what they tell the user; they are *)
(* one state, "stopped".                                                   *)
(***************************************************************************)
EXTENDS Naturals, FiniteSets

CONSTANTS
    Req,          \* client request ids; each accepted one owns one run
    Thread,       \* chats
    ThreadOf,     \* the chat each request is sent to
    Modes,        \* the follow-up modes in use: "queue", "auto" (unset or steer)
    Prepared,     \* requests that reserve first (admit_prompt: task actions)
    Steered,      \* requests whose turns users send follow-ups to
    Cancelled,    \* requests that users cancel
    Budgeted,     \* requests with an elapsed-time limit (max_duration_seconds)
    Account,      \* ChatGPT account owner markers
    None,         \* no lease, no account
    MaxQueued,    \* ResourceLimits.max_queued_prompts
    MaxGen,       \* bound: app-server generations of one Bridge process
    MaxStops      \* bound: crashes and shutdowns of the Bridge

ASSUME BrokerAssumption ==
    /\ ThreadOf \in [Req -> Thread]
    /\ Modes \subseteq {"queue", "auto"}
    /\ Prepared \subseteq Req /\ Steered \subseteq Req
    /\ Cancelled \subseteq Req /\ Budgeted \subseteq Req
    /\ None \notin Req \cup Account
    /\ MaxQueued \in Nat /\ MaxGen \in Nat \ {0} /\ MaxStops \in Nat

VARIABLES
    run,        \* _state.runs, the durable run record of each request
    admissions, \* _pending_prompt_admissions: a lease, and no run yet
    holder,     \* the gate's active prompt lease
    waiting,    \* the requests in the gate's queue
    ahead,      \* the order of that queue: <<s, r>> if s is before r
    authLease,  \* the gate holds a live account mutation
    account,    \* the account Codex is verified to be signed in to
    worker,     \* where the run worker thread of each run is
    canceller,  \* where a thread inside cancel_run of each run is
    steerer,    \* the runs for which a thread waits for turn/steer
    recovery,   \* where the recovery thread of each run is
    deferred,   \* _deferred_recovered_queue_ids
    settled,    \* startup has called resume_recovered_queued_runs
    buffered,   \* runs whose turn/completed waits in _pre_response_callbacks
    up,         \* the Bridge: "running", "closed" (shutting down) or "down"
    stops,      \* crashes and shutdowns so far
    gen,        \* app_server.generation
    ready,      \* the process of that generation takes requests
    native,     \* the turn of each request in the Codex process
    notices     \* turn/completed notifications on their way to the broker

ledgerVars == <<run, admissions, holder, waiting, ahead, authLease, recovery, deferred, buffered>>
serverVars == <<gen, ready, native, notices>>
bridgeVars == <<up, stops, settled>>
vars == <<ledgerVars, account, worker, canceller, steerer, serverVars, bridgeVars>>

ActiveStates == {"starting", "running", "cancelling"}
LiveStates == ActiveStates \cup {"queued"}
Ended == {"completed", "stopped"}

\* Where a worker thread is; each action below names the points it joins.
WorkerPoints == {"none", "waiting", "woken", "cleared", "admitted", "preparing",
                 "loaded", "dispatched", "sent", "bound", "interrupting",
                 "watching", "stale", "aborting", "aborted", "expired", "failed"}
CancelPoints == {"none", "aborting", "aborted", "interrupting", "clearing"}
RecoveryPoints == {"none", "checking", "ready", "claimed", "leaving"}

\* turn: turn/start not sent, sent (turn_start_dispatched), or its turn id known.
NoRun == [status |-> "none", mode |-> "auto", prompt |-> FALSE, gen |-> 0,
          turn |-> "unsent", acct |-> None, stop |-> "no"]

\* Every variable stays in its domain.
TypeOK ==
    /\ run \in [Req -> [status : {"none"} \cup LiveStates \cup Ended,
                        mode : {"queue", "auto"}, prompt : BOOLEAN, gen : 0..MaxGen,
                        turn : {"unsent", "sent", "bound"},
                        acct : Account \cup {None},
                        stop : {"no", "asked", "unconfirmed"}]]
    /\ admissions \subseteq Req /\ holder \in Req \cup {None} /\ authLease \in BOOLEAN
    /\ waiting \subseteq Req /\ ahead \subseteq waiting \X waiting
    /\ account \in Account \cup {None}
    /\ worker \in [Req -> WorkerPoints]
    /\ canceller \in [Req -> CancelPoints]
    /\ steerer \subseteq Req
    /\ recovery \in [Req -> RecoveryPoints]
    /\ deferred \subseteq Req /\ buffered \subseteq Req /\ settled \in BOOLEAN
    /\ up \in {"running", "closed", "down"} /\ stops \in 0..MaxStops
    /\ gen \in 0..MaxGen /\ ready \in BOOLEAN
    /\ native \in [Req -> {"none", "running", "done", "lost"}]
    /\ notices \subseteq Req

Idle == [r \in Req |-> "none"]

Init ==
    /\ run = [r \in Req |-> NoRun]
    /\ admissions = {}
    /\ holder = None /\ waiting = {} /\ ahead = {} /\ authLease = FALSE
    /\ account \in Account
    /\ worker = Idle /\ canceller = Idle /\ steerer = {} /\ recovery = Idle
    /\ deferred = {} /\ buffered = {} /\ settled = TRUE
    /\ up = "running" /\ stops = 0
    /\ gen = 1 /\ ready = TRUE
    /\ native = Idle /\ notices = {}

-----------------------------------------------------------------------------
(* Conditions *)

Live(r) == run[r].status \in LiveStates
HasLease(r) == holder = r \/ r \in waiting

\* _budget_admission_blocked_locked, for the run records in base.
BlockedIn(base) ==
    \E r \in Req : base[r].status \in LiveStates /\ base[r].stop = "unconfirmed"
Blocked == BlockedIn(run)

\* _require_started_locked
Started == up = "running" /\ ~Blocked

\* The application serves requests once its startup has finished.
Serving == up = "running" /\ settled

\* _provider_admission_allowed: signed in, and no account change under way.
AdmissionAllowed == account # None /\ ~authLease

\* A queued prompt that Codex has never received may outlive the process.
Unsent(row) == row.status = "queued" /\ row.mode = "queue" /\ row.turn = "unsent"
\* As if neither the status nor the dispatch flag were looked at.
RestartSafeAnyLive(row) == row.status \in LiveStates /\ row.mode = "queue" /\ row.prompt
RestartSafe(row) == Unsent(row) /\ row.prompt

\* _preserve_queued_prompt_during_shutdown_locked
Preserved(r) == up # "running" /\ Unsent(run[r])

-----------------------------------------------------------------------------
(* The gate, and the terminal transition *)

\* The head of the queue, if rest is what is left of it.
First(rest) == {r \in rest : ~ \E s \in rest : <<s, r>> \in ahead}

\* The gate once the leases of rs are released: _promote_locked gives a free
\* slot to the head of the queue.
Release(rs) ==
    LET rest == waiting \ rs
        free == holder = None \/ holder \in rs
    IN  /\ \/ ~free /\ holder' = holder /\ waiting' = rest
           \/ free /\ rest = {} /\ holder' = None /\ waiting' = {}
           \/ free /\ \E r \in First(rest) : holder' = r /\ waiting' = rest \ {r}
        /\ ahead' = ahead \cap (waiting' \X waiting')
        /\ authLease' = authLease

ReserveAllowed == ~authLease /\ (holder = None \/ Cardinality(waiting) < MaxQueued)

\* As if the active lease still had a place in the queue.
ReserveBehindActive(r) ==
    /\ ReserveAllowed /\ authLease' = authLease
    /\ \/ holder = None /\ holder' = r /\ UNCHANGED <<waiting, ahead>>
       \/ /\ holder # None /\ holder' = holder
          /\ waiting' = waiting \cup {r}
          /\ ahead' = ahead \cup ((waiting \cup {holder}) \X {r})

\* gate.reserve_prompt for a request without a live lease: no account change
\* under way, and a free slot or room in the queue.
Reserve(r) ==
    /\ ReserveAllowed /\ authLease' = authLease
    /\ \/ holder = None /\ holder' = r /\ UNCHANGED <<waiting, ahead>>
       \/ /\ holder # None /\ holder' = holder
          /\ waiting' = waiting \cup {r}
          /\ ahead' = ahead \cup (waiting \X {r})

End(row, status) == [row EXCEPT !.status = status, !.stop = "no", !.prompt = FALSE]

Resumable(base) == {r \in deferred : RestartSafe(base[r])}

\* As if the ids were discarded before their threads were started.
ResumeForgets(base, late) == deferred' = {} /\ recovery' = recovery

\* resume_recovered_queued_runs: each deferred run gets a recovery thread,
\* unless it is no longer restart-safe (it is forgotten) or its deadline has
\* passed (it ends).  late is the set that ends.
Resume(base, late) ==
    /\ recovery' = [r \in Req |->
                      IF r \in Resumable(base) \ late /\ recovery[r] = "none"
                      THEN "checking" ELSE recovery[r]]
    /\ deferred' = {r \in deferred : recovery[r] # "none" \/ RestartSafe(base[r])} \ late

\* _terminalize_locked for the runs of over, on top of the records in base:
\* the record ends, the lease the broker holds for it is released (one still
\* in the hands of a recovery thread is not), buffered callbacks are dropped,
\* and the end of an unconfirmed budget stop resumes what waited behind it.
\* over holds live runs only: a second terminal transition returns at once.
Terminalize(base, over, status) ==
    LET mid == [r \in Req |-> IF r \in over THEN End(base[r], status) ELSE base[r]]
        lifted == /\ \E r \in over : base[r].stop = "unconfirmed"
                  /\ ~BlockedIn(mid) /\ up' = "running"
    IN  \E late \in IF lifted THEN SUBSET {r \in Resumable(mid) : recovery[r] = "none"} ELSE {{}} :
        /\ run' = [r \in Req |-> IF r \in late THEN End(mid[r], "stopped") ELSE mid[r]]
        /\ Release({r \in over \cup late : recovery[r] # "claimed"})
        /\ buffered' = buffered \ over
        /\ admissions' = admissions
        /\ IF lifted THEN Resume(mid, late) ELSE UNCHANGED <<recovery, deferred>>

LiveAmong(rs) == {r \in rs : Live(r)}
QueuedRuns == {r \in Req : run[r].status = "queued"}

\* A worker gives its slot back and leaves the prompt to a later recovery.
Defer(r) ==
    /\ run' = [run EXCEPT ![r].status = "queued"]
    /\ deferred' = deferred \cup {r}
    /\ Release({r})
    /\ UNCHANGED <<recovery, buffered, admissions>>

-----------------------------------------------------------------------------
(* The Codex app-server process *)

\* Its turns are gone; a notification already handed to the broker's callback
\* may still arrive.
LoseProcess ==
    /\ ready' = FALSE
    /\ native' = [r \in Req |-> IF native[r] = "running" THEN "lost" ELSE native[r]]
    /\ notices' \in {{}, notices}

\* As if the handlers forgot to abort.
AbortNothing(g) == UNCHANGED <<ready, native, notices>>

\* app_server.abort_generation(g): only the current, still ready generation.
Abort(g) == IF ready /\ gen = g THEN LoseProcess ELSE UNCHANGED <<ready, native, notices>>

ProcessDies ==
    /\ up = "running" /\ ready /\ LoseProcess
    /\ UNCHANGED <<ledgerVars, account, worker, canceller, steerer, gen, bridgeVars>>

\* The supervisor starts the next generation.
ProcessStarts ==
    /\ up = "running" /\ ~ready /\ gen < MaxGen
    /\ gen' = gen + 1 /\ ready' = TRUE /\ notices' = {}
    /\ UNCHANGED <<ledgerVars, account, worker, canceller, steerer, native, bridgeVars>>

\* A turn ends by itself or by turn/interrupt.
TurnCompletes(r) ==
    /\ native[r] = "running"
    /\ native' = [native EXCEPT ![r] = "done"]
    /\ notices' = notices \cup {r}
    /\ UNCHANGED <<ledgerVars, account, worker, canceller, steerer, gen, ready, bridgeVars>>

-----------------------------------------------------------------------------
(* Accepting prompts *)

\* admit_prompt: capacity is reserved before the caller prepares its target.
AdmitPrompt(r) ==
    /\ Serving /\ Started /\ AdmissionAllowed
    /\ r \in Prepared /\ run[r].status = "none" /\ r \notin admissions
    /\ Reserve(r)
    /\ admissions' = admissions \cup {r}
    /\ UNCHANGED <<run, recovery, deferred, buffered, account, worker, canceller,
                   steerer, serverVars, bridgeVars>>

\* The caller fails before it submits; the context manager gives the lease back.
ReleaseAdmission(r) ==
    /\ r \in admissions
    /\ admissions' = admissions \ {r}
    /\ Release({r})
    /\ UNCHANGED <<run, recovery, deferred, buffered, account, worker, canceller,
                   steerer, serverVars, bridgeVars>>

\* What submit_prompt checks of the other runs of the chat.  A prompt for a
\* chat with an active turn is a follow-up (SteerBegin) unless it asks to be
\* queued.
ChatTakesPrompt(r, mode) ==
    \A s \in Req : ThreadOf[s] = ThreadOf[r] =>
        run[s].status # "cancelling" /\ (mode # "queue" => ~Live(s))

\* submit_prompt, from the last time it takes the lock (the checks before that
\* are repeated under it): a lease is reserved, or taken over from admit_prompt.
SubmitPrompt(r, mode) ==
    /\ Serving /\ Started
    /\ run[r].status = "none"
    /\ ChatTakesPrompt(r, mode)
    /\ \/ r \notin Prepared /\ AdmissionAllowed /\ Reserve(r)
       \/ /\ r \in admissions /\ HasLease(r) /\ (r \in waiting => account # None)
          /\ UNCHANGED <<holder, waiting, ahead, authLease>>
    /\ admissions' = admissions \ {r}
    /\ run' = [run EXCEPT ![r] =
                 [NoRun EXCEPT !.status = IF holder' = r THEN "starting" ELSE "queued",
                               !.mode = mode, !.prompt = TRUE, !.acct = account]]
    /\ worker' = [worker EXCEPT ![r] = "waiting"]
    /\ UNCHANGED <<recovery, deferred, buffered, account, canceller, steerer,
                   serverVars, bridgeVars>>

\* submit_prompt as a follow-up: the outcome is recorded as uncertain and
\* turn/steer is requested outside the lock.
SteerBegin(r) ==
    /\ Started /\ AdmissionAllowed /\ r \in Steered
    /\ run[r].status \in {"starting", "running"} /\ run[r].turn = "bound"
    /\ steerer' = steerer \cup {r}
    /\ UNCHANGED <<ledgerVars, account, worker, canceller, serverVars, bridgeVars>>

\* The process takes the follow-up for the turn it expects.
SteerAccepted(r) ==
    /\ r \in steerer /\ native[r] = "running"
    /\ steerer' = steerer \ {r}
    /\ UNCHANGED <<ledgerVars, account, worker, canceller, serverVars, bridgeVars>>

\* turn/steer fails: abort, clear the queue and end the run, all under the lock.
SteerFailed(r) ==
    /\ r \in steerer
    /\ steerer' = steerer \ {r}
    /\ Abort(run[r].gen)
    /\ UNCHANGED <<account, worker, canceller, gen, bridgeVars>>
    /\ Terminalize(run, QueuedRuns \cup LiveAmong({r}), "stopped")

-----------------------------------------------------------------------------
(* Cancelling *)

\* cancel_queued_prompt
CancelQueuedPrompt(r) ==
    /\ Serving /\ Started /\ r \in Cancelled /\ run[r].status = "queued"
    /\ UNCHANGED <<account, worker, canceller, steerer, serverVars, bridgeVars>>
    /\ Terminalize(run, {r}, "stopped")

\* cancel_run by a user: a queued run ends; an active one takes the queued
\* prompts of its chat with it and is cancelled by an abort of its generation
\* or, once its turn is known, by turn/interrupt.
CancelRun(r) ==
    LET others == {s \in QueuedRuns : ThreadOf[s] = ThreadOf[r]} \ {r}
        next == CASE run[r].turn = "bound" -> "interrupting"
                  [] run[r].turn # "bound" /\ run[r].gen # 0 -> "aborting"
                  [] OTHER -> "none"
    IN
    /\ Serving /\ r \in Cancelled /\ Live(r) /\ canceller[r] = "none"
    /\ UNCHANGED <<account, worker, steerer, serverVars, bridgeVars>>
    /\ \/ /\ run[r].status = "queued"
          /\ Terminalize(run, {r}, "stopped")
          /\ UNCHANGED canceller
       \/ /\ run[r].status # "queued"
          /\ Terminalize([run EXCEPT ![r].status = "cancelling"], others, "stopped")
          /\ canceller' = [canceller EXCEPT ![r] = next]

CancelAborts(r) ==
    /\ canceller[r] = "aborting"
    /\ Abort(run[r].gen)
    /\ canceller' = [canceller EXCEPT ![r] = "aborted"]
    /\ UNCHANGED <<ledgerVars, account, worker, steerer, gen, bridgeVars>>

CancelAborted(r) ==
    /\ canceller[r] = "aborted"
    /\ canceller' = [canceller EXCEPT ![r] = "none"]
    /\ UNCHANGED <<account, worker, steerer, serverVars, bridgeVars>>
    /\ Terminalize(run, QueuedRuns \cup LiveAmong({r}), "stopped")

InterruptAccepted(r) ==
    /\ canceller[r] = "interrupting"
    /\ canceller' = [canceller EXCEPT ![r] = "none"]
    /\ UNCHANGED <<ledgerVars, account, worker, steerer, serverVars, bridgeVars>>

\* The run itself is left to its watchdog.
InterruptFails(r) ==
    /\ canceller[r] = "interrupting"
    /\ Abort(run[r].gen)
    /\ canceller' = [canceller EXCEPT ![r] = "clearing"]
    /\ UNCHANGED <<ledgerVars, account, worker, steerer, gen, bridgeVars>>

InterruptFailed(r) ==
    /\ canceller[r] = "clearing"
    /\ canceller' = [canceller EXCEPT ![r] = "none"]
    /\ UNCHANGED <<account, worker, steerer, serverVars, bridgeVars>>
    /\ Terminalize(run, QueuedRuns, "stopped")

-----------------------------------------------------------------------------
(* The worker thread, _run_worker *)

Goto(r, point) == worker' = [worker EXCEPT ![r] = point]

\* A step of r's worker from one point to another that changes nothing else.
Moves(r, from, to) ==
    /\ worker[r] = from /\ Goto(r, to)
    /\ UNCHANGED <<ledgerVars, account, canceller, steerer, serverVars, bridgeVars>>

\* A step of r's worker that ends the runs of over.
Ends(r, to, over) ==
    /\ Goto(r, to)
    /\ UNCHANGED <<account, canceller, steerer, serverVars, bridgeVars>>
    /\ Terminalize(run, over, "stopped")

\* _handle_turn_completed_locked on the worker's thread: the turn completed, or
\* ended as failed or interrupted.
Completes(r, to) ==
    /\ Goto(r, to)
    /\ UNCHANGED <<account, canceller, steerer, serverVars, bridgeVars>>
    /\ \E status \in Ended : Terminalize(run, {r}, status)

\* wait_until_active returns, or finds the lease already finished.
WorkerWakes(r) ==
    \/ holder = r /\ Moves(r, "waiting", "woken")
    \/ ~HasLease(r) /\ Moves(r, "waiting", "expired")

\* The deadline had passed before the wait began.
WorkerTooLate(r) == Live(r) /\ Moves(r, "waiting", "failed")

\* wait_until_active times out and finishes the queued lease.
WorkerTimesOut(r) ==
    /\ worker[r] = "waiting" /\ r \in waiting
    /\ Goto(r, "expired") /\ Release({r})
    /\ UNCHANGED <<run, admissions, recovery, deferred, buffered, account, canceller,
                   steerer, serverVars, bridgeVars>>

\* The handler of RuntimeLeaseCancelledError and RuntimeLeaseTimeoutError.
WorkerExpired(r) ==
    /\ worker[r] = "expired"
    /\ \/ /\ run[r].status = "queued" /\ Blocked
          /\ Defer(r) /\ Goto(r, "none")
          /\ UNCHANGED <<account, canceller, steerer, serverVars, bridgeVars>>
       \/ /\ ~(run[r].status = "queued" /\ Blocked)
          /\ Ends(r, "none", IF Preserved(r) THEN {} ELSE LiveAmong({r}))

\* The fence of an unconfirmed budget stop, after the lease became active and
\* again in _start_turn: the prompt goes back to the queue and its slot is
\* released.  The first check does not ask whether the run has ended.
WorkerFenced(r) ==
    \/ ~Blocked /\ Moves(r, "woken", "cleared")
    \/ /\ \/ worker[r] = "woken"
          \/ (worker[r] = "admitted" /\ Live(r) /\ up = "running")
       /\ Blocked /\ Defer(r) /\ Goto(r, "none")
       /\ UNCHANGED <<account, canceller, steerer, serverVars, bridgeVars>>

\* The last look at the account before Codex is asked for anything.
WorkerAdmitted(r) ==
    \/ AdmissionAllowed /\ Moves(r, "cleared", "admitted")
    \/ /\ worker[r] = "cleared" /\ ~AdmissionAllowed
       /\ Ends(r, "none", IF Preserved(r) THEN {} ELSE LiveAmong({r}))

\* A run whose prompt is about to be given to Codex.
Claimed(row) == [row EXCEPT !.status = "starting", !.gen = gen]

\* _start_turn, first locked section (its fence is WorkerFenced).
StartTurn(r) ==
    /\ worker[r] = "admitted"
    /\ \/ (~Live(r) \/ up # "running") /\ Moves(r, "admitted", "none")
       \/ /\ Live(r) /\ up = "running" /\ ~Blocked /\ run[r].status = "cancelling"
          /\ Ends(r, "none", {r})
       \/ /\ Live(r) /\ up = "running" /\ ~Blocked /\ run[r].status # "cancelling"
          /\ run' = [run EXCEPT ![r] = Claimed(@)]
          /\ worker' \in {[worker EXCEPT ![r] = p] : p \in {"preparing", "failed"}}
          /\ UNCHANGED <<admissions, holder, waiting, ahead, authLease, recovery, deferred,
                         buffered, account, canceller, steerer, serverVars, bridgeVars>>

\* thread/start or thread/resume is answered in the same generation, and the
\* answer is recorded under the lock.
ThreadLoaded(r) ==
    /\ worker[r] = "preparing" /\ run[r].gen = gen
    /\ \/ ~Live(r) /\ Moves(r, "preparing", "none")
       \/ run[r].status = "cancelling" /\ Ends(r, "none", {r})
       \/ Live(r) /\ run[r].status # "cancelling" /\ Moves(r, "preparing", "loaded")

\* The dispatch section: from here the prompt may have reached Codex.
TurnDispatched(r) ==
    /\ worker[r] = "loaded"
    /\ \/ ~Live(r) /\ Moves(r, "loaded", "none")
       \/ run[r].status = "cancelling" /\ Moves(r, "loaded", "watching")
       \/ /\ Live(r) /\ run[r].status # "cancelling" /\ run[r].gen = gen
          /\ run' = [run EXCEPT ![r].turn = "sent"]
          /\ Goto(r, "dispatched")
          /\ UNCHANGED <<admissions, holder, waiting, ahead, authLease, recovery,
                         deferred, buffered, account, canceller, steerer, serverVars,
                         bridgeVars>>

\* turn/start reaches a process that has the thread loaded.
TurnStarts(r) ==
    /\ worker[r] = "dispatched" /\ ready /\ gen = run[r].gen
    /\ native' = [native EXCEPT ![r] = "running"]
    /\ Goto(r, "sent")
    /\ UNCHANGED <<ledgerVars, account, canceller, steerer, gen, ready, notices, bridgeVars>>

\* A request of _start_turn fails or times out, a deadline passes, the
\* generation changed under it, or the input is no longer valid.
StartFails(r) ==
    \E p \in {"preparing", "loaded", "dispatched", "sent"} : Moves(r, p, "failed")

\* As if a turn in progress could be answered as over.
AnsweredAsOverEarly(r) == native[r] # "none"

\* The response of turn/start says that the turn is no longer in progress.
AnsweredAsOver(r) == native[r] = "done"

\* The response of turn/start names the turn; it may already be over.
TurnBound(r) ==
    /\ worker[r] = "sent"
    /\ \/ ~Live(r) /\ Moves(r, "sent", "none")
       \/ /\ Live(r) /\ run[r].gen = gen
          /\ run' = [run EXCEPT ![r].turn = "bound",
                                ![r].status = IF @ = "cancelling" THEN @ ELSE "running"]
          /\ Goto(r, "bound")
          /\ UNCHANGED <<admissions, holder, waiting, ahead, authLease, recovery, deferred,
                         buffered, account, canceller, steerer, serverVars, bridgeVars>>
       \/ /\ Live(r) /\ run[r].gen = gen /\ AnsweredAsOver(r)
          /\ Completes(r, "none")

\* The end of _start_turn: callbacks that came before the response are
\* replayed (a reply to one of them that cannot be written aborts); a
\* cancellation that came before it is passed on.
TurnReplayed(r) ==
    /\ worker[r] = "bound"
    /\ \/ ~Live(r) /\ Moves(r, "bound", "none")
       \/ Live(r) /\ r \in buffered /\ Completes(r, "none")
       \/ Live(r) /\ Moves(r, "bound", "aborting")
       \/ /\ Live(r) /\ r \notin buffered
          /\ IF run[r].status = "cancelling" /\ run[r].stop = "no"
             THEN Moves(r, "bound", "interrupting")
             ELSE Moves(r, "bound", "watching")

\* turn/interrupt is taken, or fails and the generation is aborted.
WorkerInterrupts(r) ==
    \/ Moves(r, "interrupting", "watching")
    \/ /\ worker[r] = "interrupting" /\ Goto(r, "watching")
       /\ Abort(run[r].gen)
       /\ UNCHANGED <<ledgerVars, account, canceller, steerer, gen, bridgeVars>>

\* A watched run ended, here or elsewhere.
WatchEnds(r) == ~Live(r) /\ Moves(r, "watching", "none")

\* _watch_turn sees another generation than the run's, and then takes the lock.
WatchStale(r) == Live(r) /\ run[r].gen # gen /\ Moves(r, "watching", "stale")

\* _reconcile_generation_locked: every live run but the restart-safe ones ends.
Interrupted == {r \in Req : Live(r) /\ ~RestartSafe(run[r])}
WatchReconciles(r) == worker[r] = "stale" /\ Ends(r, "none", Interrupted)

\* As if a turn that is being cancelled had no deadline.
WatchGivesUpUncancelled(r) ==
    /\ Live(r) /\ run[r].status # "cancelling"
    /\ run[r].gen = gen /\ Moves(r, "watching", "aborting")

\* The turn, total, idle or cancellation deadline has passed.
WatchGivesUp(r) == Live(r) /\ run[r].gen = gen /\ Moves(r, "watching", "aborting")

\* The handlers that end a turn of uncertain outcome abort its generation
\* outside the lock, then clear the queue and end the run.
WorkerAborts(r) ==
    /\ worker[r] = "aborting" /\ Goto(r, "aborted")
    /\ Abort(run[r].gen)
    /\ UNCHANGED <<ledgerVars, account, canceller, steerer, gen, bridgeVars>>

WorkerAborted(r) ==
    worker[r] = "aborted" /\ Ends(r, "none", QueuedRuns \cup LiveAmong({r}))

\* The handler of every other exception of _start_turn.
WorkerFailed(r) ==
    /\ worker[r] = "failed"
    /\ IF run[r].turn # "unsent" /\ Live(r)
       THEN Moves(r, "failed", "aborting")
       ELSE Ends(r, "none", IF Preserved(r) THEN {} ELSE LiveAmong({r}))

-----------------------------------------------------------------------------
(* The elapsed-time budget of one turn *)

\* cancel_run(budget_stop): asked of a known turn, once, after its elapsed time
\* has passed; turn/interrupt follows and its failure is ignored.
BudgetStop(r) ==
    /\ r \in Budgeted /\ worker[r] \in {"bound", "watching"}
    /\ Live(r) /\ run[r].turn = "bound" /\ run[r].stop = "no"
    /\ ~(worker[r] = "bound" /\ r \in buffered)
    /\ run' = [run EXCEPT ![r].status = "cancelling", ![r].stop = "asked"]
    /\ UNCHANGED <<admissions, holder, waiting, ahead, authLease, recovery, deferred, buffered,
                   account, worker, canceller, steerer, serverVars, bridgeVars>>

\* As if an overdue stop gave up its lease.
BudgetUnconfirmedReleases(r) ==
    /\ worker[r] = "watching" /\ Live(r) /\ run[r].stop = "asked"
    /\ run' = [run EXCEPT ![r].stop = "unconfirmed"]
    /\ Release({r})
    /\ UNCHANGED <<admissions, recovery, deferred, buffered, account, worker,
                   canceller, steerer, serverVars, bridgeVars>>

\* The grace period passed and the turn has not confirmed its stop.
BudgetUnconfirmed(r) ==
    /\ worker[r] = "watching" /\ Live(r) /\ run[r].stop = "asked"
    /\ run' = [run EXCEPT ![r].stop = "unconfirmed"]
    /\ UNCHANGED <<admissions, holder, waiting, ahead, authLease, recovery, deferred, buffered,
                   account, worker, canceller, steerer, serverVars, bridgeVars>>

\* _stop_expired_start, once the elapsed time of a failed or just answered
\* start has passed.  A start that may have reached Codex keeps its lease,
\* unconfirmed; a known turn is left to BudgetStop.
StopExpiredStart(r) ==
    LET next == IF worker[r] = "failed" THEN "watching" ELSE "bound" IN
    /\ worker[r] \in {"failed", "bound"} /\ r \in Budgeted
    /\ Live(r) /\ run[r].gen # 0 /\ up = "running"
    /\ \/ run[r].gen # gen /\ Ends(r, next, Interrupted)
       \/ run[r].gen = gen /\ run[r].turn = "unsent" /\ Ends(r, next, {r})
       \/ /\ run[r].gen = gen /\ run[r].turn = "sent"
          /\ run' = [run EXCEPT ![r].status = "cancelling", ![r].stop = "unconfirmed"]
          /\ Goto(r, next)
          /\ UNCHANGED <<admissions, holder, waiting, ahead, authLease, recovery,
                         deferred, buffered, account, canceller, steerer, serverVars,
                         bridgeVars>>

-----------------------------------------------------------------------------
(* Notifications of the app-server *)

\* _on_notification for turn/completed.  Before the response of turn/start has
\* been handled the callback is kept for TurnReplayed.
TurnCompleted(r) ==
    LET early == run[r].turn = "sent" \/ worker[r] = "bound" IN
    /\ r \in notices /\ up # "down"
    /\ notices' = notices \ {r}
    /\ UNCHANGED <<account, worker, canceller, steerer, gen, ready, native, bridgeVars>>
    /\ \/ ~Live(r) /\ UNCHANGED ledgerVars
       \/ /\ Live(r) /\ early /\ buffered' = buffered \cup {r}
          /\ UNCHANGED <<run, admissions, holder, waiting, ahead, authLease, recovery, deferred>>
       \/ Live(r) /\ ~early /\ \E status \in Ended : Terminalize(run, {r}, status)

\* More than _MAX_PRE_RESPONSE_CALLBACKS callbacks before that response.
BufferOverflows(r) ==
    /\ native[r] = "running" /\ Live(r) /\ up # "down"
    /\ run[r].turn = "sent" \/ worker[r] = "bound"
    /\ Abort(run[r].gen)
    /\ UNCHANGED <<account, worker, canceller, steerer, gen, bridgeVars>>
    /\ Terminalize(run, QueuedRuns \cup {r}, "stopped")

-----------------------------------------------------------------------------
(* The recovery thread, _recover_deferred_queued_run *)

RecoveryMoves(r, to) ==
    /\ recovery' = [recovery EXCEPT ![r] = to]
    /\ UNCHANGED <<run, admissions, holder, waiting, ahead, authLease, deferred, buffered,
                   account, worker, canceller, steerer, serverVars, bridgeVars>>

\* The recovery thread ends its run, giving back leases, and leaves.
RecoveryEnds(r, leases) ==
    /\ run' = [run EXCEPT ![r] = End(@, "stopped")]
    /\ Release(leases)
    /\ recovery' = [recovery EXCEPT ![r] = "leaving"]
    /\ UNCHANGED <<admissions, deferred, buffered, account, worker, canceller, steerer,
                   serverVars, bridgeVars>>

Recoverable(r) == up = "running" /\ RestartSafe(run[r])

\* As if any verified account would do.
AccountKnown(r) == account # None

\* The account is the one that accepted the prompt.
SameAccount(r) == account # None /\ account = run[r].acct

\* The deadline has passed, wherever the thread looks at it.
RecoveryExpires(r) ==
    /\ recovery[r] \in {"checking", "ready", "claimed"} /\ Recoverable(r)
    /\ RecoveryEnds(r, IF recovery[r] = "claimed" THEN {r} ELSE {})

\* Without a lease: the account must be the one that accepted the prompt, and
\* an account change under way is waited for.
RecoveryChecks(r) ==
    /\ recovery[r] = "checking"
    /\ \/ ~Recoverable(r) /\ RecoveryMoves(r, "leaving")
       \/ Recoverable(r) /\ ~SameAccount(r) /\ RecoveryEnds(r, {})
       \/ /\ Recoverable(r) /\ SameAccount(r) /\ AdmissionAllowed
          /\ RecoveryMoves(r, "ready")

\* reserve_prompt; a full queue raises and ends the thread.
RecoveryReserves(r) ==
    /\ recovery[r] = "ready"
    /\ \/ ~Recoverable(r) /\ RecoveryMoves(r, "leaving")
       \/ Recoverable(r) /\ authLease /\ RecoveryMoves(r, "checking")
       \/ Recoverable(r) /\ ~authLease /\ ~ReserveAllowed /\ RecoveryMoves(r, "leaving")
       \/ /\ Recoverable(r) /\ Reserve(r)
          /\ recovery' = [recovery EXCEPT ![r] = "claimed"]
          /\ UNCHANGED <<run, admissions, deferred, buffered, account, worker,
                         canceller, steerer, serverVars, bridgeVars>>

\* Everything is checked again while the lease excludes an account change.
RecoveryClaims(r) ==
    /\ recovery[r] = "claimed"
    /\ \/ /\ ~Recoverable(r) \/ account = None
          /\ Release({r})
          /\ recovery' = [recovery EXCEPT ![r] = IF Recoverable(r) THEN "checking" ELSE "leaving"]
          /\ UNCHANGED <<run, admissions, deferred, buffered, account, worker, canceller,
                         steerer, serverVars, bridgeVars>>
       \/ Recoverable(r) /\ ~SameAccount(r) /\ RecoveryEnds(r, {r})
       \/ /\ Recoverable(r) /\ SameAccount(r)
          /\ deferred' = deferred \ {r}
          /\ worker' = [worker EXCEPT ![r] = "waiting"]
          /\ recovery' = [recovery EXCEPT ![r] = "leaving"]
          /\ UNCHANGED <<run, admissions, holder, waiting, ahead, authLease, buffered, account,
                         canceller, steerer, serverVars, bridgeVars>>

\* The finally clause, under the lock again.
RecoveryLeaves(r) ==
    /\ recovery[r] = "leaving"
    /\ recovery' = [recovery EXCEPT ![r] = "none"]
    /\ deferred' = deferred \ {r}
    /\ UNCHANGED <<run, admissions, holder, waiting, ahead, authLease, buffered, account,
                   worker, canceller, steerer, serverVars, bridgeVars>>

-----------------------------------------------------------------------------
(* The account *)

\* acquire_auth_mutation: the gate has no prompt lease.
AccountChangeBegins ==
    /\ up = "running" /\ holder = None /\ waiting = {} /\ ~authLease
    /\ authLease' = TRUE
    /\ UNCHANGED <<run, admissions, holder, waiting, ahead, recovery, deferred, buffered, account,
                   worker, canceller, steerer, serverVars, bridgeVars>>

AccountChanges ==
    /\ authLease /\ authLease' = FALSE
    /\ account' \in Account \cup {None}
    /\ UNCHANGED <<run, admissions, holder, waiting, ahead, recovery, deferred, buffered,
                   worker, canceller, steerer, serverVars, bridgeVars>>

\* Codex rejects the account, or it can no longer be verified.
AccountFailsClosed ==
    /\ account # None /\ account' = None
    /\ UNCHANGED <<ledgerVars, worker, canceller, steerer, serverVars, bridgeVars>>

-----------------------------------------------------------------------------
(* Shutdown, crash and restart *)

\* close: prompts in "queue" mode that wait stay queued and give up their
\* lease, every other run ends; the process is stopped after the lock.
Close ==
    LET kept == {r \in QueuedRuns : run[r].mode = "queue"}
        over == LiveAmong(Req) \ kept
    IN
    /\ up = "running" /\ stops < MaxStops
    /\ up' = "closed" /\ stops' = stops + 1
    /\ run' = [r \in Req |-> IF r \in over THEN End(run[r], "stopped") ELSE run[r]]
    /\ Release({r \in over \cup kept \cup admissions : recovery[r] # "claimed"})
    /\ buffered' = buffered \ over
    /\ admissions' = {}
    /\ UNCHANGED <<recovery, deferred, settled, account, worker, canceller,
                   steerer, serverVars>>

\* The Bridge process is gone, and the app-server with it.
Gone ==
    /\ up' = "down"
    /\ admissions' = {} /\ holder' = None /\ waiting' = {} /\ ahead' = {} /\ authLease' = FALSE
    /\ worker' = Idle /\ canceller' = Idle /\ steerer' = {} /\ recovery' = Idle
    /\ deferred' = {} /\ buffered' = {} /\ settled' = FALSE
    /\ gen' = 0 /\ ready' = FALSE /\ notices' = {}
    /\ native' = [r \in Req |-> IF native[r] = "running" THEN "lost" ELSE native[r]]
    /\ UNCHANGED <<run, account>>

Exit == up = "closed" /\ Gone /\ UNCHANGED stops
Crash == up = "running" /\ stops < MaxStops /\ Gone /\ stops' = stops + 1

\* start(defer_recovered_queued_runs): only restart-safe runs survive.
Start ==
    /\ up = "down" /\ up' = "running"
    /\ gen' = 1 /\ ready' = TRUE
    /\ run' = [r \in Req |-> IF r \in Interrupted THEN End(run[r], "stopped") ELSE run[r]]
    /\ deferred' = {r \in Req : RestartSafe(run[r])}
    /\ UNCHANGED <<admissions, holder, waiting, ahead, authLease, recovery, buffered, settled,
                   account, worker, canceller, steerer, native, notices, stops>>

\* resume_recovered_queued_runs at the end of the application's startup.
ResumeRecovered ==
    /\ up = "running" /\ ~settled /\ settled' = TRUE
    /\ \E late \in SUBSET Resumable(run) :
          /\ run' = [r \in Req |-> IF r \in late THEN End(run[r], "stopped") ELSE run[r]]
          /\ Resume(run, late)
    /\ UNCHANGED <<admissions, holder, waiting, ahead, authLease, buffered, account, worker,
                   canceller, steerer, serverVars, up, stops>>

-----------------------------------------------------------------------------

User(r) ==
    \/ \E mode \in Modes : SubmitPrompt(r, mode)
    \/ AdmitPrompt(r) \/ ReleaseAdmission(r)
    \/ SteerBegin(r) \/ CancelQueuedPrompt(r) \/ CancelRun(r)

Request(r) ==
    \/ SteerAccepted(r) \/ SteerFailed(r) \/ CancelAborts(r) \/ CancelAborted(r)
    \/ InterruptAccepted(r) \/ InterruptFails(r) \/ InterruptFailed(r)

Worker(r) ==
    \/ WorkerWakes(r) \/ WorkerTooLate(r) \/ WorkerTimesOut(r) \/ WorkerExpired(r)
    \/ WorkerFenced(r) \/ WorkerAdmitted(r) \/ StartTurn(r) \/ ThreadLoaded(r)
    \/ TurnDispatched(r) \/ TurnStarts(r) \/ StartFails(r) \/ TurnBound(r)
    \/ TurnReplayed(r) \/ WorkerInterrupts(r) \/ WatchEnds(r) \/ WatchStale(r)
    \/ WatchReconciles(r) \/ WatchGivesUp(r) \/ WorkerAborts(r) \/ WorkerAborted(r)
    \/ WorkerFailed(r) \/ BudgetStop(r) \/ BudgetUnconfirmed(r) \/ StopExpiredStart(r)

Recovery(r) ==
    \/ RecoveryChecks(r) \/ RecoveryReserves(r) \/ RecoveryClaims(r)
    \/ RecoveryExpires(r) \/ RecoveryLeaves(r)

Codex(r) == TurnCompletes(r) \/ TurnCompleted(r) \/ BufferOverflows(r)

Environment ==
    \/ ProcessDies \/ ProcessStarts
    \/ AccountChangeBegins \/ AccountChanges \/ AccountFailsClosed
    \/ Close \/ Exit \/ Crash \/ Start \/ ResumeRecovered

Next ==
    \/ \E r \in Req : User(r) \/ Request(r) \/ Worker(r) \/ Recovery(r) \/ Codex(r)
    \/ Environment

Spec == Init /\ [][Next]_vars

\* Threads are scheduled, and every wait of theirs is bounded: by the run's
\* deadline, a request timeout or the watchdog.  A recovery thread that keeps
\* looping sees its deadline in the end.  Codex need not finish a turn, the
\* process need not come back, and users need not cancel.
Fairness ==
    /\ \A r \in Req : /\ WF_vars(Worker(r)) /\ WF_vars(Request(r))
                      /\ WF_vars(Recovery(r)) /\ SF_vars(RecoveryExpires(r))
    /\ WF_vars(Exit \/ Start \/ ResumeRecovered)

FairSpec == Spec /\ Fairness

-----------------------------------------------------------------------------
(* Properties *)

\* A turn that runs inside Codex belongs to a live run that holds the gate's
\* only slot: nothing runs behind the user's back, and no second turn with it.
NativeTurnOwned ==
    \A r \in Req : native[r] = "running" /\ up = "running"
                     => holder = r /\ run[r].status \in ActiveStates

\* An active run holds the slot, and a lease in the gate belongs to a live run
\* whose worker or recovery thread will give it back: no lease leaks, and none is
\* given up for a stop that Codex has not confirmed.
LeaseOwned ==
    \A r \in Req : up = "running" =>
        /\ run[r].status \in ActiveStates => holder = r
        /\ HasLease(r) => (Live(r) /\ worker[r] # "none") \/ recovery[r] = "claimed" \/ r \in admissions

\* A run is reported completed only if its turn really ended in Codex.
CompletedIsReal == \A r \in Req : run[r].status = "completed" => native[r] = "done"

\* Recovery may send a queued run, for it was never sent to Codex; and while the
\* Bridge serves, a thread will run it, or a recovery is to come.
QueueKept ==
    \A r \in Req : run[r].status = "queued" =>
        /\ run[r].turn = "unsent" /\ native[r] = "none"
        /\ up = "running" =>
             \/ worker[r] # "none" \/ recovery[r] \in {"checking", "ready", "claimed"}
             \/ (r \in deferred /\ (Blocked \/ ~settled))

\* The prompt of a request is given to Codex at most once, across aborts,
\* generation changes, crashes and recovery.
TurnStartedOnce ==
    [][\A r \in Req : native'[r] = "running" /\ native[r] # "running" => native[r] = "none"]_vars

\* No turn starts under another account than the one that accepted its prompt,
\* or while an unconfirmed budget stop blocks admission; and a run that has ended
\* keeps its end, whichever thread finishes last.
StartFence ==
    [][\A r \in Req :
          /\ native'[r] = "running" /\ native[r] = "none" =>
                account \in {run[r].acct, None} /\ ~Blocked
          /\ run[r].status \in Ended => run'[r].status = run[r].status]_vars

\* Every accepted prompt ends: a run that still has its prompt reaches a
\* terminal state, whatever Codex, the process, the account and users do.
EveryRunEnds == \A r \in Req : (Live(r) /\ run[r].prompt) ~> ~Live(r)

=============================================================================

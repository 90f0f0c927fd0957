# TLA+ models of the Codex Bridge

The Codex Bridge lets Home Assistant run Codex. A Python service, the App
(`bridge_service`), owns one Codex app-server process, accepts prompts for chats,
keeps their state durable and publishes events. A Home Assistant integration
(`custom_components/codex_bridge`) reads the events and forwards commands, and a
panel in the browser (`frontend`) shows chats, sends prompts and files and answers
questions. This directory holds TLA+ models of the parts that are concurrent or
have to survive failures, TLC configurations that check them on small instances,
and TLAPS proofs for every size.

Python paths without a directory are relative to
`bridge_service/src/codex_bridge_service/`, JavaScript paths to `frontend/src/`;
the files of the integration are in `custom_components/codex_bridge/`.

## Inventory

| Component | State | Operations | Hard because |
|---|---|---|---|
| Runtime gate (`runtime_gate.py`) | leases, a FIFO queue, an active count, one auth and one config lease | reserve, wait, cancel, release, account and configuration mutations, close | waiting threads with deadlines; `cancel` works in two lock sections |
| Runtime broker (`runtime_broker.py`) | durable run records; leases, workers, recovery threads in memory | submit, admit, steer, cancel, remove, watch, notifications, restart | a prompt must reach Codex at most once and end exactly once while processes die, threads hold stale reads and accounts change |
| Interactions (`runtime_broker.py`, panel) | approvals and questions with deadlines; each panel's choices | ask, answer, settle, resolve, expire, refresh | two users, Codex, a deadline and the end of the turn race for one answer |
| App-server client (`codex_app_server.py`) | process, generation, pending calls, server requests, callback queue, MCP start state | request, respond, abort, activate, supervise, close | ids are used again by the next process; every check outside the lock is stale |
| Outbox (`event_store.py`) | operations table, document markers | commit, reconcile | crash or failed write at any step |
| Event journal (`event_store.py`) | events, cursors, retention per scope, tombstones | append, read, wait, purge | readers behind the retention limit |
| Storage (`storage.py`, `runtime_state.py`) | chats, projects, uploads, private runtime state | save, mutate | documents have two writers: the outbox and direct saves |
| Uploads (`storage.py`, `uploads.js`) | manifest, chunk files, published file, attachment | chunk, complete, cancel, reap | requests that were given up are still carried out; several durable writes |
| Automations (`automations.py`, `routes/automations.py`) | definitions, run records, idempotency keys | claim, dispatch, link, report, edit, prune, recover | four durable writes by three owners, retries from Home Assistant |
| HA scheduler (`automation_scheduler.py`) | timers, retries | refresh, fire, retry, reconcile | answers arrive late or out of order |
| HA event broker (`event_broker.py`, `task_events.py`) | cursor and receipt with their stores, history, subscriptions | poll, gap, dispatch, subscribe | gaps, restarts, slow readers, listeners that fail |
| Panel: events (`event-stream.js`, `codex-bridge-panel.js`) | transcript, sequence, subscription, polls, timers | select, snapshot, poll, receive, reconnect | three sources of the same events, each late |
| Panel: composer (`draft-recovery.js`, `codex-bridge-panel.js`) | text, message being sent, drafts in IndexedDB | type, send, retry, settle, restore | several tabs, lost answers, closed tabs |
| Authentication (`auth_coordinator.py`, `codex_auth.py`) | sign-in attempt, account | start, cancel, refresh, log out | excludes prompts through the gate |
| Limits, goals, usage, terminal, browser, host access, MCP, Discord | see `PROJECT.json` | | |

How they interact. The broker asks the gate for a lease before it persists a prompt
and gives it back when the run ends. It sends `turn/start` through the app-server
client and gets `turn/completed` from the client's callback thread. Both sides agree
on generations: a thread that finds a newer generation than the one it used knows
its turn is over. Questions of Codex come through the same callback thread and are
answered by request threads. The broker writes its records and the events about
them through the outbox into the journal. The event broker of the integration reads
the journal over HTTP and hands events to Home Assistant's bus and to the
subscriptions of open panels; a panel also reads the journal itself, through the
integration, when it takes a snapshot or polls. The end of a run is told to the
automation store by a callback that runs under the broker's lock.

What makes each part correct:

- gate: never more active prompts than the capacity, no slot unused while somebody
  queues, mutations exclude prompts, a thread whose lease is promoted wakes up;
- broker: a prompt is given to Codex at most once, a turn that runs has a live run
  that holds the slot, a run ends once, every accepted prompt ends, a queued prompt
  always has somebody who will run it;
- interactions: what is said of a question is what happened to it, Codex hears at
  most one answer, no question stays open;
- client: no caller is forgotten, one answer per server request and to the process
  that asked, callers see one generation after the other, the client recovers;
- outbox: documents and events agree after any crash, nothing goes back;
- uploads: an attachment has its file, is announced once and is not taken back,
  unless somebody overlooks the pending row of a commit that failed;
- automations: one turn per occurrence, one turn at a time, what is shown as
  finished is over, and no record reserves the automation for ever;
- event stream: a panel shows everything up to the number it has reached, or knows
  that it has to read again, and comes to show everything;
- composer: a message is accepted once, unless a call of it is refused or the tab
  is reloaded; removed text stays removed, unsent text stays.

## Modules

| Module | Models |
|---|---|
| `RuntimeGate`, `RuntimeGateProofs` | `runtime_gate.py`; its inductive invariant and the consequences |
| `RuntimeBroker`, `BrokerProofs` | the life of a prompt in `runtime_broker.py`, with the gate and the process as it sees them; its invariants |
| `Interactions` | the questions of a turn, from `runtime_broker.py` to the panels that answer |
| `CodexAppServer`, `AppServerProofs` | `codex_app_server.py`; that it implements its contract, and its invariants |
| `AppServerGenerations` | the contract: generations, one at a time |
| `DurableOutbox`, `OutboxProofs` | `DurableOutbox` of `event_store.py`, with the locks and direct saves of `storage.py`; its invariants |
| `UploadSession` | uploads, from the browser to the chat's record |
| `PanelProofs` | the invariants of `UploadSession` and of `Interactions` |
| `Automations`, `AutomationProofs` | `automations.py`, the claim route, the dispatcher, the report of a turn's end; its invariants |
| `EventJournal` | `BridgeEventStore`: cursors, retention, purges, pages |
| `EventBroker` | `event_broker.py` and `task_events.py`, on the journal |
| `PanelStream`, `StreamProofs` | the panel's subscriptions, snapshots and polls, on the event broker; that nothing is lost on the way |
| `DraftRecovery` | `draft-recovery.js` |
| `PromptComposer`, `ComposerProofs` | sending a message and keeping its text, on the drafts; the invariants of both |
| `MC...` | instances of these for TLC |

`PanelStream` extends `EventBroker`, which extends `EventJournal`: the composition of
all that lies between a write in the App and what the user sees. `PromptComposer`
extends `DraftRecovery`. `CodexAppServer` implements `AppServerGenerations` under a
refinement mapping.

Every component module has operators that stand for plausible bugs, next to the
definition each is a variant of (the comment starts with "As if"). No specification
uses them; `PROJECT.json` says which property each of them breaks.

### RuntimeGate

Each method is one critical section and one action. There are two exceptions.
`wait_until_active` gives the lock up between two looks at the lease, so a waiter
has a program counter (`waiter`: checking, blocked, late). `cancel` looks at the
state in one section and finishes the lease in another, so a canceller has one too.
`_finish_locked` is `FinishLocked`: it removes the lease from the queue or the
count, clears the indexes and promotes from the head of the queue
(`PromoteCount`). `auth_mutation_revision`, a counter nobody waits on, is left out.

### RuntimeBroker

One action is one section under `_lock`, or one step a thread takes between two
sections. `run` is the durable record of each request; a crash keeps it and loses
everything else. `worker`, `canceller`, `steerer` and `recovery` are the threads.
`native` and `notices` are what Codex does, from how the broker uses it. The
gate is the one above with capacity one, which the broker's constructor demands.
The queue of the gate is kept as a set and an order. Clocks are left out: a deadline
may pass whenever the code looks. `cancelled`, `failed` and `interrupted` are one
terminal state, "stopped", because only their wording differs.

The process's death at an abort is immediate in this model; `CodexAppServer` has
the detail. Failing persistence (which makes the broker fatal), edits of queued
prompts, forks, moves and deletions of chats and replays of a request id are not
modelled.

### Interactions

The questions of one attended turn. `asking` is the interaction in memory and
`stored` the one on disk; `claimable` and `tokens` are the two tables of server
requests, the broker's and the client's, since an answer must pass both. A request
thread goes through claim, token, write and settle, each a step of its own under its
own lock; between them the question may fall due, be resolved by Codex, be closed
with its turn or its generation, or a save may fail, after which the broker is
`fatal` and refuses everything. `heard` is what was written to Codex. On the other
side are the panels: `choice` is an entry of `_interactionMutations`, kept with its
request id through retries, `listed` what the panel shows, `told` the answers whose
success was reported. Turns without a user, which are answered on the spot, and the
forms of MCP servers are left out; the latter pass through the same states.

### CodexAppServer and AppServerGenerations

`supervisor`, `reader`, `closer`, `activator` and `caller` are threads; `pending`,
`retired`, `tokens`, `callbacks` are the client's tables. `faults` bounds what
fails by itself. There is one callback thread, as in the App. The limit on retired
ids (2048) is left out, so a response later than 2048 others is not covered.
`GenerationContract` says that the client implements `AppServerGenerations`, under
the mapping that a generation is ready while `_ready` is set, and starting from its
number being taken.

### DurableOutbox

A document's content is the update that wrote it, and its marker the revision. A
caller holds its documents' locks (`Free`), asks for revisions (`Numbers`), takes
the operation lock, reconciles what is left (`Scans`, `Applies`, `Replaces`,
`Checks`, `Finalizes`) and does the same for its own operation. Every write and
every transaction may fail, and the process may die at every step. Updates in
`Direct` are `save_thread`: they replace the file and leave no marker. A retry under
the same operation id is not modelled, since ids are fresh except for one.

### UploadSession

`manifest`, `parts`, `published`, `attached` and `added` are what is on disk: the
session's manifest, its chunk files, the assembled file, the attachment in the
chat's record and the events that announce it. Each durable write of
`complete_upload_session` and of the cancellation is a step of the holder of the
lock, and the App may stop after any of them, which gives the lock up and keeps the
disk. A chunk is streamed without the lock (`writers`). `client` is the loop of
`uploadResumableFile` with its retries and its questions for the session's state;
`calls` are requests on their way, which are carried out even when the browser has
given them up, and an upload may be resumed by its id.

The record and its event are one operation of the outbox. `RecordAttachment` is that
commit when it succeeds. `RecordFails` is the commit that fails while the App goes on:
before its row, or behind it, with the record saved or not, and then `row` says that a
pending row would add the attachment. The next operation of any chat finishes it
(`FinishRow`), or a start of the App does (`StopService`). Until then a reader of the
record may not see the attachment (`Unseen`). `overlooked` remembers that a cancel, a
second completion, or another save of the chat (`SaveOverRow`) has acted on such a
reading. That other save is one step here; `DurableOutbox` has its parts. Content is one bit per chunk,
so sizes and digests always agree. The browser creates the session in the initial
state.

### Automations

One automation. A key is a revision and an occurrence, as Home Assistant builds it,
or a run-now request. `handler` is a thread in the claim route, about to dispatch,
submit, link or block. `turn` is what the broker did: admitted (only in memory),
live (durable), reporting (the end is durable, the store has not been told),
ended. A process that starts lets the store recover first, then the broker, then
serves, in the order of the application's start. When the MCP configuration cannot
be activated the application serves without starting the broker; that case is left
out, and so are schedule arithmetic, creation, and a save that fails.
Home Assistant is free to ask for any key it was offered, and again, even while the
first request is still being served, which it does when a request takes longer than
its 30 s. The history variable `doubled` remembers the keys this happened to.
`settled` is the order in which finished records are cut off, by the time they ended
(`_terminal_retention_key`), as a relation: the pairs of a record and one that ended
after it. A record that is written again keeps its place.

### EventJournal, EventBroker and PanelStream

`written` is the sequence of all events ever written, an event being its scope and
its cursor its index. What a scope retains follows from its `minimum`. `Replay` is
one page, or the answer that the cursor has expired.

The task of the event broker has a `phase`: it fetches a page, skips a hole, saves
its cursor, hands each event to the forwarder of task events (`receipt`, saved
before the event is fired) and then to the subscription, and may fail or be stopped
between any two of these. `sub` is the one subscription that is followed, with its
queue; `_replace_then_close` is `Closed`.

The panel has one view, a chat or the system; the two subscriptions share nothing
in the panel. `sequence` is what it has read up to, `shown` what it shows. Snapshots
are read page by page (`Read`, `LoadPage`, `Commit`), polls have their answer in
`poll` until it is applied, and the subscription is `link` in the panel and `sub` in
Home Assistant, which need not agree. A read of the system view may fail
(`ReadSystemFails`); the panel then shows the error and does not repeat the read by
itself (`Failed`). Selecting another chat gives the subscription,
snapshot and poll of the old one up: whatever still arrives for it is ignored by its
generation. Home Assistant may restart and connections may be lost.

### DraftRecovery and PromptComposer

A revision is represented by its rank in the order of `compareDraftRevision`. Tabs
issue operations into a queue of their own (`pending`), and IndexedDB runs one
transaction at a time, those of different tabs in any order. Records are dropped for
their number (`Limited`) and their age (`Pruned`); both raise the floor under which
writes are refused. The composer follows one tab: `message` is `_promptMutations` of
the chat, `sent` and `accepted` are what left the tab and what the App took. Every
attempt to send a message is a call of its own (`CallOf`, `outgoing`), and calls that
the tab has given up may still be taken. A call may be refused for good
(`AppRefuses`), also that of a message taken before, since what refuses it comes
before the lookup of the request id; `returned` remembers the ids whose text was given
back in this way. The tab may be closed at any time, and its transactions may be lost with it.

## Runs

States are distinct states.

| Run | States | Shows |
|---|---|---|
| `gate` | 37,282 | three leases and owners, capacity 1, queue 2: every safety invariant of the gate, no lost wakeup, no active lease that expires |
| `broker_fair` | 107,386 | one prompt and every feature and failure at once, or two chats with a budget stop that is not confirmed and the prompt behind it: nobody loses the slot, a prompt starts once, every run ends |
| `broker_restart` | 887,685 | two prompts of one chat with two accounts, cancellation and a crash or shutdown, or with budget stops: what waits was never sent, has a thread to run it, and starts under its account and behind no unconfirmed stop |
| `broker_stale` | | violated, see findings |
| `server` | 366,486 | two calls, two server-request ids over several generations, or the MCP activation: nobody lost, nothing left pending, one answer each, the generation contract, recovery |
| `outbox` | 2,011,188 | four operations on two documents, a direct save, three faults |
| `outbox_direct` | | violated, see findings |
| `automations` | 156,970 | two occurrences, a run-now request, edits, retries, a crash, a history of one |
| `automations_stuck` | | violated, see findings |
| `panel` | 374,243 | the event stream from the journal to the screen; two tabs and a message; an upload of three chunks; two panels and two questions |
| `panel_retries`, `panel_current` | | violated, see findings |

Slices. Some instances hold parts that meet only in little, and a behaviour takes
one of them (`focus`, `part`), so that the parts need not be multiplied: in
`MCCodexAppServer` calls, server requests and the activation, each with all of the
process's life; in `MCBrokerFair` one prompt with everything, or two chats over one
slot; in `MCBrokerRestart` stops of the Bridge, or budget stops; in `MCPanel` the
four parts of the panel, and of the event stream separately a failure, user
selections and a journal that trims.

Bounds. Two prompts are enough for contention over the only slot, where one waits
behind the other; a queue that is full while a recovered prompt wants in needs a
third, and is an observation below. Two generations give every thread a chance to
hold a number that is no longer current. One stop is enough for recovery; the second
life has no feature that a third would add. In the outbox three faults let an
operation fail, its reconciliation fail and the process die. The history of one in
`automations` stands for the 200 of the App: pruning then happens at the second
finished record. A retry comes within five minutes of the first try and cannot find
its record pruned from 200, so a pruned key is not asked for again.

In the event stream three events with pages of two, two retained ones, a queue and a
history of one reach every limit: a second page, trimming, an overflowing queue, and
a subscription that starts behind the history. Two edits and two messages against a
store of one record evict, and four revisions let the other tab write before and
after. Three chunks make a session that is interrupted at the first, in the middle
and at the last; four breaks let a request be given up, its confirmation fail and
the App stop twice. One question of each kind, two panels and two request ids are
what a rivalry takes.

Deadlock checking is on for the broker. It is off where the system may stop: a gate
whose leases are used up, a closed client, an outbox whose updates are done, a
schedule that has ended, a panel whose user has done all he may.

### Fairness

- `broker_fair`: workers, request threads and recovery threads are scheduled and
  their waits bounded, by the run's deadline, request timeouts and the watchdog; a
  recovery thread that keeps looping sees its deadline (strong fairness, since the
  deadline is absolute). A Bridge that went down is started again by its supervisor.
  Nothing is assumed of Codex, of its process or of users.
- `server`: the supervisor, the reader and the thread inside `close` are scheduled,
  and a process exits when its input is closed, which is what the client waits for
  before it kills it. Nobody has to call `close`.
- `panel`, event stream (`PanelFairness`): the broker's task runs, the integration
  answers a subscribe command and forwards envelopes, the panel handles what it
  receives, finishes the snapshot it reads, and its poll interval ticks. Nothing is
  assumed of users, nor that anything more is written; failures are bounded.
- `panel`, questions (`InteractionFairness`): time passes, the turn's watchdog looks
  for questions that are due, request threads run, every panel refreshes. Codex
  need not resolve a question nor end the turn, and nobody need answer.

The other runs have no liveness property and assume none. Composer and uploads have
none because nothing but a user makes a message or an upload go on.

## Proofs

Eight modules of theorems, each for all values of the constants that the named
assumption allows. In each the safety properties follow from one inductive
invariant, proved for the initial states and for every step, with a lemma per
action or per family of actions that disturb the same parts, and in it a step per
conjunct. The last step of a theorem is temporal and has no content of its own.

`RuntimeGateProofs`, from `GateAssumption` (capacity at least one):

- `GateTypeCorrect`: types, among them that the active count is never negative;
- `GateAccountingExact`: the count is exactly the number of active prompt leases and
  within capacity, and the queue holds exactly the queued leases;
- `GateSafety`: a mutation excludes everything else (`MutationExclusive`);
- `GateWorkConserving`: no slot is free while a prompt queues;
- `GateIndexes`: `_prompt_leases`, `_auth_lease` and `_config_lease` name exactly
  the live leases;
- `GateActiveNeverExpires`: no step times out or closes an active lease;
- `GateNoLostWakeup`: a thread that sleeps in `wait_until_active` has a lease that is
  still queued, so no promotion goes unnoticed until the deadline.

They follow from `GateInvariant`, the inductive invariant `IInv`: the conjunction of
these and of `QueueShape` (the active leases are finitely many, the queued ones are
prompts, and a closed gate has an empty queue). None is inductive alone: that the
count stays exact when a lease is finished needs that a queued lease is not counted,
which is exactness of the queue; that promotion stays within capacity needs exactness
of the count; that a mutation is exclusive needs the indexes. Cardinalities are
handled by lemmas on adding and removing one lease, and promotion, which moves any
number of leases at once, by lemmas on the head and the rest of a sequence.

`BrokerProofs`, from the `BrokerAssumption` of `RuntimeBroker`:

- `BrokerTypeCorrect`: types;
- `BrokerTurnStartedOnce`: no step starts a turn in Codex for a prompt that has had
  one (`TurnStartedOnce`), and `BrokerQueuedUnsent`: a queued run has not been sent,
  which is what recovery after a restart relies on when it sends it;
- `BrokerCompletedIsReal`: a run that is recorded as completed had a turn that
  completed;
- `BrokerLeaseOwned`: an active run holds the slot, and a lease in the gate has a
  worker, a recovery or an admission that gives it back;
- `BrokerTurnOwned`: a turn that runs in Codex belongs to a live run that holds the
  slot (`NativeTurnOwned`), provided that no watcher acts on a generation it saw
  before it took the lock (`Timely`);
- `BrokerQueueKept`: a queued run was never sent and has a thread that will run it or
  a recovery to come (`QueueKept`), provided that recovery threads find room in the
  gate (`Roomy`), and that what a worker puts back is a prompt that recovery may send
  and whose recovery thread has left (`Deferrable`);
- `BrokerStartFence`: no step starts a turn under another account than the one that
  accepted its prompt or behind an unconfirmed stop, or changes the end of a run
  (`StartFence`, an action property), provided `Timely` and `Deferrable`;
- `BrokerQueueKeptUnbudgeted` and `BrokerStartFenceUnbudgeted`: where no run has an
  elapsed-time limit `Deferrable` holds by itself, and the two theorems need only
  `Roomy` and only `Timely`.

`BrokerInv` is `OnceInv` (at each point of a worker, how far its prompt has come: a
turn starts only from points at which none was sent), `RealInv` (what can be told of
a turn's end, in the buffer and in the run, has happened), `LeaseInv` (who has a
lease, at each point, and who will release it) and types. `BrokerTurnOwned` has an
invariant of its own on top, `OwnInv`: whose turn runs, and that a thread which is to
end a run after it has aborted a generation finds that generation dead. Its condition
is there because `NativeTurnOwned` is false without it: the finding `broker_stale`
shows how. The theorem says that the comparison outside the lock is the only way.

For the last theorems one lemma per family of steps says what the step may make of
any request (`Course`): its record stays, enters, ends, goes on or is put back
(`Fate`), its worker moves on or is handed over (`Works`), recovery takes up only what
was deferred (`Recovers`), a prompt that waits goes on waiting or is taken up
(`Waiting`), and nobody gets a lease whose worker already runs. On that summary rest
three invariants. `PlainInv`: only a run with a limit has a budget stop, and none while
it is queued or being sent. `KeptInv`: a queued run has its prompt and somebody who
waits for it. `FenceInv`: a live run with a lease and a worker is under the account
of now, since an account changes only while the gate is empty, and after shutdown
nothing that is dispatched under another account finds its process alive. The
conditions are not made for the proofs: each excludes one of the observations under
Findings, with which the property is false (a full queue: `Roomy`; a removed prompt
or one in "auto" mode put back, and a slow `finally` clause: `Deferrable`). The
theorems say that there is no further one. Those without a condition hold with all
these steps included.

`AppServerProofs`, from `ServerAssumption`:

- `ServerGenerations`: `Spec => GenerationContract`, the refinement. Every step maps
  to a step of `AppServerGenerations` or to a stutter (`Moves`);
- `ServerCallbackFenced`: no callback of a failed or former generation runs;
- `ServerNothingLeftBehind`: a caller that waits will be told, the table holds only
  calls of the running generation, a late response is no protocol violation, and
  nobody waits once `close` has returned;
- `ServerAnswersExact`: a server request is answered at most once, by the generation
  that asked;
- `ServerMaskExact`: until an MCP activation is asked for, the process runs with
  every configured server disabled, and when one is active it does not;
- `ServerTypeCorrect`: types.

`CoreInv` is the invariant behind the first two. It ties the thread positions to the
flags: a generation that has failed has its input closed, so its start cannot get
beyond the verification and it never becomes ready; `_ready` is set only where the
supervisor can take it back; requests of the current generation exist only after
its start, and none is left once it has failed, which is what fences the callbacks.
Most actions leave its eight variables alone (`QuietStep`), and all the ways to fail
a generation are one lemma (`FailingStep`). On it rest `ServerCalls` (`CallInv`:
where a call is, by the point of its caller, and that the reader which fails a
generation answers all that is in its table), `ServerTokens` (`TokenInv`: a token is
at one place between the reader and the answer) and `ServerMask` (`MaskInv`: an
activation names the generation after the one that was running, and ends with it).

`OutboxProofs`, from `OutboxAssumption`:

- `OutboxPublished`: events are published in the order of the rows, each once, with
  one row left to finish at most, and an operation whose caller was told it is
  rejected never takes effect;
- `OutboxEventsShowState`: no reader of an event finds a document older than it;
- `OutboxNeverWedged`: an operation that is being applied never finds a document it
  cannot continue from, so no row stops the ones after it, or the next start;
- `OutboxAcknowledgedStays`: a caller is told that an operation is done only when it
  is, and no step puts a document back behind a finished operation (an action
  property; direct saves are outside of it, see `outbox_direct`).

`OutboxInv` says of the operation lock that at most one row is not in the journal,
that it is the last, and that it is the lock holder's or nobody's (`LockInv`,
`JournalInv`, `CallerInv`); that rows were written in the order in which their
callers got the locks of the documents (`OrderInv`); and that no document has a
change older than the last one published for it (`FileInv`). The order is what the
properties need and do not mention: without it an operation recovered after a
restart could put back what a later one replaced.

`PanelProofs` on uploads, from `UploadAssumption`:

- `UploadAttachedWhole`: an attachment in the chat's record has its file, is
  announced once, is not taken back, and what the browser calls done is attached, as
  long as nobody has overlooked a pending row (`overlooked`); and without that
  condition, an attachment that has no pending row has been announced;
- `UploadNothingMissing`: a manifest that can still be completed counts no chunk
  that is not on disk.

`UploadInv` adds to these two what a durable status says of the other writes
(`Recorded`: the mark is there before the file, the file before the record, the
record before the session is called completed; and a row that nobody has overlooked
is one of a session with its file) and what the holder of the lock may
count on at each step (`Holding`); without the latter a step that writes blindly
could undo what the status says, and without the former a lock taken after a stop
could not tell what had been written before it.

`PanelProofs` on questions, from `InteractionAssumption`:

- `InteractionOutcomeHonest`: what a panel, the broker's table or the private state
  says became of a question is what Codex has heard, and it hears one answer at most.

`AnswerInv` ties the table in memory and the one on disk to what has been heard and
to the answers under way (`Truthful`): a question answered has been heard, one
claimed has a thread that answers it and no second one (`Owners`), and while no save
has failed the two tables agree (`Saved`). After a failed save the generation is
given up, and the disk may lag but not say what is false.

`StreamProofs`, from `JournalAssumption`, `EventBroker`'s `BrokerAssumption` and
`PanelAssumption`:

- `StreamNoSilentGap`: a panel has every event of what it shows up to its cursor,
  or knows that it needs a snapshot, or has the read pending or failed (for a chat whose oldest
  events the journal still has; `panel_current` is about the others);
- `StreamFiredOnce`: no task event is put on the Home Assistant bus twice.

`StreamInv` follows an event on its way. What the panel has not been told of is, in
order, on the wire, in the queue of its subscription, in the broker's history or
still to be read from the journal (`FlowInv`), or it is in the snapshot that is being
read (`ReadInv`). That needs the history to be the newest events without a hole
(`HistoryInv`), the subscription to be open where the panel was when it asked for it
(`LinkInv`), and for the other view that any news makes it read again
(`SystemInv`). `FiredInv` has the receipt of the forwarder ahead of everything fired.
Lemmas on `Rank` and `InOrder` say that a page or a replay is the selected events,
each once, in order.

`ComposerProofs`, from `DraftAssumption` and `ComposerAssumption`:

- `ComposerNewestStays`: a chat's draft is never that of an older revision than one
  already decided, nor is a removed one back, unless a clear of all drafts ran behind
  newer operations;
- `ComposerAcceptedOnce`: a text of which no call was refused is accepted once, and
  once more at most for every time its tab was opened again; and a text that was given
  back by a refusal had not been accepted, unless an answer or a transaction was lost
  before;
- `ComposerUnsentKept`: no step takes a text that was not sent from the composer
  (an action property);
- `ComposerStoreFollows`: when a tab is at rest, a stored draft that is its own is
  what the composer has.

`StoreInv` says what has decided the fate of each chat's draft (the draft, the
tombstone or the floor) whatever order the tabs' transactions ran in; `MessageInv`
what the composer, the message being sent and the stored draft may have of each other
(`TextInv`), how many ids a text can still be sent under (`CountInv`), that until
something is lost every call is a first attempt and its message was neither taken nor
refused (`FirstTry`), and that
the composer is locked meanwhile (`LockedInv`). `FollowInv` needs in addition that a
tab's operations are queued in the order of their revisions (`QueueInv`).

`AutomationProofs`, from `AutomationsAssumption`:

- `AutomationOneTurn`: at most one turn of the automation goes on, an occurrence has
  one turn at most, an active record has an owner in a process that follows no crash,
  and a record that is about to be linked has not been pruned;
- `AutomationFinishedIsOver`: a run shown as finished has no prompt or turn left in
  the runtime, unless its key was asked for twice at once;
- `AutomationOutcomeStays`: no step changes the status of a finished record (an action
  property);
- `AutomationReservationFreed`: with the one condition that no crash comes between the
  durable end of a turn and its report, no active record is left without an owner
  after any number of crashes (`RestartFreesReservation`). The finding
  `automations_stuck` is the crash the condition excludes, and the theorem says that
  nothing else causes it;
- `AutomationTypeCorrect`: types, and that the retention order is a strict total order
  of the finished records.

`AutoInv` ties the four owners of a run together. `HandlerInv` has a handler behind
every prompt that is half admitted, and tells two handlers of one key apart, which
makes the key `doubled`. `RunInv` is about the store: one active record, a queued one
with a handler, a running one with a turn. `DispatchInv` says what the only handler of
a key knows of record and turn at each step (`Knows`): between admission and link the
record is queued, or it has ended and still waits for its link, which is what the
pruning spares. From it follows `LiveInv`: what goes on in the runtime is that of the
active record. That an occurrence starts once rests on what a claim can find:
`OfferInv` (an offered key of the current revision is the next occurrence, or has its
record) and `StartInv` (whatever has become of a key, its occurrence has passed; two
keys of an occurrence cannot both be spent). Their measure is `Spent`, which only a
claim extends (`SpentNext`), and `Passed`, which no edit takes back (`PassedNext`).
The pruning enters through one lemma (`SavesIs`): a save touches the records it
writes, and of the others drops only those that are neither active nor to be linked.
The assumption asks for keys, occurrences and records to be told apart from `None`,
and for run-now keys to be told apart from scheduled ones, as the prefixes of the keys
do in the code.

Left to TLC:

- liveness under fairness and everything with `ENABLED`, which are out of the
  prover's reach: `EveryRunEnds`, `CatchesUp`, `EveryQuestionCloses`, the recovery of
  the client and the rest of the temporal properties of the table of runs;
- induction over data, that is what a recursive definition computes for every input.
  No module uses recursive operators where theorems reach it;
- the broker's `QueueKept`, `StartFence` and `NativeTurnOwned` without the conditions
  of their theorems. They are false for some constants (the observations under
  Findings and `broker_stale`); the constants of `broker_restart` and `broker_fair`
  leave those steps out, and TLC checks them there as they stand.

So every invariant and every action property of the passing runs is stated by a
theorem, three of them under a named condition.

## Findings

Each is a run that TLC refutes; `PROJECT.json` quotes the sentence of the
repository the property states.

1. `broker_stale`: the watchdog compares generations outside the lock; when it gets
   the lock it ends runs of a generation that has just started.
2. `outbox_direct`: an operation whose events could not be committed is finished
   later and overwrites a newer direct save.
3. `automations_stuck`: a crash between the durable end of a turn and its report
   leaves an automation that skips every later occurrence and cannot be deleted.
4. `panel_retries`: a subscription that the App ends with a hard status tells the
   panel that polling will retry, in an envelope the panel rejects as invalid; it
   goes on believing in the subscription, and does not poll while it does.
5. `panel_current`: a chat that has outgrown the journal's retention is read from
   the start, finds its cursor expired, and the empty answer is taken for the whole
   transcript.

Observations, met while the runs were chosen. The properties above are checked with
constants, or stated for the cases, that leave these out.

Service:

- `RuntimeLease.cancel` tests the state, drops the lock and finishes the lease
  (`runtime_gate.py:104-111`); a promotion in between makes it end an active lease
  although the comment says that a cancellation must never promote another turn. In
  `RuntimeGate` this is `CancelFinish` after `CancelCheck`: a step from "active" to
  "cancelled".
- The budget fence of a worker (`runtime_broker.py:2583`) sets a run that the user
  has removed meanwhile back to queued: the last conjunct of `StartFence`, with a
  request that is both in `Budgeted` and in `Cancelled`. `EveryRunEnds` speaks of
  runs that still have their prompt for that reason.
- A recovered prompt that meets a full queue (`runtime_broker.py:855`) is forgotten
  until the next restart: `QueueKept` with three requests in one chat, one of
  them prepared, and `MaxStops = 1`.
- The same `finally` clause (`runtime_broker.py:910-914`) runs late when the recovery
  thread is slow: it then takes a prompt its own worker has deferred again behind a
  budget stop out of the deferred set. `QueueKept` shows it with the constants of
  `broker_restart` when a behaviour may have both a stop of the Bridge and a budget.
- An "auto" prompt that is deferred behind an unconfirmed budget stop is not
  resumed with the queued ones (`docs/task-usage-budgets.md`, 68-74).
- An activation of the MCP configuration can be reported as failed after its
  generation became ready and failed again (`codex_app_server.py:787-789`); the mask
  is then not restored, unlike the docstring says. In `CodexAppServer` this is
  `ActivationEnds` with `mcp` "active" and the client not ready.
- `codex_app_server.py:951` sets `_ready` without looking whether the generation has
  failed; the supervisor notices at its next step.
- A retry of a claim during its dispatch (`routes/automations.py:225`) marks a run as
  blocked while its turn goes on, and the next occurrence may start beside it.
  `FinishedIsOver` and `OneTurn` show it without `doubled`.
- Once `_finalize` has failed for lack of room, every later commit fails while it
  reconciles, and the broker becomes fatal.
- A blocking question that is answered as it falls due ends its turn as failed
  although Codex got the answer; and Codex's `serverRequest/resolved`, when it
  arrives before the answer is settled, makes a successful answer one whose outcome
  is unknown. `OutcomeHonest` allows both: they understate, they do not lie.
- The commit that adds an attachment to the chat's record (`storage.py:4485`) can fail
  after its outbox row is there (`event_store.py:2452-2478`), with the App running and
  the locks given back. A cancel that comes next reads the record as it is on disk
  (`storage.py:4098-4132`, `4622-4661`), finds no attachment, and unlinks the published
  file (`storage.py:4663-4677`); the next operation of any chat finishes the row, and
  the record has an attachment whose file is gone. A second completion finds no
  attachment either and announces it twice; and another save of the chat has merged
  the attachments (`storage.py:3518-3549`) before its commit finishes the row, and
  replaces them. For project moves storage knows such a state
  (`DurableMutationPendingError`), for uploads it does not. `AttachedWhole` without
  `overlooked` shows all three.
- If the App stops between the cancelled manifest and the removal of the published
  file, the file stays: the reaper removes the session and nothing else.

Home Assistant and panel:

- The forwarder of task events saves its receipt before it fires. A stop in between
  loses the event; it is never fired twice (`FiredOnce`).
- A subscription of the system view that was ended by an expired cursor is not
  opened again by the panel; its periodic status request covers for it. A legacy
  `snapshot_required` whose cursor is not above the panel's is ignored in a chat, and
  the panel is deaf (`Deaf`) until something else refreshes it.
- An event cursor that Home Assistant saved before the App was restored from an
  older backup is ahead of the journal (`event_broker.py:653`): new events are taken
  for old ones. A restored journal is outside `EventJournal`.
- `clearAll` discards tombstones newer than itself (`draft-recovery.js:176-186`), so
  a delayed older write may bring removed text back, which
  `docs/selected-enhancements.md` excludes: "Content-free revision metadata prevents
  delayed old writes resurrecting removed text." `NewestStays` without `forgot`
  (`RemovedStaysRemoved`) shows it.
- A tab that is closed after the App took its message and before the draft is
  removed offers the text as unsent when it is opened again. `AcceptedOnce` allows
  one more message per reload for that reason.
- A message can be taken, lose its answer, and have its retry refused. The refusals
  that the panel takes for final (`codex-bridge-panel.js:15232-15273`) come from checks
  of capabilities and arguments (`websocket_api.py:1238-1255`,
  `routes/prompts.py:91-155`, `runtime_broker.py:1433`) that run before the lookup of
  the request id (`runtime_broker.py:1473-1491`), for instance while the app-server
  restarts. The panel drops the mutation and leaves the text, and the next Send has a
  new id: the text is accepted twice, although it had told the user "Retry safely with
  the same request ID." (`codex-bridge-panel.js:15292`). `AcceptedOnce` without
  `returned` shows it.
- A read of the system view that fails (`codex-bridge-panel.js:15528-15562`) shows an
  error and is not repeated until another system event, or the status request that
  goes with the polls of a chat, or the user asks for it (`Failed`).
- When the save of a message's draft lost against a newer revision, its removal does
  nothing, and the user is told that the local draft could not be removed.
- An upload that was interrupted while it was being published answers with the
  status "publishing", which the browser, also when it resumes, rejects
  (`uploads.js:321`), although completing it again would succeed.

## Not modelled

- The bundles under `custom_components/codex_bridge/frontend/` are built from
  `frontend/src` and from the PDF library by the build script. They repeat or embed
  what the modules model from the sources, and are mapped to nothing. They are by
  far the most lines of JavaScript in the repository.
- Most of `codex-bridge-panel.js` and the other files of `frontend/src` render
  dialogs, menus, transcripts and settings from the state the modules keep, or send
  a form in one call. There is no order of steps in them that a model checker could
  get wrong in a way a unit test would not. What keeps state across calls, the event
  stream, the composer, uploads and the answers to questions, is modelled.
- The thread projection that the broker loads and saves under its own lock
  (`runtime_broker.py:5023`) while storage edits the same document: it takes the
  outbox and the broker in one module.
- The callback dispatcher's merging of a delta into the last one queued; tombstones of deleted chats and their
  limit; the import and compaction of journals.
- The timers of the Home Assistant scheduler. `Automations` is independent of them,
  since it lets any offered key be asked for at any time.
- Sign-in and accounts beyond what they do to the gate and to prompts; goals, usage,
  limits: small documents with a revision, each under one lock.
- MCP relays, host access, browser tools, terminal, Discord: process and socket I/O
  and validation, with their leases in the gate.
- `PROJECT.json` lists every component with its status and reason.

## Plan

Done: the gate; the life of a prompt; the app-server client; the outbox;
automations; the event stream from the journal to the panel; drafts and composer;
uploads; interactions; the proofs of all of these.

What would come next, in this order:

1. the timers of the scheduler: an enabled automation always has a timer, a retry or
   a reconciliation to come;
2. the projection of a chat with its two writers, on `DurableOutbox`;
3. the promise of the broker (accepted, at most once running, ended once) as an
   abstract specification refined by `RuntimeBroker`;
4. proofs: that `NativeTurnOwned` holds without a condition for a watcher that
   compares under the lock.

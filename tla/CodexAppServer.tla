--------------------------- MODULE CodexAppServer ---------------------------
(***************************************************************************)
(* codex_app_server.py: the client that owns the Codex app-server process. *)
(* A supervisor thread starts one process after the other, each a new      *)
(* generation; a reader thread per process routes what it writes; caller   *)
(* threads wait for the responses of their requests; a callback thread     *)
(* runs the handlers of server requests, which may leave the answer to a   *)
(* later decision; any thread may abort the current generation; and the    *)
(* MCP manager asks once for a restart into its validated configuration.   *)
(*                                                                         *)
(* Every action is one section under _state_lock, or one step of a thread  *)
(* between two such sections.  _mark_generation_failed and abort_generation *)
(* each fail the calls they have collected right after their section; that *)
(* is the same step here.  Clocks are left out: a wait may end whenever it *)
(* is looked at.  What can go wrong by itself (a crash, an invalid line, a *)
(* failing handler, a start that times out, an abort) is counted by faults. *)
(***************************************************************************)
EXTENDS Naturals, Sequences, FiniteSets

CONSTANTS
    Call,         \* client requests; each is sent by one thread, once
    Token,        \* ids of server requests; a new process uses them again
    None,         \* no call
    EnableMcp,    \* enable_mcp: the MCP manager may ask for its restart
    MaxPending,   \* max_pending_requests
    MaxCallbacks, \* max_callback_queue
    MaxFaults     \* bound: failures that nothing in the client causes

ASSUME ServerAssumption ==
    /\ None \notin Call /\ EnableMcp \in BOOLEAN
    /\ MaxPending \in Nat \ {0} /\ MaxCallbacks \in Nat \ {0} /\ MaxFaults \in Nat

VARIABLES
    gen,        \* _generation
    proc,       \* _process: "none", "alive" or "dead" (exited, not yet reaped)
    stdin,      \* its standard input is open
    masked,     \* it was started with every configured MCP server disabled
    reader,     \* its reader thread
    supervisor, \* where the supervisor thread is
    failures,   \* _generation_failures
    ready,      \* _ready
    everReady,  \* _ever_ready
    dispatch,   \* _dispatch_generation; 0 is None
    closing,    \* _closing
    closer,     \* where the thread inside close() is
    faults,     \* failures so far

    caller,     \* where the thread of each call is
    callGen,    \* the generation each call was made in
    pending,    \* _pending
    retired,    \* _retired_id_set
    future,     \* the outcome of each call: "unset", "result" or "error"
    routing,    \* the call whose response the reader has taken, not yet set
    asked,      \* calls the process has received
    replies,    \* calls whose response it has written, not yet read

    offered,    \* server requests the process has written, not yet read
    used,       \* server requests it has ever written
    tokens,     \* _server_requests
    callbacks,  \* the queue of the callback dispatcher
    held,       \* deferred server requests: the broker owes the answer
    writing,    \* answers past their claim, not yet written
    answers,    \* answers written, with the generation they were written to

    mcp,        \* _mcp_startup_state
    mcpGen,     \* _mcp_activation_generation; 0 is None
    mcpDone,    \* _mcp_activation_complete
    activator,  \* where activate_validated_mcp_config is
    seen        \* the generation it is about to abort

processVars == <<gen, proc, stdin, masked, reader, supervisor, everReady>>
statusVars == <<failures, ready, dispatch>>
closeVars == <<closing, closer>>
callVars == <<caller, callGen, pending, retired, future, routing, asked, replies>>
tokenVars == <<offered, used, tokens, callbacks, held, writing, answers>>
mcpVars == <<mcp, mcpGen, mcpDone, activator, seen>>
vars == <<processVars, statusVars, closeVars, faults, callVars, tokenVars, mcpVars>>

\* A server request is known by its id and the generation that sent it.
Key == (Nat \ {0}) \X Token

SupervisorPoints == {"spawning", "launching", "initializing", "initialized", "verifying",
                     "opening", "setting", "activating", "watching", "cleaning",
                     "stopping", "gone"}
CallerPoints == {"idle", "chosen", "registered", "waiting", "expired",
                 "answered", "failed", "timedOut"}

\* Every variable stays in its domain.
TypeOK ==
    /\ gen \in Nat /\ proc \in {"none", "alive", "dead"}
    /\ stdin \in BOOLEAN /\ masked \in BOOLEAN /\ ready \in BOOLEAN /\ everReady \in BOOLEAN
    /\ reader \in {"none", "reading", "routing", "mismatch", "failing", "done"}
    /\ supervisor \in SupervisorPoints
    /\ failures \subseteq {gen} /\ dispatch \in {0, gen}
    /\ closing \in BOOLEAN /\ closer \in {"none", "closing", "joining", "closed"}
    /\ faults \in 0..MaxFaults
    /\ caller \in [Call -> CallerPoints] /\ callGen \in [Call -> 0..gen]
    /\ pending \subseteq Call /\ Cardinality(pending) <= MaxPending /\ retired \subseteq Call
    /\ future \in [Call -> {"unset", "result", "error"}]
    /\ routing \in Call \cup {None} /\ asked \subseteq Call /\ replies \subseteq Call
    /\ offered \subseteq used /\ used \subseteq (1..gen) \X Token
    /\ tokens \subseteq used /\ Cardinality(tokens) <= MaxPending
    /\ callbacks \in Seq(used) /\ Len(callbacks) <= MaxCallbacks
    /\ held \subseteq used /\ writing \subseteq used \X {"callback", "decision"}
    /\ answers \subseteq used \X {"callback", "decision", "reader"} \X (1..gen)
    /\ mcp \in {"masked", "activating", "active"} /\ mcpGen \in Nat
    /\ mcpDone \in BOOLEAN /\ seen \in 0..gen
    /\ activator \in {"idle", "aborting", "waiting", "late", "masking", "ended", "failed"}

Init ==
    /\ gen = 0 /\ proc = "none" /\ stdin = FALSE /\ masked = TRUE /\ reader = "none"
    /\ supervisor = "spawning" /\ everReady = FALSE
    /\ failures = {} /\ ready = FALSE /\ dispatch = 0
    /\ closing = FALSE /\ closer = "none" /\ faults = 0
    /\ caller = [c \in Call |-> "idle"] /\ callGen = [c \in Call |-> 0]
    /\ pending = {} /\ retired = {} /\ future = [c \in Call |-> "unset"] /\ routing = None
    /\ asked = {} /\ replies = {}
    /\ offered = {} /\ used = {} /\ tokens = {} /\ callbacks = <<>> /\ held = {}
    /\ writing = {} /\ answers = {}
    /\ mcp = "masked" /\ mcpGen = 0 /\ mcpDone = FALSE /\ activator = "idle" /\ seen = 0

-----------------------------------------------------------------------------
(* Failing a generation *)

Running == proc = "alive"
Failed == gen \in failures
CallsOf(g) == {c \in pending : callGen[c] = g}

\* _fail_generation_pending
FailPending(calls) ==
    /\ pending' = pending \ calls /\ retired' = retired \cup calls
    /\ future' = [c \in Call |-> IF c \in calls THEN "error" ELSE future[c]]

\* As if the process were left with its input open.
MarkFailedQuietly ==
    /\ failures' = failures \cup {gen} /\ ready' = FALSE /\ dispatch' = 0
    /\ FailPending(CallsOf(gen)) /\ UNCHANGED stdin

\* _mark_generation_failed of the current generation.  The process is expected
\* to exit once its standard input is closed.
MarkFailed ==
    /\ failures' = failures \cup {gen} /\ ready' = FALSE /\ dispatch' = 0
    /\ stdin' = FALSE
    /\ FailPending(CallsOf(gen))

Fault == faults < MaxFaults /\ faults' = faults + 1

\* abort_generation(g): only the current generation, once, while it runs.
Abortable(g) == ~closing /\ g = gen /\ ~Failed /\ Running
AbortGeneration(g) ==
    /\ Abortable(g) /\ MarkFailed
    /\ tokens' = {k \in tokens : k[1] # g}

Abort ==
    /\ gen > 0 /\ Fault /\ AbortGeneration(gen)
    /\ UNCHANGED <<gen, proc, masked, reader, supervisor, everReady, closeVars, caller, callGen,
                   routing, asked, replies, offered, used, callbacks, held, writing,
                   answers, mcpVars>>

-----------------------------------------------------------------------------
(* The process *)

\* By itself, or because its input was closed or a signal was sent.
ProcessExits ==
    /\ Running /\ proc' = "dead"
    /\ IF stdin THEN Fault ELSE UNCHANGED faults
    /\ UNCHANGED <<gen, stdin, masked, reader, supervisor, everReady, statusVars, closeVars,
                   callVars, tokenVars, mcpVars>>

ProcessReplies(c) ==
    /\ Running /\ c \in asked
    /\ asked' = asked \ {c} /\ replies' = replies \cup {c}
    /\ UNCHANGED <<processVars, statusVars, closeVars, faults, caller, callGen, pending, retired,
                   future, routing, tokenVars, mcpVars>>

\* A server request belongs to a turn, so it comes once calls are let through.
ProcessAsks(t) ==
    /\ Running /\ <<gen, t>> \notin used
    /\ supervisor \in {"activating", "watching"}
    /\ offered' = offered \cup {<<gen, t>>} /\ used' = used \cup {<<gen, t>>}
    /\ UNCHANGED <<processVars, statusVars, closeVars, faults, callVars, tokens, callbacks, held,
                   writing, answers, mcpVars>>

-----------------------------------------------------------------------------
(* The supervisor, _supervise *)

\* _restore_mcp_bootstrap, for one activation generation or for any.
Restore(any) ==
    IF mcp = "activating" /\ (any \/ mcpGen = gen)
    THEN mcp' = "masked" /\ mcpGen' = 0 /\ mcpDone' = TRUE
    ELSE UNCHANGED <<mcp, mcpGen, mcpDone>>

\* As if the activation state were not looked at.
SpawnUnmasked == FALSE

\* The command line of the next process disables the configured MCP servers.
SpawnMask == mcp = "masked"

Supervise(from, to) == supervisor = from /\ supervisor' = to

\* _spawn_generation, up to Popen, or a spawn that fails.
Spawns ==
    /\ \/ closing /\ Supervise("spawning", "gone") /\ UNCHANGED <<masked, faults>>
       \/ ~closing /\ Supervise("spawning", "launching") /\ masked' = SpawnMask
          /\ UNCHANGED faults
       \/ /\ ~closing /\ Supervise("spawning", IF everReady THEN "spawning" ELSE "gone")
          /\ Fault /\ UNCHANGED masked
    /\ UNCHANGED <<gen, proc, stdin, reader, everReady, statusVars, closeVars, callVars,
                   tokenVars, mcpVars>>

\* _spawn_generation: the new process becomes the current generation.
Launches ==
    /\ Supervise("launching", "initializing")
    /\ gen' = gen + 1 /\ proc' = "alive" /\ stdin' = TRUE /\ reader' = "reading"
    /\ UNCHANGED <<masked, everReady, statusVars, closeVars, faults, callVars, tokenVars,
                   mcpVars>>

\* The process answers initialize.
InitializeAnswered ==
    /\ Supervise("initializing", "initialized")
    /\ Running /\ ~Failed /\ reader = "reading"
    /\ UNCHANGED <<gen, proc, stdin, masked, reader, everReady, statusVars, closeVars, faults,
                   callVars, tokenVars, mcpVars>>

\* Callbacks are let through before the initialized notification is written.
Dispatches ==
    /\ Supervise("initialized", "verifying") /\ ~closing
    /\ dispatch' = gen
    /\ UNCHANGED <<gen, proc, stdin, masked, reader, everReady, failures, ready, closeVars,
                   faults, callVars, tokenVars, mcpVars>>

\* initialized is written; a masked start must show that its configuration has
\* no MCP server.
Verifies ==
    /\ Supervise("verifying", "opening") /\ Running /\ stdin
    /\ mcp = "masked" => masked /\ ~Failed /\ reader = "reading"
    /\ UNCHANGED <<gen, proc, stdin, masked, reader, everReady, statusVars, closeVars, faults,
                   callVars, tokenVars, mcpVars>>

\* The generation is current and the client is not closing; a failure in the
\* meantime is not looked at.
Opens ==
    /\ Supervise("opening", "setting") /\ ~closing
    /\ UNCHANGED <<gen, proc, stdin, masked, reader, everReady, statusVars, closeVars, faults,
                   callVars, tokenVars, mcpVars>>

SetsReady ==
    /\ Supervise("setting", "activating")
    /\ ready' = TRUE /\ everReady' = TRUE
    /\ UNCHANGED <<gen, proc, stdin, masked, reader, failures, dispatch, closeVars, faults,
                   callVars, tokenVars, mcpVars>>

\* _activate_mcp_generation
Activates ==
    /\ Supervise("activating", "watching")
    /\ IF mcp = "activating" /\ mcpGen = gen
       THEN mcp' = "active" /\ mcpGen' = 0 /\ mcpDone' = TRUE
       ELSE UNCHANGED <<mcp, mcpGen, mcpDone>>
    /\ UNCHANGED <<gen, proc, stdin, masked, reader, everReady, statusVars, closeVars, faults,
                   callVars, tokenVars, activator, seen>>

\* A start that fails gives up an activation of its generation.
StartFails ==
    /\ supervisor \in {"initializing", "initialized", "verifying", "opening"}
    /\ \/ (~Running \/ Failed \/ reader # "reading" \/ closing \/ ~stdin) /\ UNCHANGED faults
       \/ supervisor = "verifying" /\ mcp = "masked" /\ ~masked /\ UNCHANGED faults
       \/ Fault
    /\ supervisor' = "cleaning" /\ Restore(FALSE)
    /\ UNCHANGED <<gen, proc, stdin, masked, reader, everReady, statusVars, closeVars, callVars,
                   tokenVars, activator, seen>>

\* The reader has ended.
Watches ==
    /\ Supervise("watching", "cleaning") /\ reader = "done"
    /\ UNCHANGED <<gen, proc, stdin, masked, reader, everReady, statusVars, closeVars, faults,
                   callVars, tokenVars, mcpVars>>

\* As if the client stayed open to callers.
CleansStillReady ==
    /\ Supervise("cleaning", "stopping")
    /\ FailPending(CallsOf(gen))
    /\ tokens' = {k \in tokens : k[1] # gen}
    /\ UNCHANGED <<gen, proc, stdin, masked, reader, everReady, statusVars, closeVars,
                   faults, caller, callGen, routing, asked, replies, offered, used, callbacks,
                   held, writing, answers, mcpVars>>

\* The finally clause: nobody waits for this generation any more, ...
Cleans ==
    /\ Supervise("cleaning", "stopping")
    /\ ready' = FALSE
    /\ FailPending(CallsOf(gen))
    /\ tokens' = {k \in tokens : k[1] # gen}
    /\ UNCHANGED <<gen, proc, stdin, masked, reader, everReady, failures, dispatch, closeVars,
                   faults, caller, callGen, routing, asked, replies, offered, used, callbacks,
                   held, writing, answers, mcpVars>>

\* ... its process is stopped and reaped, and its reader joined.
Stops ==
    /\ Supervise("stopping", IF closing \/ ~everReady THEN "gone" ELSE "spawning")
    /\ reader \in {"reading", "done"}
    /\ proc' = "none" /\ stdin' = FALSE /\ reader' = "none"
    /\ asked' = {} /\ replies' = {} /\ offered' = {}
    /\ dispatch' = 0 /\ failures' = failures \ {gen}
    /\ UNCHANGED <<gen, masked, everReady, ready, closeVars, faults, caller, callGen, pending,
                   retired, future, routing, used, tokens, callbacks, held, writing, answers,
                   mcpVars>>

-----------------------------------------------------------------------------
(* Calls, _request_for_generation *)

At(c, point) == caller' = [caller EXCEPT ![c] = point]

\* request: an open client tells the caller its generation.
CallChooses(c) ==
    /\ caller[c] = "idle" /\ ready /\ proc # "none"
    /\ At(c, "chosen") /\ callGen' = [callGen EXCEPT ![c] = gen]
    /\ UNCHANGED <<processVars, statusVars, closeVars, faults, pending, retired, future, routing,
                   asked, replies, tokenVars, mcpVars>>

\* As if the number of pending calls were not limited.
CallRegistersUnbounded(c) ==
    /\ caller[c] = "chosen" /\ callGen[c] = gen /\ Running /\ ready
    /\ At(c, "registered") /\ pending' = pending \cup {c}
    /\ UNCHANGED <<processVars, statusVars, closeVars, faults, callGen, retired, future, routing,
                   asked, replies, tokenVars, mcpVars>>

\* An open client with room keeps the call; otherwise it fails at once.
CallRegisters(c) ==
    LET open == callGen[c] = gen /\ Running /\ ready
                  /\ Cardinality(pending) < MaxPending IN
    /\ caller[c] = "chosen"
    /\ At(c, IF open THEN "registered" ELSE "failed")
    /\ pending' = IF open THEN pending \cup {c} ELSE pending
    /\ UNCHANGED <<processVars, statusVars, closeVars, faults, callGen, retired, future, routing,
                   asked, replies, tokenVars, mcpVars>>

CallWrites(c) ==
    /\ caller[c] = "registered"
    /\ callGen[c] = gen /\ Running /\ stdin
    /\ At(c, "waiting") /\ asked' = asked \cup {c}
    /\ UNCHANGED <<processVars, statusVars, closeVars, faults, callGen, pending, retired, future,
                   routing, replies, tokenVars, mcpVars>>

\* The generation is over, or the write fails and marks it failed.
CallWriteFails(c) ==
    /\ caller[c] = "registered" /\ At(c, "failed")
    /\ \/ /\ callGen[c] # gen \/ ~Running
          /\ pending' = pending \ {c}
          /\ UNCHANGED <<stdin, statusVars, retired, future>>
       \/ /\ callGen[c] = gen /\ Running /\ ~stdin
          /\ MarkFailed
    /\ UNCHANGED <<gen, proc, masked, reader, supervisor, everReady, closeVars, faults, callGen,
                   routing, asked, replies, tokenVars, mcpVars>>

\* The future is set, or the wait for it times out.
CallReturns(c) ==
    /\ caller[c] = "waiting" /\ future[c] # "unset"
    /\ At(c, IF future[c] = "result" THEN "answered" ELSE "failed")
    /\ UNCHANGED <<processVars, statusVars, closeVars, faults, callGen, pending, retired, future,
                   routing, asked, replies, tokenVars, mcpVars>>

CallTimesOut(c) ==
    /\ caller[c] = "waiting" /\ future[c] = "unset" /\ At(c, "expired")
    /\ UNCHANGED <<processVars, statusVars, closeVars, faults, callGen, pending, retired, future,
                   routing, asked, replies, tokenVars, mcpVars>>

\* As if a call that timed out were not remembered.
CallExpiresUnretired(c) ==
    /\ caller[c] = "expired"
    /\ At(c, IF c \notin pending /\ future[c] = "result" THEN "answered" ELSE "timedOut")
    /\ pending' = pending \ {c}
    /\ UNCHANGED <<processVars, statusVars, closeVars, faults, callGen, retired, future, routing,
                   asked, replies, tokenVars, mcpVars>>

\* A call still pending is retired, so that a late response is recognised; one
\* that was answered in the meantime returns after all.
CallExpires(c) ==
    /\ caller[c] = "expired"
    /\ pending' = pending \ {c}
    /\ retired' = retired \cup (pending \cap {c})
    /\ At(c, CASE c \notin pending /\ future[c] = "result" -> "answered"
               [] c \notin pending /\ future[c] = "error" -> "failed"
               [] OTHER -> "timedOut")
    /\ UNCHANGED <<processVars, statusVars, closeVars, faults, callGen, future, routing,
                   asked, replies, tokenVars, mcpVars>>

-----------------------------------------------------------------------------
(* The reader, _read_protocol *)

\* _route_response: the pending call is taken, a retired one is forgotten, and
\* any other id is a protocol error.
ReadsReply(c) ==
    /\ reader = "reading" /\ c \in replies /\ replies' = replies \ {c}
    /\ \/ /\ c \in pending
          /\ pending' = pending \ {c} /\ routing' = c /\ reader' = "routing"
          /\ UNCHANGED retired
       \/ /\ c \notin pending /\ c \in retired
          /\ retired' = retired \ {c} /\ UNCHANGED <<pending, routing, reader>>
       \/ /\ c \notin pending \cup retired
          /\ reader' = "mismatch" /\ UNCHANGED <<pending, retired, routing>>
    /\ UNCHANGED <<gen, proc, stdin, masked, supervisor, everReady, statusVars, closeVars, faults,
                   caller, callGen, future, asked, tokenVars, mcpVars>>

\* The response is validated and handed to the caller.
SetsFuture ==
    /\ reader = "routing" /\ reader' = "reading"
    /\ future' = [future EXCEPT ![routing] = "result"] /\ routing' = None
    /\ UNCHANGED <<gen, proc, stdin, masked, supervisor, everReady, statusVars, closeVars, faults,
                   caller, callGen, pending, retired, asked, replies, tokenVars, mcpVars>>

\* End of file, a mismatch, a write that fails, an invalid line, or a
\* notification that finds the callback queue full.
ReaderFails ==
    /\ reader \in {"reading", "mismatch", "failing"} /\ reader' = "done"
    /\ \/ (proc = "dead" \/ reader # "reading") /\ UNCHANGED faults
       \/ Fault
    /\ MarkFailed
    /\ UNCHANGED <<gen, proc, masked, supervisor, everReady, closeVars, caller, callGen, routing,
                   asked, replies, tokenVars, mcpVars>>

\* The loop ends when the client closes.
ReaderCloses ==
    /\ reader = "reading" /\ closing /\ reader' = "done" /\ stdin' = FALSE
    /\ UNCHANGED <<gen, proc, masked, supervisor, everReady, statusVars, closeVars, faults,
                   callVars, tokenVars, mcpVars>>

-----------------------------------------------------------------------------
(* Server requests *)

\* _write_message writes to the process of the request's generation only.
WritesTo(k) == k[1] = gen /\ Running /\ stdin

\* _route_server_request: a token is kept and the handler queued; a full table
\* or a full queue is answered at once with an overload error.
ReadsRequest(k) ==
    LET full == Cardinality(tokens) >= MaxPending \/ Len(callbacks) = MaxCallbacks IN
    /\ reader = "reading" /\ k \in offered /\ offered' = offered \ {k}
    /\ \/ /\ ~full /\ tokens' = tokens \cup {k} /\ callbacks' = Append(callbacks, k)
          /\ UNCHANGED <<answers, reader>>
       \/ /\ full /\ WritesTo(k) /\ answers' = answers \cup {<<k, "reader", gen>>}
          /\ UNCHANGED <<tokens, callbacks, reader>>
       \/ /\ full /\ ~WritesTo(k) /\ reader' = "failing"
          /\ UNCHANGED <<tokens, callbacks, answers>>
    /\ UNCHANGED <<gen, proc, stdin, masked, supervisor, everReady, statusVars, closeVars, faults, callVars, used, held, writing,
                   mcpVars>>

\* As if a callback looked at its token only.
FencedByToken(k) == k \in tokens

\* The handler runs only for a live token of the dispatching generation.
Fenced(k) == k \in tokens /\ dispatch = k[1]

\* As if a claim left the token behind.
ClaimKeepsToken(k) == k \in tokens /\ k[1] = gen /\ UNCHANGED tokens

\* respond, first section: the token of the current generation is used up.
Claim(k) == k \in tokens /\ k[1] = gen /\ tokens' = tokens \ {k}

\* The callback thread runs the handler: it answers, leaves the answer to a
\* later decision, or does that and then fails.
CallbackRuns ==
    LET k == Head(callbacks) IN
    /\ callbacks # <<>> /\ callbacks' = Tail(callbacks)
    /\ \/ ~Fenced(k) /\ UNCHANGED <<tokens, held, writing>>
       \/ Fenced(k) /\ held' = held \cup {k} /\ UNCHANGED <<tokens, writing>>
       \/ /\ Fenced(k) /\ Claim(k) /\ writing' = writing \cup {<<k, "callback">>}
          /\ held' \in {held, held \cup {k}}
    /\ UNCHANGED <<processVars, statusVars, closeVars, faults, callVars, offered, used, answers,
                   mcpVars>>

\* A decision for a deferred request; a token that is gone is stale.
Decides(k) ==
    /\ k \in held /\ held' = held \ {k}
    /\ \/ Claim(k) /\ writing' = writing \cup {<<k, "decision">>}
       \/ ~(k \in tokens /\ k[1] = gen) /\ UNCHANGED <<tokens, writing>>
    /\ UNCHANGED <<processVars, statusVars, closeVars, faults, callVars, offered, used,
                   callbacks, answers, mcpVars>>

\* discard_server_request for a request that expired or was resolved elsewhere.
Discards(k) ==
    /\ k \in held /\ held' = held \ {k}
    /\ tokens' = IF closing \/ k[1] # gen THEN tokens ELSE tokens \ {k}
    /\ UNCHANGED <<processVars, statusVars, closeVars, faults, callVars, offered, used,
                   callbacks, writing, answers, mcpVars>>

\* respond, second section: a write that fails loses the answer.
AnswerWritten(k, who) ==
    /\ <<k, who>> \in writing /\ writing' = writing \ {<<k, who>>}
    /\ answers' = IF WritesTo(k) THEN answers \cup {<<k, who, gen>>} ELSE answers
    /\ IF k[1] = gen /\ Running /\ ~stdin
       THEN MarkFailed
       ELSE UNCHANGED <<statusVars, stdin, pending, retired, future>>
    /\ UNCHANGED <<gen, proc, masked, reader, supervisor, everReady, closeVars, faults, caller,
                   callGen, routing, asked, replies, offered, used, tokens, callbacks, held,
                   mcpVars>>

\* A notification handler raises: its generation is given up.
HandlerFails ==
    /\ dispatch = gen /\ gen > 0 /\ Fault /\ MarkFailed
    /\ UNCHANGED <<gen, proc, masked, reader, supervisor, everReady, closeVars, caller, callGen,
                   routing, asked, replies, tokenVars, mcpVars>>

-----------------------------------------------------------------------------
(* activate_validated_mcp_config *)

\* The restart is announced for the generation after this one.
ActivationBegins ==
    /\ EnableMcp /\ activator = "idle" /\ closer # "closing"
    /\ mcp = "masked" /\ ready /\ Running
    /\ mcp' = "activating" /\ mcpGen' = gen + 1 /\ mcpDone' = FALSE
    /\ activator' = "aborting" /\ seen' = gen
    /\ UNCHANGED <<processVars, statusVars, closeVars, faults, callVars, tokenVars>>

ActivationAborts ==
    /\ activator = "aborting"
    /\ \/ /\ AbortGeneration(seen) /\ activator' = "waiting"
          /\ UNCHANGED <<mcp, mcpGen, mcpDone>>
       \/ /\ ~Abortable(seen) /\ activator' = "failed"
          /\ IF mcp = "activating" /\ mcpGen = seen + 1
             THEN mcp' = "masked" /\ mcpGen' = 0 /\ mcpDone' = TRUE
             ELSE UNCHANGED <<mcp, mcpGen, mcpDone>>
          /\ UNCHANGED <<stdin, statusVars, pending, retired, future, tokens>>
    /\ UNCHANGED <<gen, proc, masked, reader, supervisor, everReady, closeVars, faults, caller,
                   callGen, routing, asked, replies, offered, used, callbacks, held, writing,
                   answers, seen>>

\* The wait ends with the activation, or it times out: then the mask is restored
\* and the generation read before that is aborted.
ActivationEnds ==
    /\ activator = "waiting" /\ mcpDone
    /\ activator' = IF mcp = "active" /\ ready THEN "ended" ELSE "failed"
    /\ UNCHANGED <<processVars, statusVars, closeVars, faults, callVars, tokenVars, mcp, mcpGen,
                   mcpDone, seen>>

ActivationTimesOut ==
    /\ activator = "waiting" /\ ~mcpDone
    /\ activator' = "late" /\ seen' = gen
    /\ UNCHANGED <<processVars, statusVars, closeVars, faults, callVars, tokenVars, mcp, mcpGen,
                   mcpDone>>

ActivationMasks ==
    /\ activator = "late" /\ activator' = "masking" /\ Restore(TRUE)
    /\ UNCHANGED <<processVars, statusVars, closeVars, faults, callVars, tokenVars, seen>>

ActivationGivesUp ==
    /\ activator = "masking" /\ activator' = "failed"
    /\ \/ AbortGeneration(seen)
       \/ ~Abortable(seen) /\ UNCHANGED <<stdin, statusVars, pending, retired, future, tokens>>
    /\ UNCHANGED <<gen, proc, masked, reader, supervisor, everReady, closeVars, faults, caller,
                   callGen, routing, asked, replies, offered, used, callbacks, held, writing,
                   answers, mcp, mcpGen, mcpDone, seen>>

-----------------------------------------------------------------------------
(* close *)

CloseBegins ==
    /\ closer = "none" /\ activator # "aborting"
    /\ closer' = "closing" /\ closing' = TRUE
    /\ UNCHANGED <<processVars, statusVars, faults, callVars, tokenVars, mcpVars>>

CloseClears ==
    /\ closer = "closing" /\ closer' = "joining"
    /\ ready' = FALSE /\ stdin' = FALSE
    /\ mcp' = "masked" /\ mcpGen' = 0 /\ mcpDone' = TRUE
    /\ UNCHANGED <<gen, proc, masked, reader, supervisor, everReady, failures, dispatch, closing,
                   faults, callVars, tokenVars, activator, seen>>

\* The supervisor has ended; whoever still waits is told.
CloseEnds ==
    /\ closer = "joining" /\ supervisor = "gone" /\ closer' = "closed"
    /\ pending' = {} /\ callbacks' = <<>>
    /\ future' = [c \in Call |-> IF c \in pending THEN "error" ELSE future[c]]
    /\ UNCHANGED <<processVars, statusVars, closing, faults, caller, callGen, retired, routing,
                   asked, replies, offered, used, tokens, held, writing, answers, mcpVars>>

-----------------------------------------------------------------------------

Supervisor ==
    \/ Spawns \/ Launches \/ InitializeAnswered \/ Dispatches \/ Verifies \/ Opens
    \/ SetsReady \/ Activates \/ StartFails \/ Watches \/ Cleans \/ Stops

Caller(c) ==
    \/ CallRegisters(c) \/ CallWrites(c) \/ CallWriteFails(c)
    \/ CallReturns(c) \/ CallTimesOut(c) \/ CallExpires(c)

Reader ==
    \/ \E c \in Call : ReadsReply(c)
    \/ \E k \in offered : ReadsRequest(k)
    \/ SetsFuture \/ ReaderFails \/ ReaderCloses

Answering ==
    \/ CallbackRuns \/ HandlerFails
    \/ \E k \in held : Decides(k) \/ Discards(k)
    \/ \E w \in writing : AnswerWritten(w[1], w[2])

Activation ==
    \/ ActivationBegins \/ ActivationAborts \/ ActivationEnds
    \/ ActivationTimesOut \/ ActivationMasks \/ ActivationGivesUp

Close == CloseBegins \/ CloseClears \/ CloseEnds

Next ==
    \/ Supervisor \/ Reader \/ Answering \/ Activation \/ Close \/ Abort \/ ProcessExits
    \/ \E c \in Call : CallChooses(c) \/ Caller(c) \/ ProcessReplies(c)
    \/ \E t \in Token : ProcessAsks(t)

Spec == Init /\ [][Next]_vars

\* The client's own threads are scheduled; a process exits once its input is
\* closed, and answers initialize and config/read unless its start times out.
\* Nobody has to call close.
Fairness ==
    /\ WF_vars(Supervisor) /\ WF_vars(Reader)
    /\ WF_vars(ProcessExits /\ ~stdin) /\ WF_vars(CloseClears \/ CloseEnds)

FairSpec == Spec /\ Fairness

-----------------------------------------------------------------------------
(* Properties *)

\* A caller that waits will be told: its call is pending in the process that
\* runs now, or its response is in the reader's hands, or its outcome is there.
\* A generation that is taken down leaves nothing pending, so MaxPending is not
\* used up; a response that comes after its caller gave up is no protocol
\* violation; and once close has returned nothing runs and nobody waits.
NothingLeftBehind ==
    /\ \A c \in Call : caller[c] = "waiting" /\ future[c] = "unset" => c \in pending \/ routing = c
    /\ \A c \in pending : callGen[c] = gen /\ proc # "none"
    /\ reader # "mismatch"
    /\ closer = "closed" =>
        /\ proc = "none" /\ ~ready
        /\ \A c \in Call : caller[c] = "waiting" => future[c] # "unset"

\* A server request is answered at most once, by whichever of the handler, a
\* later decision or an overload comes first, and only to the process that
\* asked, although the next process uses the same ids again.
AnswersExact ==
    \A x, y \in answers : x[1][1] = x[3] /\ (x[1] = y[1] => x = y)

\* A callback that was queued before its generation failed does not run after.
CallbackFenced ==
    [][\A k \in used : (k \in held' \ held \/ <<k, "callback">> \in writing' \ writing)
                          => k[1] = gen /\ ~Failed]_vars

\* Until the MCP manager has asked for it, and after an activation, the process
\* has the configuration that the activation state says, however the restart
\* raced with crashes, aborts and the activation timeout.
MaskExact ==
    /\ activator = "idle" /\ proc # "none" => masked
    /\ mcp = "active" /\ ready => ~masked

\* When failures stop, the client becomes ready and stays so, unless it is
\* closed or never came up at all.
Recovers == <>[](ready \/ closing \/ supervisor = "gone")

\* What callers rely on: generations only move forward, and each is ready for
\* one interval at most.
Phase == IF ready THEN "ready"
         ELSE IF supervisor \in {"initializing", "initialized", "verifying", "opening", "setting"}
              THEN "starting" ELSE "down"

Generations == INSTANCE AppServerGenerations WITH phase <- Phase
GenerationContract == Generations!Spec

=============================================================================

---------------------------- MODULE RuntimeGate ----------------------------
(***************************************************************************)
(* runtime_gate.py: the one owner of prompt capacity.  Every prompt, every *)
(* change of the ChatGPT account and every change of the Codex             *)
(* configuration needs a lease from this gate.  Prompt leases are active   *)
(* up to a capacity and queue behind it in order; an account ("auth") or   *)
(* configuration ("config") lease is granted only when no prompt is active *)
(* or queued, and excludes everything else while it lives.                 *)
(*                                                                         *)
(* Every method runs under one condition variable, so each is one step.    *)
(* The exception is wait_until_active, which releases the lock between     *)
(* two looks at the lease: its caller is a process of its own (waiter).    *)
(***************************************************************************)
EXTENDS Naturals, Sequences, FiniteSets

CONSTANTS
    Lease,             \* the RuntimeLease objects
    Owner,             \* client request ids, the key of a prompt lease
    NoLease,           \* None
    MaxActiveTurns,    \* ResourceLimits.max_active_turns
    MaxQueuedPrompts   \* ResourceLimits.max_queued_prompts

ASSUME GateAssumption ==
    /\ NoLease \notin Lease
    /\ NoLease \notin Owner
    /\ MaxActiveTurns \in Nat \ {0}
    /\ MaxQueuedPrompts \in Nat

VARIABLES
    kind,           \* what each lease is for; "none" before it is created
    owner,          \* _owner_key of a prompt lease
    state,          \* _state of each lease
    activePrompts,  \* _active_prompts
    queue,          \* _queue, the queued leases in arrival order
    promptLeases,   \* _prompt_leases, the live prompt lease of each owner
    authLease,      \* _auth_lease
    configLease,    \* _config_lease
    closed,         \* _closed
    waiter,         \* where the thread waiting on each lease is
    canceller       \* where a thread inside cancel() of each lease is

gateVars == <<kind, owner, state, activePrompts, queue, promptLeases,
              authLease, configLease, closed>>
vars == <<kind, owner, state, activePrompts, queue, promptLeases,
          authLease, configLease, closed, waiter, canceller>>

Kinds == {"none", "prompt", "auth", "config"}
Terminal == {"released", "cancelled", "timed_out", "closed"}
LiveStates == {"active", "queued"}
LeaseStates == {"unborn"} \cup LiveStates \cup Terminal

\* "idle": not waiting; "checking": holds the lock at the top of the loop;
\* "blocked": inside Condition.wait; "late": woken with its deadline past.
WaiterStates == {"idle", "checking", "blocked", "late", "returned", "raised"}

\* "committed": cancel() saw a lease that was not active and has let go of the
\* lock; it has yet to call _finish.
CancellerStates == {"idle", "committed"}

TypeOK ==
    /\ kind \in [Lease -> Kinds]
    /\ owner \in [Lease -> Owner \cup {NoLease}]
    /\ state \in [Lease -> LeaseStates]
    /\ activePrompts \in Nat
    /\ queue \in Seq(Lease)
    /\ promptLeases \in [Owner -> Lease \cup {NoLease}]
    /\ authLease \in Lease \cup {NoLease}
    /\ configLease \in Lease \cup {NoLease}
    /\ closed \in BOOLEAN
    /\ waiter \in [Lease -> WaiterStates]
    /\ canceller \in [Lease -> CancellerStates]

Init ==
    /\ kind = [l \in Lease |-> "none"]
    /\ owner = [l \in Lease |-> NoLease]
    /\ state = [l \in Lease |-> "unborn"]
    /\ activePrompts = 0
    /\ queue = <<>>
    /\ promptLeases = [o \in Owner |-> NoLease]
    /\ authLease = NoLease
    /\ configLease = NoLease
    /\ closed = FALSE
    /\ waiter = [l \in Lease |-> "idle"]
    /\ canceller = [l \in Lease |-> "idle"]

-----------------------------------------------------------------------------
(* Helpers *)

\* The prompt leases that hold capacity, and those that wait for it.
ActivePromptLeases == {l \in Lease : kind[l] = "prompt" /\ state[l] = "active"}
QueuedLeases == {l \in Lease : state[l] = "queued"}

\* deque.remove(l): the first (and only) occurrence leaves the queue.
Without(q, l) ==
    LET i == CHOOSE j \in 1..Len(q) : q[j] = l
    IN  [j \in 1..(Len(q) - 1) |-> IF j < i THEN q[j] ELSE q[j + 1]]

\* Condition.notify_all: every thread inside wait() will look again.
NotifyAll(w) == [l \in Lease |-> IF w[l] = "blocked" THEN "checking" ELSE w[l]]

\* As if the loop did not look at the capacity.
PromoteCountIgnoringCapacity(q, active) == Len(q)

\* As if nothing were promoted.
PromoteCountNone(q, active) == 0

\* How many leases the loop of _promote_locked takes from the head of q.
PromoteCount(q, active) ==
    IF closed \/ authLease # NoLease \/ configLease # NoLease \/ active >= MaxActiveTurns
    THEN 0
    ELSE IF Len(q) <= MaxActiveTurns - active THEN Len(q) ELSE MaxActiveTurns - active

-----------------------------------------------------------------------------
(* Granting leases *)

\* reserve_prompt for an owner without a live lease.  The closed gate, a live
\* auth or config lease and a full queue raise; a live lease of the same owner
\* is returned as it is: none of those changes the gate.
ReservePrompt(o) ==
    /\ ~closed
    /\ authLease = NoLease /\ configLease = NoLease
    /\ promptLeases[o] = NoLease
    /\ \E l \in Lease :
        /\ state[l] = "unborn"
        /\ kind' = [kind EXCEPT ![l] = "prompt"]
        /\ owner' = [owner EXCEPT ![l] = o]
        /\ promptLeases' = [promptLeases EXCEPT ![o] = l]
        /\ \/ /\ activePrompts < MaxActiveTurns
              /\ state' = [state EXCEPT ![l] = "active"]
              /\ activePrompts' = activePrompts + 1
              /\ queue' = queue
           \/ /\ activePrompts >= MaxActiveTurns
              /\ Len(queue) < MaxQueuedPrompts
              /\ state' = [state EXCEPT ![l] = "queued"]
              /\ activePrompts' = activePrompts
              /\ queue' = Append(queue, l)
    /\ UNCHANGED <<authLease, configLease, closed, waiter, canceller>>

\* As if only waiting prompts stood in the way of a mutation.
MutationAllowedDuringPrompt ==
    /\ ~closed
    /\ authLease = NoLease /\ configLease = NoLease
    /\ queue = <<>>

\* No prompt holds or waits for capacity and no other mutation is live.
MutationAllowed ==
    /\ ~closed
    /\ authLease = NoLease /\ configLease = NoLease
    /\ activePrompts = 0
    /\ queue = <<>>

\* acquire_auth_mutation
AcquireAuthMutation ==
    /\ MutationAllowed
    /\ \E l \in Lease :
        /\ state[l] = "unborn"
        /\ kind' = [kind EXCEPT ![l] = "auth"]
        /\ state' = [state EXCEPT ![l] = "active"]
        /\ authLease' = l
    /\ UNCHANGED <<owner, activePrompts, queue, promptLeases, configLease, closed, waiter, canceller>>

\* acquire_config_mutation
AcquireConfigMutation ==
    /\ MutationAllowed
    /\ \E l \in Lease :
        /\ state[l] = "unborn"
        /\ kind' = [kind EXCEPT ![l] = "config"]
        /\ state' = [state EXCEPT ![l] = "active"]
        /\ configLease' = l
    /\ UNCHANGED <<owner, activePrompts, queue, promptLeases, authLease, closed, waiter, canceller>>

-----------------------------------------------------------------------------
(* Finishing leases *)

\* _finish_locked for a live auth or config lease.
FinishMutation(l, terminal) ==
    /\ kind[l] \in {"auth", "config"} /\ state[l] \in LiveStates
    /\ state' = [state EXCEPT ![l] = terminal]
    /\ authLease' = IF authLease = l THEN NoLease ELSE authLease
    /\ configLease' = IF configLease = l THEN NoLease ELSE configLease
    /\ UNCHANGED <<kind, owner, activePrompts, queue, promptLeases, closed>>

\* As if a lease that only waits held a slot as well.
FinishPromptTwice(l, terminal) ==
    LET n == PromoteCount(queue, activePrompts - 1)
        promoted == {queue[i] : i \in 1..n}
    IN
    /\ kind[l] = "prompt" /\ state[l] \in LiveStates
    /\ state' = [m \in Lease |-> IF m = l THEN terminal
                                 ELSE IF m \in promoted THEN "active"
                                 ELSE state[m]]
    /\ promptLeases' = [promptLeases EXCEPT ![owner[l]] = NoLease]
    /\ activePrompts' = activePrompts - 1 + n
    /\ queue' = SubSeq(queue, n + 1, Len(queue))
    /\ UNCHANGED <<kind, owner, authLease, configLease, closed>>

\* _finish_locked for a live prompt lease, with the _promote_locked it ends
\* in.  The queue holds only queued leases (QueueExact), so the loop's skip of
\* other entries never runs.
FinishPrompt(l, terminal) ==
    LET wasActive == state[l] = "active"
        active == IF wasActive THEN activePrompts - 1 ELSE activePrompts
        rest == IF wasActive THEN queue ELSE Without(queue, l)
        n == PromoteCount(rest, active)
        promoted == {rest[i] : i \in 1..n}
    IN
    /\ kind[l] = "prompt" /\ state[l] \in LiveStates
    /\ state' = [m \in Lease |-> IF m = l THEN terminal
                                 ELSE IF m \in promoted THEN "active"
                                 ELSE state[m]]
    /\ promptLeases' = [promptLeases EXCEPT ![owner[l]] = NoLease]
    /\ activePrompts' = active + n
    /\ queue' = SubSeq(rest, n + 1, Len(rest))
    /\ UNCHANGED <<kind, owner, authLease, configLease, closed>>

\* _finish_locked: a lease that is already finished is left alone.
FinishLocked(l, terminal) == FinishMutation(l, terminal) \/ FinishPrompt(l, terminal)

\* As if release woke nobody.
ReleaseWithoutNotify(l) == FinishLocked(l, "released") /\ UNCHANGED <<waiter, canceller>>

\* RuntimeLease.release
Release(l) ==
    /\ FinishLocked(l, "released")
    /\ waiter' = NotifyAll(waiter)
    /\ UNCHANGED canceller

\* RuntimeLease.cancel, first half: under the lock, an active lease returns at
\* once and keeps its capacity; a finished one would change nothing below.
CancelCheck(l) ==
    /\ canceller[l] = "idle" /\ state[l] = "queued"
    /\ canceller' = [canceller EXCEPT ![l] = "committed"]
    /\ UNCHANGED <<gateVars, waiter>>

\* Second half: the lock was dropped after the check and _finish takes it
\* again without repeating the check, so by now the lease may be active.
CancelFinish(l) ==
    /\ canceller[l] = "committed"
    /\ canceller' = [canceller EXCEPT ![l] = "idle"]
    /\ \/ FinishLocked(l, "cancelled") /\ waiter' = NotifyAll(waiter)
       \/ state[l] \in Terminal /\ UNCHANGED <<gateVars, waiter>>

\* RuntimeGate.close: the queue is emptied; active leases live on.
Close ==
    /\ ~closed
    /\ closed' = TRUE
    /\ state' = [l \in Lease |-> IF \E i \in 1..Len(queue) : queue[i] = l
                                 THEN "closed" ELSE state[l]]
    /\ promptLeases' = [o \in Owner |->
                          IF \E i \in 1..Len(queue) : queue[i] = promptLeases[o]
                          THEN NoLease ELSE promptLeases[o]]
    /\ queue' = <<>>
    /\ waiter' = NotifyAll(waiter)
    /\ UNCHANGED <<kind, owner, activePrompts, authLease, configLease, canceller>>

-----------------------------------------------------------------------------
(* wait_until_active, the loop of a worker thread that waits for its turn *)

\* A run worker starts to wait on a prompt lease it was given.
WaitEnter(l) ==
    /\ waiter[l] = "idle" /\ kind[l] = "prompt"
    /\ waiter' = [waiter EXCEPT ![l] = "checking"]
    /\ UNCHANGED <<gateVars, canceller>>

\* One turn of the loop, under the lock: an active lease is returned and a
\* finished one raises before the deadline is looked at.
WaitCheck(l) ==
    /\ waiter[l] \in {"checking", "late"} /\ state[l] # "queued"
    /\ waiter' = [waiter EXCEPT ![l] = IF state[l] = "active" THEN "returned" ELSE "raised"]
    /\ UNCHANGED <<gateVars, canceller>>

\* Still queued and time left: Condition.wait(remaining).
WaitBlock(l) ==
    /\ waiter[l] = "checking" /\ state[l] = "queued"
    /\ waiter' = [waiter EXCEPT ![l] = "blocked"]
    /\ UNCHANGED <<gateVars, canceller>>

\* The deadline passes; the thread must still reacquire the lock, and the
\* lease may be promoted before it does.
WaitDeadline(l) ==
    /\ waiter[l] \in {"checking", "blocked"}
    /\ waiter' = [waiter EXCEPT ![l] = "late"]
    /\ UNCHANGED <<gateVars, canceller>>

\* As if the deadline were looked at before the state.
WaitTimeoutUnchecked(l) ==
    /\ waiter[l] = "late" /\ state[l] \in LiveStates
    /\ FinishLocked(l, "timed_out")
    /\ waiter' = [NotifyAll(waiter) EXCEPT ![l] = "raised"]
    /\ UNCHANGED canceller

\* Still queued and no time left: the waiter itself finishes the lease.
WaitTimeout(l) ==
    /\ waiter[l] = "late" /\ state[l] = "queued"
    /\ FinishLocked(l, "timed_out")
    /\ waiter' = [NotifyAll(waiter) EXCEPT ![l] = "raised"]
    /\ UNCHANGED canceller

\* Environment: the last reference to a finished lease is dropped.
Collect(l) ==
    /\ state[l] \in Terminal
    /\ waiter[l] \in {"idle", "returned", "raised"} /\ canceller[l] = "idle"
    /\ kind' = [kind EXCEPT ![l] = "none"]
    /\ owner' = [owner EXCEPT ![l] = NoLease]
    /\ state' = [state EXCEPT ![l] = "unborn"]
    /\ waiter' = [waiter EXCEPT ![l] = "idle"]
    /\ UNCHANGED <<activePrompts, queue, promptLeases, authLease, configLease, closed, canceller>>

-----------------------------------------------------------------------------

Next ==
    \/ \E o \in Owner : ReservePrompt(o)
    \/ AcquireAuthMutation
    \/ AcquireConfigMutation
    \/ Close
    \/ \E l \in Lease :
        \/ Release(l)
        \/ CancelCheck(l)
        \/ CancelFinish(l)
        \/ WaitEnter(l)
        \/ WaitCheck(l)
        \/ WaitBlock(l)
        \/ WaitDeadline(l)
        \/ WaitTimeout(l)
        \/ Collect(l)

Spec == Init /\ [][Next]_vars

-----------------------------------------------------------------------------
(* Properties *)

\* _active_prompts counts exactly the active prompt leases and never exceeds
\* max_active_turns, through every interleaving of reservation, release,
\* cancellation, timeout and promotion.
CapacityExact ==
    /\ activePrompts = Cardinality(ActivePromptLeases)
    /\ activePrompts <= MaxActiveTurns

\* _queue holds exactly the queued leases, each once, and never more than
\* max_queued_prompts of them.
QueueExact ==
    /\ {queue[i] : i \in 1..Len(queue)} = QueuedLeases
    /\ \A i, j \in 1..Len(queue) : queue[i] = queue[j] => i = j
    /\ Len(queue) <= MaxQueuedPrompts

\* The gate's accounting: counter and queue are what the leases say, however
\* often and by whom each of them is finished.
AccountingExact == CapacityExact /\ QueueExact

\* An account or configuration change never overlaps an active or queued
\* prompt, or another change ("authentication and runs cannot change
\* concurrently").
MutationExclusive ==
    /\ authLease # NoLease =>
        configLease = NoLease /\ activePrompts = 0 /\ queue = <<>>
    /\ configLease # NoLease => activePrompts = 0 /\ queue = <<>>

\* A prompt waits only while all capacity is in use: no release, cancel or
\* timeout strands a queued prompt behind a free slot.
WorkConserving == queue # <<>> => activePrompts = MaxActiveTurns

\* _prompt_leases names exactly the live prompt lease of each owner, so a
\* retry of a request finds its lease and a finished one frees the key.
OwnerIndexExact ==
    /\ \A o \in Owner : promptLeases[o] # NoLease =>
        /\ kind[promptLeases[o]] = "prompt"
        /\ owner[promptLeases[o]] = o
        /\ state[promptLeases[o]] \in LiveStates
    /\ \A l \in Lease : kind[l] = "prompt" /\ state[l] \in LiveStates =>
        owner[l] \in Owner /\ promptLeases[owner[l]] = l

\* A live auth or config lease is the one the gate records.
MutationIndexExact ==
    /\ \A l \in Lease : kind[l] = "auth" /\ state[l] \in LiveStates => authLease = l
    /\ \A l \in Lease : kind[l] = "config" /\ state[l] \in LiveStates => configLease = l
    /\ authLease # NoLease => kind[authLease] = "auth" /\ state[authLease] = "active"
    /\ configLease # NoLease => kind[configLease] = "config" /\ state[configLease] = "active"

\* No index outlives the lease it names, and none is missing: an owner or an
\* account change is never refused, or admitted twice, because of a stale one.
IndexesExact == OwnerIndexExact /\ MutationIndexExact

\* A queue deadline or a shutdown never takes an active lease away from the
\* worker that owns it: wait_until_active looks at the state before the clock.
ActiveNeverExpires ==
    [][\A l \in Lease : state[l] = "active" => state'[l] \notin {"timed_out", "closed"}]_vars

\* A thread sleeps in Condition.wait only while its lease is queued: every
\* promotion, cancellation and shutdown is followed by a notify_all, so that
\* nobody sleeps on a lease it already owns until its deadline.
NoLostWakeup == \A l \in Lease : waiter[l] = "blocked" => state[l] = "queued"

=============================================================================

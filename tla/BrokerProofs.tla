---------------------------- MODULE BrokerProofs ----------------------------
(***************************************************************************)
(* RuntimeBroker gives the prompt of a request to Codex at most once, tells *)
(* a run as completed only if its turn was, and leaks no lease, for any    *)
(* requests, chats, accounts, limits, generations and stops.  Which steps  *)
(* a behaviour must be without for it to forget no queued prompt, to start *)
(* none under another account and to lose no turn, is the condition of the *)
(* theorems that say so: Roomy, Deferrable and Timely.                     *)
(***************************************************************************)
EXTENDS RuntimeBroker, TLAPS

Row == [status : {"none"} \cup LiveStates \cup Ended, mode : {"queue", "auto"},
        prompt : BOOLEAN, gen : 0..MaxGen, turn : {"unsent", "sent", "bound"},
        acct : Account \cup {None}, stop : {"no", "asked", "unconfirmed"}]

GateType ==
    /\ holder \in Req \cup {None} /\ authLease \in BOOLEAN
    /\ waiting \subseteq Req /\ ahead \subseteq waiting \X waiting

LedgerType ==
    /\ run \in [Req -> Row] /\ admissions \subseteq Req /\ GateType
    /\ recovery \in [Req -> RecoveryPoints] /\ deferred \subseteq Req /\ buffered \subseteq Req

ThreadType ==
    /\ account \in Account \cup {None} /\ worker \in [Req -> WorkerPoints]
    /\ canceller \in [Req -> CancelPoints] /\ steerer \subseteq Req

ServerType ==
    /\ gen \in 0..MaxGen /\ ready \in BOOLEAN
    /\ native \in [Req -> {"none", "running", "done", "lost"}] /\ notices \subseteq Req

BridgeType == up \in {"running", "closed", "down"} /\ stops \in 0..MaxStops /\ settled \in BOOLEAN

Early == {"waiting", "woken", "cleared", "admitted", "expired"}
Late == WorkerPoints \ (Early \cup {"none", "failed"})

\* How far the prompt of r has come on its way to Codex.
Once(r) ==
    /\ run[r].status \in {"none", "queued"} => run[r].turn = "unsent" /\ run[r].gen = 0
    /\ run[r].turn = "unsent" => native[r] = "none"
    /\ worker[r] \in Early => run[r].turn = "unsent" /\ run[r].gen = 0
    /\ worker[r] \in {"preparing", "loaded"} => run[r].turn = "unsent"
    /\ worker[r] = "dispatched" => native[r] = "none" /\ run[r].turn # "unsent"
    /\ worker[r] \in Late => run[r].status # "queued"

\* What the broker was told of the end of a turn.
Real(r) ==
    /\ run[r].status = "completed" => native[r] = "done"
    /\ r \in notices \cup buffered => native[r] = "done"

\* Who has a lease, and who will give it back.
Lease(r) ==
    /\ run[r].status \in ActiveStates => holder = r /\ worker[r] # "none"
    /\ HasLease(r) => (Live(r) /\ worker[r] # "none") \/ recovery[r] = "claimed" \/ r \in admissions
    /\ worker[r] \in {"woken", "cleared", "admitted"} /\ Live(r) => holder = r
    /\ recovery[r] \in {"checking", "ready", "claimed"} \/ r \in deferred => worker[r] = "none"
    /\ r \in admissions => r \in Prepared /\ run[r].status = "none"
    /\ run[r].status = "none" => worker[r] = "none" /\ recovery[r] = "none" /\ r \notin deferred

\* Nothing of a process outlives it but the run records.
Down ==
    /\ worker = Idle /\ canceller = Idle /\ steerer = {} /\ recovery = Idle
    /\ admissions = {} /\ holder = None /\ waiting = {} /\ deferred = {}

Types == LedgerType /\ ThreadType /\ ServerType /\ BridgeType
OnceInv == \A r \in Req : Once(r)
RealInv == \A r \in Req : Real(r)
LeaseInv ==
    /\ holder \notin waiting
    /\ up = "down" => Down
    /\ up = "running" => \A r \in Req : Lease(r)

BrokerInv == Types /\ OnceInv /\ RealInv /\ LeaseInv

-----------------------------------------------------------------------------
(* The gate and the ledger *)

\* r neither gets nor loses a place in the gate, but for a promotion.
KeepsLease(r) == (HasLease(r)' <=> HasLease(r)) /\ (holder = r => holder' = r)

\* A release takes the leases of rs and nobody else's.
LEMMA ReleaseStep ==
    ASSUME GateType, holder \notin waiting, NEW rs, Release(rs)
    PROVE  /\ GateType' /\ holder' \notin waiting'
           /\ \A r \in Req : r \notin rs => KeepsLease(r)
           /\ \A r \in Req : r \in rs => ~HasLease(r)'
<1> DEFINE rest == waiting \ rs
           free == holder = None \/ holder \in rs
<1>0. None \notin Req
  BY BrokerAssumption
<1>1. ahead' \subseteq waiting' \X waiting' /\ authLease' = authLease
  BY DEF Release, GateType
<1>2. \/ ~free /\ holder' = holder /\ waiting' = rest
      \/ free /\ rest = {} /\ holder' = None /\ waiting' = {}
      \/ free /\ \E r \in rest : holder' = r /\ waiting' = rest \ {r}
  BY DEF Release, First
<1>3. holder' \in Req \cup {None} /\ waiting' \subseteq Req /\ holder' \notin waiting'
  BY <1>0, <1>2 DEF GateType
<1>4. \A r \in Req : r \notin rs => KeepsLease(r)
  BY <1>0, <1>2 DEF GateType, KeepsLease, HasLease
<1>5. \A r \in Req : r \in rs => ~HasLease(r)'
  BY <1>0, <1>2 DEF GateType, HasLease
<1> QED BY <1>1, <1>3, <1>4, <1>5 DEF GateType

\* A reservation gives r a lease and leaves the others alone.
LEMMA ReserveStep ==
    ASSUME GateType, holder \notin waiting, NEW r \in Req, ~HasLease(r), Reserve(r)
    PROVE  /\ GateType' /\ holder' \notin waiting' /\ HasLease(r)'
           /\ \A s \in Req : s # r => KeepsLease(s)
<1>0. None \notin Req
  BY BrokerAssumption
<1>1. authLease' = authLease /\
      \/ holder = None /\ holder' = r /\ waiting' = waiting /\ ahead' = ahead
      \/ /\ holder # None /\ holder' = holder
         /\ waiting' = waiting \cup {r}
         /\ ahead' = ahead \cup (waiting \X {r})
  BY DEF Reserve
<1>2. GateType'
  BY <1>1 DEF GateType
<1>3. holder' \notin waiting' /\ HasLease(r)' /\ \A s \in Req : s # r => KeepsLease(s)
  BY <1>0, <1>1 DEF GateType, HasLease, KeepsLease
<1> QED BY <1>2, <1>3

LEMMA EndRow ==
    ASSUME NEW row \in Row, NEW status \in Ended
    PROVE  /\ End(row, status) \in Row
           /\ End(row, status).status = status /\ End(row, status).turn = row.turn
           /\ End(row, status).gen = row.gen
BY DEF End, Row

\* A run ends, and gives up its lease unless that is in the hands of its
\* recovery thread.
Finishes(r, row, status) ==
    /\ run'[r] = End(row, status)
    /\ HasLease(r)' => HasLease(r) /\ recovery[r] = "claimed"

\* What _terminalize_locked does to a run r whose record was to be row.
Settles(r, row, over, status) ==
    /\ \/ r \notin over /\ run'[r] = row /\ KeepsLease(r)
       \/ r \in over /\ Finishes(r, row, status)
       \/ r \in deferred /\ row.status = "queued" /\ Finishes(r, row, "stopped")
    /\ r \in admissions' <=> r \in admissions
    /\ r \in buffered' => r \in buffered
    /\ r \in deferred' => r \in deferred
    /\ \/ recovery'[r] = recovery[r]
       \/ recovery[r] = "none" /\ recovery'[r] = "checking" /\ r \in deferred

LEMMA TerminalizeStep ==
    ASSUME LedgerType, holder \notin waiting, NEW base \in [Req -> Row],
           NEW over \in SUBSET Req, NEW status \in Ended, Terminalize(base, over, status)
    PROVE  /\ LedgerType' /\ holder' \notin waiting'
           /\ \A r \in Req : Settles(r, base[r], over, status)
<1> DEFINE mid == [r \in Req |-> IF r \in over THEN End(base[r], status) ELSE base[r]]
           claimed == {r \in Req : recovery[r] = "claimed"}
<1>1. mid \in [Req -> Row]
  BY EndRow
<1>2. PICK late \in SUBSET {r \in Resumable(mid) : recovery[r] = "none"} :
        /\ run' = [r \in Req |-> IF r \in late THEN End(mid[r], "stopped") ELSE mid[r]]
        /\ Release({r \in over \cup late : recovery[r] # "claimed"})
        /\ buffered' = buffered \ over
        /\ admissions' = admissions
        /\ Resume(mid, late) \/ UNCHANGED <<recovery, deferred>>
  BY DEF Terminalize
<1>3. late \subseteq Req /\ \A r \in late : r \in deferred /\ mid[r].status = "queued" /\ r \notin over
  <2>1. late \subseteq Req /\ \A r \in late : r \in deferred /\ mid[r].status = "queued"
    BY <1>2 DEF Resumable, RestartSafe, Unsent, LedgerType
  <2>2. \A r \in over : mid[r].status # "queued"
    BY EndRow DEF Ended
  <2> QED BY <2>1, <2>2
<1>4. run' \in [Req -> Row]
  BY <1>1, <1>2, EndRow DEF Ended
<1> DEFINE rs == {r \in over \cup late : recovery[r] # "claimed"}
<1>5. /\ GateType' /\ holder' \notin waiting'
      /\ \A r \in Req : r \notin rs => KeepsLease(r)
      /\ \A r \in Req : r \in rs => ~HasLease(r)'
  <2>1. Release(rs)
    BY <1>2
  <2> HIDE DEF rs
  <2> QED BY <2>1, ReleaseStep DEF LedgerType
<1>6. /\ recovery' \in [Req -> RecoveryPoints] /\ deferred' \subseteq deferred
      /\ \A r \in Req : \/ recovery'[r] = recovery[r]
                        \/ recovery[r] = "none" /\ recovery'[r] = "checking" /\ r \in deferred
  <2>1. CASE UNCHANGED <<recovery, deferred>>
    BY <2>1 DEF LedgerType
  <2>2. CASE Resume(mid, late)
    <3>1. recovery' = [r \in Req |-> IF r \in Resumable(mid) \ late /\ recovery[r] = "none"
                                       THEN "checking" ELSE recovery[r]]
      BY <2>2 DEF Resume
    <3>2. deferred' \subseteq deferred
      BY <2>2 DEF Resume
    <3>3. \A r \in Resumable(mid) : r \in deferred
      BY DEF Resumable
    <3> HIDE DEF mid
    <3> QED BY <3>1, <3>2, <3>3 DEF LedgerType, RecoveryPoints
  <2> QED BY <1>2, <2>1, <2>2
<1>7. LedgerType'
  BY <1>2, <1>4, <1>5, <1>6 DEF LedgerType
<1>8. ASSUME NEW r \in Req PROVE Settles(r, base[r], over, status)
  <2>1. CASE r \in over
    <3>1. run'[r] = End(base[r], status)
      BY <1>2, <1>3, <2>1
    <3>2. HasLease(r)' => HasLease(r) /\ recovery[r] = "claimed"
      BY <1>5, <2>1 DEF KeepsLease
    <3> QED BY <1>2, <1>6, <2>1, <3>1, <3>2 DEF Settles, Finishes
  <2>2. CASE r \in late
    <3>1. run'[r] = End(base[r], "stopped") /\ base[r].status = "queued" /\ r \in deferred
      BY <1>2, <1>3, <2>2
    <3>2. HasLease(r)' => HasLease(r) /\ recovery[r] = "claimed"
      BY <1>5, <2>2 DEF KeepsLease
    <3> QED BY <1>2, <1>6, <3>1, <3>2 DEF Settles, Finishes
  <2>3. CASE r \notin over \cup late
    <3>1. run'[r] = base[r] /\ KeepsLease(r)
      BY <1>2, <1>5, <2>3
    <3> QED BY <1>2, <1>6, <2>3, <3>1 DEF Settles
  <2> QED BY <2>1, <2>2, <2>3
<1> QED BY <1>5, <1>7, <1>8

-----------------------------------------------------------------------------
(* Runs that end *)

\* What happens to the turns and notices when a generation may be aborted.
Losing ==
    /\ \A r \in Req : native'[r] = native[r] \/ (native[r] = "running" /\ native'[r] = "lost")
    /\ notices' \subseteq notices

\* A worker stays, or leaves a run that has ended, or goes on watching.
Leaving(r, over) ==
    \/ worker'[r] = worker[r]
    \/ /\ worker[r] # "none" /\ worker'[r] \in {"none", "watching", "bound"}
       /\ worker'[r] = "none" => r \in over \/ ~Live(r) \/ up # "running"
       /\ worker'[r] # "none" => r \in over \/ run[r].status # "queued"

\* Records in which runs that had started may be about to be cancelled.
Cancelling(base) ==
    \A r \in Req : \/ base[r] = run[r]
                   \/ /\ run[r].status \in ActiveStates
                      /\ base[r] = [run[r] EXCEPT !.status = "cancelling"]

\* No invariant is lost when live runs end, be it that their generation is
\* aborted with them; one that completes must have done so in Codex.
LEMMA TerminalizeKeeps ==
    ASSUME BrokerInv, up # "down", up' = up, ThreadType', ServerType', BridgeType', Losing,
           NEW base \in [Req -> Row], Cancelling(base),
           NEW over \in SUBSET Req, NEW status \in Ended, Terminalize(base, over, status),
           \A r \in over : Live(r) /\ (status = "completed" => native[r] = "done"),
           \A r \in Req : Leaving(r, over)
    PROVE  BrokerInv'
<1>1. /\ LedgerType' /\ holder' \notin waiting'
      /\ \A r \in Req : Settles(r, base[r], over, status)
  BY TerminalizeStep DEF BrokerInv, Types, LeaseInv
<1>2. ASSUME NEW r \in Req
      PROVE  Once(r)' /\ Real(r)' /\ (up = "running" => Lease(r)')
  <2> DEFINE row == base[r]
  <2>0. /\ run[r] \in Row /\ worker[r] \in WorkerPoints
        /\ recovery[r] \in RecoveryPoints /\ Once(r) /\ Real(r) /\ (up = "running" => Lease(r))
    BY DEF BrokerInv, Types, LedgerType, ThreadType, OnceInv, RealInv, LeaseInv
  <2>1. /\ row \in Row /\ row.turn = run[r].turn /\ row.gen = run[r].gen
        /\ row.status = run[r].status \/ (run[r].status \in ActiveStates /\ row.status = "cancelling")
    BY <2>0 DEF Cancelling, Row
  <2>2. /\ Settles(r, row, over, status) /\ Leaving(r, over)
        /\ native'[r] = native[r] \/ (native[r] = "running" /\ native'[r] = "lost")
        /\ r \in notices' => r \in notices
        /\ r \in over => Live(r) /\ (status = "completed" => native[r] = "done")
    BY <1>1 DEF Losing
  <2> HIDE DEF row
  <2>3. CASE r \notin over /\ run'[r] = row /\ KeepsLease(r)
    <3>1. Once(r)'
      BY <2>0, <2>1, <2>2, <2>3 DEF Once, Leaving, Late, Early, ActiveStates
    <3>2. Real(r)'
      BY <2>0, <2>1, <2>2, <2>3 DEF Real, Settles, ActiveStates
    <3>3. ASSUME up = "running" PROVE Lease(r)'
      BY <2>0, <2>1, <2>2, <2>3, <3>3
         DEF Lease, Settles, KeepsLease, Leaving, Live, LiveStates, ActiveStates
    <3> QED BY <3>1, <3>2, <3>3
  <2>4. ASSUME r \notin over => r \in deferred /\ row.status = "queued",
               NEW e \in Ended, e = "completed" => r \in over /\ status = e,
               Finishes(r, row, e)
        PROVE  Once(r)' /\ Real(r)' /\ (up = "running" => Lease(r)')
    <3>0. /\ run'[r].status = e /\ run'[r].turn = run[r].turn /\ run'[r].gen = run[r].gen
          /\ HasLease(r)' => HasLease(r) /\ recovery[r] = "claimed"
      BY <2>1, <2>4, EndRow DEF Finishes
    <3>1. Once(r)'
      BY <2>0, <2>2, <3>0 DEF Once, Leaving, Late, Early, Ended
    <3>2. Real(r)'
      BY <2>0, <2>2, <2>4, <3>0 DEF Real, Settles
    <3>3. ASSUME up = "running" PROVE Lease(r)'
      <4>1. e \notin LiveStates /\ e # "none"
        BY DEF Ended, LiveStates, ActiveStates
      <4>2. ~Live(r)' /\ run'[r].status \notin ActiveStates /\ run'[r].status # "none"
        BY <3>0, <4>1 DEF Live, LiveStates
      <4>3. r \in admissions => run[r].status = "none"
        BY <2>0, <3>3 DEF Lease
      <4>4. run[r].status # "none"
        BY <2>1, <2>2, <2>4 DEF Live, LiveStates, ActiveStates
      <4> QED BY <2>0, <2>2, <3>0, <3>3, <4>2, <4>3, <4>4 DEF Lease, Settles, Leaving
    <3> QED BY <3>1, <3>2, <3>3
  <2>5. "stopped" \in Ended
    BY DEF Ended
  <2> QED BY <2>2, <2>3, <2>4, <2>5 DEF Settles
<1>3. Types' /\ OnceInv' /\ RealInv' /\ LeaseInv'
  BY <1>1, <1>2 DEF Types, OnceInv, RealInv, LeaseInv
<1> QED BY <1>3 DEF BrokerInv

\* The same from the actions' side: a worker that ends runs.
LEMMA EndsKeeps ==
    ASSUME BrokerInv, NEW r \in Req, NEW to \in {"none", "watching", "bound"},
           worker[r] # "none", up # "down",
           NEW over \in SUBSET Req, \A s \in over : Live(s),
           to = "none" => r \in over \/ ~Live(r) \/ up # "running",
           to # "none" => r \in over \/ run[r].status # "queued",
           NEW status \in Ended, status = "completed" => \A s \in over : native[s] = "done",
           worker' = [worker EXCEPT ![r] = to],
           UNCHANGED <<account, canceller, steerer, serverVars, bridgeVars>>,
           Terminalize(run, over, status)
    PROVE  BrokerInv'
<1>1. worker \in [Req -> WorkerPoints] /\ to \in WorkerPoints
  BY DEF BrokerInv, Types, ThreadType, WorkerPoints
<1>2. ThreadType' /\ ServerType' /\ BridgeType' /\ Losing /\ up' = up
  BY <1>1 DEF BrokerInv, Types, ThreadType, ServerType, BridgeType, serverVars, bridgeVars, Losing
<1>3. \A s \in Req : Leaving(s, over)
  BY <1>1 DEF Leaving
<1>4. run \in [Req -> Row] /\ Cancelling(run)
  BY DEF BrokerInv, Types, LedgerType, Cancelling
<1> QED BY <1>2, <1>3, <1>4, TerminalizeKeeps

\* A thread other than the worker that ends runs, and may abort.
LEMMA StopsKeeps ==
    ASSUME BrokerInv, up # "down", NEW over \in SUBSET Req, \A s \in over : Live(s),
           NEW status \in Ended, status = "completed" => \A s \in over : native[s] = "done",
           NEW base \in [Req -> Row], Cancelling(base),
           canceller' \in [Req -> CancelPoints], steerer' \subseteq steerer,
           ready' \in BOOLEAN, native' \in [Req -> {"none", "running", "done", "lost"}], Losing,
           UNCHANGED <<account, worker, gen, bridgeVars>>,
           Terminalize(base, over, status)
    PROVE  BrokerInv'
<1>1. ThreadType' /\ ServerType' /\ BridgeType' /\ up' = up
  BY DEF BrokerInv, Types, ThreadType, ServerType, BridgeType, bridgeVars, Losing
<1>2. \A s \in Req : Leaving(s, over)
  BY DEF Leaving
<1> QED BY <1>1, <1>2, TerminalizeKeeps

LEMMA AbortStep ==
    ASSUME ServerType, NEW g, Abort(g)
    PROVE  ready' \in BOOLEAN /\ native' \in [Req -> {"none", "running", "done", "lost"}] /\ Losing
<1>1. CASE LoseProcess
  <2>1. native' = [s \in Req |-> IF native[s] = "running" THEN "lost" ELSE native[s]]
    BY <1>1 DEF LoseProcess
  <2> QED BY <1>1, <2>1 DEF LoseProcess, ServerType, Losing
<1>2. CASE UNCHANGED <<ready, native, notices>>
  BY <1>2 DEF ServerType, Losing
<1> QED BY <1>1, <1>2 DEF Abort

\* The live runs among rs, and the queued ones, are live.
LEMMA LiveRuns ==
    /\ \A rs \in SUBSET Req : LiveAmong(rs) \subseteq Req /\ \A s \in LiveAmong(rs) : Live(s)
    /\ QueuedRuns \subseteq Req /\ \A s \in QueuedRuns : Live(s)
    /\ Interrupted \subseteq Req /\ \A s \in Interrupted : Live(s)
BY DEF LiveAmong, QueuedRuns, Interrupted, Live, LiveStates

\* A thread that is anywhere but at its start needs a process.
LEMMA ThreadsUp ==
    ASSUME BrokerInv, NEW r \in Req
    PROVE  /\ worker[r] # "none" => up # "down"
           /\ canceller[r] # "none" => up # "down"
           /\ recovery[r] # "none" => up # "down"
           /\ r \in steerer \/ r \in admissions => up # "down"
BY DEF BrokerInv, LeaseInv, Down, Idle

-----------------------------------------------------------------------------
(* Steps that concern one request *)

\* Nothing happens to r, but perhaps the loss of its turn.
Apart(r) ==
    /\ run'[r] = run[r] /\ KeepsLease(r) /\ worker'[r] = worker[r] /\ recovery'[r] = recovery[r]
    /\ r \in admissions' <=> r \in admissions
    /\ r \in deferred' => r \in deferred
    /\ r \in buffered' => r \in buffered
    /\ r \in notices' => r \in notices
    /\ native'[r] = native[r] \/ (native[r] = "running" /\ native'[r] = "lost")

Ok(r) == Once(r) /\ Real(r) /\ (up = "running" => Lease(r))

LEMMA OkRuns == BrokerInv => \A r \in Req : Ok(r)
BY DEF BrokerInv, OnceInv, RealInv, LeaseInv, Ok

LEMMA ApartKeeps ==
    ASSUME BrokerInv, Types', holder' \notin waiting', up' = up, up' = "down" => Down',
           \A r \in Req : Apart(r) \/ Ok(r)'
    PROVE  BrokerInv'
<1>1. ASSUME NEW r \in Req PROVE Ok(r)'
  <2>0. Ok(r) /\ (Apart(r) \/ Ok(r)')
    BY OkRuns
  <2>1. CASE Apart(r)
    <3>1. Once(r)'
      BY <2>0, <2>1 DEF Apart, Ok, Once
    <3>2. Real(r)'
      BY <2>0, <2>1 DEF Apart, Ok, Real
    <3>3. ASSUME up = "running" PROVE Lease(r)'
      BY <2>0, <2>1, <3>3 DEF Apart, Ok, Lease, KeepsLease, Live
    <3> QED BY <3>1, <3>2, <3>3 DEF Ok
  <2> QED BY <2>0, <2>1
<1> QED BY <1>1 DEF BrokerInv, OnceInv, RealInv, LeaseInv, Ok

\* Only the record and the worker of r change.
LEMMA RecordKeeps ==
    ASSUME BrokerInv, NEW r \in Req, up # "down", NEW row \in Row, NEW to \in WorkerPoints,
           run' = [run EXCEPT ![r] = row], worker' = [worker EXCEPT ![r] = to],
           UNCHANGED <<admissions, holder, waiting, ahead, authLease, recovery, deferred, buffered,
                       account, canceller, steerer, serverVars, bridgeVars>>,
           Ok(r)'
    PROVE  BrokerInv'
<1>1. run \in [Req -> Row] /\ worker \in [Req -> WorkerPoints]
  BY DEF BrokerInv, Types, LedgerType, ThreadType
<1>2. Types' /\ holder' \notin waiting' /\ up' = up
  BY <1>1 DEF BrokerInv, Types, LedgerType, GateType, ThreadType, ServerType, BridgeType,
              serverVars, bridgeVars, LeaseInv
<1>3. ASSUME NEW s \in Req, s # r PROVE Apart(s)
  BY <1>1, <1>3 DEF Apart, KeepsLease, HasLease, serverVars
<1> QED BY <1>2, <1>3, ApartKeeps

\* Only the worker of r moves on.
LEMMA MovesKeeps ==
    ASSUME BrokerInv, NEW r \in Req, NEW from \in WorkerPoints \ {"none"}, NEW to \in WorkerPoints,
           Moves(r, from, to),
           to \in Early => from \in Early,
           to \in {"preparing", "loaded"} => from = "preparing",
           to # "dispatched",
           to \in Late => run[r].status # "queued",
           to = "none" => ~Live(r) \/ up # "running",
           to \in {"woken", "cleared", "admitted"} => holder = r \/ from \in {"woken", "cleared"}
    PROVE  BrokerInv'
<1>1. worker[r] = from /\ worker' = [worker EXCEPT ![r] = to] /\ worker \in [Req -> WorkerPoints]
  BY DEF Moves, Goto, BrokerInv, Types, ThreadType
<1>2. UNCHANGED <<run, admissions, holder, waiting, ahead, authLease, recovery, deferred, buffered,
                  account, canceller, steerer, serverVars, bridgeVars>>
  BY DEF Moves, ledgerVars
<1>3. up # "down" /\ up' = up /\ run' = [run EXCEPT ![r] = run[r]] /\ run[r] \in Row
  BY <1>1, <1>2, ThreadsUp DEF bridgeVars, BrokerInv, Types, LedgerType
<1>4. Ok(r)'
  <2>0. Ok(r) /\ worker'[r] = to
    BY <1>1, OkRuns
  <2>1. Once(r)'
    BY <1>1, <1>2, <2>0 DEF Ok, Once, serverVars, Early
  <2>2. Real(r)'
    BY <1>2, <2>0 DEF Ok, Real, serverVars
  <2>3. ASSUME up = "running" PROVE Lease(r)'
    BY <1>1, <1>2, <2>0, <2>3 DEF Ok, Lease, HasLease, Live, LiveStates, ActiveStates
  <2> QED BY <1>3, <2>1, <2>2, <2>3 DEF Ok
<1> QED BY <1>1, <1>2, <1>3, <1>4, RecordKeeps

-----------------------------------------------------------------------------
(* Users and their requests *)

LEMMA AdmitKeeps ==
    ASSUME BrokerInv, NEW r \in Req, AdmitPrompt(r)
    PROVE  BrokerInv'
<1>1. /\ up = "running" /\ r \in Prepared /\ run[r].status = "none" /\ r \notin admissions
      /\ Reserve(r) /\ admissions' = admissions \cup {r}
      /\ UNCHANGED <<run, recovery, deferred, buffered, account, worker, canceller,
                     steerer, serverVars, bridgeVars>>
  BY DEF AdmitPrompt, Serving
<1>2. Ok(r) /\ Lease(r)
  BY <1>1, OkRuns DEF Ok
<1>3. ~HasLease(r)
  BY <1>1, <1>2 DEF Lease, Live, LiveStates, ActiveStates
<1>4. /\ GateType' /\ holder' \notin waiting' /\ HasLease(r)'
      /\ \A s \in Req : s # r => KeepsLease(s)
  BY <1>1, <1>3, ReserveStep DEF BrokerInv, Types, LedgerType, LeaseInv
<1>5. Types' /\ up' = up
  BY <1>1, <1>4 DEF BrokerInv, Types, LedgerType, ThreadType, ServerType, BridgeType,
                    serverVars, bridgeVars
<1>6. ASSUME NEW s \in Req, s # r PROVE Apart(s)
  BY <1>1, <1>4, <1>6 DEF Apart, serverVars
<1>7. Ok(r)'
  <2>1. Once(r)' /\ Real(r)'
    BY <1>1, <1>2 DEF Ok, Once, Real, serverVars
  <2>2. Lease(r)'
    BY <1>1, <1>2 DEF Lease, Live, LiveStates, ActiveStates
  <2> QED BY <2>1, <2>2 DEF Ok
<1> QED BY <1>1, <1>4, <1>5, <1>6, <1>7, ApartKeeps

LEMMA ReleaseAdmissionKeeps ==
    ASSUME BrokerInv, NEW r \in Req, ReleaseAdmission(r)
    PROVE  BrokerInv'
<1>1. /\ r \in admissions /\ Release({r}) /\ admissions' = admissions \ {r}
      /\ UNCHANGED <<run, recovery, deferred, buffered, account, worker, canceller,
                     steerer, serverVars, bridgeVars>>
  BY DEF ReleaseAdmission
<1>2. Ok(r) /\ up # "down"
  BY <1>1, OkRuns, ThreadsUp
<1>3. /\ GateType' /\ holder' \notin waiting' /\ ~HasLease(r)'
      /\ \A s \in Req : s # r => KeepsLease(s)
  BY <1>1, ReleaseStep DEF BrokerInv, Types, LedgerType, LeaseInv
<1>4. Types' /\ up' = up
  BY <1>1, <1>3 DEF BrokerInv, Types, LedgerType, ThreadType, ServerType, BridgeType,
                    serverVars, bridgeVars
<1>5. ASSUME NEW s \in Req, s # r PROVE Apart(s)
  BY <1>1, <1>3, <1>5 DEF Apart, serverVars
<1>6. Ok(r)'
  <2>1. Once(r)' /\ Real(r)'
    BY <1>1, <1>2 DEF Ok, Once, Real, serverVars
  <2>2. ASSUME up = "running" PROVE Lease(r)'
    BY <1>1, <1>2, <1>3, <2>2 DEF Ok, Lease, Live, LiveStates, ActiveStates
  <2> QED BY <1>4, <2>1, <2>2 DEF Ok
<1> QED BY <1>2, <1>3, <1>4, <1>5, <1>6, ApartKeeps

LEMMA NoRunRow == NoRun \in Row /\ NoRun.turn = "unsent" /\ NoRun.gen = 0
<1>1. 0 \in 0..MaxGen
  BY BrokerAssumption
<1> QED BY <1>1 DEF NoRun, Row

LEMMA SubmitKeeps ==
    ASSUME BrokerInv, NEW r \in Req, NEW mode \in Modes, SubmitPrompt(r, mode)
    PROVE  BrokerInv'
<1> DEFINE row == [NoRun EXCEPT !.status = IF holder' = r THEN "starting" ELSE "queued",
                                !.mode = mode, !.prompt = TRUE, !.acct = account]
<1>1. /\ up = "running" /\ run[r].status = "none"
      /\ \/ r \notin Prepared /\ Reserve(r)
         \/ r \in admissions /\ HasLease(r) /\ UNCHANGED <<holder, waiting, ahead, authLease>>
      /\ admissions' = admissions \ {r}
      /\ run' = [run EXCEPT ![r] = row] /\ worker' = [worker EXCEPT ![r] = "waiting"]
      /\ UNCHANGED <<recovery, deferred, buffered, account, canceller, steerer,
                     serverVars, bridgeVars>>
  BY DEF SubmitPrompt, Serving
<1>2. Ok(r) /\ Lease(r)
  BY <1>1, OkRuns DEF Ok
<1>3. /\ GateType' /\ holder' \notin waiting' /\ HasLease(r)'
      /\ \A s \in Req : s # r => KeepsLease(s)
  <2>1. CASE r \notin Prepared /\ Reserve(r)
    <3>1. ~HasLease(r)
      BY <1>1, <1>2, <2>1 DEF Lease, Live, LiveStates, ActiveStates
    <3> QED BY <2>1, <3>1, ReserveStep DEF BrokerInv, Types, LedgerType, LeaseInv
  <2>2. CASE r \in admissions /\ HasLease(r) /\ UNCHANGED <<holder, waiting, ahead, authLease>>
    BY <2>2 DEF BrokerInv, Types, LedgerType, GateType, LeaseInv, HasLease, KeepsLease
  <2> QED BY <1>1, <2>1, <2>2
<1>4. /\ row \in Row /\ row.status = (IF holder' = r THEN "starting" ELSE "queued")
      /\ row.turn = "unsent" /\ row.gen = 0
  <2>1. (IF holder' = r THEN "starting" ELSE "queued") \in LiveStates
    BY DEF LiveStates, ActiveStates
  <2>2. account \in Account \cup {None}
    BY DEF BrokerInv, Types, ThreadType
  <2>3. PICK status \in LiveStates : status = (IF holder' = r THEN "starting" ELSE "queued")
    BY <2>1
  <2>4. row = [NoRun EXCEPT !.status = status, !.mode = mode, !.prompt = TRUE, !.acct = account]
    BY <2>3
  <2> HIDE DEF row
  <2>5. mode \in {"queue", "auto"}
    BY BrokerAssumption
  <2>6. row \in Row /\ row.status = status /\ row.turn = "unsent" /\ row.gen = 0
    BY <2>2, <2>4, <2>5, NoRunRow DEF Row
  <2> QED BY <2>3, <2>6
<1> HIDE DEF row
<1>5. worker \in [Req -> WorkerPoints] /\ run \in [Req -> Row] /\ "waiting" \in WorkerPoints
  BY DEF BrokerInv, Types, LedgerType, ThreadType, WorkerPoints
<1>6. Types' /\ up' = up
  BY <1>1, <1>3, <1>4, <1>5
     DEF BrokerInv, Types, LedgerType, ThreadType, ServerType, BridgeType, serverVars, bridgeVars
<1>7. ASSUME NEW s \in Req, s # r PROVE Apart(s)
  BY <1>1, <1>3, <1>5, <1>7 DEF Apart, serverVars
<1>8. Ok(r)'
  <2>0. run'[r] = row /\ worker'[r] = "waiting"
    BY <1>1, <1>5
  <2>1. Once(r)' /\ Real(r)'
    BY <1>1, <1>2, <1>4, <2>0 DEF Ok, Once, Real, serverVars, Late, Early
  <2>2. Lease(r)'
    BY <1>1, <1>2, <1>3, <1>4, <2>0 DEF Lease, Live, LiveStates, ActiveStates
  <2> QED BY <2>1, <2>2 DEF Ok
<1> QED BY <1>1, <1>3, <1>6, <1>7, <1>8, ApartKeeps

\* Steps of threads that change nothing the invariant is about.
LEMMA QuietKeeps ==
    ASSUME BrokerInv, UNCHANGED <<ledgerVars, worker, gen, bridgeVars>>, up # "down",
           account' \in Account \cup {None}, canceller' \in [Req -> CancelPoints],
           steerer' \subseteq Req, ready' \in BOOLEAN,
           native' \in [Req -> {"none", "running", "done", "lost"}], Losing
    PROVE  BrokerInv'
<1>1. Types' /\ holder' \notin waiting' /\ up' = up
  BY DEF BrokerInv, Types, LedgerType, GateType, ThreadType, ServerType, BridgeType, LeaseInv,
         ledgerVars, bridgeVars, Losing
<1>2. \A s \in Req : Apart(s)
  BY DEF Apart, KeepsLease, HasLease, ledgerVars, Losing
<1> QED BY <1>1, <1>2, ApartKeeps

LEMMA UserKeeps ==
    ASSUME BrokerInv, NEW r \in Req, User(r)
    PROVE  BrokerInv'
<1>0. run \in [Req -> Row] /\ Cancelling(run) /\ "stopped" \in Ended
  BY DEF BrokerInv, Types, LedgerType, Cancelling, Ended
<1>1. CASE SteerBegin(r)
  BY <1>1, QuietKeeps DEF SteerBegin, Started, BrokerInv, Types, ThreadType, ServerType, Losing, serverVars
<1>2. CASE CancelQueuedPrompt(r)
  <2>1. up # "down" /\ Live(r) /\ Losing /\ Terminalize(run, {r}, "stopped")
    BY <1>2 DEF CancelQueuedPrompt, Serving, Live, LiveStates, Losing, serverVars
  <2>2. /\ canceller' = canceller /\ steerer' = steerer
        /\ UNCHANGED <<account, worker, serverVars, bridgeVars>>
    BY <1>2 DEF CancelQueuedPrompt
  <2> QED BY <1>0, <2>1, <2>2, StopsKeeps DEF BrokerInv, Types, ThreadType, ServerType, serverVars
<1>3. CASE CancelRun(r)
  <2> DEFINE others == {s \in QueuedRuns : ThreadOf[s] = ThreadOf[r]} \ {r}
             base == [run EXCEPT ![r].status = "cancelling"]
             next == CASE run[r].turn = "bound" -> "interrupting"
                       [] run[r].turn # "bound" /\ run[r].gen # 0 -> "aborting"
                       [] OTHER -> "none"
  <2>1. /\ up # "down" /\ Live(r) /\ UNCHANGED <<account, worker, steerer, serverVars, bridgeVars>>
        /\ \/ Terminalize(run, {r}, "stopped") /\ canceller' = canceller
           \/ /\ run[r].status # "queued" /\ Terminalize(base, others, "stopped")
              /\ canceller' = [canceller EXCEPT ![r] = next]
    BY <1>3 DEF CancelRun, Serving
  <2>2. next \in CancelPoints /\ canceller \in [Req -> CancelPoints]
    BY DEF CancelPoints, BrokerInv, Types, ThreadType
  <2>3. Losing /\ canceller' \in [Req -> CancelPoints] /\ steerer' \subseteq steerer
        /\ ready' \in BOOLEAN /\ native' \in [Req -> {"none", "running", "done", "lost"}]
        /\ UNCHANGED <<account, worker, gen, bridgeVars>>
    <3> HIDE DEF next
    <3> QED BY <2>1, <2>2 DEF Losing, serverVars, BrokerInv, Types, ServerType
  <2>4. CASE Terminalize(run, {r}, "stopped")
    BY <1>0, <2>1, <2>3, <2>4, StopsKeeps
  <2>5. CASE run[r].status # "queued" /\ Terminalize(base, others, "stopped")
    <3>1. run[r].status \in ActiveStates
      BY <2>1, <2>5 DEF Live, LiveStates
    <3>2. base \in [Req -> Row]
      BY <1>0 DEF Row, LiveStates, ActiveStates
    <3>3. Cancelling(base)
      BY <1>0, <3>1 DEF Cancelling
    <3>4. others \subseteq Req /\ \A s \in others : Live(s)
      BY LiveRuns
    <3> HIDE DEF base, others
    <3> QED BY <1>0, <2>1, <2>3, <2>5, <3>2, <3>3, <3>4, StopsKeeps
  <2> QED BY <2>1, <2>4, <2>5
<1> QED BY <1>1, <1>2, <1>3, AdmitKeeps, ReleaseAdmissionKeeps, SubmitKeeps DEF User

LEMMA RequestKeeps ==
    ASSUME BrokerInv, NEW r \in Req, Request(r)
    PROVE  BrokerInv'
<1>0. /\ run \in [Req -> Row] /\ Cancelling(run) /\ "stopped" \in Ended
      /\ canceller \in [Req -> CancelPoints] /\ steerer \subseteq Req
      /\ ServerType /\ account \in Account \cup {None}
  BY DEF BrokerInv, Types, LedgerType, ThreadType, Cancelling, Ended
<1>1. UNCHANGED serverVars => Losing /\ ready' \in BOOLEAN /\ gen' = gen
                              /\ native' \in [Req -> {"none", "running", "done", "lost"}]
  BY <1>0 DEF Losing, serverVars, ServerType
<1>2. \A p \in CancelPoints : [canceller EXCEPT ![r] = p] \in [Req -> CancelPoints]
  BY <1>0
<1>3. {"none", "aborting", "aborted", "interrupting", "clearing"} \subseteq CancelPoints
  BY DEF CancelPoints
<1>4. /\ QueuedRuns \cup LiveAmong({r}) \subseteq Req
      /\ \A s \in QueuedRuns \cup LiveAmong({r}) : Live(s)
      /\ QueuedRuns \subseteq Req /\ \A s \in QueuedRuns : Live(s)
  BY LiveRuns
<1>5. CASE SteerAccepted(r)
  <2>1. up # "down"
    BY <1>5, ThreadsUp DEF SteerAccepted
  <2> QED BY <1>0, <1>1, <1>5, <2>1, QuietKeeps DEF SteerAccepted
<1>6. CASE SteerFailed(r)
  <2>1. up # "down" /\ ready' \in BOOLEAN /\ Losing
        /\ native' \in [Req -> {"none", "running", "done", "lost"}]
    BY <1>0, <1>6, ThreadsUp, AbortStep DEF SteerFailed
  <2>2. /\ steerer' \subseteq steerer /\ canceller' = canceller
        /\ UNCHANGED <<account, worker, gen, bridgeVars>>
        /\ Terminalize(run, QueuedRuns \cup LiveAmong({r}), "stopped")
    BY <1>6 DEF SteerFailed
  <2> QED BY <1>0, <1>4, <2>1, <2>2, StopsKeeps
<1>7. CASE CancelAborts(r) \/ InterruptFails(r)
  <2>1. PICK p \in CancelPoints :
          /\ up # "down" /\ Abort(run[r].gen) /\ canceller' = [canceller EXCEPT ![r] = p]
          /\ UNCHANGED <<ledgerVars, account, worker, steerer, gen, bridgeVars>>
    BY <1>3, <1>7, ThreadsUp DEF CancelAborts, InterruptFails
  <2>2. ready' \in BOOLEAN /\ Losing /\ native' \in [Req -> {"none", "running", "done", "lost"}]
    BY <1>0, <2>1, AbortStep
  <2> QED BY <1>0, <1>2, <2>1, <2>2, QuietKeeps
<1>8. CASE CancelAborted(r)
  <2>1. /\ up # "down" /\ steerer' = steerer /\ canceller' = [canceller EXCEPT ![r] = "none"]
        /\ UNCHANGED <<account, worker, serverVars, bridgeVars>>
        /\ Terminalize(run, QueuedRuns \cup LiveAmong({r}), "stopped")
    BY <1>8, ThreadsUp DEF CancelAborted
  <2> QED BY <1>0, <1>1, <1>2, <1>3, <1>4, <2>1, StopsKeeps
<1>9. CASE InterruptAccepted(r)
  <2>1. /\ up # "down" /\ canceller' = [canceller EXCEPT ![r] = "none"]
        /\ UNCHANGED <<ledgerVars, account, worker, steerer, serverVars, bridgeVars>>
    BY <1>9, ThreadsUp DEF InterruptAccepted
  <2> QED BY <1>0, <1>1, <1>2, <1>3, <2>1, QuietKeeps
<1>10. CASE InterruptFailed(r)
  <2>1. /\ up # "down" /\ steerer' = steerer /\ canceller' = [canceller EXCEPT ![r] = "none"]
        /\ UNCHANGED <<account, worker, serverVars, bridgeVars>>
        /\ Terminalize(run, QueuedRuns, "stopped")
    BY <1>10, ThreadsUp DEF InterruptFailed
  <2> QED BY <1>0, <1>1, <1>2, <1>3, <1>4, <2>1, StopsKeeps
<1> QED BY <1>5, <1>6, <1>7, <1>8, <1>9, <1>10 DEF Request

-----------------------------------------------------------------------------
(* The worker *)

\* A prompt that is deferred has not been sent.
LEMMA DeferKeeps ==
    ASSUME BrokerInv, NEW r \in Req, worker[r] \in {"expired", "woken", "admitted"}, Defer(r),
           Goto(r, "none"), UNCHANGED <<account, canceller, steerer, serverVars, bridgeVars>>
    PROVE  BrokerInv'
<1>1. /\ run' = [run EXCEPT ![r].status = "queued"] /\ deferred' = deferred \cup {r}
      /\ Release({r}) /\ UNCHANGED <<recovery, buffered, admissions>>
      /\ worker' = [worker EXCEPT ![r] = "none"]
  BY DEF Defer, Goto
<1>2. Ok(r) /\ up # "down"
  BY OkRuns, ThreadsUp
<1>3. /\ GateType' /\ holder' \notin waiting' /\ ~HasLease(r)'
      /\ \A s \in Req : s # r => KeepsLease(s)
  BY <1>1, ReleaseStep DEF BrokerInv, Types, LedgerType, LeaseInv
<1>4. /\ worker \in [Req -> WorkerPoints] /\ run \in [Req -> Row] /\ "none" \in WorkerPoints
      /\ "queued" \in LiveStates
  BY DEF BrokerInv, Types, LedgerType, ThreadType, WorkerPoints, LiveStates
<1>5. run' \in [Req -> Row]
  BY <1>1, <1>4 DEF Row
<1>6. Types' /\ up' = up
  BY <1>1, <1>3, <1>4, <1>5
     DEF BrokerInv, Types, LedgerType, ThreadType, ServerType, BridgeType, serverVars, bridgeVars
<1>7. ASSUME NEW s \in Req, s # r PROVE Apart(s)
  BY <1>1, <1>3, <1>4, <1>7 DEF Apart, serverVars
<1>8. Ok(r)'
  <2>0. /\ run'[r].status = "queued" /\ run'[r].turn = run[r].turn /\ run'[r].gen = run[r].gen
        /\ worker'[r] = "none"
    BY <1>1, <1>4 DEF Row
  <2>1. Once(r)'
    BY <1>2, <2>0 DEF Ok, Once, Early, Late, serverVars
  <2>2. Real(r)'
    BY <1>1, <1>2, <2>0 DEF Ok, Real, serverVars
  <2>3. ASSUME up = "running" PROVE Lease(r)'
    <3>1. r \notin admissions
      BY <1>2, <2>3 DEF Ok, Lease
    <3> QED BY <1>1, <1>3, <2>0, <3>1 DEF Lease, ActiveStates
  <2> QED BY <1>6, <2>1, <2>2, <2>3 DEF Ok
<1> QED BY <1>2, <1>3, <1>6, <1>7, <1>8, ApartKeeps

LEMMA TimesOutKeeps ==
    ASSUME BrokerInv, NEW r \in Req, WorkerTimesOut(r)
    PROVE  BrokerInv'
<1>1. /\ worker[r] = "waiting" /\ r \in waiting /\ Release({r})
      /\ worker' = [worker EXCEPT ![r] = "expired"]
      /\ UNCHANGED <<run, admissions, recovery, deferred, buffered, account, canceller,
                     steerer, serverVars, bridgeVars>>
  BY DEF WorkerTimesOut, Goto
<1>2. Ok(r) /\ up # "down" /\ holder # r
  BY <1>1, OkRuns, ThreadsUp DEF BrokerInv, LeaseInv
<1>3. /\ GateType' /\ holder' \notin waiting' /\ ~HasLease(r)'
      /\ \A s \in Req : s # r => KeepsLease(s)
  BY <1>1, ReleaseStep DEF BrokerInv, Types, LedgerType, LeaseInv
<1>4. worker \in [Req -> WorkerPoints] /\ "expired" \in WorkerPoints
  BY DEF BrokerInv, Types, ThreadType, WorkerPoints
<1>5. Types' /\ up' = up
  BY <1>1, <1>3, <1>4
     DEF BrokerInv, Types, LedgerType, ThreadType, ServerType, BridgeType, serverVars, bridgeVars
<1>6. ASSUME NEW s \in Req, s # r PROVE Apart(s)
  BY <1>1, <1>3, <1>4, <1>6 DEF Apart, serverVars
<1>7. Ok(r)'
  <2>1. worker'[r] = "expired"
    BY <1>1, <1>4
  <2>2. Once(r)' /\ Real(r)'
    BY <1>1, <1>2, <2>1 DEF Ok, Once, Real, Early, Late, serverVars
  <2>3. ASSUME up = "running" PROVE Lease(r)'
    BY <1>1, <1>2, <1>3, <2>1, <2>3 DEF Ok, Lease, Live
  <2> QED BY <1>5, <2>2, <2>3 DEF Ok
<1> QED BY <1>2, <1>3, <1>5, <1>6, <1>7, ApartKeeps

\* A worker that aborts its generation, or may do so.
LEMMA AbortsKeeps ==
    ASSUME BrokerInv, NEW r \in Req, NEW to \in Late \ {"preparing", "loaded", "dispatched"},
           worker[r] \in Late, worker' = [worker EXCEPT ![r] = to], Abort(run[r].gen),
           UNCHANGED <<ledgerVars, account, canceller, steerer, gen, bridgeVars>>
    PROVE  BrokerInv'
<1>1. Ok(r) /\ up # "down" /\ worker \in [Req -> WorkerPoints] /\ to \in WorkerPoints
  BY OkRuns, ThreadsUp DEF BrokerInv, Types, ThreadType, Late
<1>2. ready' \in BOOLEAN /\ Losing /\ native' \in [Req -> {"none", "running", "done", "lost"}]
  BY AbortStep DEF BrokerInv, Types
<1>3. Types' /\ holder' \notin waiting' /\ up' = up
  BY <1>1, <1>2 DEF BrokerInv, Types, LedgerType, GateType, ThreadType, ServerType, BridgeType,
                    LeaseInv, ledgerVars, bridgeVars, Losing
<1>4. ASSUME NEW s \in Req, s # r PROVE Apart(s)
  BY <1>1, <1>2, <1>4 DEF Apart, KeepsLease, HasLease, ledgerVars, Losing
<1>5. Ok(r)'
  <2>1. worker'[r] = to
    BY <1>1
  <2>2. Once(r)'
    BY <1>1, <1>2, <2>1 DEF Ok, Once, Early, Late, Losing, ledgerVars
  <2>3. Real(r)'
    BY <1>1, <1>2 DEF Ok, Real, Losing, ledgerVars
  <2>4. ASSUME up = "running" PROVE Lease(r)'
    BY <1>1, <2>1, <2>4 DEF Ok, Lease, HasLease, Live, Early, Late, ledgerVars
  <2> QED BY <1>3, <2>2, <2>3, <2>4 DEF Ok
<1> QED BY <1>1, <1>3, <1>4, <1>5, ApartKeeps

\* The prompt reaches Codex: this was not so before.
LEMMA TurnStartsKeeps ==
    ASSUME BrokerInv, NEW r \in Req, TurnStarts(r)
    PROVE  BrokerInv' /\ native[r] = "none" /\ \A s \in Req : s # r => native'[s] = native[s]
<1>1. /\ worker[r] = "dispatched" /\ worker' = [worker EXCEPT ![r] = "sent"]
      /\ native' = [native EXCEPT ![r] = "running"]
      /\ UNCHANGED <<ledgerVars, account, canceller, steerer, gen, ready, notices, bridgeVars>>
  BY DEF TurnStarts, Goto
<1>2. /\ Ok(r) /\ up # "down" /\ worker \in [Req -> WorkerPoints] /\ "sent" \in WorkerPoints
      /\ native \in [Req -> {"none", "running", "done", "lost"}]
  BY <1>1, OkRuns, ThreadsUp DEF BrokerInv, Types, ThreadType, ServerType, WorkerPoints
<1>3. Types' /\ holder' \notin waiting' /\ up' = up
  BY <1>1, <1>2 DEF BrokerInv, Types, LedgerType, GateType, ThreadType, ServerType, BridgeType,
                    LeaseInv, ledgerVars, bridgeVars
<1>4. ASSUME NEW s \in Req, s # r PROVE Apart(s) /\ native'[s] = native[s]
  BY <1>1, <1>2, <1>4 DEF Apart, KeepsLease, HasLease, ledgerVars
<1>5. native[r] = "none"
  BY <1>1, <1>2 DEF Ok, Once
<1>6. Ok(r)'
  <2>1. worker'[r] = "sent"
    BY <1>1, <1>2
  <2>2. Once(r)'
    BY <1>1, <1>2, <2>1 DEF Ok, Once, Early, Late, WorkerPoints, ledgerVars
  <2>3. Real(r)'
    BY <1>1, <1>2, <1>5 DEF Ok, Real, ledgerVars
  <2>4. ASSUME up = "running" PROVE Lease(r)'
    BY <1>1, <1>2, <2>1, <2>4 DEF Ok, Lease, HasLease, Live, ledgerVars
  <2> QED BY <1>3, <2>2, <2>3, <2>4 DEF Ok
<1> QED BY <1>2, <1>3, <1>4, <1>5, <1>6, ApartKeeps

\* The start of a turn, until the prompt is sent.
StartSteps(r) ==
    \/ WorkerWakes(r) \/ WorkerTooLate(r) \/ WorkerTimesOut(r) \/ WorkerExpired(r)
    \/ WorkerFenced(r) \/ WorkerAdmitted(r) \/ StartTurn(r) \/ ThreadLoaded(r)
    \/ TurnDispatched(r) \/ TurnStarts(r) \/ StartFails(r)

\* A worker that leaves when its own run ends.
LEMMA LeavesKeeps ==
    ASSUME BrokerInv, NEW r \in Req, worker[r] # "none",
           NEW over \in SUBSET Req, \A s \in over : Live(s),
           r \in over \/ ~Live(r) \/ up # "running", Ends(r, "none", over)
    PROVE  BrokerInv'
<1>1. /\ worker' = [worker EXCEPT ![r] = "none"] /\ Terminalize(run, over, "stopped")
      /\ UNCHANGED <<account, canceller, steerer, serverVars, bridgeVars>>
  BY DEF Ends, Goto
<1>2. up # "down" /\ "stopped" \in Ended
  BY ThreadsUp DEF Ended
<1> QED BY <1>1, <1>2, EndsKeeps

\* A worker that fails ends its run, or leaves it to the next process.
LEMMA FailsKeeps ==
    ASSUME BrokerInv, NEW r \in Req, worker[r] # "none",
           Ends(r, "none", IF Preserved(r) THEN {} ELSE LiveAmong({r}))
    PROVE  BrokerInv'
<1> DEFINE over == IF Preserved(r) THEN {} ELSE LiveAmong({r})
<1>1. over \in SUBSET Req /\ (\A s \in over : Live(s))
  BY LiveRuns
<1>2. r \in over \/ ~Live(r) \/ up # "running"
  BY DEF Preserved, LiveAmong
<1>3. Ends(r, "none", over)
  OBVIOUS
<1> HIDE DEF over
<1> QED BY <1>1, <1>2, <1>3, LeavesKeeps

LEMMA StartTurnKeeps ==
    ASSUME BrokerInv, NEW r \in Req, StartTurn(r)
    PROVE  BrokerInv'
<1>1. worker[r] = "admitted" /\ Ok(r) /\ up # "down"
  BY OkRuns, ThreadsUp DEF StartTurn
<1>2. CASE (~Live(r) \/ up # "running") /\ Moves(r, "admitted", "none")
  BY <1>2, MovesKeeps DEF WorkerPoints, Early, Late
<1>3. CASE Live(r) /\ Ends(r, "none", {r})
  BY <1>1, <1>3, LeavesKeeps
<1>4. CASE /\ Live(r) /\ up = "running" /\ run[r].status # "cancelling"
           /\ run' = [run EXCEPT ![r] = Claimed(@)]
           /\ worker' \in {[worker EXCEPT ![r] = p] : p \in {"preparing", "failed"}}
           /\ UNCHANGED <<admissions, holder, waiting, ahead, authLease, recovery, deferred,
                          buffered, account, canceller, steerer, serverVars, bridgeVars>>
  <2> DEFINE row == Claimed(run[r])
  <2>1. PICK p \in {"preparing", "failed"} : worker' = [worker EXCEPT ![r] = p]
    BY <1>4
  <2>2. /\ run \in [Req -> Row] /\ worker \in [Req -> WorkerPoints] /\ p \in WorkerPoints
        /\ gen \in 0..MaxGen
    BY DEF BrokerInv, Types, LedgerType, ThreadType, ServerType, WorkerPoints
  <2>3. row \in Row /\ row.status = "starting" /\ row.turn = run[r].turn /\ run' = [run EXCEPT ![r] = row]
    <3>1. run[r] \in Row /\ gen \in 0..MaxGen
      BY <2>2
    <3>2. row \in Row /\ row.status = "starting" /\ row.turn = run[r].turn
      BY <3>1 DEF Claimed, Row, LiveStates, ActiveStates
    <3>3. run' = [run EXCEPT ![r] = row]
      BY <1>4
    <3> QED BY <3>2, <3>3
  <2> HIDE DEF row
  <2>4. run'[r] = row /\ worker'[r] = p
    BY <2>1, <2>2, <2>3
  <2>5. Once(r)' /\ Real(r)'
    BY <1>1, <1>4, <2>3, <2>4 DEF Ok, Once, Real, Early, Late, serverVars
  <2>6. Lease(r)'
    BY <1>1, <1>4, <2>3, <2>4 DEF Ok, Lease, HasLease, Live, LiveStates, ActiveStates
  <2>7. Ok(r)'
    BY <2>5, <2>6 DEF Ok
  <2> QED BY <1>1, <1>4, <2>1, <2>2, <2>3, <2>7, RecordKeeps
<1> QED BY <1>2, <1>3, <1>4 DEF StartTurn

LEMMA DispatchKeeps ==
    ASSUME BrokerInv, NEW r \in Req, TurnDispatched(r)
    PROVE  BrokerInv'
<1>1. worker[r] = "loaded" /\ Ok(r) /\ up # "down"
  BY OkRuns, ThreadsUp DEF TurnDispatched
<1>2. CASE ~Live(r) /\ Moves(r, "loaded", "none")
  BY <1>2, MovesKeeps DEF WorkerPoints, Early, Late
<1>3. CASE run[r].status = "cancelling" /\ Moves(r, "loaded", "watching")
  BY <1>3, MovesKeeps DEF WorkerPoints, Early, Late
<1>4. CASE /\ Live(r) /\ run[r].status # "cancelling" /\ run' = [run EXCEPT ![r].turn = "sent"]
           /\ Goto(r, "dispatched")
           /\ UNCHANGED <<admissions, holder, waiting, ahead, authLease, recovery,
                          deferred, buffered, account, canceller, steerer, serverVars, bridgeVars>>
  <2> DEFINE row == [run[r] EXCEPT !.turn = "sent"]
  <2>1. /\ run \in [Req -> Row] /\ worker \in [Req -> WorkerPoints] /\ "dispatched" \in WorkerPoints
        /\ worker' = [worker EXCEPT ![r] = "dispatched"]
    BY <1>4 DEF BrokerInv, Types, LedgerType, ThreadType, WorkerPoints, Goto
  <2>2. /\ row \in Row /\ row.status = run[r].status /\ row.turn = "sent"
        /\ run' = [run EXCEPT ![r] = row]
    BY <1>4, <2>1 DEF Row
  <2> HIDE DEF row
  <2>3. run'[r] = row /\ worker'[r] = "dispatched"
    BY <2>1, <2>2
  <2>4. run[r].status # "queued" /\ run[r].status # "none"
    BY <1>1, <1>4 DEF Ok, Once, Early, Late, WorkerPoints, Live, LiveStates, ActiveStates
  <2>5. Once(r)' /\ Real(r)'
    BY <1>1, <1>4, <2>2, <2>3, <2>4 DEF Ok, Once, Real, Early, Late, serverVars
  <2>6. ASSUME up = "running" PROVE Lease(r)'
    BY <1>1, <1>4, <2>2, <2>3, <2>6 DEF Ok, Lease, HasLease, Live
  <2>7. Ok(r)'
    BY <1>4, <2>5, <2>6 DEF Ok, bridgeVars
  <2> QED BY <1>1, <1>4, <2>1, <2>2, <2>7, RecordKeeps
<1> QED BY <1>2, <1>3, <1>4 DEF TurnDispatched

LEMMA StartKeeps ==
    ASSUME BrokerInv, NEW r \in Req, StartSteps(r)
    PROVE  BrokerInv'
<1>0. Ok(r)
  BY OkRuns
<1>1. CASE WorkerWakes(r)
  <2>1. CASE holder = r /\ Moves(r, "waiting", "woken")
    BY <2>1, MovesKeeps DEF WorkerPoints, Early, Late
  <2>2. CASE Moves(r, "waiting", "expired")
    BY <2>2, MovesKeeps DEF WorkerPoints, Early, Late
  <2> QED BY <1>1, <2>1, <2>2 DEF WorkerWakes
<1>2. CASE WorkerTooLate(r)
  BY <1>2, MovesKeeps DEF WorkerTooLate, WorkerPoints, Early, Late
<1>3. CASE WorkerExpired(r)
  <2>1. worker[r] = "expired"
    BY <1>3 DEF WorkerExpired
  <2>2. CASE /\ Defer(r) /\ Goto(r, "none")
             /\ UNCHANGED <<account, canceller, steerer, serverVars, bridgeVars>>
    BY <2>1, <2>2, DeferKeeps
  <2>3. CASE Ends(r, "none", IF Preserved(r) THEN {} ELSE LiveAmong({r}))
    BY <2>1, <2>3, FailsKeeps
  <2> QED BY <1>3, <2>2, <2>3 DEF WorkerExpired
<1>4. CASE WorkerFenced(r)
  <2>1. CASE Moves(r, "woken", "cleared")
    BY <2>1, MovesKeeps DEF WorkerPoints, Early, Late
  <2>2. CASE /\ worker[r] \in {"woken", "admitted"} /\ Defer(r) /\ Goto(r, "none")
             /\ UNCHANGED <<account, canceller, steerer, serverVars, bridgeVars>>
    BY <2>2, DeferKeeps
  <2> QED BY <1>4, <2>1, <2>2 DEF WorkerFenced
<1>5. CASE WorkerAdmitted(r)
  <2>1. CASE Moves(r, "cleared", "admitted")
    BY <2>1, MovesKeeps DEF WorkerPoints, Early, Late
  <2>2. CASE worker[r] = "cleared" /\ Ends(r, "none", IF Preserved(r) THEN {} ELSE LiveAmong({r}))
    BY <2>2, FailsKeeps
  <2> QED BY <1>5, <2>1, <2>2 DEF WorkerAdmitted
<1>6. CASE ThreadLoaded(r)
  <2>1. worker[r] = "preparing"
    BY <1>6 DEF ThreadLoaded
  <2>2. CASE ~Live(r) /\ Moves(r, "preparing", "none")
    BY <2>2, MovesKeeps DEF WorkerPoints, Early, Late
  <2>3. CASE run[r].status = "cancelling" /\ Ends(r, "none", {r})
    <3>1. Live(r)
      BY <2>3 DEF Live, LiveStates, ActiveStates
    <3> QED BY <2>1, <2>3, <3>1, LeavesKeeps
  <2>4. CASE Moves(r, "preparing", "loaded")
    <3>1. run[r].status # "queued"
      BY <1>0, <2>1 DEF Ok, Once, Early, Late, WorkerPoints
    <3> QED BY <2>4, <3>1, MovesKeeps DEF WorkerPoints, Early, Late
  <2> QED BY <1>6, <2>2, <2>3, <2>4 DEF ThreadLoaded
<1>7. CASE StartFails(r)
  BY <1>7, MovesKeeps DEF StartFails, WorkerPoints, Early, Late
<1> QED BY <1>1, <1>2, <1>3, <1>4, <1>5, <1>6, <1>7, TimesOutKeeps, StartTurnKeeps, DispatchKeeps,
           TurnStartsKeeps DEF StartSteps

\* A turn that is told as over is over in Codex.
LEMMA CompletesKeeps ==
    ASSUME BrokerInv, NEW r \in Req, worker[r] # "none", Live(r), native[r] = "done",
           Completes(r, "none")
    PROVE  BrokerInv'
<1>1. PICK status \in Ended :
        /\ worker' = [worker EXCEPT ![r] = "none"] /\ Terminalize(run, {r}, status)
        /\ UNCHANGED <<account, canceller, steerer, serverVars, bridgeVars>>
  BY DEF Completes, Goto
<1>2. up # "down" /\ {r} \in SUBSET Req
  BY ThreadsUp
<1> QED BY <1>1, <1>2, EndsKeeps

\* The record of a run that has been sent changes, and its worker goes on.
LEMMA RowKeeps ==
    ASSUME BrokerInv, NEW r \in Req, Live(r), run[r].status # "queued",
           NEW row, NEW to \in Late \ {"preparing", "loaded", "dispatched"},
           worker[r] \in Late \cup {"failed"},
           row \in Row, row.status \in ActiveStates, row.gen = run[r].gen,
           row.turn # "unsent", run[r].turn # "unsent" \/ native[r] = "none",
           run' = [run EXCEPT ![r] = row], worker' = [worker EXCEPT ![r] = to],
           UNCHANGED <<admissions, holder, waiting, ahead, authLease, recovery, deferred,
                       buffered, account, canceller, steerer, serverVars, bridgeVars>>
    PROVE  BrokerInv'
<1>1. /\ Ok(r) /\ run \in [Req -> Row] /\ worker \in [Req -> WorkerPoints] /\ to \in WorkerPoints
      /\ run[r].status \in ActiveStates /\ worker[r] # "none"
  BY OkRuns DEF BrokerInv, Types, LedgerType, ThreadType, Late, Early, Live, LiveStates
<1>2. up # "down"
  BY <1>1, ThreadsUp
<1>3. run'[r] = row /\ worker'[r] = to
  BY <1>1
<1>4. Once(r)' /\ Real(r)'
  BY <1>1, <1>3 DEF Ok, Once, Real, Early, Late, ActiveStates, serverVars
<1>5. ASSUME up = "running" PROVE Lease(r)'
  BY <1>1, <1>3, <1>5 DEF Ok, Lease, HasLease, Live, LiveStates, ActiveStates, Early, Late
<1>6. Ok(r)'
  BY <1>4, <1>5 DEF Ok, bridgeVars
<1> QED BY <1>1, <1>2, <1>6, RecordKeeps

\* A turn that has been answered.
TurnSteps(r) ==
    \/ TurnBound(r) \/ TurnReplayed(r) \/ WorkerInterrupts(r) \/ WatchEnds(r) \/ WatchStale(r)
    \/ WatchReconciles(r) \/ WatchGivesUp(r) \/ WorkerAborts(r) \/ WorkerAborted(r)
    \/ WorkerFailed(r)

LEMMA BoundKeeps ==
    ASSUME BrokerInv, NEW r \in Req, TurnBound(r)
    PROVE  BrokerInv'
<1>0. worker[r] = "sent" /\ Ok(r)
  BY OkRuns DEF TurnBound
<1>1. CASE ~Live(r) /\ Moves(r, "sent", "none")
  BY <1>1, MovesKeeps DEF WorkerPoints, Early, Late
<1>2. CASE Live(r) /\ AnsweredAsOver(r) /\ Completes(r, "none")
  BY <1>0, <1>2, CompletesKeeps DEF AnsweredAsOver
<1>3. CASE /\ Live(r)
           /\ run' = [run EXCEPT ![r].turn = "bound",
                                 ![r].status = IF @ = "cancelling" THEN @ ELSE "running"]
           /\ Goto(r, "bound")
           /\ UNCHANGED <<admissions, holder, waiting, ahead, authLease, recovery, deferred,
                          buffered, account, canceller, steerer, serverVars, bridgeVars>>
  <2> DEFINE status == IF run[r].status = "cancelling" THEN run[r].status ELSE "running"
             row == [run[r] EXCEPT !.turn = "bound", !.status = status]
  <2>1. run[r] \in Row /\ run \in [Req -> Row] /\ status \in ActiveStates
    BY DEF BrokerInv, Types, LedgerType, ActiveStates
  <2>2. run' = [run EXCEPT ![r] = row] /\ worker' = [worker EXCEPT ![r] = "bound"]
    BY <1>3, <2>1 DEF Goto
  <2>3. row \in Row /\ row.status \in ActiveStates /\ row.gen = run[r].gen /\ row.turn = "bound"
    <3> HIDE DEF status
    <3> QED BY <2>1 DEF Row, LiveStates
  <2>4. run[r].status # "queued" /\ (run[r].turn # "unsent" \/ native[r] = "none")
    BY <1>0 DEF Ok, Once, Early, Late, WorkerPoints
  <2>5. worker[r] \in Late \cup {"failed"} /\ "bound" \in Late \ {"preparing", "loaded", "dispatched"}
    BY <1>0 DEF Early, Late, WorkerPoints
  <2> HIDE DEF row
  <2> QED BY <1>3, <2>2, <2>3, <2>4, <2>5, RowKeeps
<1> QED BY <1>1, <1>2, <1>3 DEF TurnBound

LEMMA TurnKeeps ==
    ASSUME BrokerInv, NEW r \in Req, TurnSteps(r)
    PROVE  BrokerInv'
<1>0. Ok(r) /\ (worker[r] \in Late => run[r].status # "queued")
  BY OkRuns DEF Ok, Once
<1>1. CASE TurnReplayed(r)
  <2>1. worker[r] = "bound"
    BY <1>1 DEF TurnReplayed
  <2>2. CASE ~Live(r) /\ Moves(r, "bound", "none")
    BY <2>2, MovesKeeps DEF WorkerPoints, Early, Late
  <2>3. CASE Live(r) /\ r \in buffered /\ Completes(r, "none")
    <3>1. native[r] = "done"
      BY <1>0, <2>3 DEF Ok, Real
    <3> QED BY <2>1, <2>3, <3>1, CompletesKeeps
  <2>4. CASE \E to \in {"aborting", "interrupting", "watching"} : Moves(r, "bound", to)
    BY <1>0, <2>1, <2>4, MovesKeeps DEF WorkerPoints, Early, Late
  <2> QED BY <1>1, <2>2, <2>3, <2>4 DEF TurnReplayed
<1>2. CASE WorkerInterrupts(r)
  <2>1. CASE Moves(r, "interrupting", "watching")
    <3>1. worker[r] \in Late
      BY <2>1 DEF Moves, WorkerPoints, Early, Late
    <3> QED BY <1>0, <2>1, <3>1, MovesKeeps DEF WorkerPoints, Early, Late
  <2>2. CASE /\ worker[r] = "interrupting" /\ Goto(r, "watching") /\ Abort(run[r].gen)
             /\ UNCHANGED <<ledgerVars, account, canceller, steerer, gen, bridgeVars>>
    BY <2>2, AbortsKeeps DEF Goto, WorkerPoints, Early, Late
  <2> QED BY <1>2, <2>1, <2>2 DEF WorkerInterrupts
<1>3. CASE WatchEnds(r)
  BY <1>3, MovesKeeps DEF WatchEnds, WorkerPoints, Early, Late
<1>4. CASE WatchStale(r) \/ WatchGivesUp(r)
  <2>1. worker[r] \in Late /\ \E to \in {"stale", "aborting"} : Moves(r, "watching", to)
    BY <1>4 DEF WatchStale, WatchGivesUp, Moves, WorkerPoints, Early, Late
  <2> QED BY <1>0, <2>1, MovesKeeps DEF WorkerPoints, Early, Late
<1>5. CASE WatchReconciles(r)
  <2>1. worker[r] = "stale" /\ Ends(r, "none", Interrupted)
    BY <1>5 DEF WatchReconciles
  <2>2. run[r].status # "queued"
    BY <1>0, <2>1 DEF WorkerPoints, Early, Late
  <2>3. r \in Interrupted \/ ~Live(r)
    BY <2>2 DEF Interrupted, RestartSafe, Unsent
  <2> QED BY <2>1, <2>3, LiveRuns, LeavesKeeps
<1>6. CASE WorkerAborts(r)
  BY <1>6, AbortsKeeps DEF WorkerAborts, Goto, WorkerPoints, Early, Late
<1>7. CASE WorkerAborted(r)
  <2> DEFINE over == QueuedRuns \cup LiveAmong({r})
  <2>1. over \in SUBSET Req /\ (\A s \in over : Live(s)) /\ (r \in over \/ ~Live(r))
    BY LiveRuns DEF LiveAmong
  <2>2. worker[r] = "aborted" /\ Ends(r, "none", over)
    BY <1>7 DEF WorkerAborted
  <2> HIDE DEF over
  <2> QED BY <2>1, <2>2, LeavesKeeps
<1>8. CASE WorkerFailed(r)
  <2>1. CASE run[r].turn # "unsent" /\ Moves(r, "failed", "aborting")
    <3>1. run[r].status # "queued"
      BY <1>0, <2>1 DEF Ok, Once
    <3> QED BY <2>1, <3>1, MovesKeeps DEF WorkerPoints, Early, Late
  <2>2. CASE worker[r] = "failed" /\ Ends(r, "none", IF Preserved(r) THEN {} ELSE LiveAmong({r}))
    BY <2>2, FailsKeeps
  <2> QED BY <1>8, <2>1, <2>2 DEF WorkerFailed
<1> QED BY <1>1, <1>2, <1>3, <1>4, <1>5, <1>6, <1>7, <1>8, BoundKeeps DEF TurnSteps

\* The elapsed-time budget, and what Codex says of a turn.
BudgetSteps(r) == BudgetStop(r) \/ BudgetUnconfirmed(r) \/ StopExpiredStart(r)

LEMMA BudgetKeeps ==
    ASSUME BrokerInv, NEW r \in Req, BudgetSteps(r)
    PROVE  BrokerInv'
<1>0. /\ Ok(r) /\ run[r] \in Row /\ run \in [Req -> Row] /\ worker \in [Req -> WorkerPoints]
      /\ "cancelling" \in ActiveStates
  BY OkRuns DEF BrokerInv, Types, LedgerType, ThreadType, ActiveStates
<1>1. CASE BudgetStop(r)
  <2> DEFINE row == [run[r] EXCEPT !.status = "cancelling", !.stop = "asked"]
  <2>1. /\ worker[r] \in {"bound", "watching"} /\ Live(r) /\ run[r].turn = "bound"
        /\ run' = [run EXCEPT ![r] = row] /\ worker' = [worker EXCEPT ![r] = worker[r]]
        /\ UNCHANGED <<admissions, holder, waiting, ahead, authLease, recovery, deferred, buffered,
                       account, canceller, steerer, serverVars, bridgeVars>>
    BY <1>0, <1>1 DEF BudgetStop
  <2>2. row \in Row /\ row.status \in ActiveStates /\ row.gen = run[r].gen /\ row.turn = run[r].turn
    BY <1>0 DEF Row, LiveStates
  <2>3. run[r].status # "queued" /\ worker[r] \in Late \ {"preparing", "loaded", "dispatched"}
    BY <1>0, <2>1 DEF Ok, Once, WorkerPoints, Early, Late
  <2> HIDE DEF row
  <2> QED BY <2>1, <2>2, <2>3, RowKeeps
<1>2. CASE BudgetUnconfirmed(r)
  <2> DEFINE row == [run[r] EXCEPT !.stop = "unconfirmed"]
  <2>1. /\ worker[r] = "watching" /\ Live(r)
        /\ run' = [run EXCEPT ![r] = row] /\ worker' = [worker EXCEPT ![r] = worker[r]]
        /\ UNCHANGED <<admissions, holder, waiting, ahead, authLease, recovery, deferred, buffered,
                       account, canceller, steerer, serverVars, bridgeVars>>
    BY <1>0, <1>2 DEF BudgetUnconfirmed
  <2>2. /\ row \in Row /\ row.status = run[r].status /\ row.gen = run[r].gen
        /\ row.turn = run[r].turn
    BY <1>0 DEF Row
  <2> HIDE DEF row
  <2>3. run'[r] = row /\ worker'[r] = worker[r] /\ up # "down"
    BY <1>0, <2>1, ThreadsUp
  <2>4. Once(r)' /\ Real(r)'
    BY <1>0, <2>1, <2>2, <2>3 DEF Ok, Once, Real, serverVars
  <2>5. ASSUME up = "running" PROVE Lease(r)'
    BY <1>0, <2>1, <2>2, <2>3, <2>5 DEF Ok, Lease, HasLease, Live
  <2>6. Ok(r)'
    BY <2>1, <2>4, <2>5 DEF Ok, bridgeVars
  <2> QED BY <1>0, <2>1, <2>2, <2>3, <2>6, RecordKeeps
<1>3. CASE StopExpiredStart(r)
  <2> DEFINE next == IF worker[r] = "failed" THEN "watching" ELSE "bound"
  <2>1. /\ worker[r] \in {"failed", "bound"} /\ Live(r) /\ run[r].gen # 0 /\ up # "down"
        /\ next \in {"none", "watching", "bound"} /\ next # "none" /\ "stopped" \in Ended
    BY <1>3 DEF StopExpiredStart, Ended
  <2>2. run[r].status # "queued"
    BY <1>0, <2>1 DEF Ok, Once
  <2>3. CASE \E over \in {Interrupted, {r}} : Ends(r, next, over)
    <3>1. PICK over \in {Interrupted, {r}} : Ends(r, next, over)
      BY <2>3
    <3>2. over \subseteq Req /\ \A s \in over : Live(s)
      BY <2>1, <3>1, LiveRuns
    <3> HIDE DEF next
    <3>3. /\ worker' = [worker EXCEPT ![r] = next] /\ Terminalize(run, over, "stopped")
          /\ UNCHANGED <<account, canceller, steerer, serverVars, bridgeVars>>
      BY <3>1 DEF Ends, Goto
    <3> QED BY <2>1, <2>2, <3>2, <3>3, EndsKeeps
  <2>4. CASE /\ run[r].turn = "sent"
             /\ run' = [run EXCEPT ![r].status = "cancelling", ![r].stop = "unconfirmed"]
             /\ Goto(r, next)
             /\ UNCHANGED <<admissions, holder, waiting, ahead, authLease, recovery,
                            deferred, buffered, account, canceller, steerer, serverVars,
                            bridgeVars>>
    <3> DEFINE row == [run[r] EXCEPT !.status = "cancelling", !.stop = "unconfirmed"]
    <3>1. run' = [run EXCEPT ![r] = row] /\ worker' = [worker EXCEPT ![r] = next]
      BY <1>0, <2>4 DEF Goto
    <3>2. row \in Row /\ row.status \in ActiveStates /\ row.gen = run[r].gen /\ row.turn = run[r].turn
      BY <1>0 DEF Row, LiveStates
    <3>3. /\ next \in Late \ {"preparing", "loaded", "dispatched"}
          /\ worker[r] \in Late \cup {"failed"}
      BY <2>1 DEF WorkerPoints, Early, Late
    <3> HIDE DEF row, next
    <3> QED BY <2>1, <2>2, <2>4, <3>1, <3>2, <3>3, RowKeeps
  <2> QED BY <1>3, <2>3, <2>4 DEF StopExpiredStart
<1> QED BY <1>1, <1>2, <1>3 DEF BudgetSteps

LEMMA WorkerKeeps ==
    ASSUME BrokerInv, NEW r \in Req, Worker(r)
    PROVE  BrokerInv'
BY StartKeeps, TurnKeeps, BudgetKeeps DEF Worker, StartSteps, TurnSteps, BudgetSteps

-----------------------------------------------------------------------------
(* Codex *)

LEMMA CodexKeeps ==
    ASSUME BrokerInv, NEW r \in Req, Codex(r)
    PROVE  BrokerInv'
<1>0. /\ Ok(r) /\ run \in [Req -> Row] /\ Cancelling(run) /\ "stopped" \in Ended
      /\ native \in [Req -> {"none", "running", "done", "lost"}] /\ notices \subseteq Req
      /\ canceller \in [Req -> CancelPoints] /\ ready \in BOOLEAN
  BY OkRuns DEF BrokerInv, Types, LedgerType, ThreadType, ServerType, Cancelling, Ended
<1>1. CASE TurnCompletes(r)
  <2>1. /\ native[r] = "running" /\ native' = [native EXCEPT ![r] = "done"]
        /\ notices' = notices \cup {r}
        /\ UNCHANGED <<ledgerVars, account, worker, canceller, steerer, gen, ready, bridgeVars>>
    BY <1>1 DEF TurnCompletes
  <2>2. /\ Types' /\ holder' \notin waiting' /\ up' = up /\ (up' = "down" => Down')
    BY <1>0, <2>1 DEF BrokerInv, Types, LedgerType, GateType, ThreadType, ServerType, BridgeType,
                      LeaseInv, Down, ledgerVars, bridgeVars
  <2>3. ASSUME NEW s \in Req, s # r PROVE Apart(s)
    BY <1>0, <2>1, <2>3 DEF Apart, KeepsLease, HasLease, ledgerVars
  <2>4. Ok(r)'
    <3>1. Once(r)' /\ Real(r)'
      BY <1>0, <2>1 DEF Ok, Once, Real, ledgerVars
    <3>2. ASSUME up = "running" PROVE Lease(r)'
      BY <1>0, <2>1, <3>2 DEF Ok, Lease, HasLease, Live, ledgerVars
    <3> QED BY <2>2, <3>1, <3>2 DEF Ok
  <2> QED BY <2>2, <2>3, <2>4, ApartKeeps
<1>2. CASE TurnCompleted(r)
  <2>1. /\ up # "down" /\ notices' = notices \ {r} /\ native[r] = "done"
        /\ UNCHANGED <<account, worker, canceller, steerer, gen, ready, native, bridgeVars>>
    BY <1>0, <1>2 DEF TurnCompleted, Ok, Real
  <2>2. CASE UNCHANGED ledgerVars
    <3>1. Types' /\ holder' \notin waiting' /\ up' = up
      BY <2>1, <2>2 DEF BrokerInv, Types, LedgerType, GateType, ThreadType, ServerType, BridgeType,
                        LeaseInv, ledgerVars, bridgeVars
    <3>2. \A s \in Req : Apart(s)
      BY <2>1, <2>2 DEF Apart, KeepsLease, HasLease, ledgerVars
    <3> QED BY <2>1, <3>1, <3>2, ApartKeeps
  <2>3. CASE /\ buffered' = buffered \cup {r}
             /\ UNCHANGED <<run, admissions, holder, waiting, ahead, authLease, recovery, deferred>>
    <3>1. Types' /\ holder' \notin waiting' /\ up' = up
      BY <2>1, <2>3 DEF BrokerInv, Types, LedgerType, GateType, ThreadType, ServerType, BridgeType,
                        LeaseInv, bridgeVars
    <3>2. ASSUME NEW s \in Req, s # r PROVE Apart(s)
      BY <2>1, <2>3, <3>2 DEF Apart, KeepsLease, HasLease
    <3>3. Ok(r)'
      <4>1. Once(r)' /\ Real(r)'
        BY <1>0, <2>1, <2>3 DEF Ok, Once, Real
      <4>2. ASSUME up = "running" PROVE Lease(r)'
        BY <1>0, <2>1, <2>3, <4>2 DEF Ok, Lease, HasLease, Live
      <4> QED BY <3>1, <4>1, <4>2 DEF Ok
    <3> QED BY <2>1, <3>1, <3>2, <3>3, ApartKeeps
  <2>4. CASE Live(r) /\ \E status \in Ended : Terminalize(run, {r}, status)
    <3>1. PICK status \in Ended : Terminalize(run, {r}, status)
      BY <2>4
    <3>2. Losing /\ steerer' \subseteq steerer
      BY <2>1 DEF Losing
    <3>3. \A s \in {r} : Live(s) /\ native[s] = "done"
      BY <2>1, <2>4
    <3> QED BY <1>0, <2>1, <3>1, <3>2, <3>3, StopsKeeps
  <2> QED BY <1>2, <2>2, <2>3, <2>4 DEF TurnCompleted
<1>3. CASE BufferOverflows(r)
  <2> DEFINE over == QueuedRuns \cup {r}
  <2>1. /\ up # "down" /\ Abort(run[r].gen) /\ Terminalize(run, over, "stopped") /\ Live(r)
        /\ UNCHANGED <<account, worker, canceller, steerer, gen, bridgeVars>>
    BY <1>3 DEF BufferOverflows
  <2>2. over \in SUBSET Req /\ \A s \in over : Live(s)
    BY <2>1, LiveRuns
  <2>3. ready' \in BOOLEAN /\ Losing /\ native' \in [Req -> {"none", "running", "done", "lost"}]
    BY <2>1, AbortStep DEF BrokerInv, Types
  <2> HIDE DEF over
  <2> QED BY <1>0, <2>1, <2>2, <2>3, StopsKeeps
<1> QED BY <1>1, <1>2, <1>3 DEF Codex

-----------------------------------------------------------------------------
(* Recovery *)

\* A step of the recovery thread of r.
LEMMA RecoveryStepKeeps ==
    ASSUME BrokerInv, NEW r \in Req, up # "down", NEW row \in Row, NEW point \in WorkerPoints,
           NEW to \in RecoveryPoints,
           run' = [run EXCEPT ![r] = row], worker' = [worker EXCEPT ![r] = point],
           recovery' = [recovery EXCEPT ![r] = to], deferred' \subseteq deferred,
           GateType', holder' \notin waiting', \A s \in Req : s # r => KeepsLease(s),
           UNCHANGED <<admissions, buffered, account, canceller, steerer, serverVars, bridgeVars>>,
           Ok(r)'
    PROVE  BrokerInv'
<1>1. /\ run \in [Req -> Row] /\ worker \in [Req -> WorkerPoints]
      /\ recovery \in [Req -> RecoveryPoints]
  BY DEF BrokerInv, Types, LedgerType, ThreadType
<1>2. Types' /\ up' = up
  BY <1>1 DEF BrokerInv, Types, LedgerType, ThreadType, ServerType, BridgeType,
              serverVars, bridgeVars
<1>3. ASSUME NEW s \in Req, s # r PROVE Apart(s)
  BY <1>1, <1>3 DEF Apart, serverVars
<1> QED BY <1>2, <1>3, ApartKeeps

LEMMA RecoveryEndsKeeps ==
    ASSUME BrokerInv, NEW r \in Req, recovery[r] \in {"checking", "ready", "claimed"}, up = "running",
           NEW leases, IF recovery[r] = "claimed" THEN leases = {r} ELSE leases = {},
           RecoveryEnds(r, leases)
    PROVE  BrokerInv'
<1> DEFINE row == End(run[r], "stopped")
<1>1. /\ run' = [run EXCEPT ![r] = row] /\ Release(leases)
      /\ recovery' = [recovery EXCEPT ![r] = "leaving"]
      /\ UNCHANGED <<admissions, deferred, buffered, account, worker, canceller, steerer,
                     serverVars, bridgeVars>>
  BY DEF RecoveryEnds
<1>2. /\ Ok(r) /\ run \in [Req -> Row] /\ worker \in [Req -> WorkerPoints]
      /\ recovery \in [Req -> RecoveryPoints] /\ "leaving" \in RecoveryPoints
      /\ worker' = [worker EXCEPT ![r] = worker[r]]
  BY <1>1, OkRuns DEF BrokerInv, Types, LedgerType, ThreadType, RecoveryPoints
<1>3. /\ row \in Row /\ row.status = "stopped" /\ row.turn = run[r].turn /\ row.gen = run[r].gen
  BY <1>2, EndRow DEF Ended
<1>4. /\ GateType' /\ holder' \notin waiting' /\ \A s \in Req : s # r => KeepsLease(s)
      /\ IF recovery[r] = "claimed" THEN ~HasLease(r)' ELSE HasLease(r)' => HasLease(r)
  BY <1>1, ReleaseStep DEF BrokerInv, Types, LedgerType, LeaseInv, KeepsLease
<1> HIDE DEF row
<1>5. run'[r] = row /\ recovery'[r] = "leaving" /\ worker'[r] = worker[r]
  BY <1>1, <1>2
<1>6. Once(r)' /\ Real(r)'
  BY <1>1, <1>2, <1>3, <1>5 DEF Ok, Once, Real, serverVars
<1>7. Lease(r)'
  <2>1. Lease(r) /\ worker[r] = "none" /\ r \notin admissions
    BY <1>2 DEF Ok, Lease
  <2>2. ~HasLease(r)'
    BY <1>4, <2>1 DEF Lease
  <2> QED BY <1>1, <1>3, <1>5, <2>1, <2>2 DEF Lease, Live, LiveStates, ActiveStates
<1>8. Ok(r)'
  BY <1>6, <1>7 DEF Ok
<1> QED BY <1>1, <1>2, <1>3, <1>4, <1>8, RecoveryStepKeeps

LEMMA RecoveryMovesKeeps ==
    ASSUME BrokerInv, NEW r \in Req, NEW to \in RecoveryPoints \ {"none", "claimed"},
           recovery[r] \in {"checking", "ready"}, RecoveryMoves(r, to)
    PROVE  BrokerInv'
<1>1. /\ recovery' = [recovery EXCEPT ![r] = to]
      /\ UNCHANGED <<run, admissions, holder, waiting, ahead, authLease, deferred, buffered,
                     account, worker, canceller, steerer, serverVars, bridgeVars>>
  BY DEF RecoveryMoves
<1>2. /\ Ok(r) /\ up # "down" /\ run \in [Req -> Row] /\ worker \in [Req -> WorkerPoints]
      /\ recovery \in [Req -> RecoveryPoints]
      /\ run' = [run EXCEPT ![r] = run[r]] /\ worker' = [worker EXCEPT ![r] = worker[r]]
  BY <1>1, OkRuns, ThreadsUp DEF BrokerInv, Types, LedgerType, ThreadType
<1>3. GateType' /\ holder' \notin waiting' /\ \A s \in Req : KeepsLease(s)
  BY <1>1 DEF BrokerInv, Types, LedgerType, GateType, LeaseInv, KeepsLease, HasLease
<1>4. recovery'[r] = to
  BY <1>1, <1>2
<1>5. Once(r)' /\ Real(r)'
  BY <1>1, <1>2 DEF Ok, Once, Real, serverVars
<1>6. ASSUME up = "running" PROVE Lease(r)'
  BY <1>1, <1>2, <1>4, <1>6 DEF Ok, Lease, HasLease, Live
<1>7. Ok(r)'
  BY <1>1, <1>5, <1>6 DEF Ok, bridgeVars
<1>8. run[r] \in Row /\ worker[r] \in WorkerPoints
  BY <1>2
<1> QED BY <1>1, <1>2, <1>3, <1>7, <1>8, RecoveryStepKeeps

LEMMA RecoveryReservesKeeps ==
    ASSUME BrokerInv, NEW r \in Req, recovery[r] = "ready", Recoverable(r), Reserve(r),
           recovery' = [recovery EXCEPT ![r] = "claimed"],
           UNCHANGED <<run, admissions, deferred, buffered, account, worker, canceller, steerer,
                       serverVars, bridgeVars>>
    PROVE  BrokerInv'
<1>1. /\ Ok(r) /\ up = "running" /\ Lease(r) /\ run \in [Req -> Row] /\ worker \in [Req -> WorkerPoints]
      /\ recovery \in [Req -> RecoveryPoints] /\ "claimed" \in RecoveryPoints
      /\ run' = [run EXCEPT ![r] = run[r]] /\ worker' = [worker EXCEPT ![r] = worker[r]]
      /\ run[r].status = "queued"
  BY OkRuns DEF BrokerInv, Types, LedgerType, ThreadType, RecoveryPoints, Ok, Recoverable,
                RestartSafe, Unsent
<1>2. ~HasLease(r)
  BY <1>1 DEF Lease
<1>3. /\ GateType' /\ holder' \notin waiting' /\ \A s \in Req : s # r => KeepsLease(s)
  BY <1>2, ReserveStep DEF BrokerInv, Types, LedgerType, LeaseInv
<1>4. recovery'[r] = "claimed"
  BY <1>1
<1>5. Once(r)' /\ Real(r)'
  BY <1>1 DEF Ok, Once, Real, serverVars
<1>6. Lease(r)'
  BY <1>1, <1>4 DEF Lease, Live, ActiveStates
<1>7. Ok(r)'
  BY <1>5, <1>6 DEF Ok
<1>8. run[r] \in Row /\ worker[r] \in WorkerPoints
  BY <1>1
<1> QED BY <1>1, <1>3, <1>7, <1>8, RecoveryStepKeeps

\* The recovery thread gives its lease back, or hands it to a worker.
LEMMA RecoveryClaimsKeeps ==
    ASSUME BrokerInv, NEW r \in Req, RecoveryClaims(r)
    PROVE  BrokerInv'
<1>0. /\ recovery[r] = "claimed" /\ Ok(r) /\ up # "down" /\ run \in [Req -> Row]
      /\ worker \in [Req -> WorkerPoints] /\ recovery \in [Req -> RecoveryPoints]
      /\ {"checking", "leaving"} \subseteq RecoveryPoints /\ "waiting" \in WorkerPoints
      /\ run[r] \in Row /\ worker[r] \in WorkerPoints
  BY OkRuns, ThreadsUp DEF RecoveryClaims, BrokerInv, Types, LedgerType, ThreadType,
                           RecoveryPoints, WorkerPoints
<1>1. CASE /\ Release({r})
           /\ recovery' = [recovery EXCEPT ![r] = IF Recoverable(r) THEN "checking" ELSE "leaving"]
           /\ UNCHANGED <<run, admissions, deferred, buffered, account, worker, canceller,
                          steerer, serverVars, bridgeVars>>
  <2> DEFINE to == IF Recoverable(r) THEN "checking" ELSE "leaving"
  <2>1. /\ to \in RecoveryPoints /\ to \in {"checking", "leaving"}
        /\ recovery' = [recovery EXCEPT ![r] = to]
    BY <1>0, <1>1
  <2> HIDE DEF to
  <2>2. /\ run' = [run EXCEPT ![r] = run[r]] /\ worker' = [worker EXCEPT ![r] = worker[r]]
        /\ recovery'[r] = to /\ deferred' \subseteq deferred
    BY <1>0, <1>1, <2>1
  <2>3. /\ GateType' /\ holder' \notin waiting' /\ \A s \in Req : s # r => KeepsLease(s)
        /\ ~HasLease(r)'
    BY <1>1, ReleaseStep DEF BrokerInv, Types, LedgerType, LeaseInv
  <2>4. Once(r)' /\ Real(r)'
    BY <1>0, <1>1 DEF Ok, Once, Real, serverVars
  <2>5. ASSUME up = "running" PROVE Lease(r)'
    BY <1>0, <1>1, <2>1, <2>2, <2>3, <2>5 DEF Ok, Lease, Live
  <2>6. Ok(r)'
    BY <1>1, <2>4, <2>5 DEF Ok, bridgeVars
  <2>7. UNCHANGED <<admissions, buffered, account, canceller, steerer, serverVars, bridgeVars>>
    BY <1>1
  <2>8. /\ up # "down" /\ run[r] \in Row /\ worker[r] \in WorkerPoints
        /\ \A s \in Req : s # r => KeepsLease(s)
    BY <1>0, <2>3
  <2>9. /\ to \in RecoveryPoints /\ recovery' = [recovery EXCEPT ![r] = to]
        /\ GateType' /\ holder' \notin waiting' /\ deferred' \subseteq deferred
    BY <2>1, <2>2, <2>3
  <2> QED BY <2>2, <2>6, <2>7, <2>8, <2>9, RecoveryStepKeeps
<1>2. CASE Recoverable(r) /\ RecoveryEnds(r, {r})
  BY <1>0, <1>2, RecoveryEndsKeeps DEF Recoverable
<1>3. CASE /\ Recoverable(r) /\ deferred' = deferred \ {r}
           /\ worker' = [worker EXCEPT ![r] = "waiting"]
           /\ recovery' = [recovery EXCEPT ![r] = "leaving"]
           /\ UNCHANGED <<run, admissions, holder, waiting, ahead, authLease, buffered, account,
                          canceller, steerer, serverVars, bridgeVars>>
  <2>1. /\ run' = [run EXCEPT ![r] = run[r]] /\ worker'[r] = "waiting" /\ recovery'[r] = "leaving"
        /\ deferred' \subseteq deferred /\ r \notin deferred'
    BY <1>0, <1>3
  <2>2. GateType' /\ holder' \notin waiting' /\ \A s \in Req : KeepsLease(s)
    BY <1>3 DEF BrokerInv, Types, LedgerType, GateType, LeaseInv, KeepsLease, HasLease
  <2>3. run[r].status = "queued" /\ up = "running" /\ Lease(r)
    BY <1>0, <1>3 DEF Recoverable, RestartSafe, Unsent, Ok
  <2>4. Once(r)' /\ Real(r)'
    BY <1>0, <1>3, <2>1, <2>3 DEF Ok, Once, Real, Early, Late, serverVars
  <2>5. Lease(r)'
    BY <1>3, <2>1, <2>3 DEF Lease, Live, LiveStates, ActiveStates
  <2>6. Ok(r)'
    BY <2>4, <2>5 DEF Ok
  <2>7. "waiting" \in WorkerPoints /\ "leaving" \in RecoveryPoints
    BY <1>0
  <2> QED BY <1>0, <1>3, <2>1, <2>2, <2>6, <2>7, RecoveryStepKeeps
<1> QED BY <1>1, <1>2, <1>3 DEF RecoveryClaims

LEMMA RecoveryKeeps ==
    ASSUME BrokerInv, NEW r \in Req, Recovery(r)
    PROVE  BrokerInv'
<1>0. {"leaving", "checking", "ready"} \subseteq RecoveryPoints \ {"none", "claimed"}
  BY DEF RecoveryPoints
<1>1. CASE RecoveryChecks(r)
  <2>1. CASE \E to \in {"leaving", "ready"} : recovery[r] = "checking" /\ RecoveryMoves(r, to)
    BY <1>0, <2>1, RecoveryMovesKeeps
  <2>2. CASE recovery[r] = "checking" /\ Recoverable(r) /\ RecoveryEnds(r, {})
    BY <2>2, RecoveryEndsKeeps DEF Recoverable
  <2> QED BY <1>1, <2>1, <2>2 DEF RecoveryChecks
<1>2. CASE RecoveryReserves(r)
  <2>1. CASE \E to \in {"leaving", "checking"} : recovery[r] = "ready" /\ RecoveryMoves(r, to)
    BY <1>0, <2>1, RecoveryMovesKeeps
  <2>2. CASE /\ recovery[r] = "ready" /\ Recoverable(r) /\ Reserve(r)
             /\ recovery' = [recovery EXCEPT ![r] = "claimed"]
             /\ UNCHANGED <<run, admissions, deferred, buffered, account, worker,
                            canceller, steerer, serverVars, bridgeVars>>
    BY <2>2, RecoveryReservesKeeps
  <2> QED BY <1>2, <2>1, <2>2 DEF RecoveryReserves
<1>3. CASE RecoveryExpires(r)
  <2> DEFINE leases == IF recovery[r] = "claimed" THEN {r} ELSE {}
  <2>1. /\ recovery[r] \in {"checking", "ready", "claimed"} /\ up = "running"
        /\ RecoveryEnds(r, leases)
        /\ IF recovery[r] = "claimed" THEN leases = {r} ELSE leases = {}
    BY <1>3 DEF RecoveryExpires, Recoverable
  <2> HIDE DEF leases
  <2> QED BY <2>1, RecoveryEndsKeeps
<1>4. CASE RecoveryLeaves(r)
  <2>0. /\ recovery[r] = "leaving" /\ Ok(r) /\ up # "down" /\ run \in [Req -> Row]
        /\ worker \in [Req -> WorkerPoints] /\ recovery \in [Req -> RecoveryPoints]
        /\ run[r] \in Row /\ worker[r] \in WorkerPoints /\ "none" \in RecoveryPoints
    BY <1>4, OkRuns, ThreadsUp DEF RecoveryLeaves, BrokerInv, Types, LedgerType, ThreadType,
                                   RecoveryPoints
  <2>1. /\ recovery' = [recovery EXCEPT ![r] = "none"] /\ deferred' \subseteq deferred
        /\ UNCHANGED <<run, admissions, holder, waiting, ahead, authLease, buffered, account,
                       worker, canceller, steerer, serverVars, bridgeVars>>
        /\ run' = [run EXCEPT ![r] = run[r]] /\ worker' = [worker EXCEPT ![r] = worker[r]]
    BY <1>4, <2>0 DEF RecoveryLeaves
  <2>2. GateType' /\ holder' \notin waiting' /\ \A s \in Req : KeepsLease(s)
    BY <2>1 DEF BrokerInv, Types, LedgerType, GateType, LeaseInv, KeepsLease, HasLease
  <2>3. recovery'[r] = "none"
    BY <2>0, <2>1
  <2>4. Once(r)' /\ Real(r)'
    BY <2>0, <2>1 DEF Ok, Once, Real, serverVars
  <2>5. ASSUME up = "running" PROVE Lease(r)'
    BY <2>0, <2>1, <2>3, <2>5 DEF Ok, Lease, HasLease, Live
  <2>6. Ok(r)'
    BY <2>1, <2>4, <2>5 DEF Ok, bridgeVars
  <2> QED BY <2>0, <2>1, <2>2, <2>6, RecoveryStepKeeps
<1> QED BY <1>1, <1>2, <1>3, <1>4, RecoveryClaimsKeeps DEF Recovery

-----------------------------------------------------------------------------
(* The process, the account and the Bridge itself *)

LEMMA ProcessKeeps ==
    ASSUME BrokerInv, ProcessDies \/ ProcessStarts \/ AccountChangeBegins \/ AccountChanges
                      \/ AccountFailsClosed
    PROVE  BrokerInv'
<1>0. Types /\ ServerType /\ BrokerAssumption
  BY BrokerAssumption DEF BrokerInv, Types
<1>1. CASE ProcessDies
  <2>1. ready' \in BOOLEAN /\ native' \in [Req -> {"none", "running", "done", "lost"}] /\ Losing
    <3>1. native' = [s \in Req |-> IF native[s] = "running" THEN "lost" ELSE native[s]]
      BY <1>1 DEF ProcessDies, LoseProcess
    <3> QED BY <1>0, <1>1, <3>1 DEF ProcessDies, LoseProcess, ServerType, Losing
  <2> QED BY <1>0, <1>1, <2>1, QuietKeeps DEF ProcessDies, Types, ThreadType
<1>2. CASE ProcessStarts
  <2>1. gen' \in 0..MaxGen
    BY <1>0, <1>2 DEF ProcessStarts, ServerType, BrokerAssumption
  <2>2. Types' /\ holder' \notin waiting' /\ up' = up /\ up # "down"
    BY <1>0, <1>2, <2>1 DEF ProcessStarts, BrokerInv, Types, LedgerType, GateType, ThreadType,
                            ServerType, BridgeType, LeaseInv, ledgerVars, bridgeVars
  <2>3. \A s \in Req : Apart(s)
    BY <1>2 DEF ProcessStarts, Apart, KeepsLease, HasLease, ledgerVars
  <2> QED BY <2>2, <2>3, ApartKeeps
<1>3. CASE AccountChangeBegins \/ AccountChanges \/ AccountFailsClosed
  <2>1. /\ account' \in Account \cup {None} /\ authLease' \in BOOLEAN
        /\ UNCHANGED <<run, admissions, holder, waiting, ahead, recovery, deferred, buffered,
                       worker, canceller, steerer, serverVars, bridgeVars>>
    BY <1>0, <1>3 DEF AccountChangeBegins, AccountChanges, AccountFailsClosed, Types, ThreadType,
                      LedgerType, GateType, ledgerVars
  <2>2. Types' /\ holder' \notin waiting' /\ up' = up /\ (up' = "down" => Down')
    BY <1>0, <2>1 DEF BrokerInv, Types, LedgerType, GateType, ThreadType, ServerType, BridgeType,
                      LeaseInv, Down, serverVars, bridgeVars
  <2>3. \A s \in Req : Apart(s)
    BY <2>1 DEF Apart, KeepsLease, HasLease, serverVars
  <2> QED BY <2>2, <2>3, ApartKeeps
<1> QED BY <1>1, <1>2, <1>3

\* Runs that are ended when the Bridge stops or starts.
LEMMA EndedRuns ==
    ASSUME BrokerInv, NEW over,
           run' = [r \in Req |-> IF r \in over THEN End(run[r], "stopped") ELSE run[r]]
    PROVE  /\ run' \in [Req -> Row]
           /\ \A r \in Req : /\ run'[r].turn = run[r].turn /\ run'[r].gen = run[r].gen
                             /\ r \in over => run'[r].status = "stopped"
                             /\ r \notin over => run'[r] = run[r]
<1>1. run \in [Req -> Row] /\ "stopped" \in Ended
  BY DEF BrokerInv, Types, LedgerType, Ended
<1> QED BY <1>1, EndRow

LEMMA CloseKeeps ==
    ASSUME BrokerInv, Close
    PROVE  BrokerInv'
<1> DEFINE kept == {r \in QueuedRuns : run[r].mode = "queue"}
           over == LiveAmong(Req) \ kept
           leases == {r \in over \cup kept \cup admissions : recovery[r] # "claimed"}
<1>1. /\ up = "running" /\ stops < MaxStops /\ up' = "closed" /\ stops' = stops + 1
      /\ run' = [r \in Req |-> IF r \in over THEN End(run[r], "stopped") ELSE run[r]]
      /\ Release(leases) /\ buffered' = buffered \ over /\ admissions' = {}
      /\ UNCHANGED <<recovery, deferred, settled, account, worker, canceller, steerer, serverVars>>
  BY DEF Close
<1> HIDE DEF leases, over
<1>2. GateType' /\ holder' \notin waiting'
  BY <1>1, ReleaseStep DEF BrokerInv, Types, LedgerType, LeaseInv
<1>3. stops' \in 0..MaxStops
  BY <1>1, BrokerAssumption DEF BrokerInv, Types, BridgeType
<1>4. Types'
  BY <1>1, <1>2, <1>3, EndedRuns DEF BrokerInv, Types, LedgerType, ThreadType, ServerType,
                                     BridgeType, serverVars
<1>5. ASSUME NEW r \in Req PROVE Once(r)' /\ Real(r)'
  <2>0. Ok(r)
    BY OkRuns
  <2>1. /\ run'[r].turn = run[r].turn /\ run'[r].gen = run[r].gen
        /\ run'[r].status = "stopped" \/ run'[r] = run[r]
    BY <1>1, EndedRuns
  <2> QED BY <1>1, <2>0, <2>1 DEF Ok, Once, Real, serverVars
<1> QED BY <1>1, <1>2, <1>4, <1>5 DEF BrokerInv, OnceInv, RealInv, LeaseInv

LEMMA GoneKeeps ==
    ASSUME BrokerInv, Gone, stops' \in 0..MaxStops
    PROVE  BrokerInv'
<1>1. /\ native \in [Req -> {"none", "running", "done", "lost"}] /\ settled' = FALSE
      /\ native' = [r \in Req |-> IF native[r] = "running" THEN "lost" ELSE native[r]]
      /\ notices' = {} /\ buffered' = {} /\ run' = run /\ worker' = Idle
  BY DEF Gone, BrokerInv, Types, ServerType
<1>2. Types'
  <2>1. LedgerType'
    BY DEF Gone, BrokerInv, Types, LedgerType, GateType, Idle, RecoveryPoints
  <2>2. ThreadType'
    BY DEF Gone, BrokerInv, Types, ThreadType, Idle, WorkerPoints, CancelPoints
  <2>3. 0 \in 0..MaxGen /\ gen' = 0 /\ ready' = FALSE /\ up' = "down"
    BY BrokerAssumption DEF Gone
  <2>4. ServerType' /\ BridgeType'
    BY <1>1, <2>3 DEF ServerType, BridgeType
  <2> QED BY <2>1, <2>2, <2>4 DEF Types
<1>3. ASSUME NEW r \in Req PROVE Once(r)' /\ Real(r)'
  BY <1>1, OkRuns DEF Ok, Once, Real, Idle, Early, Late
<1>4. LeaseInv'
  BY DEF Gone, LeaseInv, Down
<1> QED BY <1>2, <1>3, <1>4 DEF BrokerInv, OnceInv, RealInv

LEMMA BootKeeps ==
    ASSUME BrokerInv, Start
    PROVE  BrokerInv'
<1>1. /\ Down /\ up' = "running" /\ gen' = 1 /\ ready' = TRUE
      /\ run' = [r \in Req |-> IF r \in Interrupted THEN End(run[r], "stopped") ELSE run[r]]
      /\ deferred' = {r \in Req : RestartSafe(run[r])}
      /\ UNCHANGED <<admissions, holder, waiting, ahead, authLease, recovery, buffered, settled,
                     account, worker, canceller, steerer, native, notices, stops>>
  BY DEF Start, BrokerInv, LeaseInv
<1>2. /\ run' \in [Req -> Row]
      /\ \A r \in Req : /\ run'[r].turn = run[r].turn /\ run'[r].gen = run[r].gen
                        /\ r \in Interrupted => run'[r].status = "stopped"
                        /\ r \notin Interrupted => run'[r] = run[r]
  BY <1>1, EndedRuns
<1>3. Types'
  <2>1. 1 \in 0..MaxGen
    BY BrokerAssumption
  <2>2. LedgerType' /\ ThreadType'
    BY <1>1, <1>2 DEF BrokerInv, Types, LedgerType, GateType, ThreadType
  <2>3. ServerType' /\ BridgeType'
    BY <1>1, <2>1 DEF BrokerInv, Types, ServerType, BridgeType
  <2> QED BY <2>2, <2>3 DEF Types
<1>4. ASSUME NEW r \in Req PROVE Ok(r)'
  <2>0. Ok(r) /\ worker[r] = "none" /\ recovery[r] = "none" /\ ~HasLease(r) /\ r \notin admissions
    BY <1>1, OkRuns, BrokerAssumption DEF Down, Idle, HasLease
  <2>1. r \in Interrupted <=> Live(r) /\ ~RestartSafe(run[r])
    BY DEF Interrupted
  <2>2. /\ run'[r].turn = run[r].turn /\ run'[r].gen = run[r].gen
        /\ run'[r].status = "stopped" \/ (run'[r] = run[r] /\ (Live(r) => RestartSafe(run[r])))
    BY <1>2, <2>1
  <2>3. Once(r)' /\ Real(r)'
    BY <1>1, <2>0, <2>2 DEF Ok, Once, Real, Early, Late
  <2>4. Lease(r)'
    <3>1. run'[r].status \notin ActiveStates
      BY <2>2 DEF Live, LiveStates, ActiveStates, RestartSafe, Unsent
    <3>2. r \in deferred' => run'[r].status # "none"
      <4>1. r \in deferred' => run[r].status = "queued"
        BY <1>1 DEF RestartSafe, Unsent
      <4> QED BY <2>2, <4>1
    <3>3. ~HasLease(r)' /\ worker'[r] = "none" /\ recovery'[r] = "none" /\ r \notin admissions'
      BY <1>1, <2>0 DEF HasLease
    <3> QED BY <3>1, <3>2, <3>3 DEF Lease
  <2> QED BY <2>3, <2>4 DEF Ok
<1>5. holder' \notin waiting'
  BY <1>1 DEF Down
<1> QED BY <1>1, <1>3, <1>4, <1>5 DEF BrokerInv, OnceInv, RealInv, LeaseInv, Ok

LEMMA ResumeKeeps ==
    ASSUME BrokerInv, ResumeRecovered
    PROVE  BrokerInv'
<1>1. PICK late \in SUBSET Resumable(run) :
        /\ run' = [r \in Req |-> IF r \in late THEN End(run[r], "stopped") ELSE run[r]]
        /\ Resume(run, late)
  BY DEF ResumeRecovered
<1>2. /\ up = "running" /\ up' = up /\ stops' = stops /\ settled' = TRUE
      /\ UNCHANGED <<admissions, holder, waiting, ahead, authLease, buffered, account, worker,
                     canceller, steerer, serverVars>>
  BY DEF ResumeRecovered
<1>3. /\ run' \in [Req -> Row]
      /\ \A r \in Req : /\ run'[r].turn = run[r].turn /\ run'[r].gen = run[r].gen
                        /\ r \in late => run'[r].status = "stopped"
                        /\ r \notin late => run'[r] = run[r]
  BY <1>1, EndedRuns
<1>4. \A r \in Resumable(run) : r \in deferred /\ run[r].status = "queued"
  BY DEF Resumable, RestartSafe, Unsent
<1>5. /\ recovery' \in [Req -> RecoveryPoints] /\ deferred' \subseteq deferred
      /\ \A r \in Req : \/ recovery'[r] = recovery[r]
                        \/ recovery[r] = "none" /\ recovery'[r] = "checking" /\ r \in deferred
  <2>1. recovery' = [r \in Req |-> IF r \in Resumable(run) \ late /\ recovery[r] = "none"
                                     THEN "checking" ELSE recovery[r]]
        /\ deferred' \subseteq deferred
    BY <1>1 DEF Resume
  <2>2. recovery \in [Req -> RecoveryPoints] /\ "checking" \in RecoveryPoints
    BY DEF BrokerInv, Types, LedgerType, RecoveryPoints
  <2> QED BY <1>4, <2>1, <2>2
<1>6. Types'
  <2>1. LedgerType' /\ ThreadType'
    BY <1>2, <1>3, <1>5 DEF BrokerInv, Types, LedgerType, GateType, ThreadType
  <2>2. ServerType' /\ BridgeType'
    BY <1>2 DEF BrokerInv, Types, ServerType, BridgeType, serverVars
  <2> QED BY <2>1, <2>2 DEF Types
<1>7. ASSUME NEW r \in Req PROVE Ok(r)'
  <2>0. Ok(r) /\ Lease(r) /\ worker'[r] = worker[r]
    BY <1>2, OkRuns DEF Ok
  <2>1. /\ run'[r].turn = run[r].turn /\ run'[r].gen = run[r].gen
        /\ \/ run'[r] = run[r] /\ r \notin late
           \/ run'[r].status = "stopped" /\ run[r].status = "queued" /\ r \in deferred
    BY <1>1, <1>3, <1>4
  <2>2. Once(r)' /\ Real(r)'
    BY <1>2, <2>0, <2>1 DEF Ok, Once, Real, serverVars, Early, Late
  <2>3. Lease(r)'
    <3>1. CASE run'[r] = run[r] /\ r \notin late
      BY <1>2, <1>5, <2>0, <3>1 DEF Lease, HasLease, Live
    <3>2. CASE run'[r].status = "stopped" /\ run[r].status = "queued" /\ r \in deferred
      <4>1. worker'[r] = "none" /\ r \notin admissions /\ (HasLease(r) => recovery[r] = "claimed")
        BY <2>0, <3>2 DEF Lease
      <4>2. HasLease(r)' => HasLease(r) /\ recovery'[r] = "claimed"
        BY <1>2, <1>5, <4>1 DEF HasLease
      <4> QED BY <1>2, <3>2, <4>1, <4>2 DEF Lease, ActiveStates
    <3> QED BY <2>1, <3>1, <3>2
  <2> QED BY <2>2, <2>3 DEF Ok
<1> QED BY <1>2, <1>6, <1>7 DEF BrokerInv, OnceInv, RealInv, LeaseInv, Ok

LEMMA BrokerInit == Init => BrokerInv
<1> SUFFICES ASSUME Init PROVE BrokerInv
  OBVIOUS
<1>1. Types
  <2>1. 0 \in 0..MaxStops /\ 1 \in 0..MaxGen
    BY BrokerAssumption
  <2>2. LedgerType
    BY NoRunRow DEF Init, LedgerType, GateType, Idle, RecoveryPoints
  <2>3. ThreadType
    BY DEF Init, ThreadType, Idle, WorkerPoints, CancelPoints
  <2>4. ServerType /\ BridgeType
    BY <2>1 DEF Init, ServerType, BridgeType, Idle
  <2> QED BY <2>2, <2>3, <2>4 DEF Types
<1>2. ASSUME NEW r \in Req PROVE Once(r) /\ Real(r) /\ Lease(r)
  <2>1. run[r].turn = "unsent" /\ run[r].gen = 0 /\ run[r].status = "none"
    BY DEF Init, NoRun
  <2>2. /\ worker[r] = "none" /\ recovery[r] = "none" /\ native[r] = "none" /\ ~HasLease(r)
        /\ r \notin admissions \cup deferred \cup notices \cup buffered
    BY BrokerAssumption DEF Init, Idle, HasLease
  <2> QED BY <2>1, <2>2 DEF Once, Real, Lease, Early, Late, ActiveStates
<1>3. holder \notin waiting /\ up = "running"
  BY DEF Init
<1> QED BY <1>1, <1>2, <1>3 DEF BrokerInv, OnceInv, RealInv, LeaseInv

LEMMA BrokerNext == BrokerInv /\ [Next]_vars => BrokerInv'
<1> SUFFICES ASSUME BrokerInv, [Next]_vars PROVE BrokerInv'
  OBVIOUS
<1>1. CASE \E r \in Req : User(r) \/ Request(r) \/ Worker(r) \/ Recovery(r) \/ Codex(r)
  BY <1>1, UserKeeps, RequestKeeps, WorkerKeeps, RecoveryKeeps, CodexKeeps
<1>2. CASE ProcessDies \/ ProcessStarts \/ AccountChangeBegins \/ AccountChanges \/ AccountFailsClosed
  BY <1>2, ProcessKeeps
<1>3. CASE Exit \/ Crash
  <2>1. Gone /\ stops' \in 0..MaxStops
    BY <1>3, BrokerAssumption DEF Exit, Crash, BrokerInv, Types, BridgeType
  <2> QED BY <2>1, GoneKeeps
<1>4. CASE UNCHANGED vars
  <2>1. /\ Types' /\ holder' \notin waiting' /\ up' = up /\ (up' = "down" => Down')
    BY <1>4 DEF vars, ledgerVars, serverVars, bridgeVars, BrokerInv, Types, LedgerType, GateType,
                ThreadType, ServerType, BridgeType, LeaseInv, Down
  <2>2. \A s \in Req : Apart(s)
    BY <1>4 DEF vars, ledgerVars, serverVars, Apart, KeepsLease, HasLease
  <2> QED BY <2>1, <2>2, ApartKeeps
<1> QED BY <1>1, <1>2, <1>3, <1>4, CloseKeeps, BootKeeps, ResumeKeeps DEF Next, Environment

\* Nothing of the Bridge goes wrong with what the theorems below say of it:
\* how far each prompt has come on its way to Codex (OnceInv), what the broker
\* was told of the end of a turn (RealInv), and who holds a lease and will give
\* it back (LeaseInv), through every handler of runtime_broker.py, every failure
\* of the app-server, and every crash and restart of the Bridge.
THEOREM BrokerInvariant == Spec => []BrokerInv
<1>1. BrokerInv /\ [Next]_vars => BrokerInv'
  BY BrokerNext
<1> QED BY BrokerInit, <1>1, PTL DEF Spec

\* The run records, the gate, the thread positions and the generations stay in
\* their domains, for any number of requests, chats, accounts and restarts.
THEOREM BrokerTypeCorrect == Spec => []TypeOK
<1>1. BrokerInv => TypeOK
  BY DEF BrokerInv, Types, LedgerType, GateType, ThreadType, ServerType, BridgeType, TypeOK, Row
<1> QED BY BrokerInvariant, <1>1, PTL

\* runtime_broker.py reports a run as completed only if its turn ended in Codex:
\* early and late notifications, replayed callbacks and answers that are already
\* over never complete a run whose turn was lost or never started.
THEOREM BrokerCompletedIsReal == Spec => []CompletedIsReal
<1>1. BrokerInv => CompletedIsReal
  BY DEF BrokerInv, RealInv, Real, CompletedIsReal
<1> QED BY BrokerInvariant, <1>1, PTL

\* While the Bridge runs, an active run holds the gate's only slot, and every
\* lease in the gate belongs to a live run with a worker, to a recovery thread
\* or to an admission that will give it back: _terminalize_locked, the fence of
\* an unconfirmed stop, shutdown and recovery neither leak a lease nor drop one.
THEOREM BrokerLeaseOwned == Spec => []LeaseOwned
<1>1. BrokerInv => LeaseOwned
  BY DEF BrokerInv, LeaseInv, Lease, LeaseOwned
<1> QED BY BrokerInvariant, <1>1, PTL

-----------------------------------------------------------------------------
(* Turns start in one place *)

\* No turn starts.
Still == \A s \in Req : native'[s] = "running" => native[s] = "running"

LEMMA ServerStill == UNCHANGED serverVars \/ native' = native => Still
BY DEF Still, serverVars

LEMMA AbortStill ==
    ASSUME BrokerInv, NEW g, Abort(g)
    PROVE  Still
<1>1. Losing
  BY AbortStep DEF BrokerInv, Types
<1> QED BY <1>1 DEF Losing, Still

LEMMA OthersStill ==
    ASSUME BrokerInv, NEW r \in Req, User(r) \/ Request(r) \/ Recovery(r) \/ Codex(r)
    PROVE  Still
<1>1. CASE User(r)
  <2>1. UNCHANGED serverVars
    BY <1>1 DEF User, SubmitPrompt, AdmitPrompt, ReleaseAdmission, SteerBegin, CancelQueuedPrompt,
                CancelRun
  <2> QED BY <2>1, ServerStill
<1>2. CASE Request(r)
  <2>1. UNCHANGED serverVars \/ Abort(run[r].gen)
    BY <1>2 DEF Request, SteerAccepted, SteerFailed, CancelAborts, CancelAborted,
                InterruptAccepted, InterruptFails, InterruptFailed
  <2> QED BY <2>1, ServerStill, AbortStill
<1>3. CASE Recovery(r)
  <2>1. UNCHANGED serverVars
    BY <1>3 DEF Recovery, RecoveryChecks, RecoveryReserves, RecoveryClaims, RecoveryExpires,
                RecoveryLeaves, RecoveryMoves, RecoveryEnds
  <2> QED BY <2>1, ServerStill
<1>4. CASE Codex(r)
  <2>1. CASE TurnCompletes(r)
    BY <2>1 DEF TurnCompletes, BrokerInv, Types, ServerType, Still
  <2>2. CASE TurnCompleted(r)
    BY <2>2, ServerStill DEF TurnCompleted
  <2>3. CASE BufferOverflows(r)
    BY <2>3, AbortStill DEF BufferOverflows
  <2> QED BY <1>4, <2>1, <2>2, <2>3 DEF Codex
<1> QED BY <1>1, <1>2, <1>3, <1>4

LEMMA WorkerStill ==
    ASSUME BrokerInv, NEW r \in Req, Worker(r), ~TurnStarts(r)
    PROVE  Still
<1>1. UNCHANGED serverVars \/ Abort(run[r].gen)
  <2>1. CASE StartSteps(r)
    BY <2>1 DEF StartSteps, WorkerWakes, WorkerTooLate, WorkerTimesOut, WorkerExpired,
                WorkerFenced, WorkerAdmitted, StartTurn, ThreadLoaded, TurnDispatched, StartFails,
                Moves, Ends
  <2>2. CASE TurnSteps(r)
    BY <2>2 DEF TurnSteps, TurnBound, TurnReplayed, WorkerInterrupts, WatchEnds, WatchStale,
                WatchReconciles, WatchGivesUp, WorkerAborts, WorkerAborted, WorkerFailed,
                Moves, Ends, Completes
  <2>3. CASE BudgetSteps(r)
    BY <2>3 DEF BudgetSteps, BudgetStop, BudgetUnconfirmed, StopExpiredStart, Ends
  <2> QED BY <2>1, <2>2, <2>3 DEF Worker, StartSteps, TurnSteps, BudgetSteps
<1> QED BY <1>1, ServerStill, AbortStill

LEMMA EnvironmentStill ==
    ASSUME BrokerInv, Environment \/ UNCHANGED vars
    PROVE  Still
<1>1. CASE ProcessDies \/ Exit \/ Crash
  <2>1. native' = [s \in Req |-> IF native[s] = "running" THEN "lost" ELSE native[s]]
    BY <1>1 DEF ProcessDies, LoseProcess, Exit, Crash, Gone
  <2> QED BY <2>1 DEF Still
<1>2. CASE ~(ProcessDies \/ Exit \/ Crash)
  <2>1. native' = native
    BY <1>2 DEF Environment, vars, serverVars, ProcessStarts, AccountChangeBegins, AccountChanges,
                AccountFailsClosed, Close, Start, ResumeRecovered
  <2> QED BY <2>1, ServerStill
<1> QED BY <1>1, <1>2

\* The prompt of a request is given to Codex at most once in its whole life,
\* across aborts, generation changes, crashes and recovery: _start_turn sends
\* turn/start only for a run of which Codex has never heard.
THEOREM BrokerTurnStartedOnce == Spec => TurnStartedOnce
<1> DEFINE Step == \A r \in Req : native'[r] = "running" /\ native[r] # "running" => native[r] = "none"
<1>1. BrokerInv /\ [Next]_vars => [Step]_vars
  <2> SUFFICES ASSUME BrokerInv, [Next]_vars PROVE Step
    OBVIOUS
  <2>1. CASE \E r \in Req : TurnStarts(r)
    <3>1. PICK r \in Req : TurnStarts(r)
      BY <2>1
    <3>2. native[r] = "none" /\ \A s \in Req : s # r => native'[s] = native[s]
      BY <3>1, TurnStartsKeeps
    <3> QED BY <3>2
  <2>2. CASE ~ \E r \in Req : TurnStarts(r)
    <3>1. Still
      BY <2>2, OthersStill, WorkerStill, EnvironmentStill DEF Next
    <3> QED BY <3>1 DEF Still
  <2> QED BY <2>1, <2>2
<1> HIDE DEF Step
<1>2. Spec => [][Step]_vars
  BY <1>1, BrokerInvariant, PTL DEF Spec
<1> QED BY <1>2 DEF TurnStartedOnce, Step

\* A queued prompt is safe to send again: whenever a run stands as queued, in a
\* serving process or on disk after a crash, turn/start was not sent for it and
\* Codex has never had its turn, so _recover_deferred_queued_run repeats nothing.
THEOREM BrokerQueuedUnsent ==
    Spec => [](\A r \in Req : run[r].status = "queued" => run[r].turn = "unsent" /\ native[r] = "none")
<1> DEFINE Safe == \A r \in Req : run[r].status = "queued" => run[r].turn = "unsent" /\ native[r] = "none"
<1>1. BrokerInv => Safe
  BY DEF BrokerInv, OnceInv, Once
<1> HIDE DEF Safe
<1>2. Spec => []Safe
  BY BrokerInvariant, <1>1, PTL
<1> QED BY <1>2 DEF Safe

-----------------------------------------------------------------------------
(* Whose turn runs in Codex *)

\* Nothing of the generation of r can start or go on.
Dead(r) == run[r].gen < gen \/ ~ready

\* A turn that runs, or is about to be sent, is of a live run, unless its
\* generation is dead; and who ends a run after an abort finds it dead.
Own(r) ==
    /\ native[r] = "running" => run[r].status \in ActiveStates /\ ready /\ run[r].gen = gen
    /\ Live(r) \/ worker[r] # "none" \/ canceller[r] # "none" => run[r].gen <= gen
    /\ worker[r] = "dispatched" => run[r].status \in ActiveStates \/ Dead(r)
    /\ Live(r) /\ (canceller[r] = "aborted" \/ worker[r] = "aborted") => Dead(r)
    /\ canceller[r] \in {"aborting", "aborted"} => run[r].gen # 0

OwnInv ==
    /\ up = "running" => gen >= 1 /\ \A r \in Req : Own(r)
    /\ up = "down" => \A r \in Req : native[r] # "running"

\* The generation only advances, and only from one that is not ready.
Onward ==
    /\ \A s \in Req : native'[s] = "running" => native[s] = "running" /\ (ready => ready')
    /\ \/ gen' = gen /\ (ready' => ready)
       \/ gen' = gen + 1 /\ ~ready

\* Dead(r)' for a step that keeps the generation of r.
Passed(r) == run[r].gen < gen' \/ ~ready'

\* A run that may end in this step.
Endable(r) ==
    \/ run[r].status \notin ActiveStates
    \/ Passed(r)
    \/ native'[r] # "running" /\ worker'[r] # "dispatched"

\* What the threads of r do in a step that sends nothing for it.
Threads(r) ==
    /\ worker'[r] # "none" \/ canceller'[r] # "none" => Live(r) \/ worker[r] # "none" \/ canceller[r] # "none"
    /\ worker'[r] = "dispatched" => worker[r] = "dispatched"
    /\ worker'[r] = "aborted" => worker[r] = "aborted" \/ Passed(r)
    /\ canceller'[r] = "aborted" => canceller[r] = "aborted" \/ Passed(r)
    /\ canceller'[r] \in {"aborting", "aborted"} => run[r].gen # 0

\* What becomes of its record.
Record(r) ==
    /\ run'[r].gen = run[r].gen
    /\ Live(r)' => Live(r)
    /\ run[r].status \in ActiveStates => run'[r].status \in ActiveStates \/ Endable(r)

LEMMA OwnRow ==
    ASSUME BrokerInv, OwnInv, up = "running"
    PROVE  /\ gen \in Nat /\ gen >= 1
           /\ \A r \in Req : Own(r) /\ Ok(r) /\ Lease(r) /\ run[r] \in Row /\ run[r].gen \in Nat
<1>1. gen \in Nat /\ \A r \in Req : run[r] \in Row /\ run[r].gen \in Nat
  BY BrokerAssumption DEF BrokerInv, Types, LedgerType, ServerType, Row
<1>2. \A r \in Req : Ok(r) /\ Lease(r)
  BY OkRuns DEF Ok
<1> QED BY <1>1, <1>2 DEF OwnInv

LEMMA OwnStep ==
    ASSUME BrokerInv, OwnInv, up = "running", up' = up, Onward,
           \A r \in Req : (Threads(r) /\ Record(r)) \/ Own(r)'
    PROVE  OwnInv'
<1>1. gen \in Nat /\ gen >= 1 /\ gen' \in Nat /\ gen' >= gen
  BY OwnRow DEF Onward
<1>2. ASSUME NEW r \in Req, Threads(r), Record(r) PROVE Own(r)'
  <2>0. Own(r) /\ run[r].gen \in Nat /\ run'[r].gen = run[r].gen
    BY <1>2, OwnRow DEF Record
  <2>1. Passed(r) <=> Dead(r)'
    BY <2>0 DEF Passed, Dead
  <2>2. ASSUME Dead(r), run[r].gen <= gen PROVE Dead(r)'
    BY <1>1, <2>0, <2>2 DEF Dead, Onward
  <2>3. native'[r] = "running" => ready' /\ run'[r].gen = gen' /\ run[r].status \in ActiveStates
    BY <2>0 DEF Onward, Own
  <2>4. native'[r] = "running" => run'[r].status \in ActiveStates
    <3>1. native'[r] = "running" => ~Passed(r)
      BY <1>1, <2>0, <2>3 DEF Passed
    <3> QED BY <1>2, <2>3, <3>1 DEF Record, Endable
  <2>5. Live(r)' \/ worker'[r] # "none" \/ canceller'[r] # "none"
          => run[r].gen <= gen /\ run'[r].gen <= gen'
    BY <1>1, <1>2, <2>0 DEF Own, Threads, Record
  <2>6. worker'[r] = "dispatched" => run'[r].status \in ActiveStates \/ Dead(r)'
    BY <1>2, <2>0, <2>1, <2>2 DEF Own, Threads, Record, Endable
  <2>7. Live(r)' /\ (canceller'[r] = "aborted" \/ worker'[r] = "aborted") => Dead(r)'
    BY <1>2, <2>0, <2>1, <2>2 DEF Own, Threads, Record
  <2> QED BY <1>2, <2>0, <2>3, <2>4, <2>5, <2>6, <2>7 DEF Own, Threads
<1> QED BY <1>1, <1>2 DEF OwnInv

LEMMA ServerOnward == UNCHANGED serverVars => Onward
BY DEF Onward, serverVars

\* An abort of the generation of r leaves it dead.
LEMMA AbortOnward ==
    ASSUME BrokerInv, OwnInv, up = "running", NEW r \in Req, run[r].gen <= gen,
           Abort(run[r].gen), gen' = gen
    PROVE  Onward /\ Passed(r)
<1>0. gen \in Nat /\ run[r].gen \in Nat
  BY OwnRow
<1>1. CASE ready /\ gen = run[r].gen
  <2>1. /\ ready' = FALSE
        /\ native' = [s \in Req |-> IF native[s] = "running" THEN "lost" ELSE native[s]]
    BY <1>1 DEF Abort, LoseProcess
  <2> QED BY <2>1 DEF Onward, Passed
<1>2. CASE ~(ready /\ gen = run[r].gen)
  BY <1>0, <1>2 DEF Abort, Onward, Passed
<1> QED BY <1>1, <1>2

\* Steps that end runs, all of which may.
LEMMA TerminalizeOwn ==
    ASSUME BrokerInv, OwnInv, up = "running", up' = up, Onward,
           NEW base \in [Req -> Row], Cancelling(base),
           NEW over \in SUBSET Req, NEW status \in Ended, Terminalize(base, over, status),
           \A s \in over : Endable(s), \A s \in Req : Threads(s)
    PROVE  OwnInv'
<1>1. \A s \in Req : Settles(s, base[s], over, status)
  BY TerminalizeStep DEF BrokerInv, Types, LeaseInv
<1>2. ASSUME NEW s \in Req PROVE Record(s)
  <2> DEFINE row == base[s]
  <2>0. run[s] \in Row
    BY DEF BrokerInv, Types, LedgerType
  <2>1. /\ row \in Row /\ row.gen = run[s].gen
        /\ row.status = run[s].status \/ (run[s].status \in ActiveStates /\ row.status = "cancelling")
        /\ Settles(s, row, over, status)
    BY <1>1, <2>0 DEF Cancelling, Row
  <2> HIDE DEF row
  <2>2. CASE s \notin over /\ run'[s] = row
    BY <2>1, <2>2 DEF Record, Live, LiveStates, ActiveStates
  <2>3. ASSUME NEW e \in Ended, Finishes(s, row, e), s \in over \/ row.status = "queued"
        PROVE  Record(s)
    <3>1. run'[s].gen = run[s].gen /\ ~Live(s)'
      BY <2>1, <2>3, EndRow DEF Finishes, Ended, Live, LiveStates, ActiveStates
    <3>2. Endable(s)
      BY <2>1, <2>3 DEF Endable, ActiveStates
    <3> QED BY <3>1, <3>2 DEF Record
  <2>4. "stopped" \in Ended
    BY DEF Ended
  <2> QED BY <2>1, <2>2, <2>3, <2>4 DEF Settles
<1> QED BY <1>2, OwnStep

LEMMA QueuedEndable == \A s \in QueuedRuns : Endable(s)
BY DEF QueuedRuns, Endable, ActiveStates

\* Steps that change nothing of this.
LEMMA SameOwn ==
    ASSUME BrokerInv, OwnInv, UNCHANGED <<run, worker, canceller, serverVars, up>>
    PROVE  OwnInv'
BY DEF OwnInv, Own, Live, Dead, serverVars

\* A record that is put in the queue, or taken out of it, before it is sent.
LEMMA UnsentOwn ==
    ASSUME BrokerInv, OwnInv, up = "running", up' = up, UNCHANGED serverVars, canceller' = canceller,
           NEW r \in Req, run[r].gen = 0, native[r] # "running",
           run'[r].gen = 0 \/ run'[r].gen = gen, worker'[r] \notin {"dispatched", "aborted"},
           \A s \in Req : s # r => run'[s] = run[s] /\ worker'[s] = worker[s]
    PROVE  OwnInv'
<1>0. gen \in Nat /\ gen >= 1 /\ \A s \in Req : Own(s)
  BY OwnRow
<1>1. canceller[r] \notin {"aborting", "aborted"}
  BY <1>0 DEF Own
<1>2. Own(r)'
  BY <1>0, <1>1 DEF Own, serverVars
<1>3. ASSUME NEW s \in Req, s # r PROVE Threads(s) /\ Record(s)
  BY <1>0, <1>3 DEF Own, Threads, Record, Live
<1> QED BY <1>2, <1>3, ServerOnward, OwnStep

LEMMA AbortAway ==
    ASSUME NEW g, Abort(g), gen' = gen
    PROVE  Onward
<1>1. CASE LoseProcess
  <2>1. /\ ready' = FALSE
        /\ native' = [s \in Req |-> IF native[s] = "running" THEN "lost" ELSE native[s]]
    BY <1>1 DEF LoseProcess
  <2> QED BY <2>1 DEF Onward
<1>2. CASE UNCHANGED <<ready, native, notices>>
  BY <1>2 DEF Onward
<1> QED BY <1>1, <1>2 DEF Abort

LEMMA UserOwn ==
    ASSUME BrokerInv, OwnInv, up = "running", NEW r \in Req, User(r)
    PROVE  OwnInv'
<1>0. /\ Own(r) /\ Ok(r) /\ run \in [Req -> Row] /\ worker \in [Req -> WorkerPoints]
      /\ canceller \in [Req -> CancelPoints] /\ Cancelling(run) /\ "stopped" \in Ended
  BY OwnRow DEF BrokerInv, Types, LedgerType, ThreadType, Cancelling, Ended
<1>1. CASE AdmitPrompt(r) \/ ReleaseAdmission(r) \/ SteerBegin(r)
  BY <1>1, SameOwn DEF AdmitPrompt, ReleaseAdmission, SteerBegin, ledgerVars, bridgeVars
<1>2. CASE \E mode \in Modes : SubmitPrompt(r, mode)
  <2>1. PICK mode \in Modes : SubmitPrompt(r, mode)
    BY <1>2
  <2>2. /\ run[r].status = "none" /\ UNCHANGED serverVars /\ canceller' = canceller /\ up' = up
        /\ worker' = [worker EXCEPT ![r] = "waiting"]
        /\ run' = [run EXCEPT ![r] =
                    [NoRun EXCEPT !.status = IF holder' = r THEN "starting" ELSE "queued",
                                  !.mode = mode, !.prompt = TRUE, !.acct = account]]
    BY <2>1 DEF SubmitPrompt, bridgeVars
  <2>3. run[r].gen = 0 /\ native[r] # "running"
    BY <1>0, <2>2 DEF Ok, Once
  <2>4. run'[r].gen = 0
    BY <1>0, <2>2 DEF NoRun
  <2>5. worker'[r] = "waiting" /\ \A s \in Req : s # r => run'[s] = run[s] /\ worker'[s] = worker[s]
    BY <1>0, <2>2
  <2> QED BY <2>2, <2>3, <2>4, <2>5, UnsentOwn
<1>3. CASE CancelQueuedPrompt(r) \/ CancelRun(r)
  <2> DEFINE next == CASE run[r].turn = "bound" -> "interrupting"
                       [] run[r].turn # "bound" /\ run[r].gen # 0 -> "aborting"
                       [] OTHER -> "none"
             others == {s \in QueuedRuns : ThreadOf[s] = ThreadOf[r]} \ {r}
             base == [run EXCEPT ![r].status = "cancelling"]
  <2>1. /\ Live(r) /\ up' = up /\ worker' = worker /\ UNCHANGED serverVars
        /\ \/ Terminalize(run, {r}, "stopped") /\ run[r].status = "queued" /\ canceller' = canceller
           \/ /\ run[r].status # "queued" /\ Terminalize(base, others, "stopped")
              /\ canceller' = [canceller EXCEPT ![r] = next]
    BY <1>3 DEF CancelQueuedPrompt, CancelRun, bridgeVars, Live, LiveStates
  <2>2. Onward
    BY <2>1, ServerOnward
  <2>3. \A s \in Req : Own(s)
    BY OwnRow
  <2>4. CASE Terminalize(run, {r}, "stopped") /\ run[r].status = "queued" /\ canceller' = canceller
    <3>1. \A s \in Req : Threads(s)
      BY <2>1, <2>3, <2>4 DEF Threads, Own
    <3>2. Endable(r)
      BY <2>4 DEF Endable, ActiveStates
    <3> QED BY <1>0, <2>1, <2>2, <2>4, <3>1, <3>2, TerminalizeOwn
  <2>5. CASE /\ run[r].status # "queued" /\ Terminalize(base, others, "stopped")
             /\ canceller' = [canceller EXCEPT ![r] = next]
    <3>1. next \notin {"aborted"} /\ (next = "aborting" => run[r].gen # 0)
      OBVIOUS
    <3> HIDE DEF next
    <3>2. \A s \in Req : Threads(s)
      BY <1>0, <2>1, <2>3, <2>5, <3>1 DEF Threads, Own
    <3>3. run[r].status \in ActiveStates
      BY <2>1, <2>5 DEF Live, LiveStates
    <3>4. base \in [Req -> Row]
      BY <1>0 DEF Row, LiveStates, ActiveStates
    <3>5. Cancelling(base)
      BY <1>0, <3>3 DEF Cancelling
    <3>6. others \in SUBSET Req /\ \A s \in others : Endable(s)
      BY LiveRuns, QueuedEndable
    <3> HIDE DEF base, others
    <3> QED BY <1>0, <2>1, <2>2, <2>5, <3>2, <3>4, <3>5, <3>6, TerminalizeOwn
  <2> QED BY <2>1, <2>4, <2>5
<1> QED BY <1>1, <1>2, <1>3 DEF User

\* Requests that end the run of r when they have aborted its generation, or
\* find it dead.
LEMMA RequestOwn ==
    ASSUME BrokerInv, OwnInv, up = "running", NEW r \in Req, Request(r)
    PROVE  OwnInv'
<1>0. /\ Own(r) /\ run \in [Req -> Row] /\ canceller \in [Req -> CancelPoints]
      /\ Cancelling(run) /\ "stopped" \in Ended /\ \A s \in Req : Own(s)
  BY OwnRow DEF BrokerInv, Types, LedgerType, ThreadType, Cancelling, Ended
<1>1. CASE SteerAccepted(r)
  BY <1>1, SameOwn DEF SteerAccepted, ledgerVars, bridgeVars
<1>2. up' = up /\ worker' = worker
  BY DEF Request, SteerAccepted, SteerFailed, CancelAborts, CancelAborted, InterruptAccepted,
         InterruptFails, InterruptFailed, bridgeVars
<1>3. QueuedRuns \cup LiveAmong({r}) \in SUBSET Req /\ QueuedRuns \in SUBSET Req
  BY LiveRuns
<1>4. Passed(r) => \A s \in QueuedRuns \cup LiveAmong({r}) : Endable(s)
  BY QueuedEndable DEF LiveAmong, Endable
<1>5. CASE SteerFailed(r)
  <2>1. /\ Abort(run[r].gen) /\ gen' = gen /\ canceller' = canceller
        /\ Terminalize(run, QueuedRuns \cup LiveAmong({r}), "stopped")
    BY <1>5 DEF SteerFailed
  <2>2. \A s \in Req : Threads(s)
    BY <1>0, <1>2, <2>1 DEF Threads, Own
  <2>3. CASE Live(r)
    <3>1. Onward /\ Passed(r)
      BY <1>0, <2>1, <2>3, AbortOnward DEF Own
    <3> QED BY <1>0, <1>2, <1>3, <1>4, <2>1, <2>2, <3>1, TerminalizeOwn
  <2>4. CASE ~Live(r)
    <3>1. Onward
      BY <2>1, AbortAway
    <3>2. QueuedRuns \cup LiveAmong({r}) = QueuedRuns
      BY <2>4 DEF LiveAmong
    <3> QED BY <1>0, <1>2, <1>3, <2>1, <2>2, <3>1, <3>2, QueuedEndable, TerminalizeOwn
  <2> QED BY <2>3, <2>4
<1>6. CASE CancelAborts(r) \/ InterruptFails(r)
  <2>1. PICK p \in {"aborted", "clearing"} :
          /\ canceller[r] \in {"aborting", "interrupting"} /\ Abort(run[r].gen) /\ gen' = gen
          /\ canceller' = [canceller EXCEPT ![r] = p] /\ run' = run
          /\ p = "aborted" => canceller[r] = "aborting"
    BY <1>6 DEF CancelAborts, InterruptFails, ledgerVars
  <2>2. Onward /\ Passed(r)
    BY <1>0, <2>1, AbortOnward DEF Own
  <2>3. \A s \in Req : Threads(s)
    BY <1>0, <1>2, <2>1, <2>2 DEF Threads, Own
  <2>4. \A s \in Req : Record(s)
    BY <2>1 DEF Record, Live
  <2> QED BY <1>2, <2>2, <2>3, <2>4, OwnStep
<1>7. CASE CancelAborted(r) \/ InterruptFailed(r)
  <2>1. /\ UNCHANGED serverVars /\ canceller' = [canceller EXCEPT ![r] = "none"]
        /\ \/ Terminalize(run, QueuedRuns, "stopped")
           \/ /\ canceller[r] = "aborted"
              /\ Terminalize(run, QueuedRuns \cup LiveAmong({r}), "stopped")
    BY <1>7 DEF CancelAborted, InterruptFailed
  <2>2. Onward
    BY <2>1, ServerOnward
  <2>3. \A s \in Req : Threads(s)
    BY <1>0, <1>2, <2>1 DEF Threads, Own
  <2>4. ASSUME canceller[r] = "aborted" PROVE \A s \in QueuedRuns \cup LiveAmong({r}) : Endable(s)
    <3>1. Live(r) => Passed(r)
      BY <1>0, <2>1, <2>4 DEF Own, Dead, Passed, serverVars
    <3> QED BY <3>1, QueuedEndable DEF LiveAmong, Endable
  <2> QED BY <1>0, <1>2, <1>3, <2>1, <2>2, <2>3, <2>4, QueuedEndable, TerminalizeOwn
<1>8. CASE InterruptAccepted(r)
  <2>1. UNCHANGED serverVars /\ canceller' = [canceller EXCEPT ![r] = "none"] /\ run' = run
    BY <1>8 DEF InterruptAccepted, ledgerVars
  <2>2. \A s \in Req : Threads(s) /\ Record(s)
    BY <1>0, <1>2, <2>1 DEF Threads, Own, Record, Live
  <2> QED BY <1>2, <2>1, <2>2, ServerOnward, OwnStep
<1> QED BY <1>1, <1>5, <1>6, <1>7, <1>8 DEF Request

\* A step of a worker that ends no run of Codex behind its back.
LEMMA WorkerEndsOwn ==
    ASSUME BrokerInv, OwnInv, up = "running", up' = up, NEW r \in Req, worker[r] # "none",
           NEW to \in {"none", "watching", "bound"}, worker' = [worker EXCEPT ![r] = to],
           canceller' = canceller, UNCHANGED serverVars,
           NEW over \in SUBSET Req, NEW status \in Ended, Terminalize(run, over, status),
           \A s \in over : (s = r /\ native[r] # "running") \/ Endable(s)
    PROVE  OwnInv'
<1>0. /\ run \in [Req -> Row] /\ worker \in [Req -> WorkerPoints] /\ Cancelling(run)
      /\ \A s \in Req : Own(s)
  BY OwnRow DEF BrokerInv, Types, LedgerType, ThreadType, Cancelling
<1>1. \A s \in Req : Threads(s)
  BY <1>0 DEF Threads, Own
<1>2. \A s \in over : Endable(s)
  BY <1>0 DEF Endable, serverVars
<1> QED BY <1>0, <1>1, <1>2, ServerOnward, TerminalizeOwn

\* A step of the worker of r that sends nothing and ends nothing.
LEMMA WorkerGoesOwn ==
    ASSUME BrokerInv, OwnInv, up = "running", up' = up, NEW r \in Req, worker[r] # "none",
           NEW to \in WorkerPoints \ {"dispatched"}, worker' = [worker EXCEPT ![r] = to],
           canceller' = canceller, Onward, to = "aborted" => Passed(r),
           \A s \in Req : Record(s)
    PROVE  OwnInv'
<1>0. worker \in [Req -> WorkerPoints] /\ \A s \in Req : Own(s)
  BY OwnRow DEF BrokerInv, Types, ThreadType
<1>1. \A s \in Req : Threads(s)
  BY <1>0 DEF Threads, Own
<1> QED BY <1>1, OwnStep

LEMMA MovesOwn ==
    ASSUME BrokerInv, OwnInv, up = "running", NEW r \in Req, NEW from \in WorkerPoints \ {"none"},
           NEW to \in WorkerPoints \ {"dispatched", "aborted"}, Moves(r, from, to)
    PROVE  OwnInv'
<1>1. /\ worker[r] # "none" /\ worker' = [worker EXCEPT ![r] = to] /\ up' = up
      /\ canceller' = canceller /\ UNCHANGED serverVars
      /\ \A s \in Req : Record(s)
  BY DEF Moves, Goto, ledgerVars, bridgeVars, Record, Live
<1> QED BY <1>1, ServerOnward, WorkerGoesOwn

\* A worker that changes the record of its live run.
LEMMA RowOwn ==
    ASSUME BrokerInv, OwnInv, up = "running", up' = up, NEW r \in Req, worker[r] # "none",
           NEW to \in WorkerPoints \ {"aborted"}, worker' = [worker EXCEPT ![r] = to],
           canceller' = canceller, UNCHANGED serverVars, Live(r), run'[r].gen = run[r].gen,
           run'[r].status \in ActiveStates, \A s \in Req : s # r => run'[s] = run[s]
    PROVE  OwnInv'
<1>0. worker \in [Req -> WorkerPoints] /\ \A s \in Req : Own(s)
  BY OwnRow DEF BrokerInv, Types, ThreadType
<1>1. Own(r)'
  BY <1>0 DEF Own, Dead, Live, serverVars
<1>2. ASSUME NEW s \in Req, s # r PROVE Threads(s) /\ Record(s)
  BY <1>0, <1>2 DEF Threads, Own, Record, Live
<1> QED BY <1>1, <1>2, ServerOnward, OwnStep

LEMMA DeferOwn ==
    ASSUME BrokerInv, OwnInv, up = "running", NEW r \in Req,
           worker[r] \in {"expired", "woken", "admitted"}, Defer(r),
           Goto(r, "none"), UNCHANGED <<account, canceller, steerer, serverVars, bridgeVars>>
    PROVE  OwnInv'
<1>1. /\ run' = [run EXCEPT ![r].status = "queued"] /\ worker' = [worker EXCEPT ![r] = "none"]
      /\ up' = up /\ canceller' = canceller /\ UNCHANGED serverVars
  BY DEF Defer, Goto, bridgeVars
<1>2. run \in [Req -> Row] /\ worker \in [Req -> WorkerPoints]
  BY DEF BrokerInv, Types, LedgerType, ThreadType
<1>3. run[r].gen = 0 /\ native[r] # "running"
  BY OwnRow DEF Ok, Once, Early
<1>4. run'[r].gen = 0
  BY <1>1, <1>2, <1>3 DEF Row
<1>5. worker'[r] = "none" /\ \A s \in Req : s # r => run'[s] = run[s] /\ worker'[s] = worker[s]
  BY <1>1, <1>2
<1> QED BY <1>1, <1>3, <1>4, <1>5, UnsentOwn

\* A worker that fails before its prompt was sent ends its own run.
LEMMA FailsOwn ==
    ASSUME BrokerInv, OwnInv, up = "running", NEW r \in Req, worker[r] # "none",
           native[r] # "running" \/ ~Live(r), NEW over \in SUBSET LiveAmong({r}), Ends(r, "none", over)
    PROVE  OwnInv'
<1>1. /\ worker' = [worker EXCEPT ![r] = "none"] /\ Terminalize(run, over, "stopped")
      /\ up' = up /\ canceller' = canceller /\ UNCHANGED serverVars /\ "stopped" \in Ended
  BY DEF Ends, Goto, bridgeVars, Ended
<1>2. over \in SUBSET Req /\ \A s \in over : (s = r /\ native[r] # "running") \/ Endable(s)
  BY DEF LiveAmong
<1>3. "none" \in {"none", "watching", "bound"}
  OBVIOUS
<1> QED BY <1>1, <1>2, <1>3, WorkerEndsOwn

LEMMA StartOwn ==
    ASSUME BrokerInv, OwnInv, up = "running", NEW r \in Req, StartSteps(r)
    PROVE  OwnInv'
<1>0. /\ Own(r) /\ Ok(r) /\ run \in [Req -> Row] /\ worker \in [Req -> WorkerPoints]
      /\ gen \in Nat /\ gen >= 1
  BY OwnRow DEF BrokerInv, Types, LedgerType, ThreadType
<1>1. CASE WorkerWakes(r) \/ WorkerTooLate(r) \/ StartFails(r)
  <2>1. \E from \in WorkerPoints \ {"none"}, to \in {"woken", "expired", "failed"} : Moves(r, from, to)
    BY <1>1 DEF WorkerWakes, WorkerTooLate, StartFails, WorkerPoints
  <2> QED BY <2>1, MovesOwn DEF WorkerPoints
<1>2. CASE WorkerTimesOut(r)
  <2>1. /\ worker[r] # "none" /\ worker' = [worker EXCEPT ![r] = "expired"] /\ up' = up
        /\ canceller' = canceller /\ UNCHANGED serverVars /\ run' = run
    BY <1>2 DEF WorkerTimesOut, Goto, bridgeVars
  <2>2. "expired" \in WorkerPoints /\ \A s \in Req : Record(s)
    BY <2>1 DEF WorkerPoints, Record, Live
  <2> QED BY <2>1, <2>2, ServerOnward, WorkerGoesOwn
<1>3. CASE WorkerExpired(r) \/ WorkerFenced(r) \/ WorkerAdmitted(r)
  <2>1. worker[r] \in Early
    BY <1>3 DEF WorkerExpired, WorkerFenced, WorkerAdmitted, Moves, Early
  <2>2. native[r] # "running" /\ worker[r] # "none"
    BY <1>0, <2>1 DEF Ok, Once, Early
  <2>3. CASE \E from \in {"woken", "cleared"}, to \in {"cleared", "admitted"} : Moves(r, from, to)
    BY <2>3, MovesOwn DEF WorkerPoints
  <2>4. CASE /\ worker[r] \in {"expired", "woken", "admitted"} /\ Defer(r) /\ Goto(r, "none")
             /\ UNCHANGED <<account, canceller, steerer, serverVars, bridgeVars>>
    BY <2>4, DeferOwn
  <2>5. CASE Ends(r, "none", IF Preserved(r) THEN {} ELSE LiveAmong({r}))
    <3> DEFINE over == IF Preserved(r) THEN {} ELSE LiveAmong({r})
    <3>1. over \in SUBSET LiveAmong({r}) /\ Ends(r, "none", over)
      BY <2>5
    <3> HIDE DEF over
    <3> QED BY <2>2, <3>1, FailsOwn
  <2> QED BY <1>3, <2>3, <2>4, <2>5 DEF WorkerExpired, WorkerFenced, WorkerAdmitted
<1>4. CASE StartTurn(r) \/ ThreadLoaded(r)
  <2>1. worker[r] \in {"admitted", "preparing"}
    BY <1>4 DEF StartTurn, ThreadLoaded
  <2>2. native[r] # "running" /\ worker[r] # "none"
    BY <1>0, <2>1 DEF Ok, Once, Early
  <2>3. CASE \E from \in {"admitted", "preparing"}, to \in {"none", "loaded"} : Moves(r, from, to)
    BY <2>3, MovesOwn DEF WorkerPoints
  <2>4. CASE Live(r) /\ Ends(r, "none", {r})
    <3>1. {r} \in SUBSET LiveAmong({r})
      BY <2>4 DEF LiveAmong
    <3> QED BY <2>2, <2>4, <3>1, FailsOwn
  <2>5. CASE /\ worker[r] = "admitted" /\ run' = [run EXCEPT ![r] = Claimed(@)]
             /\ worker' \in {[worker EXCEPT ![r] = p] : p \in {"preparing", "failed"}}
             /\ UNCHANGED <<admissions, holder, waiting, ahead, authLease, recovery, deferred,
                            buffered, account, canceller, steerer, serverVars, bridgeVars>>
    <3>1. PICK p \in {"preparing", "failed"} : worker' = [worker EXCEPT ![r] = p]
      BY <2>5
    <3>2. run[r].gen = 0
      BY <1>0, <2>5 DEF Ok, Once, Early
    <3>3. run'[r].gen = gen
      BY <1>0, <2>5 DEF Claimed, Row
    <3>4. /\ worker'[r] \notin {"dispatched", "aborted"} /\ up' = up /\ UNCHANGED serverVars
          /\ canceller' = canceller
          /\ \A s \in Req : s # r => run'[s] = run[s] /\ worker'[s] = worker[s]
      BY <1>0, <2>5, <3>1 DEF bridgeVars
    <3> QED BY <2>2, <3>2, <3>3, <3>4, UnsentOwn
  <2>6. run[r].status = "cancelling" => Live(r)
    BY DEF Live, LiveStates, ActiveStates
  <2> QED BY <1>4, <2>3, <2>4, <2>5, <2>6 DEF StartTurn, ThreadLoaded
<1>5. CASE TurnDispatched(r)
  <2>1. CASE \E to \in {"none", "watching"} : Moves(r, "loaded", to)
    BY <2>1, MovesOwn DEF WorkerPoints
  <2>2. CASE /\ worker[r] = "loaded" /\ Live(r) /\ run' = [run EXCEPT ![r].turn = "sent"]
             /\ Goto(r, "dispatched")
             /\ UNCHANGED <<admissions, holder, waiting, ahead, authLease, recovery,
                            deferred, buffered, account, canceller, steerer, serverVars, bridgeVars>>
    <3>1. run[r].status \in ActiveStates
      BY <1>0, <2>2 DEF Ok, Once, Early, Late, WorkerPoints, Live, LiveStates
    <3>2. run'[r].status = run[r].status /\ run'[r].gen = run[r].gen
      BY <1>0, <2>2 DEF Row
    <3>3. /\ worker[r] # "none" /\ worker' = [worker EXCEPT ![r] = "dispatched"] /\ up' = up
          /\ canceller' = canceller /\ UNCHANGED serverVars
          /\ "dispatched" \in WorkerPoints \ {"aborted"}
          /\ \A s \in Req : s # r => run'[s] = run[s]
      BY <1>0, <2>2 DEF Goto, bridgeVars, WorkerPoints
    <3> QED BY <2>2, <3>1, <3>2, <3>3, RowOwn
  <2> QED BY <1>5, <2>1, <2>2 DEF TurnDispatched, Moves
<1>6. CASE TurnStarts(r)
  <2>1. /\ worker[r] = "dispatched" /\ ready /\ gen = run[r].gen
        /\ native' = [native EXCEPT ![r] = "running"] /\ worker' = [worker EXCEPT ![r] = "sent"]
        /\ up' = up /\ gen' = gen /\ ready' = ready /\ run' = run /\ canceller' = canceller
    BY <1>6 DEF TurnStarts, Goto, ledgerVars, bridgeVars
  <2>2. run[r].status \in ActiveStates
    BY <1>0, <2>1 DEF Own, Dead
  <2>3. worker'[r] = "sent" /\ \A s \in Req : s # r => worker'[s] = worker[s]
    BY <1>0, <2>1
  <2>4. native \in [Req -> {"none", "running", "done", "lost"}] /\ \A s \in Req : Own(s)
    BY OwnRow DEF BrokerInv, Types, ServerType
  <2>5. ASSUME NEW s \in Req PROVE Own(s)'
    <3>1. CASE s = r
      BY <1>0, <2>1, <2>2, <2>3, <3>1 DEF Own, Dead, Live
    <3>2. CASE s # r
      BY <2>1, <2>3, <2>4, <3>2 DEF Own, Dead, Live
    <3> QED BY <3>1, <3>2
  <2> QED BY <1>0, <2>1, <2>5 DEF OwnInv
<1> QED BY <1>1, <1>2, <1>3, <1>4, <1>5, <1>6 DEF StartSteps

\* A watcher that finds another generation than its run's ends no run of the
\* current one: what it saw before it took the lock still holds.
Timely(r) == WatchReconciles(r) => \A s \in Interrupted : run[s].gen # gen

LEMMA AbortsOwn ==
    ASSUME BrokerInv, OwnInv, up = "running", NEW r \in Req, worker[r] # "none",
           NEW to \in {"watching", "aborted"},
           Goto(r, to), Abort(run[r].gen),
           UNCHANGED <<ledgerVars, account, canceller, steerer, gen, bridgeVars>>
    PROVE  OwnInv'
<1>1. /\ worker' = [worker EXCEPT ![r] = to] /\ gen' = gen /\ up' = up /\ canceller' = canceller
      /\ to \in WorkerPoints \ {"dispatched"} /\ \A s \in Req : Record(s)
  BY DEF Goto, ledgerVars, bridgeVars, Record, Live, WorkerPoints
<1>2. Onward /\ Passed(r)
  <2>1. run[r].gen <= gen
    BY OwnRow DEF Own
  <2> QED BY <1>1, <2>1, AbortOnward
<1> QED BY <1>1, <1>2, WorkerGoesOwn

\* A worker that completes or ends a run which has ended in Codex.
LEMMA CompletesOwn ==
    ASSUME BrokerInv, OwnInv, up = "running", NEW r \in Req, worker[r] # "none",
           native[r] = "done", Completes(r, "none")
    PROVE  OwnInv'
<1>1. PICK status \in Ended : Terminalize(run, {r}, status)
  BY DEF Completes
<1>2. /\ worker' = [worker EXCEPT ![r] = "none"] /\ up' = up /\ canceller' = canceller
      /\ UNCHANGED serverVars
  BY DEF Completes, Goto, bridgeVars
<1>3. {r} \in SUBSET Req /\ \A s \in {r} : (s = r /\ native[r] # "running") \/ Endable(s)
  OBVIOUS
<1> QED BY <1>1, <1>2, <1>3, WorkerEndsOwn

LEMMA TurnOwn ==
    ASSUME BrokerInv, OwnInv, up = "running", NEW r \in Req, TurnSteps(r), Timely(r)
    PROVE  OwnInv'
<1>0. /\ Own(r) /\ Ok(r) /\ run \in [Req -> Row] /\ worker \in [Req -> WorkerPoints]
      /\ gen \in Nat /\ gen >= 1 /\ "stopped" \in Ended
  BY OwnRow DEF BrokerInv, Types, LedgerType, ThreadType, Ended
<1>1. CASE TurnBound(r)
  <2>0. worker[r] = "sent"
    BY <1>1 DEF TurnBound
  <2>1. CASE Moves(r, "sent", "none")
    BY <2>1, MovesOwn DEF WorkerPoints
  <2>2. CASE AnsweredAsOver(r) /\ Completes(r, "none")
    BY <2>0, <2>2, CompletesOwn DEF AnsweredAsOver
  <2>3. CASE /\ Live(r)
             /\ run' = [run EXCEPT ![r].turn = "bound",
                                   ![r].status = IF @ = "cancelling" THEN @ ELSE "running"]
             /\ Goto(r, "bound")
             /\ UNCHANGED <<admissions, holder, waiting, ahead, authLease, recovery, deferred,
                            buffered, account, canceller, steerer, serverVars, bridgeVars>>
    <3>1. run'[r].status \in ActiveStates /\ run'[r].gen = run[r].gen
      BY <1>0, <2>3 DEF Row, ActiveStates
    <3>2. /\ worker[r] # "none" /\ worker' = [worker EXCEPT ![r] = "bound"] /\ up' = up
          /\ canceller' = canceller /\ UNCHANGED serverVars
          /\ "bound" \in WorkerPoints \ {"aborted"}
          /\ \A s \in Req : s # r => run'[s] = run[s]
      BY <1>0, <2>0, <2>3 DEF Goto, bridgeVars, WorkerPoints
    <3> QED BY <2>3, <3>1, <3>2, RowOwn
  <2> QED BY <1>1, <2>1, <2>2, <2>3 DEF TurnBound
<1>2. CASE TurnReplayed(r)
  <2>1. CASE worker[r] = "bound" /\ r \in buffered /\ Completes(r, "none")
    <3>1. native[r] = "done"
      BY <1>0, <2>1 DEF Ok, Real
    <3> QED BY <2>1, <3>1, CompletesOwn
  <2>2. CASE \E to \in {"none", "aborting", "interrupting", "watching"} : Moves(r, "bound", to)
    BY <2>2, MovesOwn DEF WorkerPoints
  <2> QED BY <1>2, <2>1, <2>2 DEF TurnReplayed
<1>3. CASE WatchEnds(r) \/ WatchStale(r) \/ WatchGivesUp(r)
  <2>1. \E to \in {"none", "stale", "aborting"} : Moves(r, "watching", to)
    BY <1>3 DEF WatchEnds, WatchStale, WatchGivesUp
  <2> QED BY <2>1, MovesOwn DEF WorkerPoints
<1>4. CASE WorkerInterrupts(r) \/ WorkerAborts(r)
  <2>1. CASE Moves(r, "interrupting", "watching")
    BY <2>1, MovesOwn DEF WorkerPoints
  <2>2. CASE \E to \in {"watching", "aborted"} :
               /\ worker[r] # "none" /\ Goto(r, to) /\ Abort(run[r].gen)
               /\ UNCHANGED <<ledgerVars, account, canceller, steerer, gen, bridgeVars>>
    BY <2>2, AbortsOwn
  <2> QED BY <1>4, <2>1, <2>2 DEF WorkerInterrupts, WorkerAborts
<1>5. CASE WatchReconciles(r)
  <2>1. /\ worker[r] # "none" /\ worker' = [worker EXCEPT ![r] = "none"] /\ up' = up
        /\ canceller' = canceller /\ UNCHANGED serverVars /\ Terminalize(run, Interrupted, "stopped")
    BY <1>5 DEF WatchReconciles, Ends, Goto, bridgeVars
  <2>2. ASSUME NEW s \in Interrupted PROVE Endable(s)
    <3>1. s \in Req /\ Live(s) /\ run[s].gen # gen
      BY <1>5 DEF Timely, Interrupted
    <3>2. run[s].gen < gen
      BY <3>1, OwnRow DEF Own
    <3> QED BY <2>1, <3>2 DEF Endable, Passed, serverVars
  <2>3. Interrupted \in SUBSET Req /\ "none" \in {"none", "watching", "bound"}
    BY LiveRuns
  <2> QED BY <1>0, <2>1, <2>2, <2>3, WorkerEndsOwn
<1>6. CASE WorkerAborted(r)
  <2> DEFINE over == QueuedRuns \cup LiveAmong({r})
  <2>1. /\ worker[r] = "aborted" /\ worker' = [worker EXCEPT ![r] = "none"] /\ up' = up
        /\ canceller' = canceller /\ UNCHANGED serverVars /\ Terminalize(run, over, "stopped")
    BY <1>6 DEF WorkerAborted, Ends, Goto, bridgeVars
  <2>2. over \in SUBSET Req
    BY LiveRuns
  <2>3. ASSUME NEW s \in over PROVE Endable(s)
    <3>1. CASE s \in QueuedRuns
      BY <3>1, QueuedEndable
    <3>2. CASE s = r /\ Live(r)
      BY <1>0, <2>1, <3>2 DEF Own, Dead, Endable, Passed, serverVars
    <3> QED BY <2>3, <3>1, <3>2 DEF LiveAmong
  <2> HIDE DEF over
  <2> QED BY <1>0, <2>1, <2>2, <2>3, WorkerEndsOwn
<1>7. CASE WorkerFailed(r)
  <2>1. CASE Moves(r, "failed", "aborting")
    BY <2>1, MovesOwn DEF WorkerPoints
  <2>2. CASE /\ worker[r] = "failed" /\ ~(run[r].turn # "unsent" /\ Live(r))
             /\ Ends(r, "none", IF Preserved(r) THEN {} ELSE LiveAmong({r}))
    <3> DEFINE over == IF Preserved(r) THEN {} ELSE LiveAmong({r})
    <3>1. over \in SUBSET LiveAmong({r}) /\ Ends(r, "none", over)
      BY <2>2
    <3>2. native[r] # "running" \/ ~Live(r)
      BY <1>0, <2>2 DEF Ok, Once
    <3> HIDE DEF over
    <3> QED BY <2>2, <3>1, <3>2, FailsOwn
  <2> QED BY <1>7, <2>1, <2>2 DEF WorkerFailed
<1> QED BY <1>1, <1>2, <1>3, <1>4, <1>5, <1>6, <1>7 DEF TurnSteps

LEMMA BudgetOwn ==
    ASSUME BrokerInv, OwnInv, up = "running", NEW r \in Req, BudgetSteps(r)
    PROVE  OwnInv'
<1>0. /\ Own(r) /\ Ok(r) /\ run \in [Req -> Row] /\ worker \in [Req -> WorkerPoints]
      /\ "stopped" \in Ended /\ "cancelling" \in ActiveStates
  BY OwnRow DEF BrokerInv, Types, LedgerType, ThreadType, Ended, ActiveStates
<1>1. /\ worker[r] \in {"bound", "watching", "failed"} /\ Live(r) /\ up' = up
      /\ canceller' = canceller /\ UNCHANGED serverVars
  BY <1>0 DEF BudgetSteps, BudgetStop, BudgetUnconfirmed, StopExpiredStart, Ends, bridgeVars
<1>2. worker[r] # "failed" => run[r].status \in ActiveStates
  BY <1>0, <1>1 DEF Ok, Once, Early, Late, WorkerPoints, Live, LiveStates
<1>3. CASE BudgetStop(r) \/ BudgetUnconfirmed(r)
  <2>1. /\ \/ run' = [run EXCEPT ![r].status = "cancelling", ![r].stop = "asked"]
           \/ run' = [run EXCEPT ![r].stop = "unconfirmed"]
        /\ worker' = [worker EXCEPT ![r] = worker[r]]
        /\ worker[r] \in WorkerPoints \ {"none", "failed", "aborted"}
    BY <1>0, <1>3 DEF BudgetStop, BudgetUnconfirmed, WorkerPoints
  <2>2. run'[r].gen = run[r].gen /\ (run'[r].status = "cancelling" \/ run'[r].status = run[r].status)
    BY <1>0, <2>1 DEF Row
  <2>3. \A s \in Req : s # r => run'[s] = run[s]
    BY <1>0, <2>1
  <2> QED BY <1>0, <1>1, <1>2, <2>1, <2>2, <2>3, RowOwn
<1>4. CASE StopExpiredStart(r)
  <2> DEFINE next == IF worker[r] = "failed" THEN "watching" ELSE "bound"
  <2>1. /\ next \in {"none", "watching", "bound"} /\ next \in WorkerPoints \ {"aborted"}
        /\ run[r].gen # 0 /\ worker[r] # "none"
    BY <1>1, <1>4 DEF StopExpiredStart, WorkerPoints
  <2>2. CASE run[r].gen # gen /\ Ends(r, next, Interrupted)
    <3>1. run[r].status \in ActiveStates /\ Passed(r)
      <4>1. run[r].status \in ActiveStates
        BY <1>0, <1>1, <2>1 DEF Ok, Once, Live, LiveStates
      <4>2. run[r].gen < gen
        BY <1>0, <1>1, <2>2, OwnRow DEF Own
      <4> QED BY <1>1, <4>1, <4>2 DEF Passed, serverVars
    <3>2. ASSUME NEW s \in Interrupted PROVE Endable(s)
      <4>1. s \in Req /\ Lease(s) /\ Lease(r)
        BY OwnRow DEF Interrupted
      <4>2. run[s].status \in ActiveStates => s = r
        BY <3>1, <4>1 DEF Lease
      <4> QED BY <3>1, <4>2 DEF Endable
    <3>3. worker' = [worker EXCEPT ![r] = next] /\ Terminalize(run, Interrupted, "stopped")
      BY <2>2 DEF Ends, Goto
    <3>4. Interrupted \in SUBSET Req
      BY LiveRuns
    <3> HIDE DEF next
    <3> QED BY <1>0, <1>1, <2>1, <3>2, <3>3, <3>4, WorkerEndsOwn
  <2>3. CASE run[r].turn = "unsent" /\ Ends(r, next, {r})
    <3>1. native[r] # "running"
      BY <1>0, <2>3 DEF Ok, Once
    <3>2. worker' = [worker EXCEPT ![r] = next] /\ Terminalize(run, {r}, "stopped")
      BY <2>3 DEF Ends, Goto
    <3>3. {r} \in SUBSET Req /\ \A s \in {r} : (s = r /\ native[r] # "running") \/ Endable(s)
      BY <3>1
    <3> HIDE DEF next
    <3> QED BY <1>0, <1>1, <2>1, <3>2, <3>3, WorkerEndsOwn
  <2>4. CASE /\ run' = [run EXCEPT ![r].status = "cancelling", ![r].stop = "unconfirmed"]
             /\ Goto(r, next)
    <3>1. run'[r].gen = run[r].gen /\ run'[r].status = "cancelling"
      BY <1>0, <2>4 DEF Row
    <3>2. worker' = [worker EXCEPT ![r] = next] /\ \A s \in Req : s # r => run'[s] = run[s]
      BY <1>0, <2>4 DEF Goto
    <3> HIDE DEF next
    <3> QED BY <1>0, <1>1, <2>1, <3>1, <3>2, RowOwn
  <2> QED BY <1>4, <2>2, <2>3, <2>4 DEF StopExpiredStart
<1> QED BY <1>3, <1>4 DEF BudgetSteps

LEMMA CodexOwn ==
    ASSUME BrokerInv, OwnInv, up = "running", NEW r \in Req, Codex(r)
    PROVE  OwnInv'
<1>0. /\ Own(r) /\ Ok(r) /\ run \in [Req -> Row] /\ Cancelling(run) /\ "stopped" \in Ended
      /\ native \in [Req -> {"none", "running", "done", "lost"}] /\ \A s \in Req : Own(s)
  BY OwnRow DEF BrokerInv, Types, LedgerType, ServerType, Cancelling, Ended
<1>1. UNCHANGED <<worker, canceller, gen, up>>
  BY DEF Codex, TurnCompletes, TurnCompleted, BufferOverflows, bridgeVars
<1>2. \A s \in Req : Threads(s)
  BY <1>0, <1>1 DEF Threads, Own
<1>3. CASE TurnCompletes(r)
  <2>1. native' = [native EXCEPT ![r] = "done"] /\ ready' = ready /\ run' = run
    BY <1>3 DEF TurnCompletes, ledgerVars
  <2>2. Onward /\ \A s \in Req : Record(s)
    BY <1>0, <1>1, <2>1 DEF Onward, Record, Live
  <2> QED BY <1>1, <1>2, <2>2, OwnStep
<1>4. CASE TurnCompleted(r)
  <2>1. native' = native /\ ready' = ready /\ native[r] = "done" /\ worker[r] # "dispatched"
    BY <1>0, <1>4 DEF TurnCompleted, Ok, Real, Once
  <2>2. Onward
    BY <1>1, <2>1 DEF Onward
  <2>3. CASE run' = run
    <3>1. \A s \in Req : Record(s)
      BY <2>3 DEF Record, Live
    <3> QED BY <1>1, <1>2, <2>2, <3>1, OwnStep
  <2>4. CASE \E status \in Ended : Terminalize(run, {r}, status)
    <3>1. PICK status \in Ended : Terminalize(run, {r}, status)
      BY <2>4
    <3>2. {r} \in SUBSET Req /\ \A s \in {r} : Endable(s)
      BY <1>1, <2>1 DEF Endable
    <3> QED BY <1>0, <1>1, <1>2, <2>2, <3>1, <3>2, TerminalizeOwn
  <2> QED BY <1>4, <2>3, <2>4 DEF TurnCompleted, ledgerVars
<1>5. CASE BufferOverflows(r)
  <2> DEFINE over == QueuedRuns \cup {r}
  <2>1. Abort(run[r].gen) /\ Terminalize(run, over, "stopped") /\ run[r].gen <= gen
    BY <1>0, <1>5 DEF BufferOverflows, Own
  <2>2. Onward /\ Passed(r)
    BY <1>1, <2>1, AbortOnward
  <2>3. over \in SUBSET Req /\ \A s \in over : Endable(s)
    BY <2>2, LiveRuns, QueuedEndable DEF Endable
  <2> HIDE DEF over
  <2> QED BY <1>0, <1>1, <1>2, <2>1, <2>2, <2>3, TerminalizeOwn
<1> QED BY <1>3, <1>4, <1>5 DEF Codex

\* The recovery thread ends or hands on runs that wait in the queue.
LEMMA RecoveryOwn ==
    ASSUME BrokerInv, OwnInv, up = "running", NEW r \in Req, Recovery(r)
    PROVE  OwnInv'
<1>0. /\ run \in [Req -> Row] /\ worker \in [Req -> WorkerPoints] /\ \A s \in Req : Own(s)
  BY OwnRow DEF BrokerInv, Types, LedgerType, ThreadType
<1>1. /\ UNCHANGED <<canceller, serverVars, up>>
      /\ \/ run' = run
         \/ run[r].status = "queued" /\ run' = [run EXCEPT ![r] = End(@, "stopped")]
      /\ \/ worker' = worker
         \/ run[r].status = "queued" /\ worker' = [worker EXCEPT ![r] = "waiting"]
  BY DEF Recovery, RecoveryChecks, RecoveryReserves, RecoveryClaims, RecoveryExpires,
         RecoveryLeaves, RecoveryMoves, RecoveryEnds, Recoverable, RestartSafe, Unsent, bridgeVars
<1>2. \A s \in Req : Threads(s)
  BY <1>0, <1>1 DEF Threads, Own, Live, LiveStates
<1>3. ASSUME NEW s \in Req PROVE Record(s)
  <2>1. CASE run'[s] = run[s]
    BY <2>1 DEF Record, Live
  <2>2. CASE s = r /\ run[r].status = "queued" /\ run'[r] = End(run[r], "stopped")
    <3>1. run'[r].status = "stopped" /\ run'[r].gen = run[r].gen
      BY <1>0, <2>2, EndRow DEF Ended
    <3> QED BY <2>2, <3>1 DEF Record, Live, LiveStates, ActiveStates
  <2> QED BY <1>0, <1>1, <2>1, <2>2
<1> QED BY <1>1, <1>2, <1>3, ServerOnward, OwnStep

\* A process that has just started knows no run that was sent.
LEMMA BootOwn ==
    ASSUME BrokerInv, OwnInv, Start
    PROVE  OwnInv'
<1>1. /\ Down /\ gen' = 1 /\ up = "down" /\ up' = "running"
      /\ run' = [r \in Req |-> IF r \in Interrupted THEN End(run[r], "stopped") ELSE run[r]]
      /\ UNCHANGED <<worker, canceller, native>>
  BY DEF Start, BrokerInv, LeaseInv
<1>2. \A r \in Req : /\ r \in Interrupted => run'[r].status = "stopped"
                     /\ r \notin Interrupted => run'[r] = run[r]
  BY <1>1, EndedRuns
<1>3. ASSUME NEW r \in Req PROVE Own(r)'
  <2>1. worker'[r] = "none" /\ canceller'[r] = "none" /\ Ok(r) /\ BrokerInv'
    BY <1>1, OkRuns, BootKeeps DEF Down, Idle
  <2>2. Live(r)' => run'[r].status = "queued"
    BY <1>2 DEF Interrupted, Live, LiveStates, ActiveStates, RestartSafe, Unsent
  <2>3. run'[r].status = "queued" => run'[r].gen = 0
    BY <2>1 DEF BrokerInv, OnceInv, Once
  <2>4. native'[r] # "running"
    BY <1>1 DEF OwnInv
  <2> QED BY <1>1, <2>1, <2>2, <2>3, <2>4 DEF Own
<1> QED BY <1>1, <1>3 DEF OwnInv

LEMMA EnvironmentOwn ==
    ASSUME BrokerInv, OwnInv, up = "running",
           ProcessDies \/ ProcessStarts \/ AccountChangeBegins \/ AccountChanges
           \/ AccountFailsClosed \/ ResumeRecovered \/ UNCHANGED vars
    PROVE  OwnInv'
<1>0. \A s \in Req : Own(s)
  BY OwnRow
<1>1. CASE ProcessDies \/ ProcessStarts
  <2>1. UNCHANGED <<run, worker, canceller, up>>
    BY <1>1 DEF ProcessDies, ProcessStarts, ledgerVars, bridgeVars
  <2>2. Onward
    <3>1. CASE ProcessDies
      <4>1. /\ ready' = FALSE /\ gen' = gen
            /\ native' = [s \in Req |-> IF native[s] = "running" THEN "lost" ELSE native[s]]
        BY <3>1 DEF ProcessDies, LoseProcess
      <4> QED BY <4>1 DEF Onward
    <3>2. CASE ProcessStarts
      BY <3>2 DEF ProcessStarts, Onward
    <3> QED BY <1>1, <3>1, <3>2
  <2>3. \A s \in Req : Threads(s) /\ Record(s)
    BY <1>0, <2>1 DEF Threads, Own, Record, Live
  <2> QED BY <2>1, <2>2, <2>3, OwnStep
<1>2. CASE AccountChangeBegins \/ AccountChanges \/ AccountFailsClosed \/ UNCHANGED vars
  BY <1>2, SameOwn DEF AccountChangeBegins, AccountChanges, AccountFailsClosed, vars, ledgerVars,
                       bridgeVars
<1>3. CASE ResumeRecovered
  <2>1. PICK late \in SUBSET Resumable(run) :
          run' = [r \in Req |-> IF r \in late THEN End(run[r], "stopped") ELSE run[r]]
    BY <1>3 DEF ResumeRecovered
  <2>2. UNCHANGED <<worker, canceller, serverVars, up>>
    BY <1>3 DEF ResumeRecovered
  <2>3. ASSUME NEW s \in Req PROVE Record(s)
    <3>1. s \in late => run[s].status = "queued"
      BY <2>1 DEF Resumable, RestartSafe, Unsent
    <3>2. /\ run'[s].gen = run[s].gen /\ (s \in late => run'[s].status = "stopped")
          /\ s \notin late => run'[s] = run[s]
      BY <2>1, EndedRuns
    <3> QED BY <3>1, <3>2 DEF Record, Live, LiveStates, ActiveStates
  <2>4. \A s \in Req : Threads(s)
    BY <1>0, <2>2 DEF Threads, Own
  <2> QED BY <2>2, <2>3, <2>4, ServerOnward, OwnStep
<1> QED BY <1>1, <1>2, <1>3

\* Only shutdown, exit, a crash and the start of the Bridge change up.
LEMMA UpKept ==
    ASSUME NEW r \in Req, User(r) \/ Request(r) \/ Worker(r) \/ Recovery(r) \/ Codex(r)
    PROVE  UNCHANGED bridgeVars
<1>1. CASE User(r)
  BY <1>1 DEF User, SubmitPrompt, AdmitPrompt, ReleaseAdmission, SteerBegin, CancelQueuedPrompt,
              CancelRun, bridgeVars
<1>2. CASE Request(r)
  BY <1>2 DEF Request, SteerAccepted, SteerFailed, CancelAborts, CancelAborted,
              InterruptAccepted, InterruptFails, InterruptFailed, bridgeVars
<1>3. CASE Recovery(r) \/ Codex(r)
  BY <1>3 DEF Recovery, RecoveryChecks, RecoveryReserves, RecoveryClaims, RecoveryExpires,
              RecoveryLeaves, RecoveryMoves, RecoveryEnds, Codex, TurnCompletes, TurnCompleted,
              BufferOverflows, bridgeVars
<1>4. CASE StartSteps(r)
  BY <1>4 DEF StartSteps, WorkerWakes, WorkerTooLate, WorkerTimesOut, WorkerExpired,
              WorkerFenced, WorkerAdmitted, StartTurn, ThreadLoaded, TurnDispatched, TurnStarts,
              StartFails, Moves, Ends, bridgeVars
<1>5. CASE TurnSteps(r)
  BY <1>5 DEF TurnSteps, TurnBound, TurnReplayed, WorkerInterrupts, WatchEnds, WatchStale,
              WatchReconciles, WatchGivesUp, WorkerAborts, WorkerAborted, WorkerFailed,
              Moves, Ends, Completes, bridgeVars
<1>6. CASE BudgetSteps(r)
  BY <1>6 DEF BudgetSteps, BudgetStop, BudgetUnconfirmed, StopExpiredStart, Ends, bridgeVars
<1>7. CASE Worker(r)
  <2>1. StartSteps(r) \/ TurnSteps(r) \/ BudgetSteps(r)
    BY <1>7 DEF Worker, StartSteps, TurnSteps, BudgetSteps
  <2> QED BY <1>4, <1>5, <1>6, <2>1
<1> QED BY <1>1, <1>2, <1>3, <1>7

LEMMA OwnNext ==
    ASSUME BrokerInv, OwnInv, [Next]_vars, \A r \in Req : Timely(r)
    PROVE  OwnInv'
<1>1. CASE \E r \in Req : User(r) \/ Request(r) \/ Worker(r) \/ Recovery(r) \/ Codex(r)
  <2>1. PICK r \in Req : User(r) \/ Request(r) \/ Worker(r) \/ Recovery(r) \/ Codex(r)
    BY <1>1
  <2>2. CASE up = "running"
    <3>1. Timely(r)
      OBVIOUS
    <3> QED BY <2>1, <2>2, <3>1, UserOwn, RequestOwn, StartOwn, TurnOwn, BudgetOwn, RecoveryOwn,
               CodexOwn DEF Worker, StartSteps, TurnSteps, BudgetSteps
  <2>3. CASE up # "running"
    <3>1. up' = up
      BY <2>1, UpKept DEF bridgeVars
    <3>2. up = "down" => ~TurnStarts(r)
      BY ThreadsUp DEF TurnStarts
    <3>3. up = "down" => Still
      BY <2>1, <3>2, OthersStill, WorkerStill
    <3> QED BY <2>3, <3>1, <3>3 DEF OwnInv, Still
  <2> QED BY <2>2, <2>3
<1>2. CASE Start
  BY <1>2, BootOwn
<1>3. CASE Exit \/ Crash
  BY <1>3 DEF Exit, Crash, Gone, OwnInv
<1>4. CASE Close
  BY <1>4 DEF Close, OwnInv
<1>5. CASE ProcessDies \/ ProcessStarts \/ AccountChangeBegins \/ AccountChanges
           \/ AccountFailsClosed \/ ResumeRecovered \/ UNCHANGED vars
  <2>1. CASE up = "running"
    BY <1>5, <2>1, EnvironmentOwn
  <2>2. CASE up # "running"
    <3>1. UNCHANGED <<up, native>>
      BY <1>5, <2>2 DEF ProcessDies, ProcessStarts, AccountChangeBegins, AccountChanges,
                        AccountFailsClosed, ResumeRecovered, vars, serverVars, bridgeVars
    <3> QED BY <2>2, <3>1 DEF OwnInv
  <2> QED BY <2>1, <2>2
<1> QED BY <1>1, <1>2, <1>3, <1>4, <1>5 DEF Next, Environment

\* A turn that runs inside Codex belongs to a live run that holds the gate's only
\* slot, as long as no watcher acts on a generation that is no longer the one it
\* saw: the comparison in _watch_turn outside the lock, which broker_stale shows to
\* be unsafe, is the only way in which runtime_broker.py loses a turn.
THEOREM BrokerTurnOwned ==
    Spec /\ [][\A r \in Req : Timely(r)]_vars => []NativeTurnOwned
<1> DEFINE Step == \A r \in Req : Timely(r)
<1>1. Init => OwnInv
  <2> SUFFICES ASSUME Init PROVE OwnInv
    OBVIOUS
  <2>1. up = "running" /\ gen = 1 /\ \A r \in Req : /\ native[r] = "none" /\ worker[r] = "none"
                                                    /\ canceller[r] = "none" /\ ~Live(r)
    BY DEF Init, Idle, NoRun, Live, LiveStates, ActiveStates
  <2> QED BY <2>1 DEF OwnInv, Own
<1>2. BrokerInv /\ OwnInv /\ [Next]_vars /\ [Step]_vars => OwnInv'
  <2>1. CASE Step
    BY <2>1, OwnNext
  <2>2. CASE UNCHANGED vars
    <3>1. ASSUME BrokerInv, OwnInv PROVE OwnInv'
      BY <2>2, <3>1, SameOwn DEF vars, ledgerVars, bridgeVars
    <3> QED BY <3>1
  <2> QED BY <2>1, <2>2
<1>3. BrokerInv /\ OwnInv => NativeTurnOwned
  <2> SUFFICES ASSUME BrokerInv, OwnInv PROVE NativeTurnOwned
    OBVIOUS
  <2>1. up = "running" => \A r \in Req : Own(r) /\ Lease(r)
    BY OwnRow
  <2> QED BY <2>1 DEF Own, Lease, NativeTurnOwned
<1> HIDE DEF Step
<1>4. Spec /\ [][Step]_vars => []NativeTurnOwned
  BY <1>1, <1>2, <1>3, BrokerInvariant, PTL DEF Spec
<1> QED BY <1>4 DEF Step

-----------------------------------------------------------------------------
(* The course of a request: what one step of a thread may make of it *)

\* Where a worker is before the answer to turn/start.
Sending == Early \cup {"preparing", "loaded", "dispatched", "sent"}
Recovering == {"checking", "ready", "claimed"}

\* Only a run with a limit has a budget stop, and none while it is in the queue or
\* being sent; and only a live run still has its prompt.
Plain(r) ==
    /\ run[r].stop # "no" => r \in Budgeted
    /\ run[r].status = "queued" \/ worker[r] \in Sending => run[r].stop = "no"
    /\ run[r].status \in Ended => ~run[r].prompt

\* A queued run that somebody will take up.
Waits(r) ==
    \/ worker[r] # "none" \/ recovery[r] \in Recovering
    \/ r \in deferred /\ recovery[r] = "none" /\ (Blocked \/ ~settled)

\* A recovery thread that is to reserve finds room in the gate.
Roomy(r) == RecoveryReserves(r) /\ Recoverable(r) => authLease \/ ReserveAllowed

\* A prompt is only put back if recovery may send it, and once the recovery
\* thread that had started its worker has left.
Deferrable(r) ==
    up = "running" /\ r \in deferred' \ deferred => RestartSafe(run'[r]) /\ recovery[r] = "none"

\* r is submitted.
Entered(r) ==
    /\ up = "running" /\ run[r].status = "none" /\ worker'[r] = "waiting"
    /\ Live(r)' /\ run'[r].prompt /\ run'[r].stop = "no" /\ run'[r].acct = account

\* r ends.
Over(r) ==
    /\ Live(r) /\ ~Live(r)' /\ run'[r].mode = run[r].mode
    /\ run'[r].stop = "no" /\ ~run'[r].prompt

SameTask(r) ==
    /\ run'[r].mode = run[r].mode /\ run'[r].prompt = run[r].prompt /\ run'[r].acct = run[r].acct

\* r becomes or stays active.
GoesOn(r) ==
    /\ Live(r) /\ run'[r].status \in ActiveStates /\ SameTask(r)
    /\ run[r].status = "queued" => up = "running"
    /\ \/ run'[r].stop = run[r].stop
       \/ worker'[r] \notin Sending /\ run'[r].stop # "no"
          /\ (r \in Budgeted \/ run[r].stop # "no")
          /\ (run[r].stop = "unconfirmed" => run'[r].stop = "unconfirmed")

\* The worker of r puts it back in the queue, behind a budget stop.
PutBack(r) ==
    /\ worker[r] \in {"expired", "woken", "admitted"} /\ worker'[r] = "none"
    /\ run'[r].status = "queued" /\ run'[r].stop = run[r].stop /\ SameTask(r)
    /\ Blocked /\ Blocked' /\ r \in deferred' /\ recovery'[r] = recovery[r]

\* The recovery thread of r hands it to a worker.
Taken(r) ==
    /\ up = "running" /\ run[r].status = "queued" /\ run'[r] = run[r]
    /\ SameAccount(r) /\ worker'[r] = "waiting"

Fate(r) == run'[r] = run[r] \/ Entered(r) \/ Over(r) \/ GoesOn(r) \/ PutBack(r)

\* What its worker does.
Works(r) ==
    \/ worker'[r] = worker[r]
    \/ /\ worker[r] # "none" /\ worker'[r] # "none"
       /\ worker'[r] \in Sending => worker[r] \in Sending
       /\ worker'[r] = "dispatched" => run[r].status \in ActiveStates
    \/ worker[r] # "none" /\ worker'[r] = "none" /\ (run'[r].status # "queued" \/ up # "running")
    \/ Entered(r) \/ PutBack(r) \/ Taken(r)

\* What recovery does.
Recovers(r) ==
    /\ r \in deferred' => r \in deferred \/ PutBack(r)
    /\ recovery'[r] # "none" => recovery[r] # "none" \/ r \in deferred

\* Who waits to be taken up goes on waiting, or is taken up.
Waiting(r) ==
    up = "running" /\ Roomy(r) /\ RestartSafe(run'[r]) /\ Waits(r) => Waits(r)' \/ PutBack(r)

Course(r) ==
    /\ Fate(r) /\ Works(r) /\ Recovers(r) /\ Waiting(r)
    /\ HasLease(r)' => HasLease(r) \/ worker'[r] = "none" \/ Entered(r)

PlainInv == \A r \in Req : Plain(r)

\* The broker is blocked until a stop is confirmed.
LEMMA StaysBlocked ==
    ASSUME NEW r \in Req, \A s \in Req : s # r => run'[s] = run[s],
           run[r].stop = "unconfirmed" /\ Live(r) => run'[r].stop = "unconfirmed" /\ Live(r)'
    PROVE  Blocked => Blocked'
<1> SUFFICES ASSUME Blocked PROVE Blocked'
  OBVIOUS
<1>1. PICK s \in Req : run[s].status \in LiveStates /\ run[s].stop = "unconfirmed"
  BY DEF Blocked, BlockedIn
<1>2. run'[s].status \in LiveStates /\ run'[s].stop = "unconfirmed"
  BY <1>1 DEF Live
<1> QED BY <1>2 DEF Blocked, BlockedIn

\* A step that leaves every request but r alone.
LEMMA CourseOne ==
    ASSUME NEW r \in Req, settled' = settled, Blocked => Blocked', Course(r),
           \A s \in Req : s # r => /\ run'[s] = run[s] /\ worker'[s] = worker[s]
                                   /\ recovery'[s] = recovery[s]
                                   /\ s \in deferred' <=> s \in deferred
                                   /\ HasLease(s)' => HasLease(s)
    PROVE  \A s \in Req : Course(s)
<1> SUFFICES ASSUME NEW s \in Req, s # r PROVE Course(s)
  OBVIOUS
<1>1. Waits(s) => Waits(s)'
  BY DEF Waits
<1> QED BY <1>1 DEF Course, Fate, Works, Recovers, Waiting

\* A stop that ends is confirmed, or what waited behind it is resumed.
LEMMA TerminalizeWaits ==
    ASSUME run \in [Req -> Row], recovery \in [Req -> RecoveryPoints],
           up' = "running", settled' = settled,
           NEW base \in [Req -> Row], Cancelling(base),
           NEW over \in SUBSET Req, NEW status \in Ended, Terminalize(base, over, status),
           NEW r \in Req, RestartSafe(run'[r]), worker'[r] = worker[r] \/ worker'[r] # "none", Waits(r)
    PROVE  Waits(r)'
<1> DEFINE mid == [s \in Req |-> IF s \in over THEN End(base[s], status) ELSE base[s]]
           lifted == /\ \E s \in over : base[s].stop = "unconfirmed"
                     /\ ~BlockedIn(mid) /\ up' = "running"
<1>1. PICK late \in IF lifted THEN SUBSET {s \in Resumable(mid) : recovery[s] = "none"} ELSE {{}} :
        /\ run' = [s \in Req |-> IF s \in late THEN End(mid[s], "stopped") ELSE mid[s]]
        /\ IF lifted THEN Resume(mid, late) ELSE UNCHANGED <<recovery, deferred>>
  BY DEF Terminalize
<1>2. r \notin late /\ r \notin over /\ run'[r] = mid[r] /\ mid[r] = base[r] /\ RestartSafe(mid[r])
  <2>1. \A row \in Row, e \in Ended : ~RestartSafe(End(row, e))
    BY EndRow DEF RestartSafe, Unsent, Ended
  <2>2. mid \in [Req -> Row] /\ "stopped" \in Ended
    BY EndRow DEF Ended
  <2>3. r \notin late
    BY <1>1, <2>1, <2>2
  <2>4. run'[r] = mid[r]
    BY <1>1, <2>3
  <2>5. r \notin over
    BY <2>1, <2>4
  <2> QED BY <2>3, <2>4, <2>5
<1>3. CASE lifted
  <2>1. recovery' = [s \in Req |-> IF s \in Resumable(mid) \ late /\ recovery[s] = "none"
                                     THEN "checking" ELSE recovery[s]]
    BY <1>1, <1>3 DEF Resume
  <2>2. r \in deferred => r \in Resumable(mid) \ late
    BY <1>2 DEF Resumable
  <2>3. recovery[r] \in Recovering => recovery'[r] \in Recovering
    <3> HIDE DEF mid
    <3> QED BY <2>1 DEF Recovering
  <2>4. r \in deferred /\ recovery[r] = "none" => recovery'[r] = "checking"
    <3> HIDE DEF mid
    <3> QED BY <2>1, <2>2
  <2> QED BY <2>3, <2>4 DEF Waits, Recovering
<1>4. CASE ~lifted
  <2>1. UNCHANGED <<recovery, deferred>> /\ run' = mid
    BY <1>1, <1>4
  <2>2. ASSUME Blocked PROVE Blocked'
    <3>1. PICK s \in Req : run[s].status \in LiveStates /\ run[s].stop = "unconfirmed"
      BY <2>2 DEF Blocked, BlockedIn
    <3>2. base[s].status \in LiveStates /\ base[s].stop = "unconfirmed"
      BY <3>1 DEF Cancelling, Row, LiveStates, ActiveStates
    <3>3. CASE s \in over
      <4>1. BlockedIn(mid)
        BY <1>4, <3>2, <3>3
      <4> HIDE DEF mid
      <4> QED BY <2>1, <4>1 DEF Blocked, BlockedIn
    <3>4. CASE s \notin over
      <4>1. run'[s] = base[s]
        BY <2>1, <3>4
      <4> QED BY <3>2, <4>1 DEF Blocked, BlockedIn
    <3> QED BY <3>3, <3>4
  <2> QED BY <2>1, <2>2 DEF Waits
<1> QED BY <1>3, <1>4

\* Steps that end runs.
LEMMA TerminalizeCourse ==
    ASSUME BrokerInv, up # "down", up' = up, settled' = settled,
           NEW base \in [Req -> Row], Cancelling(base),
           NEW over \in SUBSET Req, \A s \in over : Live(s),
           NEW status \in Ended, Terminalize(base, over, status), \A s \in Req : Leaving(s, over)
    PROVE  \A s \in Req : Course(s)
<1>0. \A s \in Req : Settles(s, base[s], over, status)
  BY TerminalizeStep DEF BrokerInv, Types, LeaseInv
<1> TAKE r \in Req
<1> DEFINE row == base[r]
<1>1. /\ Settles(r, row, over, status) /\ Leaving(r, over) /\ run[r] \in Row /\ row \in Row
      /\ r \in over => Live(r)
  BY <1>0 DEF BrokerInv, Types, LedgerType
<1>2. \/ row = run[r]
      \/ /\ run[r].status \in ActiveStates /\ row.status = "cancelling" /\ row.mode = run[r].mode
         /\ row.prompt = run[r].prompt /\ row.acct = run[r].acct /\ row.stop = run[r].stop
  BY <1>1 DEF Cancelling, Row
<1>3. run \in [Req -> Row] /\ recovery \in [Req -> RecoveryPoints] /\ worker \in [Req -> WorkerPoints]
  BY DEF BrokerInv, Types, LedgerType, ThreadType
<1>4. \/ r \notin over /\ run'[r] = row /\ KeepsLease(r)
      \/ Over(r) /\ (HasLease(r)' => HasLease(r))
  <2>1. ASSUME NEW e \in Ended, Finishes(r, row, e), r \in over \/ row.status = "queued"
        PROVE  Over(r) /\ (HasLease(r)' => HasLease(r))
    <3>1. /\ run'[r].status = e /\ run'[r].stop = "no" /\ run'[r].prompt = FALSE
          /\ run'[r].mode = row.mode
      BY <1>1, <2>1 DEF Finishes, End, Row
    <3>2. Live(r)
      BY <1>1, <1>2, <2>1 DEF Live, LiveStates, ActiveStates
    <3> QED BY <1>2, <2>1, <3>1, <3>2 DEF Over, Finishes, Live, LiveStates, ActiveStates, Ended
  <2>2. "stopped" \in Ended
    BY DEF Ended
  <2> QED BY <1>1, <2>1, <2>2 DEF Settles
<1>5. Fate(r)
  <2>1. CASE run'[r] = row /\ row # run[r]
    BY <1>2, <2>1 DEF Fate, GoesOn, SameTask, Live, LiveStates, ActiveStates
  <2> QED BY <1>4, <2>1 DEF Fate
<1>6. run'[r].status = "queued" => r \notin over /\ Live(r)
  <2>1. Over(r) => run'[r].status # "queued"
    BY DEF Over, Live, LiveStates
  <2> QED BY <1>2, <1>4, <2>1 DEF Live, LiveStates
<1>7. Works(r)
  BY <1>1, <1>6 DEF Works, Leaving, Sending, Early
<1>8. Recovers(r)
  BY <1>1 DEF Settles, Recovers
<1>9. Waiting(r)
  <2> SUFFICES ASSUME up = "running", RestartSafe(run'[r]), Waits(r) PROVE Waits(r)'
    BY DEF Waiting
  <2>1. r \notin over /\ Live(r)
    BY <1>6 DEF RestartSafe, Unsent
  <2>2. worker'[r] = worker[r] \/ worker'[r] # "none"
    BY <1>1, <2>1 DEF Leaving
  <2> HIDE DEF row
  <2> QED BY <1>3, <2>2, TerminalizeWaits
<1> QED BY <1>4, <1>5, <1>7, <1>8, <1>9 DEF Course, KeepsLease

\* The same for the worker of r.
LEMMA EndsCourse ==
    ASSUME BrokerInv, NEW r \in Req, NEW to \in {"none", "watching", "bound"},
           worker[r] # "none", up # "down",
           NEW over \in SUBSET Req, \A s \in over : Live(s),
           to = "none" => r \in over \/ ~Live(r) \/ up # "running",
           to # "none" => r \in over \/ run[r].status # "queued",
           NEW status \in Ended, worker' = [worker EXCEPT ![r] = to],
           UNCHANGED bridgeVars, Terminalize(run, over, status)
    PROVE  \A s \in Req : Course(s)
<1>1. worker \in [Req -> WorkerPoints] /\ run \in [Req -> Row] /\ Cancelling(run)
  BY DEF BrokerInv, Types, ThreadType, LedgerType, Cancelling
<1>2. \A s \in Req : Leaving(s, over)
  BY <1>1 DEF Leaving
<1> QED BY <1>1, <1>2, TerminalizeCourse DEF bridgeVars

\* And for other threads.
LEMMA StopsCourse ==
    ASSUME BrokerInv, up # "down", NEW over \in SUBSET Req, \A s \in over : Live(s),
           NEW status \in Ended, NEW base \in [Req -> Row], Cancelling(base),
           UNCHANGED <<worker, bridgeVars>>, Terminalize(base, over, status)
    PROVE  \A s \in Req : Course(s)
<1>1. \A s \in Req : Leaving(s, over)
  BY DEF Leaving
<1> QED BY <1>1, TerminalizeCourse DEF bridgeVars

\* Steps that change neither records nor threads nor the queue of recovery.
LEMMA QuietCourse ==
    ASSUME UNCHANGED <<ledgerVars, worker, settled>>
    PROVE  \A s \in Req : Course(s)
<1>1. /\ \A s \in Req : run'[s] = run[s] /\ worker'[s] = worker[s] /\ recovery'[s] = recovery[s]
      /\ deferred' = deferred /\ holder' = holder /\ waiting' = waiting
  BY DEF ledgerVars
<1>2. Blocked => Blocked'
  BY <1>1 DEF Blocked, BlockedIn
<1>3. \A s \in Req : Waits(s) => Waits(s)'
  BY <1>1, <1>2 DEF Waits
<1> QED BY <1>1, <1>3 DEF Course, Fate, Works, Recovers, Waiting, HasLease

\* The worker of r moves on.
LEMMA MovesCourse ==
    ASSUME BrokerInv, NEW r \in Req, NEW from \in WorkerPoints \ {"none"}, NEW to \in WorkerPoints,
           Moves(r, from, to),
           to \in Sending => from \in Sending, to # "dispatched",
           to = "none" => ~Live(r) \/ up # "running"
    PROVE  \A s \in Req : Course(s)
<1>1. /\ worker[r] = from /\ worker' = [worker EXCEPT ![r] = to] /\ worker \in [Req -> WorkerPoints]
      /\ UNCHANGED <<run, holder, waiting, recovery, deferred, settled>>
  BY DEF Moves, Goto, BrokerInv, Types, ThreadType, ledgerVars, bridgeVars
<1>2. Blocked => Blocked'
  BY <1>1 DEF Blocked, BlockedIn
<1>3. Works(r) /\ worker'[r] = to
  BY <1>1 DEF Works, Live, LiveStates
<1>4. Fate(r) /\ Recovers(r) /\ (HasLease(r)' => HasLease(r))
  BY <1>1 DEF Fate, Recovers, HasLease
<1>5. Waiting(r)
  BY <1>1, <1>3 DEF Waiting, Waits, Live, LiveStates, RestartSafe, Unsent
<1>6. \A s \in Req : s # r => worker'[s] = worker[s]
  BY <1>1
<1> QED BY <1>1, <1>2, <1>3, <1>4, <1>5, <1>6, CourseOne DEF Course, HasLease

\* The worker of r moves on and takes its record along.
LEMMA RowCourse ==
    ASSUME BrokerInv, NEW r \in Req, worker[r] # "none", NEW to \in WorkerPoints \ {"none"},
           worker' = [worker EXCEPT ![r] = to], \A s \in Req : s # r => run'[s] = run[s],
           UNCHANGED <<holder, waiting, recovery, deferred, settled>>, GoesOn(r),
           to \in Sending => worker[r] \in Sending,
           to = "dispatched" => run[r].status \in ActiveStates
    PROVE  \A s \in Req : Course(s)
<1>0. worker \in [Req -> WorkerPoints]
  BY DEF BrokerInv, Types, ThreadType
<1>1. Blocked => Blocked'
  <2>1. Live(r)' /\ (run[r].stop = "unconfirmed" => run'[r].stop = "unconfirmed")
    BY DEF GoesOn, Live, LiveStates
  <2> QED BY <2>1, StaysBlocked
<1>2. worker'[r] = to /\ \A s \in Req : s # r => worker'[s] = worker[s]
  BY <1>0
<1>3. Course(r)
  BY <1>2 DEF Course, Fate, Works, Recovers, Waiting, Waits, HasLease
<1>4. \A s \in Req : HasLease(s)' => HasLease(s)
  BY DEF HasLease
<1> QED BY <1>1, <1>2, <1>3, <1>4, CourseOne

\* The worker of r puts it back.
LEMMA DeferCourse ==
    ASSUME BrokerInv, NEW r \in Req, worker[r] \in {"expired", "woken", "admitted"}, Blocked,
           Defer(r), Goto(r, "none"), UNCHANGED bridgeVars
    PROVE  \A s \in Req : Course(s)
<1>1. /\ run' = [run EXCEPT ![r].status = "queued"] /\ worker' = [worker EXCEPT ![r] = "none"]
      /\ recovery' = recovery /\ deferred' = deferred \cup {r} /\ settled' = settled
      /\ Release({r})
  BY DEF Defer, Goto, bridgeVars
<1>2. run \in [Req -> Row] /\ worker \in [Req -> WorkerPoints] /\ GateType /\ holder \notin waiting
  BY DEF BrokerInv, Types, LedgerType, ThreadType, LeaseInv
<1>3. \A s \in Req : HasLease(s)' => HasLease(s)
  BY <1>1, <1>2, ReleaseStep DEF KeepsLease
<1>4. /\ run'[r].status = "queued" /\ run'[r].stop = run[r].stop /\ SameTask(r)
      /\ worker'[r] = "none" /\ \A s \in Req : s # r => run'[s] = run[s] /\ worker'[s] = worker[s]
  BY <1>1, <1>2 DEF Row, SameTask
<1>5. Blocked'
  <2>1. Live(r)'
    BY <1>4 DEF Live, LiveStates
  <2> QED BY <1>4, <2>1, StaysBlocked
<1>6. PutBack(r)
  BY <1>1, <1>4, <1>5 DEF PutBack
<1>7. Course(r)
  BY <1>1, <1>3, <1>6 DEF Course, Fate, Works, Recovers, Waiting
<1> QED BY <1>1, <1>3, <1>4, <1>5, <1>7, CourseOne

\* A lease that is reserved or given back before there is a run.
LEMMA AdmissionCourse ==
    ASSUME BrokerInv, NEW r \in Req, AdmitPrompt(r) \/ ReleaseAdmission(r)
    PROVE  \A s \in Req : Course(s)
<1>1. UNCHANGED <<run, worker, recovery, deferred, settled>>
  BY DEF AdmitPrompt, ReleaseAdmission, bridgeVars
<1>2. Blocked => Blocked'
  BY <1>1 DEF Blocked, BlockedIn
<1>3. /\ \A s \in Req : s # r => (HasLease(s)' => HasLease(s))
      /\ HasLease(r)' => HasLease(r) \/ worker'[r] = "none"
  <2>0. GateType /\ holder \notin waiting
    BY DEF BrokerInv, Types, LedgerType, LeaseInv
  <2>1. CASE AdmitPrompt(r)
    <3>1. up = "running" /\ run[r].status = "none" /\ r \notin admissions /\ Reserve(r)
      BY <2>1 DEF AdmitPrompt, Serving
    <3>2. ~HasLease(r) /\ worker[r] = "none"
      BY <3>1, OkRuns DEF Ok, Lease, Live, LiveStates, ActiveStates
    <3> QED BY <1>1, <2>0, <3>1, <3>2, ReserveStep DEF KeepsLease
  <2>2. CASE ReleaseAdmission(r)
    BY <2>0, <2>2, ReleaseStep DEF ReleaseAdmission, KeepsLease
  <2> QED BY <2>1, <2>2
<1>4. Waiting(r) /\ Fate(r) /\ Works(r) /\ Recovers(r)
  BY <1>1, <1>2 DEF Waiting, Waits, Fate, Works, Recovers
<1> QED BY <1>1, <1>2, <1>3, <1>4, CourseOne DEF Course

LEMMA SubmitCourse ==
    ASSUME BrokerInv, NEW r \in Req, NEW mode, SubmitPrompt(r, mode)
    PROVE  \A s \in Req : Course(s)
<1>1. /\ up = "running" /\ run[r].status = "none"
      /\ worker' = [worker EXCEPT ![r] = "waiting"]
      /\ run' = [run EXCEPT ![r] =
                   [NoRun EXCEPT !.status = IF holder' = r THEN "starting" ELSE "queued",
                                 !.mode = mode, !.prompt = TRUE, !.acct = account]]
      /\ UNCHANGED <<recovery, deferred, settled>>
      /\ (r \notin Prepared /\ Reserve(r)) \/ UNCHANGED <<holder, waiting>>
  BY DEF SubmitPrompt, Serving, bridgeVars
<1>2. /\ run \in [Req -> Row] /\ worker \in [Req -> WorkerPoints] /\ GateType /\ holder \notin waiting
  BY DEF BrokerInv, Types, LedgerType, ThreadType, LeaseInv
<1>3. /\ run'[r].status \in {"starting", "queued"} /\ run'[r].prompt /\ run'[r].stop = "no"
      /\ run'[r].acct = account /\ worker'[r] = "waiting"
      /\ \A s \in Req : s # r => run'[s] = run[s] /\ worker'[s] = worker[s]
  BY <1>1, <1>2 DEF NoRun
<1>4. Entered(r)
  BY <1>1, <1>3 DEF Entered, Live, LiveStates, ActiveStates
<1>5. \A s \in Req : s # r => (HasLease(s)' => HasLease(s))
  <2>1. r \notin Prepared => ~HasLease(r)
    BY <1>1, OkRuns DEF Ok, Lease, Live, LiveStates, ActiveStates
  <2> QED BY <1>1, <1>2, <2>1, ReserveStep DEF KeepsLease, HasLease
<1>6. Blocked => Blocked'
  BY <1>1, <1>3, StaysBlocked DEF Live, LiveStates, ActiveStates
<1>7. Course(r)
  BY <1>1, <1>3, <1>4 DEF Course, Fate, Works, Recovers, Waiting, Waits
<1> QED BY <1>1, <1>3, <1>5, <1>6, <1>7, CourseOne

LEMMA UserCourse ==
    ASSUME BrokerInv, NEW r \in Req, User(r)
    PROVE  \A s \in Req : Course(s)
<1>0. run \in [Req -> Row] /\ Cancelling(run) /\ "stopped" \in Ended
  BY DEF BrokerInv, Types, LedgerType, Cancelling, Ended
<1>1. CASE SteerBegin(r)
  BY <1>1, QuietCourse DEF SteerBegin, bridgeVars
<1>2. CASE CancelQueuedPrompt(r)
  <2>1. up # "down" /\ Live(r) /\ Terminalize(run, {r}, "stopped") /\ UNCHANGED <<worker, bridgeVars>>
    BY <1>2 DEF CancelQueuedPrompt, Serving, Live, LiveStates
  <2> QED BY <1>0, <2>1, StopsCourse
<1>3. CASE CancelRun(r)
  <2> DEFINE others == {s \in QueuedRuns : ThreadOf[s] = ThreadOf[r]} \ {r}
             base == [run EXCEPT ![r].status = "cancelling"]
  <2>1. /\ up # "down" /\ Live(r) /\ UNCHANGED <<worker, bridgeVars>>
        /\ \/ Terminalize(run, {r}, "stopped")
           \/ run[r].status # "queued" /\ Terminalize(base, others, "stopped")
    BY <1>3 DEF CancelRun, Serving
  <2>2. CASE Terminalize(run, {r}, "stopped")
    BY <1>0, <2>1, <2>2, StopsCourse
  <2>3. CASE run[r].status # "queued" /\ Terminalize(base, others, "stopped")
    <3>1. run[r].status \in ActiveStates
      BY <2>1, <2>3 DEF Live, LiveStates
    <3>2. base \in [Req -> Row] /\ Cancelling(base)
      BY <1>0, <3>1 DEF Row, Cancelling, LiveStates, ActiveStates
    <3>3. others \subseteq Req /\ \A s \in others : Live(s)
      BY LiveRuns
    <3> HIDE DEF base, others
    <3> QED BY <1>0, <2>1, <2>3, <3>2, <3>3, StopsCourse
  <2> QED BY <2>1, <2>2, <2>3
<1> QED BY <1>1, <1>2, <1>3, AdmissionCourse, SubmitCourse DEF User

LEMMA RequestCourse ==
    ASSUME BrokerInv, NEW r \in Req, Request(r)
    PROVE  \A s \in Req : Course(s)
<1>0. run \in [Req -> Row] /\ Cancelling(run) /\ "stopped" \in Ended
  BY DEF BrokerInv, Types, LedgerType, Cancelling, Ended
<1>1. up # "down"
  BY ThreadsUp DEF Request, SteerAccepted, SteerFailed, CancelAborts, CancelAborted,
                   InterruptAccepted, InterruptFails, InterruptFailed
<1>2. CASE SteerAccepted(r) \/ CancelAborts(r) \/ InterruptAccepted(r) \/ InterruptFails(r)
  BY <1>2, QuietCourse DEF SteerAccepted, CancelAborts, InterruptAccepted, InterruptFails, bridgeVars
<1>3. CASE SteerFailed(r) \/ CancelAborted(r) \/ InterruptFailed(r)
  <2>1. PICK over \in {QueuedRuns, QueuedRuns \cup LiveAmong({r})} :
          UNCHANGED <<worker, bridgeVars>> /\ Terminalize(run, over, "stopped")
    BY <1>3 DEF SteerFailed, CancelAborted, InterruptFailed
  <2>2. over \in SUBSET Req /\ \A s \in over : Live(s)
    BY LiveRuns
  <2> QED BY <1>0, <1>1, <2>1, <2>2, StopsCourse
<1> QED BY <1>2, <1>3 DEF Request

\* The worker of r ends runs, its own among them, and leaves.
LEMMA LeavesCourse ==
    ASSUME BrokerInv, NEW r \in Req, worker[r] # "none",
           NEW over \in SUBSET Req, \A s \in over : Live(s),
           r \in over \/ ~Live(r) \/ up # "running", Ends(r, "none", over)
    PROVE  \A s \in Req : Course(s)
<1>1. /\ worker' = [worker EXCEPT ![r] = "none"] /\ Terminalize(run, over, "stopped")
      /\ UNCHANGED bridgeVars /\ up # "down" /\ "stopped" \in Ended
  BY ThreadsUp DEF Ends, Goto, Ended
<1> QED BY <1>1, EndsCourse

LEMMA FailsCourse ==
    ASSUME BrokerInv, NEW r \in Req, worker[r] # "none",
           Ends(r, "none", IF Preserved(r) THEN {} ELSE LiveAmong({r}))
    PROVE  \A s \in Req : Course(s)
<1> DEFINE over == IF Preserved(r) THEN {} ELSE LiveAmong({r})
<1>1. over \in SUBSET Req /\ (\A s \in over : Live(s)) /\ Ends(r, "none", over)
  BY LiveRuns
<1>2. r \in over \/ ~Live(r) \/ up # "running"
  BY DEF Preserved, LiveAmong
<1> HIDE DEF over
<1> QED BY <1>1, <1>2, LeavesCourse

LEMMA StartCourse ==
    ASSUME BrokerInv, NEW r \in Req, StartSteps(r)
    PROVE  \A s \in Req : Course(s)
<1>0. /\ Ok(r) /\ run \in [Req -> Row] /\ worker \in [Req -> WorkerPoints]
      /\ worker[r] \in Late => run[r].status # "queued"
      /\ GateType /\ holder \notin waiting
  BY OkRuns DEF BrokerInv, Types, LedgerType, ThreadType, LeaseInv, Ok, Once
<1>1. CASE WorkerWakes(r) \/ WorkerTooLate(r) \/ StartFails(r)
  <2>1. \E from \in WorkerPoints \ {"none"}, to \in {"woken", "expired", "failed"} :
          Moves(r, from, to) /\ (to # "failed" => from = "waiting")
    BY <1>1 DEF WorkerWakes, WorkerTooLate, StartFails, WorkerPoints
  <2> QED BY <2>1, MovesCourse DEF WorkerPoints, Sending, Early
<1>2. CASE WorkerTimesOut(r)
  <2>1. /\ worker[r] = "waiting" /\ worker' = [worker EXCEPT ![r] = "expired"] /\ Release({r})
        /\ UNCHANGED <<run, recovery, deferred, settled>>
    BY <1>2 DEF WorkerTimesOut, Goto, bridgeVars
  <2>2. \A s \in Req : HasLease(s)' => HasLease(s)
    BY <1>0, <2>1, ReleaseStep DEF KeepsLease
  <2>3. Blocked => Blocked'
    BY <2>1 DEF Blocked, BlockedIn
  <2>4. worker'[r] = "expired" /\ \A s \in Req : s # r => worker'[s] = worker[s]
    BY <1>0, <2>1
  <2>5. Works(r) /\ Waiting(r) /\ Fate(r) /\ Recovers(r)
    BY <2>1, <2>4 DEF Works, Waiting, Waits, Fate, Recovers, Sending, Early
  <2> QED BY <2>1, <2>2, <2>3, <2>4, <2>5, CourseOne DEF Course
<1>3. CASE WorkerExpired(r)
  <2>1. CASE Blocked /\ worker[r] = "expired" /\ Defer(r) /\ Goto(r, "none") /\ UNCHANGED bridgeVars
    BY <2>1, DeferCourse
  <2>2. CASE worker[r] = "expired" /\ Ends(r, "none", IF Preserved(r) THEN {} ELSE LiveAmong({r}))
    BY <2>2, FailsCourse
  <2> QED BY <1>3, <2>1, <2>2 DEF WorkerExpired
<1>4. CASE WorkerFenced(r)
  <2>1. CASE Moves(r, "woken", "cleared")
    BY <2>1, MovesCourse DEF WorkerPoints, Sending, Early
  <2>2. CASE /\ worker[r] \in {"woken", "admitted"} /\ Blocked /\ Defer(r) /\ Goto(r, "none")
             /\ UNCHANGED bridgeVars
    BY <2>2, DeferCourse
  <2> QED BY <1>4, <2>1, <2>2 DEF WorkerFenced
<1>5. CASE WorkerAdmitted(r)
  <2>1. CASE Moves(r, "cleared", "admitted")
    BY <2>1, MovesCourse DEF WorkerPoints, Sending, Early
  <2>2. CASE worker[r] = "cleared" /\ Ends(r, "none", IF Preserved(r) THEN {} ELSE LiveAmong({r}))
    BY <2>2, FailsCourse
  <2> QED BY <1>5, <2>1, <2>2 DEF WorkerAdmitted
<1>6. CASE StartTurn(r) \/ ThreadLoaded(r)
  <2>1. worker[r] \in {"admitted", "preparing"}
    BY <1>6 DEF StartTurn, ThreadLoaded
  <2>2. CASE \E from \in {"admitted", "preparing"} :
               (~Live(r) \/ up # "running") /\ Moves(r, from, "none")
    BY <2>2, MovesCourse DEF WorkerPoints, Sending, Early
  <2>3. CASE Moves(r, "preparing", "loaded")
    BY <2>3, MovesCourse DEF WorkerPoints, Sending, Early
  <2>4. CASE Live(r) /\ Ends(r, "none", {r})
    BY <2>1, <2>4, LeavesCourse
  <2>5. CASE /\ worker[r] = "admitted" /\ Live(r) /\ up = "running"
             /\ run' = [run EXCEPT ![r] = Claimed(@)]
             /\ worker' \in {[worker EXCEPT ![r] = p] : p \in {"preparing", "failed"}}
             /\ UNCHANGED <<holder, waiting, recovery, deferred, bridgeVars>>
    <3>1. PICK p \in {"preparing", "failed"} : worker' = [worker EXCEPT ![r] = p]
      BY <2>5
    <3>2. /\ run'[r].status = "starting" /\ run'[r].stop = run[r].stop /\ SameTask(r)
          /\ \A s \in Req : s # r => run'[s] = run[s]
      BY <1>0, <2>5 DEF Claimed, Row, SameTask
    <3>3. GoesOn(r)
      BY <2>5, <3>2 DEF GoesOn, ActiveStates
    <3>4. p \in WorkerPoints \ {"none"} /\ worker[r] \in Sending /\ p # "dispatched"
      BY <2>5 DEF WorkerPoints, Sending, Early
    <3>5. UNCHANGED <<holder, waiting, recovery, deferred, settled>>
      BY <2>5 DEF bridgeVars
    <3> QED BY <2>1, <3>1, <3>2, <3>3, <3>4, <3>5, RowCourse
  <2>6. run[r].status = "cancelling" => Live(r)
    BY DEF Live, LiveStates, ActiveStates
  <2> QED BY <1>6, <2>2, <2>3, <2>4, <2>5, <2>6 DEF StartTurn, ThreadLoaded
<1>7. CASE TurnDispatched(r)
  <2>1. CASE \/ ~Live(r) /\ Moves(r, "loaded", "none")
             \/ Moves(r, "loaded", "watching")
    BY <2>1, MovesCourse DEF WorkerPoints, Sending, Early
  <2>2. CASE /\ worker[r] = "loaded" /\ Live(r) /\ run' = [run EXCEPT ![r].turn = "sent"]
             /\ Goto(r, "dispatched")
             /\ UNCHANGED <<holder, waiting, recovery, deferred, bridgeVars>>
    <3>1. run[r].status \in ActiveStates
      BY <1>0, <2>2 DEF Early, Late, WorkerPoints, Live, LiveStates
    <3>2. /\ run'[r].status = run[r].status /\ run'[r].stop = run[r].stop /\ SameTask(r)
          /\ \A s \in Req : s # r => run'[s] = run[s]
      BY <1>0, <2>2 DEF Row, SameTask
    <3>3. GoesOn(r)
      BY <2>2, <3>1, <3>2 DEF GoesOn, ActiveStates
    <3>4. /\ worker' = [worker EXCEPT ![r] = "dispatched"] /\ worker[r] \in Sending
          /\ "dispatched" \in WorkerPoints \ {"none"} /\ worker[r] # "none"
          /\ UNCHANGED <<holder, waiting, recovery, deferred, settled>>
      BY <2>2 DEF Goto, WorkerPoints, Sending, bridgeVars
    <3> QED BY <3>1, <3>2, <3>3, <3>4, RowCourse
  <2> QED BY <1>7, <2>1, <2>2 DEF TurnDispatched
<1>8. CASE TurnStarts(r)
  <2>1. /\ worker[r] = "dispatched" /\ worker' = [worker EXCEPT ![r] = "sent"]
        /\ UNCHANGED <<run, holder, waiting, recovery, deferred, settled>>
    BY <1>8 DEF TurnStarts, Goto, ledgerVars, bridgeVars
  <2>2. Blocked => Blocked'
    BY <2>1 DEF Blocked, BlockedIn
  <2>3. worker'[r] = "sent" /\ \A s \in Req : s # r => worker'[s] = worker[s]
    BY <1>0, <2>1
  <2>4. Works(r) /\ Waiting(r) /\ Fate(r) /\ Recovers(r) /\ \A s \in Req : HasLease(s)' => HasLease(s)
    BY <2>1, <2>3 DEF Works, Waiting, Waits, Fate, Recovers, HasLease, Sending, Early
  <2> QED BY <2>1, <2>2, <2>3, <2>4, CourseOne DEF Course
<1> QED BY <1>1, <1>2, <1>3, <1>4, <1>5, <1>6, <1>7, <1>8 DEF StartSteps

\* A turn that is over ends its own run.
LEMMA CompletesCourse ==
    ASSUME BrokerInv, NEW r \in Req, worker[r] # "none", Live(r), Completes(r, "none")
    PROVE  \A s \in Req : Course(s)
<1>1. PICK status \in Ended :
        /\ worker' = [worker EXCEPT ![r] = "none"] /\ Terminalize(run, {r}, status)
        /\ UNCHANGED bridgeVars
  BY DEF Completes, Goto
<1>2. up # "down" /\ {r} \in SUBSET Req
  BY ThreadsUp
<1> QED BY <1>1, <1>2, EndsCourse

LEMMA TurnCourse ==
    ASSUME BrokerInv, NEW r \in Req, TurnSteps(r)
    PROVE  \A s \in Req : Course(s)
<1>0. /\ Ok(r) /\ run \in [Req -> Row] /\ worker \in [Req -> WorkerPoints]
      /\ worker[r] \in Late => run[r].status # "queued"
  BY OkRuns DEF BrokerInv, Types, LedgerType, ThreadType, Ok, Once
<1>1. CASE TurnBound(r)
  <2>1. CASE ~Live(r) /\ Moves(r, "sent", "none")
    BY <2>1, MovesCourse DEF WorkerPoints, Sending, Early
  <2>2. CASE worker[r] = "sent" /\ Live(r) /\ Completes(r, "none")
    BY <2>2, CompletesCourse
  <2>3. CASE /\ worker[r] = "sent" /\ Live(r)
             /\ run' = [run EXCEPT ![r].turn = "bound",
                                   ![r].status = IF @ = "cancelling" THEN @ ELSE "running"]
             /\ Goto(r, "bound")
             /\ UNCHANGED <<holder, waiting, recovery, deferred, bridgeVars>>
    <3>1. /\ run'[r].status \in ActiveStates /\ run'[r].stop = run[r].stop /\ SameTask(r)
          /\ \A s \in Req : s # r => run'[s] = run[s]
      BY <1>0, <2>3 DEF Row, SameTask, ActiveStates
    <3>2. run[r].status # "queued"
      BY <1>0, <2>3 DEF Early, Late, WorkerPoints
    <3>3. GoesOn(r)
      BY <2>3, <3>1, <3>2 DEF GoesOn
    <3>4. /\ worker' = [worker EXCEPT ![r] = "bound"] /\ "bound" \notin Sending
          /\ "bound" \in WorkerPoints \ {"none"} /\ worker[r] # "none"
          /\ UNCHANGED <<holder, waiting, recovery, deferred, settled>>
      BY <2>3 DEF Goto, WorkerPoints, Sending, Early, bridgeVars
    <3> QED BY <3>1, <3>3, <3>4, RowCourse
  <2> QED BY <1>1, <2>1, <2>2, <2>3 DEF TurnBound
<1>2. CASE TurnReplayed(r)
  <2>1. CASE worker[r] = "bound" /\ Live(r) /\ Completes(r, "none")
    BY <2>1, CompletesCourse
  <2>2. CASE \E to \in {"none", "aborting", "interrupting", "watching"} :
               Moves(r, "bound", to) /\ (to = "none" => ~Live(r))
    BY <2>2, MovesCourse DEF WorkerPoints, Sending, Early
  <2> QED BY <1>2, <2>1, <2>2 DEF TurnReplayed
<1>3. CASE WatchEnds(r) \/ WatchStale(r) \/ WatchGivesUp(r)
  <2>1. \E to \in {"none", "stale", "aborting"} :
          Moves(r, "watching", to) /\ (to = "none" => ~Live(r))
    BY <1>3 DEF WatchEnds, WatchStale, WatchGivesUp
  <2> QED BY <2>1, MovesCourse DEF WorkerPoints, Sending, Early
<1>4. CASE WorkerInterrupts(r) \/ WorkerAborts(r)
  <2>1. CASE Moves(r, "interrupting", "watching")
    BY <2>1, MovesCourse DEF WorkerPoints, Sending, Early
  <2>2. CASE \E to \in {"watching", "aborted"} :
               worker[r] # "none" /\ Goto(r, to) /\ UNCHANGED <<ledgerVars, bridgeVars>>
    <3>1. PICK to \in {"watching", "aborted"} :
            /\ worker[r] # "none" /\ worker' = [worker EXCEPT ![r] = to]
            /\ UNCHANGED <<run, holder, waiting, recovery, deferred, settled>>
      BY <2>2 DEF Goto, ledgerVars, bridgeVars
    <3>2. Blocked => Blocked'
      BY <3>1 DEF Blocked, BlockedIn
    <3>3. worker'[r] = to /\ \A s \in Req : s # r => worker'[s] = worker[s]
      BY <1>0, <3>1
    <3>4. Works(r) /\ Waiting(r) /\ Fate(r) /\ Recovers(r) /\ \A s \in Req : HasLease(s)' => HasLease(s)
      BY <3>1, <3>3 DEF Works, Waiting, Waits, Fate, Recovers, HasLease, Sending, Early
    <3> QED BY <3>1, <3>2, <3>3, <3>4, CourseOne DEF Course
  <2> QED BY <1>4, <2>1, <2>2 DEF WorkerInterrupts, WorkerAborts
<1>5. CASE WatchReconciles(r)
  <2>1. worker[r] = "stale" /\ Ends(r, "none", Interrupted)
    BY <1>5 DEF WatchReconciles
  <2>2. r \in Interrupted \/ ~Live(r)
    BY <1>0, <2>1 DEF WorkerPoints, Early, Late, Interrupted, RestartSafe, Unsent
  <2> QED BY <2>1, <2>2, LiveRuns, LeavesCourse
<1>6. CASE WorkerAborted(r)
  <2> DEFINE over == QueuedRuns \cup LiveAmong({r})
  <2>1. over \in SUBSET Req /\ (\A s \in over : Live(s)) /\ (r \in over \/ ~Live(r))
    BY LiveRuns DEF LiveAmong
  <2>2. worker[r] = "aborted" /\ Ends(r, "none", over)
    BY <1>6 DEF WorkerAborted
  <2> HIDE DEF over
  <2> QED BY <2>1, <2>2, LeavesCourse
<1>7. CASE WorkerFailed(r)
  <2>1. CASE Moves(r, "failed", "aborting")
    BY <2>1, MovesCourse DEF WorkerPoints, Sending, Early
  <2>2. CASE worker[r] = "failed" /\ Ends(r, "none", IF Preserved(r) THEN {} ELSE LiveAmong({r}))
    BY <2>2, FailsCourse
  <2> QED BY <1>7, <2>1, <2>2 DEF WorkerFailed
<1> QED BY <1>1, <1>2, <1>3, <1>4, <1>5, <1>6, <1>7 DEF TurnSteps

LEMMA BudgetCourse ==
    ASSUME BrokerInv, NEW r \in Req, BudgetSteps(r)
    PROVE  \A s \in Req : Course(s)
<1>0. /\ Ok(r) /\ run \in [Req -> Row] /\ worker \in [Req -> WorkerPoints] /\ "stopped" \in Ended
      /\ "cancelling" \in ActiveStates
  BY OkRuns DEF BrokerInv, Types, LedgerType, ThreadType, Ended, ActiveStates
<1>1. /\ worker[r] \in {"bound", "watching", "failed"} /\ Live(r)
      /\ worker[r] = "failed" => run[r].gen # 0
  BY <1>0 DEF BudgetSteps, BudgetStop, BudgetUnconfirmed, StopExpiredStart
<1>2. run[r].status \in ActiveStates
  BY <1>0, <1>1 DEF Ok, Once, Early, Late, WorkerPoints, Live, LiveStates
<1>3. \A to \in {"bound", "watching"} : to \in WorkerPoints \ {"none"} /\ to \notin Sending /\ to # "dispatched"
  BY DEF WorkerPoints, Sending, Early
<1>4. ASSUME NEW to \in {"bound", "watching"}, worker' = [worker EXCEPT ![r] = to],
             UNCHANGED <<holder, waiting, recovery, deferred, bridgeVars>>,
             r \in Budgeted \/ run[r].stop # "no",
             \/ run[r].stop = "no" /\ run' = [run EXCEPT ![r].status = "cancelling", ![r].stop = "asked"]
             \/ run' = [run EXCEPT ![r].stop = "unconfirmed"]
             \/ run' = [run EXCEPT ![r].status = "cancelling", ![r].stop = "unconfirmed"]
      PROVE  \A s \in Req : Course(s)
  <2>1. /\ run'[r].status \in ActiveStates /\ run'[r].stop # "no" /\ SameTask(r)
        /\ run[r].stop = "unconfirmed" => run'[r].stop = "unconfirmed"
        /\ \A s \in Req : s # r => run'[s] = run[s]
    BY <1>0, <1>2, <1>4 DEF Row, SameTask
  <2>2. worker'[r] = to /\ run[r].status # "queued"
    BY <1>0, <1>2, <1>4 DEF ActiveStates
  <2>3. GoesOn(r)
    BY <1>1, <1>3, <1>4, <2>1, <2>2 DEF GoesOn
  <2>4. UNCHANGED <<holder, waiting, recovery, deferred, settled>> /\ worker[r] # "none"
    BY <1>1, <1>4 DEF bridgeVars
  <2> QED BY <1>3, <1>4, <2>1, <2>3, <2>4, RowCourse
<1>5. CASE BudgetStop(r) \/ BudgetUnconfirmed(r)
  <2>1. /\ worker[r] \in {"bound", "watching"} /\ worker' = [worker EXCEPT ![r] = worker[r]]
        /\ UNCHANGED <<holder, waiting, recovery, deferred, bridgeVars>>
        /\ \/ run[r].stop = "no" /\ run' = [run EXCEPT ![r].status = "cancelling", ![r].stop = "asked"]
           \/ run' = [run EXCEPT ![r].stop = "unconfirmed"]
    BY <1>0, <1>5 DEF BudgetStop, BudgetUnconfirmed
  <2>2. r \in Budgeted \/ run[r].stop # "no"
    BY <1>5 DEF BudgetStop, BudgetUnconfirmed
  <2> QED BY <1>4, <2>1, <2>2
<1>6. CASE StopExpiredStart(r)
  <2> DEFINE next == IF worker[r] = "failed" THEN "watching" ELSE "bound"
  <2>1. next \in {"bound", "watching"} /\ worker[r] # "none" /\ up # "down" /\ run[r].status # "queued"
    BY <1>1, <1>2, <1>6 DEF StopExpiredStart, ActiveStates
  <2>2. CASE \E over \in {Interrupted, {r}} : Ends(r, next, over)
    <3>1. PICK over \in {Interrupted, {r}} : Ends(r, next, over)
      BY <2>2
    <3>2. over \in SUBSET Req /\ \A s \in over : Live(s)
      BY <1>1, LiveRuns
    <3>3. worker' = [worker EXCEPT ![r] = next] /\ Terminalize(run, over, "stopped") /\ UNCHANGED bridgeVars
      BY <3>1 DEF Ends, Goto
    <3>4. next \in {"none", "watching", "bound"} /\ next # "none"
      BY <2>1
    <3> HIDE DEF next
    <3> QED BY <1>0, <2>1, <3>2, <3>3, <3>4, EndsCourse
  <2>3. CASE /\ run' = [run EXCEPT ![r].status = "cancelling", ![r].stop = "unconfirmed"]
             /\ Goto(r, next) /\ UNCHANGED <<holder, waiting, recovery, deferred, bridgeVars>>
    <3>1. worker' = [worker EXCEPT ![r] = next]
      BY <2>3 DEF Goto
    <3>2. r \in Budgeted
      BY <1>6 DEF StopExpiredStart
    <3> HIDE DEF next
    <3> QED BY <1>4, <2>1, <2>3, <3>1, <3>2
  <2> QED BY <1>6, <2>2, <2>3 DEF StopExpiredStart
<1> QED BY <1>5, <1>6 DEF BudgetSteps

LEMMA WorkerCourse ==
    ASSUME BrokerInv, NEW r \in Req, Worker(r)
    PROVE  \A s \in Req : Course(s)
BY StartCourse, TurnCourse, BudgetCourse DEF Worker, StartSteps, TurnSteps, BudgetSteps

LEMMA CodexCourse ==
    ASSUME BrokerInv, NEW r \in Req, Codex(r)
    PROVE  \A s \in Req : Course(s)
<1>0. run \in [Req -> Row] /\ Cancelling(run) /\ "stopped" \in Ended
  BY DEF BrokerInv, Types, LedgerType, Cancelling, Ended
<1>1. CASE TurnCompletes(r)
  BY <1>1, QuietCourse DEF TurnCompletes, bridgeVars
<1>2. CASE TurnCompleted(r)
  <2>1. up # "down" /\ UNCHANGED <<worker, bridgeVars>>
    BY <1>2 DEF TurnCompleted
  <2>2. CASE UNCHANGED <<run, holder, waiting, recovery, deferred>>
    <3>1. Blocked => Blocked'
      BY <2>2 DEF Blocked, BlockedIn
    <3>2. \A s \in Req : HasLease(s)' => HasLease(s)
      BY <2>2 DEF HasLease
    <3>3. Works(r) /\ Waiting(r) /\ Fate(r) /\ Recovers(r)
      BY <2>1, <2>2, <3>1 DEF Works, Waiting, Waits, Fate, Recovers, bridgeVars
    <3> QED BY <2>1, <2>2, <3>1, <3>2, <3>3, CourseOne DEF Course, bridgeVars
  <2>3. CASE Live(r) /\ \E status \in Ended : Terminalize(run, {r}, status)
    BY <1>0, <2>1, <2>3, StopsCourse
  <2> QED BY <1>2, <2>2, <2>3 DEF TurnCompleted, ledgerVars
<1>3. CASE BufferOverflows(r)
  <2> DEFINE over == QueuedRuns \cup {r}
  <2>1. /\ up # "down" /\ Terminalize(run, over, "stopped") /\ Live(r)
        /\ UNCHANGED <<worker, bridgeVars>>
    BY <1>3 DEF BufferOverflows
  <2>2. over \in SUBSET Req /\ \A s \in over : Live(s)
    BY <2>1, LiveRuns
  <2> HIDE DEF over
  <2> QED BY <1>0, <2>1, <2>2, StopsCourse
<1> QED BY <1>1, <1>2, <1>3 DEF Codex

\* A step of the recovery thread of r that leaves its record as it is.
LEMMA RecoveryGoes ==
    ASSUME BrokerInv, NEW r \in Req, NEW to \in RecoveryPoints, recovery[r] # "none",
           recovery' = [recovery EXCEPT ![r] = to], deferred' \in {deferred, deferred \ {r}},
           UNCHANGED <<run, settled>>,
           \A s \in Req : s # r => (HasLease(s)' => HasLease(s)),
           HasLease(r)' => HasLease(r) \/ worker'[r] = "none",
           worker' = worker \/ (worker' = [worker EXCEPT ![r] = "waiting"] /\ Taken(r)),
           Waiting(r)
    PROVE  \A s \in Req : Course(s)
<1>1. recovery \in [Req -> RecoveryPoints] /\ worker \in [Req -> WorkerPoints]
  BY DEF BrokerInv, Types, LedgerType, ThreadType
<1>2. Blocked => Blocked'
  BY DEF Blocked, BlockedIn
<1>3. \A s \in Req : s # r => /\ worker'[s] = worker[s] /\ recovery'[s] = recovery[s]
                              /\ s \in deferred' <=> s \in deferred
  BY <1>1
<1>4. Works(r) /\ Fate(r) /\ Recovers(r)
  BY <1>1 DEF Works, Fate, Recovers
<1> QED BY <1>2, <1>3, <1>4, CourseOne DEF Course

LEMMA RecoveryMovesCourse ==
    ASSUME BrokerInv, NEW r \in Req, NEW to \in RecoveryPoints \ {"none"}, recovery[r] # "none",
           RecoveryMoves(r, to), to \in Recovering \/ ~Recoverable(r) \/ ~Roomy(r)
    PROVE  \A s \in Req : Course(s)
<1>1. /\ recovery' = [recovery EXCEPT ![r] = to]
      /\ UNCHANGED <<run, holder, waiting, deferred, worker, settled>>
  BY DEF RecoveryMoves, bridgeVars
<1>2. recovery'[r] = to
  BY <1>1 DEF BrokerInv, Types, LedgerType
<1>3. Waiting(r)
  BY <1>1, <1>2 DEF Waiting, Waits, Recoverable
<1>4. \A s \in Req : HasLease(s)' => HasLease(s)
  BY <1>1 DEF HasLease
<1> QED BY <1>1, <1>3, <1>4, RecoveryGoes

LEMMA RecoveryEndsCourse ==
    ASSUME BrokerInv, PlainInv, NEW r \in Req, recovery[r] # "none", Recoverable(r),
           NEW leases, RecoveryEnds(r, leases)
    PROVE  \A s \in Req : Course(s)
<1>1. /\ run' = [run EXCEPT ![r] = End(@, "stopped")] /\ Release(leases)
      /\ recovery' = [recovery EXCEPT ![r] = "leaving"] /\ UNCHANGED <<deferred, worker, settled>>
  BY DEF RecoveryEnds, bridgeVars
<1>2. /\ run \in [Req -> Row] /\ recovery \in [Req -> RecoveryPoints] /\ GateType /\ holder \notin waiting
      /\ Live(r) /\ run[r].stop = "no"
  BY DEF BrokerInv, Types, LedgerType, LeaseInv, PlainInv, Plain, Recoverable, RestartSafe, Unsent,
         Live, LiveStates
<1>3. /\ run'[r].status = "stopped" /\ run'[r].stop = "no" /\ run'[r].prompt = FALSE
      /\ run'[r].mode = run[r].mode
      /\ \A s \in Req : s # r => run'[s] = run[s] /\ recovery'[s] = recovery[s]
  BY <1>1, <1>2 DEF End, Row
<1>4. Over(r)
  BY <1>2, <1>3 DEF Over, Live, LiveStates, ActiveStates
<1>5. \A s \in Req : HasLease(s)' => HasLease(s)
  BY <1>1, <1>2, ReleaseStep DEF KeepsLease
<1>6. Blocked => Blocked'
  BY <1>2, <1>3, StaysBlocked
<1>7. Course(r)
  BY <1>1, <1>3, <1>4, <1>5 DEF Course, Fate, Works, Recovers, Waiting, RestartSafe, Unsent
<1> QED BY <1>1, <1>3, <1>5, <1>6, <1>7, CourseOne

LEMMA RecoveryCourse ==
    ASSUME BrokerInv, PlainInv, NEW r \in Req, Recovery(r)
    PROVE  \A s \in Req : Course(s)
<1>0. /\ Ok(r) /\ recovery \in [Req -> RecoveryPoints] /\ GateType /\ holder \notin waiting
      /\ {"checking", "ready", "claimed", "leaving"} \subseteq RecoveryPoints \ {"none"}
      /\ {"checking", "ready", "claimed"} \subseteq Recovering
  BY OkRuns DEF BrokerInv, Types, LedgerType, LeaseInv, RecoveryPoints, Recovering
<1>1. recovery[r] # "none"
  BY DEF Recovery, RecoveryChecks, RecoveryReserves, RecoveryClaims, RecoveryExpires, RecoveryLeaves
<1>2. CASE \E to \in {"leaving", "ready"} : RecoveryMoves(r, to) /\ (to = "ready" \/ ~Recoverable(r))
  BY <1>0, <1>1, <1>2, RecoveryMovesCourse
<1>3. CASE Recoverable(r) /\ \E leases : RecoveryEnds(r, leases)
  BY <1>1, <1>3, RecoveryEndsCourse
<1>4. CASE RecoveryChecks(r) \/ RecoveryExpires(r)
  BY <1>2, <1>3, <1>4 DEF RecoveryChecks, RecoveryExpires
<1>5. CASE RecoveryReserves(r)
  <2>1. CASE RecoveryMoves(r, "checking")
    BY <1>0, <1>1, <2>1, RecoveryMovesCourse
  <2>2. CASE Recoverable(r) /\ ~authLease /\ ~ReserveAllowed /\ RecoveryMoves(r, "leaving")
    <3>1. ~Roomy(r)
      BY <1>5, <2>2 DEF Roomy
    <3> QED BY <1>0, <1>1, <2>2, <3>1, RecoveryMovesCourse
  <2>3. CASE /\ recovery[r] = "ready" /\ Recoverable(r) /\ Reserve(r)
             /\ recovery' = [recovery EXCEPT ![r] = "claimed"]
             /\ UNCHANGED <<run, deferred, worker, settled>>
    <3>1. Lease(r) /\ worker[r] = "none"
      BY <1>0, <2>3 DEF Recoverable, Ok, Lease
    <3>2. ~HasLease(r)
      BY <2>3, <3>1 DEF Lease, Recoverable, RestartSafe, Unsent
    <3>3. \A s \in Req : s # r => (HasLease(s)' => HasLease(s))
      BY <1>0, <2>3, <3>2, ReserveStep DEF KeepsLease
    <3>4. recovery'[r] = "claimed"
      BY <1>0, <2>3
    <3>5. Waiting(r)
      BY <1>0, <3>4 DEF Waiting, Waits
    <3>6. "claimed" \in RecoveryPoints /\ deferred' \in {deferred, deferred \ {r}}
          /\ worker'[r] = "none" /\ worker' = worker
      BY <1>0, <2>3, <3>1
    <3> QED BY <1>1, <2>3, <3>3, <3>5, <3>6, RecoveryGoes
  <2> QED BY <1>2, <1>5, <2>1, <2>2, <2>3 DEF RecoveryReserves, bridgeVars
<1>6. CASE RecoveryClaims(r)
  <2>1. CASE /\ Release({r})
             /\ recovery' = [recovery EXCEPT ![r] = IF Recoverable(r) THEN "checking" ELSE "leaving"]
             /\ UNCHANGED <<run, deferred, worker, settled>>
    <3> DEFINE to == IF Recoverable(r) THEN "checking" ELSE "leaving"
    <3>1. to \in RecoveryPoints /\ recovery'[r] = to /\ (to \in Recovering \/ ~Recoverable(r))
      BY <1>0, <2>1
    <3>2. recovery' = [recovery EXCEPT ![r] = to]
      BY <2>1
    <3> HIDE DEF to
    <3>3. \A s \in Req : HasLease(s)' => HasLease(s)
      BY <1>0, <2>1, ReleaseStep DEF KeepsLease
    <3>4. Waiting(r)
      BY <2>1, <3>1 DEF Waiting, Waits, Recoverable
    <3>5. deferred' \in {deferred, deferred \ {r}}
      BY <2>1
    <3> QED BY <1>1, <2>1, <3>1, <3>2, <3>3, <3>4, <3>5, RecoveryGoes
  <2>2. CASE /\ Recoverable(r) /\ SameAccount(r) /\ deferred' = deferred \ {r}
             /\ worker' = [worker EXCEPT ![r] = "waiting"]
             /\ recovery' = [recovery EXCEPT ![r] = "leaving"]
             /\ UNCHANGED <<run, holder, waiting, settled>>
    <3>1. worker'[r] = "waiting"
      BY <2>2 DEF BrokerInv, Types, ThreadType
    <3>2. Taken(r) /\ Waiting(r)
      BY <2>2, <3>1 DEF Taken, Recoverable, RestartSafe, Unsent, Waiting, Waits
    <3>3. \A s \in Req : HasLease(s)' => HasLease(s)
      BY <2>2 DEF HasLease
    <3>4. "leaving" \in RecoveryPoints /\ deferred' \in {deferred, deferred \ {r}}
      BY <1>0, <2>2
    <3> QED BY <1>1, <2>2, <3>2, <3>3, <3>4, RecoveryGoes
  <2> QED BY <1>3, <1>6, <2>1, <2>2 DEF RecoveryClaims, bridgeVars
<1>7. CASE RecoveryLeaves(r)
  <2>1. /\ recovery[r] = "leaving" /\ recovery' = [recovery EXCEPT ![r] = "none"]
        /\ deferred' = deferred \ {r} /\ UNCHANGED <<run, holder, waiting, worker, settled>>
    BY <1>7 DEF RecoveryLeaves, bridgeVars
  <2>2. Waiting(r)
    BY <2>1 DEF Waiting, Waits, Recovering
  <2>3. \A s \in Req : HasLease(s)' => HasLease(s)
    BY <2>1 DEF HasLease
  <2>4. "none" \in RecoveryPoints /\ deferred' \in {deferred, deferred \ {r}}
    BY <2>1 DEF RecoveryPoints
  <2> QED BY <1>1, <2>1, <2>2, <2>3, <2>4, RecoveryGoes
<1> QED BY <1>4, <1>5, <1>6, <1>7 DEF Recovery

\* Every step of a thread.
LEMMA ThreadCourse ==
    ASSUME BrokerInv, PlainInv, NEW r \in Req,
           User(r) \/ Request(r) \/ Worker(r) \/ Recovery(r) \/ Codex(r)
    PROVE  \A s \in Req : Course(s)
BY UserCourse, RequestCourse, WorkerCourse, RecoveryCourse, CodexCourse

-----------------------------------------------------------------------------
(* Queued prompts are taken up *)

\* Runs that end all at once.
LEMMA EndedPlain ==
    ASSUME BrokerInv, NEW over,
           run' = [r \in Req |-> IF r \in over THEN End(run[r], "stopped") ELSE run[r]]
    PROVE  \A r \in Req :
             /\ r \in over => /\ run'[r].status = "stopped" /\ run'[r].stop = "no"
                              /\ run'[r].prompt = FALSE /\ run'[r].acct = run[r].acct
             /\ r \notin over => run'[r] = run[r]
             /\ run'[r].mode = run[r].mode
<1>1. \A row \in Row : /\ End(row, "stopped").status = "stopped" /\ End(row, "stopped").stop = "no"
                       /\ End(row, "stopped").prompt = FALSE /\ End(row, "stopped").mode = row.mode
                       /\ End(row, "stopped").acct = row.acct
  BY DEF End, Row
<1>2. run \in [Req -> Row]
  BY DEF BrokerInv, Types, LedgerType
<1> QED BY <1>1, <1>2

LEMMA PlainInit == Init => PlainInv
BY DEF Init, Idle, NoRun, PlainInv, Plain, Sending, Early, Ended

LEMMA PlainThreads ==
    ASSUME PlainInv, \A s \in Req : Course(s)
    PROVE  PlainInv'
<1> SUFFICES ASSUME NEW r \in Req PROVE Plain(r)'
  BY DEF PlainInv
<1>0. Plain(r) /\ Fate(r) /\ Works(r)
  BY DEF PlainInv, Course
<1>1. CASE run'[r] = run[r]
  BY <1>0, <1>1 DEF Plain, Works, Entered, PutBack, Taken, Sending, Early
<1>2. CASE Entered(r) \/ Over(r)
  BY <1>2 DEF Plain, Entered, Over, Live, LiveStates, ActiveStates, Ended
<1>3. CASE GoesOn(r)
  <2>1. run'[r].status \notin Ended /\ run'[r].status # "queued"
    BY <1>3 DEF GoesOn, ActiveStates, Ended
  <2>2. ASSUME worker'[r] \in Sending PROVE run'[r].stop = "no"
    <3>1. run'[r].stop = run[r].stop
      BY <1>3, <2>2 DEF GoesOn
    <3>2. CASE worker[r] \in Sending
      BY <1>0, <3>1, <3>2 DEF Plain
    <3>3. CASE worker[r] \notin Sending
      <4>1. Entered(r) \/ Taken(r)
        BY <1>0, <2>2, <3>3 DEF Works, PutBack, Sending, Early
      <4> QED BY <1>0, <3>1, <4>1 DEF Entered, Taken, Plain
    <3> QED BY <3>2, <3>3
  <2>3. run'[r].stop # "no" => r \in Budgeted
    BY <1>0, <1>3 DEF GoesOn, Plain
  <2> QED BY <2>1, <2>2, <2>3 DEF Plain
<1>4. CASE PutBack(r)
  BY <1>0, <1>4 DEF Plain, PutBack, Sending, Early, Ended
<1> QED BY <1>0, <1>1, <1>2, <1>3, <1>4 DEF Fate

LEMMA PlainEnvironment ==
    ASSUME BrokerInv, PlainInv, Environment \/ UNCHANGED vars
    PROVE  PlainInv'
<1>1. CASE UNCHANGED <<run, worker>>
  BY <1>1 DEF PlainInv, Plain
<1>2. CASE Exit \/ Crash
  BY <1>2 DEF Exit, Crash, Gone, Idle, PlainInv, Plain, Sending, Early
<1>3. ASSUME worker' = worker,
             \E over : run' = [r \in Req |-> IF r \in over THEN End(run[r], "stopped") ELSE run[r]]
      PROVE  PlainInv'
  <2>1. \A r \in Req : \/ run'[r] = run[r]
                       \/ run'[r].status = "stopped" /\ run'[r].stop = "no" /\ run'[r].prompt = FALSE
    BY <1>3, EndedPlain
  <2> QED BY <1>3, <2>1 DEF PlainInv, Plain
<1>4. CASE Close \/ Start \/ ResumeRecovered
  BY <1>3, <1>4 DEF Close, Start, ResumeRecovered
<1>5. CASE ProcessDies \/ ProcessStarts \/ AccountChangeBegins \/ AccountChanges
           \/ AccountFailsClosed \/ UNCHANGED vars
  BY <1>1, <1>5 DEF ProcessDies, ProcessStarts, AccountChangeBegins, AccountChanges,
                    AccountFailsClosed, vars, ledgerVars
<1> QED BY <1>2, <1>4, <1>5 DEF Environment

LEMMA PlainNext ==
    ASSUME BrokerInv, PlainInv, [Next]_vars
    PROVE  PlainInv'
BY PlainEnvironment, PlainThreads, ThreadCourse DEF Next

\* What recovery is to take up is fit for it, and no queued run is forgotten.
Kept(r) ==
    /\ Live(r) => run[r].prompt
    /\ recovery[r] # "none" \/ r \in deferred => run[r].mode = "queue"
    /\ run[r].status = "queued" => Waits(r)

KeptInv ==
    /\ up = "running" => \A r \in Req : Kept(r)
    /\ up = "down" => ~settled

\* A step of a thread.
LEMMA KeptThreads ==
    ASSUME BrokerInv, BrokerInv', KeptInv, UNCHANGED bridgeVars,
           \A s \in Req : Course(s) /\ Roomy(s) /\ Deferrable(s)
    PROVE  KeptInv'
<1>1. up' = up /\ settled' = settled
  BY DEF bridgeVars
<1>2. ASSUME up = "running", NEW r \in Req PROVE Kept(r)'
  <2>0. /\ Kept(r) /\ Course(r) /\ Roomy(r) /\ Deferrable(r) /\ Lease(r) /\ Once(r)'
    BY <1>2, OkRuns DEF KeptInv, Ok, BrokerInv, OnceInv
  <2>1. PutBack(r) => RestartSafe(run'[r]) /\ recovery'[r] = "none"
    BY <1>2, <2>0 DEF PutBack, Lease, Deferrable
  <2>2. Live(r)' => run'[r].prompt
    BY <2>0, <2>1 DEF Course, Fate, Kept, Live, Entered, Over, GoesOn, SameTask, RestartSafe
  <2>3. run'[r].mode = run[r].mode \/ Entered(r)
    BY <2>0 DEF Course, Fate, Over, GoesOn, PutBack, SameTask
  <2>4. recovery'[r] # "none" \/ r \in deferred' => run'[r].mode = "queue"
    <3>1. CASE PutBack(r)
      BY <2>1, <3>1 DEF RestartSafe, Unsent
    <3>2. CASE ~PutBack(r)
      BY <2>0, <2>3, <3>2 DEF Course, Recovers, Kept, Entered, Lease
    <3> QED BY <3>1, <3>2
  <2>5. ASSUME run'[r].status = "queued" PROVE Waits(r)'
    <3>1. CASE PutBack(r)
      BY <2>1, <3>1 DEF PutBack, Waits
    <3>2. CASE Entered(r)
      BY <3>2 DEF Entered, Waits
    <3>3. CASE ~PutBack(r) /\ ~Entered(r)
      <4>1. run[r].status = "queued"
        BY <2>0, <2>5, <3>3 DEF Course, Fate, Over, GoesOn, Live, LiveStates, ActiveStates
      <4>2. CASE worker[r] # "none"
        BY <1>2, <2>0, <2>5, <3>3, <4>2 DEF Course, Works, Taken, Waits
      <4>3. CASE worker[r] = "none"
        <5>1. run[r].mode = "queue" /\ Waits(r)
          BY <2>0, <4>1, <4>3 DEF Kept, Waits, Recovering
        <5>2. RestartSafe(run'[r])
          BY <2>0, <2>2, <2>3, <2>5, <3>3, <5>1 DEF RestartSafe, Unsent, Once, Live, LiveStates
        <5> QED BY <1>2, <2>0, <3>3, <5>1, <5>2 DEF Course, Waiting
      <4> QED BY <4>2, <4>3
    <3> QED BY <3>1, <3>2, <3>3
  <2> QED BY <2>2, <2>4, <2>5 DEF Kept
<1> QED BY <1>1, <1>2 DEF KeptInv

\* After a start, and after a resume.
LEMMA KeptBoot ==
    ASSUME BrokerInv, KeptInv, Start
    PROVE  KeptInv'
<1>1. /\ Down /\ up' = "running" /\ ~settled /\ settled' = settled
      /\ run' = [r \in Req |-> IF r \in Interrupted THEN End(run[r], "stopped") ELSE run[r]]
      /\ deferred' = {r \in Req : RestartSafe(run[r])} /\ recovery' = recovery
  BY DEF Start, BrokerInv, LeaseInv, KeptInv
<1>2. ASSUME NEW r \in Req PROVE Kept(r)'
  <2>1. recovery'[r] = "none"
    BY <1>1 DEF Down, Idle
  <2>2. \/ run'[r].status = "stopped"
        \/ run'[r] = run[r] /\ (Live(r) => RestartSafe(run[r]))
    BY <1>1, EndedPlain DEF Interrupted
  <2>3. r \in deferred' => RestartSafe(run[r]) /\ run'[r].mode = run[r].mode
    BY <1>1, EndedPlain
  <2>4. Live(r)' => run'[r].prompt /\ r \in deferred'
    BY <1>1, <2>2 DEF Live, LiveStates, ActiveStates, RestartSafe
  <2> QED BY <1>1, <2>1, <2>3, <2>4 DEF Kept, Waits, Live, LiveStates, RestartSafe, Unsent
<1> QED BY <1>1, <1>2 DEF KeptInv

LEMMA KeptResume ==
    ASSUME BrokerInv, KeptInv, ResumeRecovered
    PROVE  KeptInv'
<1>1. PICK late \in SUBSET Resumable(run) :
        /\ run' = [r \in Req |-> IF r \in late THEN End(run[r], "stopped") ELSE run[r]]
        /\ Resume(run, late)
  BY DEF ResumeRecovered
<1>2. /\ up = "running" /\ up' = up /\ worker' = worker /\ recovery \in [Req -> RecoveryPoints]
      /\ recovery' = [r \in Req |-> IF r \in Resumable(run) \ late /\ recovery[r] = "none"
                                      THEN "checking" ELSE recovery[r]]
      /\ deferred' \subseteq deferred
  BY <1>1 DEF ResumeRecovered, Resume, BrokerInv, Types, LedgerType
<1>3. ASSUME NEW r \in Req PROVE Kept(r)'
  <2>0. Kept(r) /\ Ok(r)
    BY <1>2, OkRuns DEF KeptInv
  <2>1. /\ r \in late => run'[r].status = "stopped"
        /\ r \notin late => run'[r] = run[r]
        /\ run'[r].mode = run[r].mode
    BY <1>1, EndedPlain
  <2>2. Live(r)' => run'[r].prompt
    BY <2>0, <2>1 DEF Kept, Live, LiveStates, ActiveStates
  <2>3. r \in Resumable(run) => r \in deferred
    BY DEF Resumable
  <2>4. recovery'[r] # "none" \/ r \in deferred' => run'[r].mode = "queue"
    BY <1>2, <2>0, <2>1, <2>3 DEF Kept
  <2>5. ASSUME run'[r].status = "queued" PROVE Waits(r)'
    <3>1. r \notin late /\ run[r].status = "queued" /\ Waits(r)
      BY <2>0, <2>1, <2>5 DEF Kept
    <3>2. CASE r \in deferred /\ recovery[r] = "none"
      <4>1. r \in Resumable(run)
        BY <2>0, <3>1, <3>2 DEF Resumable, RestartSafe, Unsent, Kept, Live, LiveStates, Ok, Once
      <4> QED BY <1>2, <3>1, <3>2, <4>1 DEF Waits, Recovering
    <3>3. CASE recovery[r] \in Recovering
      BY <1>2, <3>3 DEF Waits, Recovering
    <3>4. CASE worker[r] # "none"
      BY <1>2, <3>4 DEF Waits
    <3> QED BY <3>1, <3>2, <3>3, <3>4 DEF Waits
  <2> QED BY <2>2, <2>4, <2>5 DEF Kept
<1> QED BY <1>2, <1>3 DEF KeptInv

LEMMA KeptNext ==
    ASSUME BrokerInv, PlainInv, BrokerInv', KeptInv, [Next]_vars,
           \A r \in Req : Roomy(r) /\ Deferrable(r)
    PROVE  KeptInv'
<1>1. CASE \E r \in Req : User(r) \/ Request(r) \/ Worker(r) \/ Recovery(r) \/ Codex(r)
  <2>1. PICK r \in Req : User(r) \/ Request(r) \/ Worker(r) \/ Recovery(r) \/ Codex(r)
    BY <1>1
  <2>2. UNCHANGED bridgeVars
    BY <2>1, UpKept
  <2>3. \A s \in Req : Course(s)
    BY <2>1, ThreadCourse
  <2> QED BY <2>2, <2>3, KeptThreads
<1>2. CASE Close \/ Exit \/ Crash
  BY <1>2 DEF Close, Exit, Crash, Gone, KeptInv
<1>3. CASE ProcessDies \/ ProcessStarts \/ AccountChangeBegins \/ AccountChanges
           \/ AccountFailsClosed \/ UNCHANGED vars
  <2>1. UNCHANGED <<run, worker, recovery, deferred, settled, up>>
    BY <1>3 DEF ProcessDies, ProcessStarts, AccountChangeBegins, AccountChanges,
                AccountFailsClosed, vars, ledgerVars, bridgeVars
  <2> QED BY <2>1 DEF KeptInv, Kept, Waits, Blocked, BlockedIn, Live
<1> QED BY <1>1, <1>2, <1>3, KeptBoot, KeptResume DEF Next, Environment

\* Recovery may send a queued run, for it was never sent to Codex; and while the
\* Bridge serves, a thread will run it, or a recovery is to come.  So it is as long
\* as recovery threads find room in the gate, and workers only put back prompts that
\* recovery may send, once the recovery thread that started them has left: a full
\* queue in reserve_prompt, the fence of _run_worker that puts back a prompt whatever
\* its mode and state, and the late finally clause of _recover_deferred_queued_run
\* are the only ways in which runtime_broker.py forgets a queued prompt.
THEOREM BrokerQueueKept ==
    Spec /\ [][\A r \in Req : Roomy(r) /\ Deferrable(r)]_vars => []QueueKept
<1> DEFINE Step == \A r \in Req : Roomy(r) /\ Deferrable(r)
<1>1. Init => PlainInv /\ KeptInv
  <2> SUFFICES ASSUME Init PROVE PlainInv /\ KeptInv
    OBVIOUS
  <2>1. /\ up = "running" /\ deferred = {}
        /\ \A r \in Req : /\ run[r].status = "none" /\ run[r].stop = "no"
                          /\ worker[r] = "none" /\ recovery[r] = "none"
    BY DEF Init, Idle, NoRun
  <2> QED BY <2>1, PlainInit DEF KeptInv, Kept, Live, LiveStates, ActiveStates
<1>2. BrokerInv /\ BrokerInv' /\ PlainInv /\ KeptInv /\ [Next]_vars /\ [Step]_vars => PlainInv' /\ KeptInv'
  <2> SUFFICES ASSUME BrokerInv, BrokerInv', PlainInv, KeptInv, [Next]_vars, [Step]_vars
               PROVE  PlainInv' /\ KeptInv'
    OBVIOUS
  <2>1. PlainInv'
    BY PlainNext
  <2>2. CASE Step
    BY <2>1, <2>2, KeptNext
  <2>3. CASE UNCHANGED vars
    <3>1. UNCHANGED <<run, worker, recovery, deferred, settled, up>>
      BY <2>3 DEF vars, ledgerVars, bridgeVars
    <3> QED BY <2>1, <3>1 DEF KeptInv, Kept, Waits, Blocked, BlockedIn, Live
  <2> QED BY <2>2, <2>3
<1>3. BrokerInv /\ KeptInv => QueueKept
  BY DEF BrokerInv, OnceInv, Once, KeptInv, Kept, Waits, Recovering, QueueKept
<1> HIDE DEF Step
<1>4. Spec /\ [][Step]_vars => []QueueKept
  BY <1>1, <1>2, <1>3, BrokerInvariant, PTL DEF Spec
<1> QED BY <1>4 DEF Step

-----------------------------------------------------------------------------
(* The fence: which account a turn starts under *)

\* Whoever holds a lease and has a worker was accepted from the account of now.
Fenced(r) == Live(r) /\ HasLease(r) /\ worker[r] # "none" => account \in {run[r].acct, None}

\* After shutdown only queued runs live; and what is still on its way to Codex
\* reaches nobody, or goes out under its account.
Halted(r) ==
    /\ Live(r) => run[r].status = "queued"
    /\ worker[r] = "dispatched" => Dead(r) \/ (account \in {run[r].acct, None} /\ ~authLease)

FenceInv ==
    /\ authLease => holder = None /\ waiting = {}
    /\ up = "running" => \A r \in Req : Fenced(r)
    /\ up = "closed" => \A r \in Req : Halted(r)

\* What no thread does: it neither ends nor overlaps a change of account, and it
\* brings no process back.
Guarded ==
    /\ authLease' = authLease /\ account' = account /\ gen' = gen /\ (ready' => ready)
    /\ authLease /\ holder = None /\ waiting = {} => holder' = None /\ waiting' = {}

LEMMA ReleaseGuarded ==
    ASSUME NEW rs, Release(rs)
    PROVE  /\ authLease' = authLease
           /\ holder = None /\ waiting = {} => holder' = None /\ waiting' = {}
BY DEF Release, First

LEMMA TerminalizeGuarded ==
    ASSUME NEW base, NEW over, NEW status, Terminalize(base, over, status)
    PROVE  /\ authLease' = authLease
           /\ holder = None /\ waiting = {} => holder' = None /\ waiting' = {}
<1>1. \E rs : Release(rs)
  <2> DEFINE mid == [s \in Req |-> IF s \in over THEN End(base[s], status) ELSE base[s]]
             lifted == /\ \E s \in over : base[s].stop = "unconfirmed"
                       /\ ~BlockedIn(mid) /\ up' = "running"
  <2>1. PICK late \in IF lifted THEN SUBSET {s \in Resumable(mid) : recovery[s] = "none"} ELSE {{}} :
          Release({s \in over \cup late : recovery[s] # "claimed"})
    BY DEF Terminalize
  <2> QED BY <2>1
<1> QED BY <1>1, ReleaseGuarded

LEMMA AbortGuarded ==
    ASSUME NEW g, Abort(g)
    PROVE  ready' => ready
BY DEF Abort, LoseProcess

LEMMA OthersGuarded ==
    ASSUME NEW r \in Req, User(r) \/ Request(r) \/ Recovery(r) \/ Codex(r)
    PROVE  Guarded
<1>1. CASE User(r)
  <2>1. UNCHANGED <<account, serverVars>>
    BY <1>1 DEF User, SubmitPrompt, AdmitPrompt, ReleaseAdmission, SteerBegin, CancelQueuedPrompt,
                CancelRun
  <2>2. /\ authLease' = authLease
        /\ authLease /\ holder = None /\ waiting = {} => holder' = None /\ waiting' = {}
    <3>1. CASE \E mode \in Modes : SubmitPrompt(r, mode)
      BY <3>1 DEF SubmitPrompt, Reserve, ReserveAllowed
    <3>2. CASE AdmitPrompt(r) \/ SteerBegin(r)
      BY <3>2 DEF AdmitPrompt, SteerBegin, Reserve, ReserveAllowed, ledgerVars
    <3>3. CASE ReleaseAdmission(r)
      BY <3>3, ReleaseGuarded DEF ReleaseAdmission
    <3>4. CASE CancelQueuedPrompt(r) \/ CancelRun(r)
      BY <3>4, TerminalizeGuarded DEF CancelQueuedPrompt, CancelRun
    <3> QED BY <1>1, <3>1, <3>2, <3>3, <3>4 DEF User
  <2> QED BY <2>1, <2>2 DEF Guarded, serverVars
<1>2. CASE Request(r)
  <2>1. account' = account /\ gen' = gen /\ (ready' => ready)
    BY <1>2, AbortGuarded DEF Request, SteerAccepted, SteerFailed, CancelAborts, CancelAborted,
                InterruptAccepted, InterruptFails, InterruptFailed, serverVars
  <2>2. UNCHANGED ledgerVars \/ \E over : Terminalize(run, over, "stopped")
    BY <1>2 DEF Request, SteerAccepted, SteerFailed, CancelAborts, CancelAborted,
                InterruptAccepted, InterruptFails, InterruptFailed
  <2> QED BY <2>1, <2>2, TerminalizeGuarded DEF Guarded, ledgerVars
<1>3. CASE Recovery(r)
  <2>1. UNCHANGED <<account, serverVars>>
    BY <1>3 DEF Recovery, RecoveryChecks, RecoveryReserves, RecoveryClaims, RecoveryExpires,
                RecoveryLeaves, RecoveryMoves, RecoveryEnds
  <2>2. UNCHANGED <<holder, waiting, authLease>> \/ Reserve(r) \/ (\E rs : Release(rs))
    BY <1>3 DEF Recovery, RecoveryChecks, RecoveryReserves, RecoveryClaims, RecoveryExpires,
                RecoveryLeaves, RecoveryMoves, RecoveryEnds
  <2> QED BY <2>1, <2>2, ReleaseGuarded DEF Guarded, serverVars, Reserve, ReserveAllowed
<1>4. CASE Codex(r)
  <2>1. account' = account /\ gen' = gen /\ (ready' => ready)
    BY <1>4, AbortGuarded DEF Codex, TurnCompletes, TurnCompleted, BufferOverflows
  <2>2. UNCHANGED <<holder, waiting, authLease>> \/ \E over, status : Terminalize(run, over, status)
    BY <1>4 DEF Codex, TurnCompletes, TurnCompleted, BufferOverflows, ledgerVars
  <2> QED BY <2>1, <2>2, TerminalizeGuarded DEF Guarded
<1> QED BY <1>1, <1>2, <1>3, <1>4

LEMMA WorkerGuarded ==
    ASSUME NEW r \in Req, Worker(r)
    PROVE  Guarded
<1>1. account' = account /\ gen' = gen /\ (ready' => ready)
  <2>1. CASE StartSteps(r)
    BY <2>1 DEF StartSteps, WorkerWakes, WorkerTooLate, WorkerTimesOut, WorkerExpired,
                WorkerFenced, WorkerAdmitted, StartTurn, ThreadLoaded, TurnDispatched, TurnStarts,
                StartFails, Moves, Ends, serverVars
  <2>2. CASE TurnSteps(r)
    BY <2>2, AbortGuarded DEF TurnSteps, TurnBound, TurnReplayed, WorkerInterrupts, WatchEnds,
                WatchStale, WatchReconciles, WatchGivesUp, WorkerAborts, WorkerAborted,
                WorkerFailed, Moves, Ends, Completes, serverVars
  <2>3. CASE BudgetSteps(r)
    BY <2>3 DEF BudgetSteps, BudgetStop, BudgetUnconfirmed, StopExpiredStart, Ends, serverVars
  <2> QED BY <2>1, <2>2, <2>3 DEF Worker, StartSteps, TurnSteps, BudgetSteps
<1>2. \/ UNCHANGED <<holder, waiting, authLease>>
      \/ \E rs : Release(rs)
      \/ \E over, status : Terminalize(run, over, status)
  <2>1. CASE StartSteps(r)
    BY <2>1 DEF StartSteps, WorkerWakes, WorkerTooLate, WorkerTimesOut, WorkerExpired,
                WorkerFenced, WorkerAdmitted, StartTurn, ThreadLoaded, TurnDispatched, TurnStarts,
                StartFails, Moves, Ends, Defer, ledgerVars
  <2>2. CASE TurnSteps(r)
    BY <2>2 DEF TurnSteps, TurnBound, TurnReplayed, WorkerInterrupts, WatchEnds,
                WatchStale, WatchReconciles, WatchGivesUp, WorkerAborts, WorkerAborted,
                WorkerFailed, Moves, Ends, Completes, ledgerVars
  <2>3. CASE BudgetSteps(r)
    BY <2>3 DEF BudgetSteps, BudgetStop, BudgetUnconfirmed, StopExpiredStart, Ends
  <2> QED BY <2>1, <2>2, <2>3 DEF Worker, StartSteps, TurnSteps, BudgetSteps
<1> QED BY <1>1, <1>2, ReleaseGuarded, TerminalizeGuarded DEF Guarded

\* A step of a thread.
LEMMA FenceThreads ==
    ASSUME BrokerInv, PlainInv, OwnInv, FenceInv, UNCHANGED bridgeVars, Guarded,
           \A s \in Req : Course(s)
    PROVE  FenceInv'
<1>0. up' = up
  BY DEF bridgeVars
<1>1. authLease' => holder' = None /\ waiting' = {}
  BY DEF FenceInv, Guarded
<1>2. ASSUME up = "running", NEW r \in Req PROVE Fenced(r)'
  <2> SUFFICES ASSUME Live(r)', HasLease(r)', worker'[r] # "none"
               PROVE  account' \in {run'[r].acct, None}
    BY DEF Fenced
  <2>1. Fenced(r) /\ Course(r) /\ account' = account
    BY <1>2 DEF FenceInv, Guarded
  <2>2. CASE Entered(r) \/ Taken(r)
    BY <2>1, <2>2 DEF Entered, Taken, SameAccount
  <2>3. CASE ~Entered(r) /\ ~Taken(r)
    <3>1. HasLease(r) /\ worker[r] # "none" /\ ~PutBack(r)
      BY <2>1, <2>3 DEF Course, Works, PutBack
    <3>2. Live(r) /\ run'[r].acct = run[r].acct
      BY <2>1, <2>3, <3>1 DEF Course, Fate, Over, GoesOn, SameTask, Live
    <3> QED BY <2>1, <3>1, <3>2 DEF Fenced
  <2> QED BY <2>2, <2>3
<1>3. ASSUME up = "closed", NEW r \in Req PROVE Halted(r)'
  <2>1. Halted(r) /\ Course(r) /\ Once(r)
    BY <1>3 DEF FenceInv, BrokerInv, OnceInv
  <2>2. ~Blocked
    BY <1>3 DEF FenceInv, Halted, PlainInv, Plain, Blocked, BlockedIn, Live
  <2>3. run'[r] = run[r] \/ Over(r)
    BY <1>3, <2>1, <2>2 DEF Course, Fate, Entered, GoesOn, PutBack, Halted
  <2>4. Live(r)' => run'[r].status = "queued"
    BY <2>1, <2>3 DEF Halted, Over, Live
  <2>5. ASSUME worker'[r] = "dispatched" PROVE Dead(r)' \/ (account' \in {run'[r].acct, None} /\ ~authLease')
    <3>1. worker[r] = "dispatched"
      BY <1>3, <2>1, <2>5 DEF Course, Works, Entered, PutBack, Taken, Halted, Live, LiveStates, ActiveStates
    <3>2. ~Live(r)
      BY <2>1, <3>1 DEF Once, Late, Early, WorkerPoints, Halted
    <3>3. run'[r] = run[r]
      BY <2>3, <3>2 DEF Over
    <3> QED BY <2>1, <3>1, <3>3 DEF Halted, Guarded, Dead
  <2> QED BY <2>4, <2>5 DEF Halted
<1> QED BY <1>0, <1>1, <1>2, <1>3 DEF FenceInv

\* A shutdown lets nothing out that was not under its account.
LEMMA FenceClose ==
    ASSUME BrokerInv, OwnInv, FenceInv, Close
    PROVE  FenceInv'
<1> DEFINE kept == {r \in QueuedRuns : run[r].mode = "queue"}
           over == LiveAmong(Req) \ kept
<1>1. /\ up = "running" /\ up' = "closed" /\ UNCHANGED <<account, worker, gen, ready>>
      /\ run' = [r \in Req |-> IF r \in over THEN End(run[r], "stopped") ELSE run[r]]
  BY DEF Close, serverVars
<1>2. /\ authLease' = authLease
      /\ holder = None /\ waiting = {} => holder' = None /\ waiting' = {}
  BY ReleaseGuarded DEF Close
<1>3. ASSUME NEW r \in Req PROVE Halted(r)'
  <2>1. /\ r \in over => run'[r].status = "stopped" /\ run'[r].acct = run[r].acct
        /\ r \notin over => run'[r] = run[r]
        /\ run'[r].gen = run[r].gen
    <3> HIDE DEF over
    <3> QED BY <1>1, EndedPlain, EndedRuns
  <2>2. r \notin over /\ Live(r) => run[r].status = "queued"
    BY DEF LiveAmong, QueuedRuns
  <2>3. Live(r)' => run'[r].status = "queued"
    <3> HIDE DEF over
    <3> QED BY <2>1, <2>2 DEF Live, LiveStates, ActiveStates
  <2>4. ASSUME worker[r] = "dispatched" PROVE Dead(r) \/ (account \in {run[r].acct, None} /\ ~authLease)
    <3>1. Own(r) /\ Lease(r) /\ Fenced(r)
      BY <1>1, OwnRow DEF FenceInv
    <3>2. CASE run[r].status \in ActiveStates
      <4>1. holder = r /\ Live(r)
        BY <3>1, <3>2 DEF Lease, Live, LiveStates
      <4>2. ~authLease
        BY <4>1, BrokerAssumption DEF FenceInv
      <4> QED BY <2>4, <3>1, <4>1, <4>2 DEF Fenced, HasLease
    <3> QED BY <2>4, <3>1, <3>2 DEF Own
  <2>5. Dead(r)' <=> Dead(r)
    BY <1>1, <2>1 DEF Dead
  <2>6. run'[r].acct = run[r].acct
    <3> HIDE DEF over
    <3> QED BY <2>1
  <2> QED BY <1>1, <1>2, <2>3, <2>4, <2>5, <2>6 DEF Halted
<1> QED BY <1>1, <1>2, <1>3 DEF FenceInv

LEMMA FenceEnvironment ==
    ASSUME BrokerInv, OwnInv, FenceInv, Environment \/ UNCHANGED vars
    PROVE  FenceInv'
<1>0. None \notin Req
  BY BrokerAssumption
<1>1. CASE Exit \/ Crash
  BY <1>1 DEF Exit, Crash, Gone, FenceInv
<1>2. CASE Start
  <2>1. /\ Down /\ up' = "running" /\ UNCHANGED <<holder, waiting, authLease>>
    BY <1>2 DEF Start, BrokerInv, LeaseInv
  <2>2. \A r \in Req : ~HasLease(r)'
    BY <1>0, <2>1 DEF Down, HasLease
  <2> QED BY <2>1, <2>2 DEF FenceInv, Fenced
<1>3. CASE ResumeRecovered
  <2>1. /\ up = "running" /\ up' = up /\ UNCHANGED <<holder, waiting, authLease, account, worker>>
        /\ \E late : run' = [r \in Req |-> IF r \in late THEN End(run[r], "stopped") ELSE run[r]]
    BY <1>3 DEF ResumeRecovered
  <2>2. \A r \in Req : run'[r] = run[r] \/ run'[r].status = "stopped"
    BY <2>1, EndedPlain
  <2>3. \A r \in Req : Fenced(r)'
    BY <2>1, <2>2 DEF FenceInv, Fenced, Live, LiveStates, ActiveStates, HasLease
  <2> QED BY <2>1, <2>3 DEF FenceInv
<1>4. CASE AccountChangeBegins
  <2>1. up = "running" /\ up' = up /\ holder' = None /\ waiting' = {}
    BY <1>4 DEF AccountChangeBegins, bridgeVars
  <2> QED BY <1>0, <2>1 DEF FenceInv, Fenced, HasLease
<1>5. CASE AccountChanges
  <2>1. /\ holder' = None /\ waiting' = {} /\ ~authLease' /\ authLease
        /\ UNCHANGED <<run, worker, gen, ready, up>>
    BY <1>5 DEF AccountChanges, FenceInv, serverVars, bridgeVars, BrokerInv, Types, LedgerType, GateType
  <2>2. \A r \in Req : ~HasLease(r)'
    BY <1>0, <2>1 DEF HasLease
  <2>3. \A r \in Req : Halted(r) => Halted(r)'
    BY <2>1 DEF Halted, Dead, Live
  <2> QED BY <2>1, <2>2, <2>3 DEF FenceInv, Fenced
<1>6. CASE AccountFailsClosed
  <2>1. account' = None /\ UNCHANGED <<run, worker, gen, ready, up, holder, waiting, authLease>>
    BY <1>6 DEF AccountFailsClosed, ledgerVars, serverVars, bridgeVars
  <2> QED BY <2>1 DEF FenceInv, Fenced, Halted, Dead, Live, HasLease
<1>7. CASE ProcessDies \/ ProcessStarts
  <2>1. up = "running" /\ UNCHANGED <<run, worker, up, holder, waiting, authLease, account>>
    BY <1>7 DEF ProcessDies, ProcessStarts, ledgerVars, bridgeVars
  <2> QED BY <2>1 DEF FenceInv, Fenced, Live, HasLease
<1>8. CASE UNCHANGED vars
  <2>1. UNCHANGED <<run, worker, gen, ready, up, holder, waiting, authLease, account>>
    BY <1>8 DEF vars, ledgerVars, serverVars, bridgeVars
  <2> QED BY <2>1 DEF FenceInv, Fenced, Halted, Dead, Live, HasLease
<1> QED BY <1>1, <1>2, <1>3, <1>4, <1>5, <1>6, <1>7, <1>8, FenceClose DEF Environment

LEMMA FenceNext ==
    ASSUME BrokerInv, PlainInv, OwnInv, FenceInv, [Next]_vars
    PROVE  FenceInv'
<1>1. CASE \E r \in Req : User(r) \/ Request(r) \/ Worker(r) \/ Recovery(r) \/ Codex(r)
  <2>1. PICK r \in Req : User(r) \/ Request(r) \/ Worker(r) \/ Recovery(r) \/ Codex(r)
    BY <1>1
  <2>2. UNCHANGED bridgeVars /\ Guarded
    BY <2>1, UpKept, OthersGuarded, WorkerGuarded
  <2>3. \A s \in Req : Course(s)
    BY <2>1, ThreadCourse
  <2> QED BY <2>2, <2>3, FenceThreads
<1> QED BY <1>1, FenceEnvironment DEF Next

\* turn/start goes out under the account that accepted its prompt, and behind no
\* unconfirmed stop.
LEMMA StartsFenced ==
    ASSUME BrokerInv, PlainInv, OwnInv, FenceInv, NEW r \in Req, TurnStarts(r)
    PROVE  account \in {run[r].acct, None} /\ ~Blocked
<1>1. worker[r] = "dispatched" /\ ready /\ gen = run[r].gen /\ up # "down"
  BY ThreadsUp DEF TurnStarts
<1>2. ~Dead(r) /\ up \in {"running", "closed"}
  BY <1>1, BrokerAssumption DEF Dead, BrokerInv, Types, BridgeType, ServerType
<1>3. CASE up = "running"
  <2>1. Own(r) /\ Fenced(r) /\ \A s \in Req : Lease(s) /\ Plain(s)
    BY <1>3, OwnRow DEF FenceInv, PlainInv
  <2>2. run[r].status \in ActiveStates
    BY <1>1, <1>2, <2>1 DEF Own
  <2>3. holder = r /\ Live(r) /\ run[r].stop = "no"
    BY <1>1, <2>1, <2>2 DEF Lease, Plain, Sending, Live, LiveStates
  <2>4. ~Blocked
    <3>1. \A s \in Req : run[s].status \in LiveStates /\ run[s].stop = "unconfirmed"
            => run[s].status \in ActiveStates
      BY <2>1 DEF Plain, LiveStates
    <3>2. \A s \in Req : run[s].status \in ActiveStates => s = r
      BY <2>1, <2>3 DEF Lease
    <3> QED BY <2>3, <3>1, <3>2 DEF Blocked, BlockedIn
  <2> QED BY <1>1, <2>1, <2>3, <2>4 DEF Fenced, HasLease
<1>4. CASE up = "closed"
  <2>1. Halted(r)
    BY <1>4 DEF FenceInv
  <2>2. ~Blocked
    BY <1>4 DEF FenceInv, Halted, PlainInv, Plain, Blocked, BlockedIn, Live
  <2> QED BY <1>1, <1>2, <2>1, <2>2 DEF Halted
<1> QED BY <1>2, <1>3, <1>4

\* A run that has ended keeps its end.
LEMMA EndsOnce ==
    ASSUME BrokerInv, PlainInv, FenceInv, [Next]_vars, NEW r \in Req, Deferrable(r),
           run[r].status \in Ended
    PROVE  run'[r].status = run[r].status
<1>0. ~Live(r)
  BY DEF Live, LiveStates, ActiveStates, Ended
<1>1. CASE \E s \in Req : User(s) \/ Request(s) \/ Worker(s) \/ Recovery(s) \/ Codex(s)
  <2>1. Course(r)
    BY <1>1, ThreadCourse
  <2>2. ASSUME PutBack(r) PROVE FALSE
    <3>1. worker[r] # "none" /\ Blocked
      BY <2>2 DEF PutBack
    <3>2. up \in {"running", "closed"}
      BY <3>1, ThreadsUp DEF BrokerInv, Types, BridgeType
    <3>3. CASE up = "running"
      <4>1. r \notin deferred
        BY <3>1, <3>3 DEF BrokerInv, LeaseInv, Lease
      <4>2. run'[r].prompt
        BY <2>2, <3>3, <4>1 DEF PutBack, Deferrable, RestartSafe
      <4> QED BY <2>2, <4>2 DEF PutBack, SameTask, PlainInv, Plain
    <3>4. CASE up = "closed"
      BY <3>1, <3>4 DEF FenceInv, Halted, PlainInv, Plain, Blocked, BlockedIn, Live
    <3> QED BY <3>2, <3>3, <3>4
  <2>3. ~Entered(r)
    BY DEF Entered, Ended
  <2> QED BY <1>0, <2>1, <2>2, <2>3 DEF Course, Fate, Over, GoesOn
<1>2. CASE Close \/ Start \/ ResumeRecovered
  <2>1. \E over : /\ run' = [s \in Req |-> IF s \in over THEN End(run[s], "stopped") ELSE run[s]]
                  /\ r \notin over
    BY <1>0, <1>2 DEF Close, Start, ResumeRecovered, LiveAmong, Interrupted, Resumable, RestartSafe,
                      Unsent, Live, LiveStates
  <2> QED BY <2>1, EndedPlain
<1>3. CASE Exit \/ Crash \/ ProcessDies \/ ProcessStarts \/ AccountChangeBegins \/ AccountChanges
           \/ AccountFailsClosed \/ UNCHANGED vars
  BY <1>3 DEF Exit, Crash, Gone, ProcessDies, ProcessStarts, AccountChangeBegins, AccountChanges,
              AccountFailsClosed, vars, ledgerVars
<1> QED BY <1>1, <1>2, <1>3 DEF Next, Environment

\* No turn starts under another account than the one that accepted its prompt, or
\* while an unconfirmed budget stop blocks admission; and a run that has ended keeps
\* its end.  So it is as long as no watcher acts on a generation that is no longer
\* the one it saw, and workers only put back prompts that recovery may send: the
\* comparison in _watch_turn outside the lock and the handlers of _run_worker that
\* do not ask whether the run has ended are the only ways past the fence.
THEOREM BrokerStartFence ==
    Spec /\ [][\A r \in Req : Timely(r) /\ Deferrable(r)]_vars => StartFence
<1> DEFINE Step == \A r \in Req : Timely(r) /\ Deferrable(r)
           Fence == \A r \in Req :
                      /\ native'[r] = "running" /\ native[r] = "none" =>
                            account \in {run[r].acct, None} /\ ~Blocked
                      /\ run[r].status \in Ended => run'[r].status = run[r].status
           Inv == PlainInv /\ OwnInv /\ FenceInv
<1>1. Init => Inv
  <2> SUFFICES ASSUME Init PROVE Inv
    OBVIOUS
  <2>1. /\ up = "running" /\ gen = 1 /\ holder = None /\ waiting = {}
        /\ \A r \in Req : /\ native[r] = "none" /\ worker[r] = "none" /\ canceller[r] = "none"
                          /\ run[r].status = "none" /\ run[r].stop = "no" /\ ~Live(r)
    BY DEF Init, Idle, NoRun, Live, LiveStates, ActiveStates
  <2>2. PlainInv
    BY PlainInit
  <2>3. OwnInv
    BY <2>1 DEF OwnInv, Own
  <2>4. FenceInv
    BY <2>1 DEF FenceInv, Fenced
  <2> QED BY <2>2, <2>3, <2>4
<1>2. BrokerInv /\ Inv /\ [Next]_vars /\ [Step]_vars => Inv'
  <2> SUFFICES ASSUME BrokerInv, Inv, [Next]_vars, [Step]_vars PROVE Inv'
    OBVIOUS
  <2>1. PlainInv' /\ FenceInv'
    BY PlainNext, FenceNext
  <2>2. CASE Step
    BY <2>1, <2>2, OwnNext
  <2>3. CASE UNCHANGED vars
    <3>1. OwnInv'
      BY <2>3, SameOwn DEF vars, ledgerVars, bridgeVars
    <3> QED BY <2>1, <3>1
  <2> QED BY <2>2, <2>3
<1>3. BrokerInv /\ Inv /\ [Next]_vars /\ [Step]_vars => [Fence]_vars
  <2> SUFFICES ASSUME BrokerInv, Inv, [Next]_vars, Step PROVE Fence
    OBVIOUS
  <2> TAKE r \in Req
  <2>1. ASSUME native'[r] = "running", native[r] = "none"
        PROVE  account \in {run[r].acct, None} /\ ~Blocked
    <3>1. ~Still
      BY <2>1 DEF Still
    <3>2. PICK s \in Req : TurnStarts(s)
      BY <3>1, OthersStill, WorkerStill, EnvironmentStill DEF Next
    <3>3. s = r
      BY <2>1, <3>2, TurnStartsKeeps
    <3> QED BY <3>2, <3>3, StartsFenced
  <2>2. ASSUME run[r].status \in Ended PROVE run'[r].status = run[r].status
    BY <2>2, EndsOnce
  <2> QED BY <2>1, <2>2
<1> HIDE DEF Step, Fence, Inv
<1>4. Spec /\ [][Step]_vars => [][Fence]_vars
  BY <1>1, <1>2, <1>3, BrokerInvariant, PTL DEF Spec
<1> QED BY <1>4 DEF StartFence, Step, Fence

-----------------------------------------------------------------------------
(* Without elapsed-time limits *)

\* Where no run has an elapsed-time limit, nothing is ever put back.
LEMMA Unbudgeted ==
    ASSUME Budgeted = {}, BrokerInv, PlainInv, [Next]_vars
    PROVE  \A r \in Req : Deferrable(r)
<1>1. ~Blocked
  BY DEF PlainInv, Plain, Blocked, BlockedIn
<1>2. up = "running" => deferred' \subseteq deferred
  <2>1. CASE \E r \in Req : User(r) \/ Request(r) \/ Worker(r) \/ Recovery(r) \/ Codex(r)
    <3>1. \A s \in Req : Course(s)
      BY <2>1, ThreadCourse
    <3>2. \A s \in Req : s \in deferred' => s \in deferred
      BY <1>1, <3>1 DEF Course, Recovers, PutBack
    <3>3. deferred' \subseteq Req
      BY BrokerNext DEF BrokerInv, Types, LedgerType
    <3> QED BY <3>2, <3>3
  <2>2. CASE Environment \/ UNCHANGED vars
    <3>1. CASE ResumeRecovered
      BY <3>1 DEF ResumeRecovered, Resume
    <3>2. CASE ~ResumeRecovered /\ up = "running"
      BY <2>2, <3>2 DEF Environment, ProcessDies, ProcessStarts, AccountChangeBegins, AccountChanges,
                  AccountFailsClosed, Close, Exit, Crash, Gone, Start, vars, ledgerVars
    <3> QED BY <3>1, <3>2
  <2> QED BY <2>1, <2>2 DEF Next
<1> QED BY <1>2 DEF Deferrable

\* Where no run has an elapsed-time limit, the only queued prompt that
\* runtime_broker.py forgets is one whose recovery thread finds the gate full.
THEOREM BrokerQueueKeptUnbudgeted ==
    ASSUME Budgeted = {}
    PROVE  Spec /\ [][\A r \in Req : Roomy(r)]_vars => []QueueKept
<1> DEFINE Room == \A r \in Req : Roomy(r)
           Step == \A r \in Req : Roomy(r) /\ Deferrable(r)
<1>1. BrokerInv /\ PlainInv /\ [Next]_vars /\ [Room]_vars => [Step]_vars
  BY Unbudgeted
<1>2. Init => PlainInv
  BY PlainInit
<1>3. BrokerInv /\ PlainInv /\ [Next]_vars => PlainInv'
  BY PlainNext
<1>4. Spec /\ [][Step]_vars => []QueueKept
  BY BrokerQueueKept
<1> HIDE DEF Room, Step
<1>5. Spec /\ [][Room]_vars => []QueueKept
  BY <1>1, <1>2, <1>3, <1>4, BrokerInvariant, PTL DEF Spec
<1> QED BY <1>5 DEF Room

\* Where no run has an elapsed-time limit, no turn starts under another account than
\* the one that accepted its prompt, and what has ended stays so, as long as no
\* watcher acts on a stale generation: the comparison in _watch_turn outside the lock
\* is then the only way past the fence.
THEOREM BrokerStartFenceUnbudgeted ==
    ASSUME Budgeted = {}
    PROVE  Spec /\ [][\A r \in Req : Timely(r)]_vars => StartFence
<1> DEFINE Time == \A r \in Req : Timely(r)
           Step == \A r \in Req : Timely(r) /\ Deferrable(r)
<1>1. BrokerInv /\ PlainInv /\ [Next]_vars /\ [Time]_vars => [Step]_vars
  BY Unbudgeted
<1>2. Init => PlainInv
  BY PlainInit
<1>3. BrokerInv /\ PlainInv /\ [Next]_vars => PlainInv'
  BY PlainNext
<1>4. Spec /\ [][Step]_vars => StartFence
  BY BrokerStartFence
<1> HIDE DEF Time, Step
<1>5. Spec /\ [][Time]_vars => StartFence
  BY <1>1, <1>2, <1>3, <1>4, BrokerInvariant, PTL DEF Spec
<1> QED BY <1>5 DEF Time

=============================================================================

--------------------------- MODULE DurableOutbox ---------------------------
(***************************************************************************)
(* event_store.py, DurableOutbox: canonical JSON documents are replaced    *)
(* together with the events that announce the change.  An operation is     *)
(* first a row of a database table, then its documents are replaced one by *)
(* one, then its events and the mark that it is applied are committed in   *)
(* one transaction.  Whoever comes next, or the next process, finishes an  *)
(* operation that was left half done.                                      *)
(*                                                                         *)
(* A caller holds the lock of the documents it changes (the mutation locks *)
(* of storage.py, the broker's lock for the private runtime state) from    *)
(* reading their revisions until its commit has returned.  Some documents  *)
(* are also saved directly, past the outbox (storage.py, save_thread).  A  *)
(* document's content is the update that wrote it; the order in which      *)
(* updates got their documents' locks is kept in begun, a history variable. *)
(***************************************************************************)
EXTENDS Naturals, Sequences, FiniteSets

CONSTANTS
    Update,    \* updates of documents; each happens once
    Document,  \* canonical JSON documents
    Touches,   \* the documents each update writes
    Direct,    \* updates saved past the outbox, one document each
    None,      \* nobody
    Boot,      \* the start of the process, which reconciles
    MaxFaults  \* bound: failed writes, failed transactions and crashes

ASSUME OutboxAssumption ==
    /\ None \notin Update /\ Boot \notin Update /\ None # Boot
    /\ Touches \in [Update -> (SUBSET Document) \ {{}}]
    /\ Direct \subseteq Update
    /\ MaxFaults \in Nat

VARIABLES
    file,       \* per document: who wrote it, and the revision of its marker
    prepared,   \* outbox_operations, in the order of their rowid
    applied,    \* those with applied_at set
    journal,    \* the operations whose events are in the journal, in order
    up,         \* a process runs
    reconciled, \* _reconciled
    holder,     \* who holds _operation_lock
    phase,      \* where the holder is
    op,         \* the operation it is finishing
    todo,       \* documents it has yet to replace
    caller,     \* where the caller of each update is
    revs,       \* the revisions a caller has been told
    faults,     \* failures so far
    begun       \* updates in the order they got their documents' locks

diskVars == <<file, prepared, applied, journal>>
lockVars == <<holder, phase, op, todo>>
vars == <<diskVars, lockVars, up, reconciled, caller, revs, faults, begun>>

Active(u) == caller[u] \in {"reading", "numbered"}
Entries(seq) == {seq[i] : i \in DOMAIN seq}

Init ==
    /\ file = [d \in Document |-> [by |-> None, rev |-> 0]]
    /\ prepared = <<>> /\ applied = {} /\ journal = <<>>
    /\ up = FALSE /\ reconciled = FALSE
    /\ holder = None /\ phase = "none" /\ op = None /\ todo = {}
    /\ caller = [u \in Update |-> "idle"] /\ revs = [u \in Update |-> [d \in Document |-> 0]]
    /\ faults = 0 /\ begun = <<>>

Fault == faults < MaxFaults /\ faults' = faults + 1

-----------------------------------------------------------------------------
(* Locks *)

\* As if documents were changed without their locks.
FreeAlways(u) == u \in Update

\* Nobody else holds the lock of a document of u.
Free(u) == \A v \in Update \ {u} : Active(v) => Touches[u] \cap Touches[v] = {}

At(u, point) == caller' = [caller EXCEPT ![u] = point]

ReleaseLock == holder' = None /\ phase' = "none" /\ op' = None /\ todo' = {}

\* The call of whoever holds the lock raises; a failed start ends the process.
Raise(outcome) ==
    /\ ReleaseLock
    /\ IF holder = Boot THEN up' = FALSE /\ UNCHANGED caller
                        ELSE At(holder, outcome) /\ UNCHANGED up

\* A caller locks its documents and asks for their next revision.
Reads(u) ==
    /\ up /\ holder # Boot /\ u \notin Direct /\ caller[u] = "idle" /\ Free(u)
    /\ At(u, "reading") /\ begun' = Append(begun, u)
    /\ UNCHANGED <<diskVars, lockVars, up, reconciled, revs, faults>>

\* As if the lock were enough.
TakesLockUnreconciled(u) ==
    /\ up /\ holder = None /\ Active(u)
    /\ holder' = u /\ phase' = "ready"
    /\ UNCHANGED <<diskVars, op, todo, up, reconciled, caller, revs, faults, begun>>

\* next_state_revision and commit_operation take the operation lock and first
\* finish what was left, unless it is known that nothing was.
TakesLock(u) ==
    /\ up /\ holder = None /\ Active(u)
    /\ holder' = u /\ phase' = IF reconciled THEN "ready" ELSE "scan"
    /\ UNCHANGED <<diskVars, op, todo, up, reconciled, caller, revs, faults, begun>>

\* Storage.__init__ reconciles before anything else runs.
Boots ==
    /\ ~up /\ up' = TRUE /\ reconciled' = FALSE
    /\ holder' = Boot /\ phase' = "scan"
    /\ UNCHANGED <<diskVars, op, todo, caller, revs, faults, begun>>

BootEnds ==
    /\ holder = Boot /\ phase = "ready" /\ ReleaseLock
    /\ UNCHANGED <<diskVars, up, reconciled, caller, revs, faults, begun>>

-----------------------------------------------------------------------------
(* Finishing operations *)

Pending == {i \in DOMAIN prepared : prepared[i] \notin applied}
Oldest == prepared[CHOOSE i \in Pending : \A j \in Pending : i <= j]

\* _reconcile_locked: the oldest operation that is not applied, or none.
Scans ==
    /\ phase = "scan"
    /\ IF Pending = {}
       THEN phase' = "ready" /\ reconciled' = TRUE /\ UNCHANGED op
       ELSE phase' = "apply" /\ op' = Oldest /\ UNCHANGED reconciled
    /\ UNCHANGED <<diskVars, holder, todo, up, caller, revs, faults, begun>>

\* A marker of another operation with the same or a later revision.
Diverges(u, d) == file[d].rev # 0 /\ file[d].by # u /\ file[d].rev >= revs[u][d]

\* As if the events were published first.
AppliesLast ==
    /\ phase = "apply" /\ phase' = "finalize"
    /\ UNCHANGED <<diskVars, holder, op, todo, up, reconciled, caller, revs, faults, begun>>

\* _apply_writes: every document is looked at before the first is replaced; one
\* that has the content already is left alone.
Applies ==
    /\ phase = "apply"
    /\ IF \E d \in Touches[op] : Diverges(op, d)
       THEN Raise("conflict")
       ELSE /\ phase' = "replace"
            /\ todo' = {d \in Touches[op] : file[d].by # op}
            /\ UNCHANGED <<holder, op, up, caller>>
    /\ UNCHANGED <<diskVars, reconciled, revs, faults, begun>>

Replaces(d) ==
    /\ phase = "replace" /\ d \in todo
    /\ \/ /\ file' = [file EXCEPT ![d] = [by |-> op, rev |-> revs[op][d]]]
          /\ todo' = todo \ {d}
          /\ UNCHANGED <<holder, phase, op, up, caller, faults>>
       \/ Fault /\ Raise("failed") /\ UNCHANGED file
    /\ UNCHANGED <<prepared, applied, journal, reconciled, revs, begun>>

\* The documents are read again before their events are published.
Checks ==
    /\ phase = "replace" /\ todo = {}
    /\ IF \A d \in Touches[op] : file[d].by = op
       THEN phase' = "finalize" /\ UNCHANGED <<holder, op, todo, up, caller>>
       ELSE Raise("conflict")
    /\ UNCHANGED <<diskVars, reconciled, revs, faults, begun>>

\* As if the mark were left to a later transaction, which never came when the
\* caller's own operation was finished.
FinalizesUnmarked ==
    /\ phase = "finalize"
    /\ journal' = Append(journal, op) /\ UNCHANGED <<file, prepared, applied>>
    /\ IF op = holder
       THEN ReleaseLock /\ At(op, "done") /\ reconciled' = TRUE
       ELSE phase' = "scan" /\ UNCHANGED <<holder, op, todo, reconciled, caller>>
    /\ UNCHANGED <<up, revs, faults, begun>>

\* _finalize: the events and the mark, in one transaction that may fail (a full
\* journal, an exhausted table of retired keys, the database).
Finalizes ==
    /\ phase = "finalize"
    /\ \/ /\ journal' = Append(journal, op) /\ applied' = applied \cup {op}
          /\ UNCHANGED <<file, prepared, up, faults>>
          /\ IF op = holder
             THEN ReleaseLock /\ At(op, "done") /\ reconciled' = TRUE
             ELSE phase' = "scan" /\ UNCHANGED <<holder, op, todo, reconciled, caller>>
       \/ Fault /\ Raise("failed") /\ UNCHANGED <<diskVars, reconciled>>
    /\ UNCHANGED <<revs, begun>>

-----------------------------------------------------------------------------
(* Callers *)

\* next_state_revision: one more than the marker, one where there is none.
Numbers(u) ==
    /\ holder = u /\ phase = "ready" /\ caller[u] = "reading"
    /\ revs' = [revs EXCEPT ![u] = [d \in Document |-> IF d \in Touches[u]
                                                       THEN file[d].rev + 1 ELSE 0]]
    /\ At(u, "numbered") /\ ReleaseLock
    /\ UNCHANGED <<diskVars, up, reconciled, faults, begun>>

\* _prepare: the row is committed, or nothing has happened.
Prepares(u) ==
    /\ holder = u /\ phase = "ready" /\ caller[u] = "numbered"
    /\ \/ /\ prepared' = Append(prepared, u) /\ reconciled' = FALSE
          /\ phase' = "apply" /\ op' = u /\ UNCHANGED <<holder, todo, up, caller, faults>>
       \/ Fault /\ Raise("rejected") /\ UNCHANGED <<prepared, reconciled>>
    /\ UNCHANGED <<file, applied, journal, revs, begun>>

\* save_thread: the document is replaced at once and carries no marker.
Saves(u) ==
    /\ up /\ holder # Boot /\ u \in Direct /\ caller[u] = "idle" /\ Free(u)
    /\ file' = [d \in Document |-> IF d \in Touches[u] THEN [by |-> u, rev |-> 0] ELSE file[d]]
    /\ At(u, "done") /\ begun' = Append(begun, u)
    /\ UNCHANGED <<prepared, applied, journal, lockVars, up, reconciled, revs, faults>>

\* The process ends: locks and _reconciled are lost, rows and documents stay.
Crash ==
    /\ up /\ Fault /\ up' = FALSE /\ reconciled' = FALSE /\ ReleaseLock
    /\ caller' = [u \in Update |-> IF Active(u) THEN "lost" ELSE caller[u]]
    /\ UNCHANGED <<diskVars, revs, begun>>

-----------------------------------------------------------------------------

Next ==
    \/ Boots \/ BootEnds \/ Scans \/ Applies \/ Checks \/ Finalizes \/ Crash
    \/ \E d \in Document : Replaces(d)
    \/ \E u \in Update : Reads(u) \/ TakesLock(u) \/ Numbers(u) \/ Prepares(u) \/ Saves(u)

Spec == Init /\ [][Next]_vars

-----------------------------------------------------------------------------
(* Properties *)

\* u got its documents' locks before v did, or is the initial content.
Position(u) == IF u = None THEN 0 ELSE CHOOSE i \in DOMAIN begun : begun[i] = u
NotOlder(d, u) == Position(file[d].by) >= Position(u)

\* Events are published in the order in which operations were prepared, each
\* once, and at most one operation is ever left half done.  A caller told that
\* its operation was not admitted may undo its own part: it never takes effect.
Published ==
    /\ journal = SubSeq(prepared, 1, Len(journal))
    /\ Len(prepared) <= Len(journal) + 1
    /\ applied = Entries(journal)
    /\ \A u \in Update : caller[u] = "rejected" =>
          u \notin Entries(prepared) /\ \A d \in Document : file[d].by # u

\* Whoever reads an event finds its change, or a later one, in the documents.
EventsShowState == \A u \in Entries(journal) : \A d \in Touches[u] : NotOlder(d, u)

\* No operation is prepared that cannot be finished: such a row would stop every
\* later commit, and the next start of the process.
NeverWedged == phase = "apply" => \A d \in Touches[op] : ~Diverges(op, d)

\* An acknowledged operation survives every later crash, and finishing an older
\* operation, whoever left it half done, never takes the change of a newer one
\* back (commit_operation finishes what is older first, and a marker tells a
\* later revision from an earlier one).
AcknowledgedStays ==
    [][/\ \A u \in Update \ Direct : caller'[u] = "done" =>
             u \in Entries(journal') /\ \A d \in Touches[u] : NotOlder(d, u)'
       /\ \A d \in Document, u \in Update \ Direct : file[d].by = u => NotOlder(d, u)']_vars

\* Nor does it take a newer save past the outbox back.
DirectSaveStays ==
    [][\A d \in Document, u \in Direct : file[d].by = u => NotOlder(d, u)']_vars

=============================================================================

--------------------------- MODULE DraftRecovery ---------------------------
(***************************************************************************)
(* draft-recovery.js, DraftRecoveryStore: unsent text kept in the browser. *)
(* Every tab of a user writes into the same IndexedDB database, one        *)
(* transaction per operation.  An operation takes its revision before its  *)
(* transaction, and the clocks of two tabs need not agree: a revision is   *)
(* represented by its rank in compareDraftRevision's order, any unused     *)
(* rank above the tab's previous one.  The transactions of one tab run in  *)
(* the order they were made, those of two tabs in any order.               *)
(*                                                                         *)
(* clearRevision never exceeds floorRevision and is not kept.  A record's  *)
(* savedAt is the time of its revision.                                    *)
(***************************************************************************)
EXTENDS Naturals, Sequences, FiniteSets, FiniteSetsExt

CONSTANTS
    Tab,          \* the open tabs of the user
    DraftChat,    \* the chats they write in
    MaxRecords,   \* maxRecords: drafts and tombstones together
    MaxRevisions, \* bound: operations ever issued
    MaxHorizon    \* bound: revisions that become too old

ASSUME DraftAssumption ==
    /\ MaxRecords \in Nat \ {0} /\ MaxRevisions \in Nat /\ MaxHorizon \in Nat

VARIABLES
    store,   \* the database: drafts, tombstones (chatRevisions), floorRevision
    pending, \* per tab, the operations whose transactions have not run
    issued,  \* per tab, the revisions it has taken
    horizon, \* the newest revision that is older than the retention
    applied, \* history: per chat, the newest revision that decided its draft
    forgot   \* history: a clear has run behind an operation newer than itself

storeVars == <<store, pending, issued, horizon, applied, forgot>>

NoDraft == [rev |-> 0, text |-> 0]

Empty(floor) == [draft |-> [c \in DraftChat |-> NoDraft],
                 tomb |-> [c \in DraftChat |-> 0], floor |-> floor]

StoreInit ==
    /\ store = Empty(0)
    /\ pending = [w \in Tab |-> <<>>] /\ issued = [w \in Tab |-> {}]
    /\ horizon = 0 /\ applied = [c \in DraftChat |-> 0] /\ forgot = FALSE

\* _nextRevision
NextRevisions(w) ==
    {r \in 1..MaxRevisions \ UNION {issued[v] : v \in Tab} : \A q \in issued[w] : q < r}

\* An operation of a tab, up to its transaction.  Saving nothing is removing.
Issue(w, kind, c, text, expected, r) ==
    /\ pending' = [pending EXCEPT ![w] = Append(@,
           [kind |-> kind, chat |-> c, text |-> text, expected |-> expected, rev |-> r])]
    /\ issued' = [issued EXCEPT ![w] = @ \cup {r}]

SaveText(w, c, text, r) ==
    Issue(w, IF text = 0 THEN "remove" ELSE "save", c, text, 0, r)

-----------------------------------------------------------------------------
Stored(s) == ({s.draft[c].rev : c \in DraftChat} \cup {s.tomb[c] : c \in DraftChat}) \ {0}

\* Records dropped for their age: whatever is as old as they are stays refused.
Drop(s, revisions) ==
    [draft |-> [c \in DraftChat |->
                   IF s.draft[c].rev \in revisions THEN NoDraft ELSE s.draft[c]],
     tomb  |-> [c \in DraftChat |-> IF s.tomb[c] \in revisions THEN 0 ELSE s.tomb[c]],
     floor |-> Max((Stored(s) \cap revisions) \cup {s.floor})]

\* _pruneExpired
Pruned(s) == Drop(s, 1..horizon)

\* _enforceRecordLimit: a transaction adds one record at most.
Limited(s) ==
    IF Cardinality(Stored(s)) <= MaxRecords THEN s ELSE Drop(s, {Min(Stored(s))})

\* As if the tombstone of a removed draft were not consulted.
NewerThanDraft(s, op) == op.rev > Max({s.floor, s.draft[op.chat].rev})

Newer(s, op) ==
    op.rev > Max({s.floor, s.draft[op.chat].rev, s.tomb[op.chat]})

\* The conditions under which an operation does anything.
Accepts(s, op) ==
    \/ op.kind = "clear"
    \/ op.kind = "save" /\ op.rev > horizon /\ Newer(s, op)
    \/ op.kind = "remove" /\ Newer(s, op)
       /\ op.expected \in {0, s.draft[op.chat].rev}

Performed(s, op) ==
    CASE op.kind = "clear"  -> Empty(Max({s.floor, op.rev}))
      [] op.kind = "save"   ->
           Limited([s EXCEPT !.draft[op.chat] = [rev |-> op.rev, text |-> op.text],
                             !.tomb[op.chat] = 0])
      [] op.kind = "remove" ->
           Limited([s EXCEPT !.draft[op.chat] = NoDraft, !.tomb[op.chat] = op.rev])

\* clearAll does not look at the age of what it deletes.
Considered(op) == IF op.kind = "clear" THEN store ELSE Pruned(store)

\* A clear that runs behind newer operations.
Overtaken(op) == op.kind = "clear" /\ \E c \in DraftChat : applied[c] > op.rev

\* _ownerTransaction for the next operation of a tab.
Transact(w) ==
    LET op == Head(pending[w])
        s  == Considered(op)
    IN  /\ pending[w] # <<>>
        /\ pending' = [pending EXCEPT ![w] = Tail(@)]
        /\ IF Accepts(s, op)
           THEN /\ store' = Performed(s, op)
                /\ applied' = [c \in DraftChat |->
                       IF op.kind = "clear" \/ c = op.chat
                       THEN Max({applied[c], op.rev}) ELSE applied[c]]
                /\ forgot' = (forgot \/ Overtaken(op))
           ELSE store' = s /\ UNCHANGED <<applied, forgot>>
        /\ UNCHANGED <<issued, horizon>>

\* The transaction fails or is aborted, and nothing of it is stored.
TransactionFails(w) ==
    /\ pending[w] # <<>>
    /\ pending' = [pending EXCEPT ![w] = Tail(@)]
    /\ UNCHANGED <<store, issued, horizon, applied, forgot>>

Expire ==
    /\ horizon < MaxHorizon /\ horizon' = horizon + 1
    /\ UNCHANGED <<store, pending, issued, applied, forgot>>

-----------------------------------------------------------------------------
\* docs/selected-enhancements.md: "Content-free revision metadata prevents delayed
\* old writes resurrecting removed text."  The draft of a chat is the one with
\* the newest revision ever accepted for it: what was removed, cleared, evicted or
\* expired does not come back with a late write.
RemovedStaysRemoved ==
    \A c \in DraftChat : store.draft[c].rev # 0 => store.draft[c].rev = applied[c]

\* The same, whatever order the tabs' transactions run in and whatever is dropped
\* for its age meanwhile, as long as no clear runs behind newer operations: clearAll
\* throws away the tombstones that are newer than itself.
NewestStays == forgot \/ RemovedStaysRemoved

=============================================================================

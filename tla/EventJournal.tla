---------------------------- MODULE EventJournal ----------------------------
(***************************************************************************)
(* event_store.py, BridgeEventStore: the journal of everything the App     *)
(* tells its readers.  Events get consecutive cursors (AUTOINCREMENT, and  *)
(* a transaction that rolls back uses none).  Every scope, a chat or the   *)
(* account and runtime, keeps its newest events only: what is deleted      *)
(* raises the scope's minimum_cursor, and a reader below the highest       *)
(* minimum of the scopes it asks for is told that its cursor has expired   *)
(* instead of being given what is left.                                    *)
(*                                                                         *)
(* The deletions of a scope are always a prefix of it, so what it retains  *)
(* is determined by its minimum.  The limit on a scope's bytes is an       *)
(* instance of the limit on its count.  The idempotency of operation keys  *)
(* is the subject of DurableOutbox.                                        *)
(***************************************************************************)
EXTENDS Naturals, Sequences, FiniteSets, FiniteSetsExt

CONSTANTS
    Scope,       \* chats, and the scopes of account and runtime
    Chats,       \* those of them that are chats
    MaxRetained, \* max_events_per_thread, max_events_per_non_thread_scope
    BatchLimit,  \* max_batch_events
    MaxEvents    \* bound: events ever written

ASSUME JournalAssumption ==
    /\ IsFiniteSet(Scope) /\ Chats \subseteq Scope
    /\ MaxRetained \in Nat \ {0} /\ BatchLimit \in Nat \ {0}
    /\ MaxEvents \in Nat

VARIABLES
    written,  \* the scope of every event ever written; its index is the cursor
    minimum,  \* per scope, minimum_cursor
    snapshot  \* per scope, snapshot_cursor

journalVars == <<written, minimum, snapshot>>

Larger(m, n) == IF m >= n THEN m ELSE n

\* The events of a scope that are still in the table.
Retained(s) == {c \in DOMAIN written : written[c] = s /\ c > minimum[s]}

JournalInit ==
    /\ written = <<>>
    /\ minimum = [s \in Scope |-> 0]
    /\ snapshot = [s \in Scope |-> 0]

\* One new event.  Retention runs in the transaction that inserts it.
WriteEvent(s) ==
    LET full == Cardinality(Retained(s)) = MaxRetained
        oldest == Min(Retained(s))
    IN  /\ Len(written) < MaxEvents
        /\ written' = Append(written, s)
        /\ minimum' = IF full THEN [minimum EXCEPT ![s] = oldest] ELSE minimum
        /\ snapshot' = IF full THEN [snapshot EXCEPT ![s] = Len(written) + 1]
                               ELSE snapshot

\* purge_thread: a deleted chat leaves its cursors behind and nothing else.
PurgeThread(s) ==
    /\ Retained(s) # {}
    /\ minimum' = [minimum EXCEPT ![s] = Max(Retained(s))]
    /\ snapshot' = [snapshot EXCEPT ![s] = Larger(@, Max(Retained(s)))]
    /\ UNCHANGED written

\* _cursor_floor over the scopes a reader asks for.
Floor(scopes) == Max({minimum[s] : s \in scopes} \cup {0})
SnapshotFloor(scopes) == Max({snapshot[s] : s \in scopes} \cup {0})

\* A page holds the first BatchLimit of the events found.
Rank(c, cursors) == Cardinality({d \in cursors : d <= c})
FirstOf(cursors, n) == {c \in cursors : Rank(c, cursors) <= n}

Gone(scopes) == [kind |-> "gone", events |-> {}, more |-> FALSE,
                 next |-> SnapshotFloor(scopes), floor |-> Floor(scopes)]

\* replay: one page of the scopes' events after a cursor.
Replay(after, scopes) ==
    LET found == (UNION {Retained(s) : s \in scopes}) \ 0..after
        page  == FirstOf(found, BatchLimit)
    IN  IF after < Floor(scopes) THEN Gone(scopes)
        ELSE [kind |-> "page", events |-> page, more |-> page # found,
              next |-> IF page # {} THEN Max(page)
                       ELSE Max((UNION {Retained(s) : s \in Scope}) \cup {after}),
              floor |-> Floor(scopes)]

=============================================================================

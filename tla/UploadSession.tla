--------------------------- MODULE UploadSession ---------------------------
(***************************************************************************)
(* A resumable upload: uploads.js in the browser, and the upload sessions  *)
(* of storage.py in the App.  A session has a durable manifest, one file   *)
(* per chunk, and at the end a published file and an attachment in the     *)
(* record of the chat; the App may stop between any two of these writes.   *)
(* The chunks of a session arrive in order, an interrupted request may     *)
(* still be carried out, and the session may be cancelled at any time.     *)
(*                                                                         *)
(* _upload_mutation_lock is held by one request at a time, except while a  *)
(* chunk is being streamed.  The record and its event are one operation of *)
(* the durable outbox (DurableOutbox), which may fail half way: its row is *)
(* then left pending, and finished before the next operation of any chat.  *)
(***************************************************************************)
EXTENDS Naturals, FiniteSets

CONSTANTS
    Chunks,     \* total_chunks
    Attempts,   \* retryAttempts
    MaxBreaks   \* bound: requests given up, failed writes, resumptions, stops of the App

ASSUME UploadAssumption ==
    Chunks \in Nat \ {0} /\ Attempts \in Nat /\ MaxBreaks \in Nat

VARIABLES
    manifest,  \* the durable manifest: status, chunks received, attachment named
    parts,     \* the chunk files on disk
    published, \* the assembled file is in place
    attached,  \* the chat's record has the attachment
    added,     \* attachment.added events written
    row,       \* an outbox row that adds the attachment is pending
    overlooked, \* history: somebody has read the record while such a row was
               \* not yet in it, and acted on what he read
    lock,      \* who holds the lock, and his next step
    writers,   \* the chunk streams that are open
    calls,     \* chunk and complete requests not yet taken up
    client,    \* what uploadResumableFile knows and waits for
    breaks

recordVars == <<attached, added, row, overlooked>>
serverVars == <<manifest, parts, published, recordVars, lock, writers, calls>>
uploadVars == <<serverVars, client, breaks>>

Free == [by |-> "nobody", at |-> "none", chunk |-> 0, live |-> FALSE]
Held(by, at, chunk, live) == [by |-> by, at |-> at, chunk |-> chunk, live |-> live]
Call(kind, chunk, live) == [kind |-> kind, chunk |-> chunk, live |-> live]

\* The session has just been created, and the browser knows it.
UploadInit ==
    /\ manifest = [status |-> "active", received |-> 0, named |-> FALSE]
    /\ parts = {} /\ published = FALSE /\ attached = FALSE /\ added = 0
    /\ row = FALSE /\ overlooked = FALSE
    /\ lock = Free /\ writers = {} /\ calls = {}
    /\ client = [at |-> "loop", received |-> 0, tries |-> 0]
    /\ breaks = 0

Break == breaks < MaxBreaks /\ breaks' = breaks + 1

-----------------------------------------------------------------------------
(* uploads.js *)

\* The loop of uploadResumableFile: the first missing chunk, or the end.
SendChunk ==
    /\ client.at = "loop" /\ client.received < Chunks
    /\ calls' = calls \cup {Call("put", client.received + 1, TRUE)}
    /\ client' = [client EXCEPT !.at = "put"]
    /\ UNCHANGED <<manifest, parts, published, recordVars, lock, writers, breaks>>

SendComplete ==
    /\ client.at = "loop" /\ client.received = Chunks
    /\ calls' = calls \cup {Call("complete", 0, TRUE)}
    /\ client' = [client EXCEPT !.at = "complete"]
    /\ UNCHANGED <<manifest, parts, published, recordVars, lock, writers, breaks>>

\* What an answer does to the client that waits for it.
Accepted(live, received) ==
    client' = IF live THEN [at |-> "loop", received |-> received, tries |-> 0] ELSE client
Completed(live) == client' = IF live THEN [client EXCEPT !.at = "done"] ELSE client
\* isReconciliable: a conflict, a server error, no answer
Conflict(live) ==
    client' = IF live THEN [client EXCEPT !.at = IF @ = "put" THEN "check" ELSE "confirm"]
              ELSE client
\* any other error
Refused(live) == client' = IF live THEN [client EXCEPT !.at = "failed"] ELSE client

\* The connection breaks; the App may carry on with what it was asked.
Interrupted ==
    /\ Break
    /\ client.at \in {"put", "complete"}
    /\ \E lost \in SUBSET {c \in calls : c.live} :
         calls' = {[c EXCEPT !.live = FALSE] : c \in calls \ lost}
    /\ writers' = {[w EXCEPT !.live = FALSE] : w \in writers}
    /\ lock' = [lock EXCEPT !.live = FALSE]
    /\ Conflict(TRUE)
    /\ UNCHANGED <<manifest, parts, published, recordVars>>

\* putChunkWithReconcile: the same chunk again, or not.
TryAgain(c) == IF c.tries = Attempts THEN [c EXCEPT !.at = "failed"]
               ELSE [c EXCEPT !.at = "again", !.tries = @ + 1]

\* ... after asking for the session (getUploadSession; validateSession knows
\* three states).
Check ==
    /\ client.at = "check" /\ lock = Free
    /\ client' =
         CASE manifest.status = "publishing" -> [client EXCEPT !.at = "failed"]
           [] manifest.status = "completed"  -> [client EXCEPT !.at = "done"]
           [] manifest.status \in {"active", "cancelled"} /\ manifest.received > client.received ->
                [client EXCEPT !.at = IF manifest.status = "active" THEN "loop" ELSE "failed",
                               !.received = manifest.received, !.tries = 0]
           [] OTHER -> TryAgain(client)
    /\ UNCHANGED <<serverVars, breaks>>

CheckFails ==
    /\ client.at = "check" /\ Break
    /\ client' = TryAgain(client)
    /\ UNCHANGED serverVars

SendAgain ==
    /\ client.at = "again"
    /\ calls' = calls \cup {Call("put", client.received + 1, TRUE)}
    /\ client' = [client EXCEPT !.at = "put"]
    /\ UNCHANGED <<manifest, parts, published, recordVars, lock, writers, breaks>>

\* The complete request failed: has the session been completed all the same?
Confirm ==
    /\ client.at = "confirm" /\ lock = Free
    /\ client' = [client EXCEPT !.at = IF manifest.status = "completed" THEN "done"
                                       ELSE "failed"]
    /\ UNCHANGED <<serverVars, breaks>>

\* uploadResumableFile with the id of a session that was given up: it asks for the
\* session and goes on where that is.
Resume ==
    /\ client.at = "failed" /\ lock = Free /\ Break
    /\ manifest.status \in {"active", "completed"}
    /\ client' = [at |-> IF manifest.status = "active" THEN "loop" ELSE "done",
                  received |-> manifest.received, tries |-> 0]
    /\ UNCHANGED serverVars

-----------------------------------------------------------------------------
(* storage.py: a chunk *)

\* begin_upload_chunk
BeginChunk ==
    /\ lock = Free
    /\ \E c \in calls :
         /\ c.kind = "put" /\ calls' = calls \ {c}
         /\ \/ /\ manifest.status = "active" /\ c.chunk = manifest.received + 1
               /\ writers' = writers \cup {[chunk |-> c.chunk, live |-> c.live]}
               /\ UNCHANGED client
            \/ /\ manifest.status = "active" /\ c.chunk <= manifest.received
               /\ Accepted(c.live, manifest.received) /\ UNCHANGED writers
            \/ /\ manifest.status # "active"
               /\ Conflict(c.live) /\ UNCHANGED writers
    /\ UNCHANGED <<manifest, parts, published, recordVars, lock, breaks>>

\* As if the second of two streams of one chunk were not noticed.
FinishStreamTwice ==
    /\ lock = Free
    /\ \E w \in writers :
         /\ writers' = writers \ {w}
         /\ parts' = parts \cup {w.chunk}
         /\ lock' = Held("put", "manifest", manifest.received + 1, w.live)
         /\ UNCHANGED client
    /\ UNCHANGED <<manifest, published, recordVars, calls, breaks>>

\* _UploadChunkWriter.finish: the session may have moved on since the stream
\* began.  The chunk's file is put in place ...
FinishStream ==
    /\ lock = Free
    /\ \E w \in writers :
         /\ writers' = writers \ {w}
         /\ IF manifest.status = "active" /\ w.chunk = manifest.received + 1
            THEN /\ parts' = parts \cup {w.chunk}
                 /\ lock' = Held("put", "manifest", w.chunk, w.live)
                 /\ UNCHANGED client
            ELSE Conflict(w.live) /\ UNCHANGED <<parts, lock>>
    /\ UNCHANGED <<manifest, published, recordVars, calls, breaks>>

\* ... and the manifest counts it.
CountChunk ==
    /\ lock.by = "put"
    /\ manifest' = [manifest EXCEPT !.received = lock.chunk]
    /\ lock' = Free
    /\ Accepted(lock.live, lock.chunk)
    /\ UNCHANGED <<parts, published, recordVars, writers, calls, breaks>>

\* _rollback_finish_failure: the manifest could not be written.
CountFails ==
    /\ lock.by = "put" /\ Break
    /\ parts' = parts \ {lock.chunk}
    /\ lock' = Free
    /\ Conflict(lock.live) \/ Refused(lock.live)
    /\ UNCHANGED <<manifest, published, recordVars, writers, calls>>

-----------------------------------------------------------------------------
(* complete_upload_session *)

BeginComplete ==
    /\ lock = Free
    /\ \E c \in calls :
         /\ c.kind = "complete" /\ calls' = calls \ {c}
         /\ \/ /\ attached /\ published
               /\ lock' = Held("complete", "finish", 0, c.live) /\ UNCHANGED client
            \/ /\ ~attached /\ manifest.status \in {"active", "publishing"}
               /\ manifest.received = Chunks
               /\ lock' = Held("complete", IF published THEN "record" ELSE "mark", 0, c.live)
               /\ UNCHANGED client
            \/ /\ IF attached THEN ~published
                  ELSE \/ manifest.status \notin {"active", "publishing"}
                       \/ manifest.received # Chunks
               /\ Conflict(c.live) /\ UNCHANGED lock
    /\ UNCHANGED <<manifest, parts, published, recordVars, writers, breaks>>

Completing(step) == lock.by = "complete" /\ lock.at = step
Cancelling(step) == lock.by = "cancel" /\ lock.at = step
Step(next) == lock' = [lock EXCEPT !.at = next]

\* _publish_upload_attachment_locked: assembled, and marked as about to appear
MarkPublishing ==
    /\ Completing("mark") /\ Step("publish")
    /\ manifest' = [manifest EXCEPT !.status = "publishing", !.named = TRUE]
    /\ UNCHANGED <<parts, published, recordVars, writers, calls, client, breaks>>

Publish ==
    /\ Completing("publish") /\ Step("record")
    /\ published' = TRUE
    /\ UNCHANGED <<manifest, parts, recordVars, writers, calls, client, breaks>>

\* The file cannot be put in place and the mark stays, or the quota refuses the
\* bytes, which takes the file and the mark away again.
PublishFails ==
    /\ Completing("publish") /\ Break /\ lock' = Free
    /\ \/ Conflict(lock.live) /\ UNCHANGED manifest
       \/ /\ Refused(lock.live)
          /\ manifest' = [manifest EXCEPT !.status = "active", !.named = FALSE]
    /\ UNCHANGED <<parts, published, recordVars, writers, calls>>

\* A row that whoever reads the chat's record does not see.
Unseen == row /\ ~attached
Finished == IF row THEN 1 ELSE 0

\* _save_thread_with_events: a row left behind is finished, then the record gets
\* the attachment and the journal its event.  The point of no return.
RecordAttachment ==
    /\ Completing("record") /\ Step("finish")
    /\ IF attached THEN UNCHANGED recordVars
       ELSE /\ attached' = TRUE /\ added' = added + Finished + 1 /\ row' = FALSE
            /\ overlooked' = (overlooked \/ Unseen)
    /\ UNCHANGED <<manifest, parts, published, writers, calls, client, breaks>>

\* It fails: before its row is there; with the row left pending, the record saved
\* or not; or, where a row had been left before, after that one was finished.
RecordFails ==
    /\ Completing("record") /\ ~attached /\ Break /\ lock' = Free
    /\ \/ UNCHANGED recordVars
       \/ row' = TRUE /\ attached' \in BOOLEAN /\ UNCHANGED <<added, overlooked>>
       \/ /\ row /\ attached' = TRUE /\ added' = added + 1 /\ row' \in BOOLEAN
          /\ overlooked' = TRUE
    /\ Conflict(lock.live) \/ (~row' /\ Refused(lock.live))
    /\ UNCHANGED <<manifest, parts, published, writers, calls>>

\* _ensure_reconciled_locked, when any other operation is committed: the row that
\* was left is finished, or its document written once more without its event.
FinishRow ==
    /\ row /\ attached' = TRUE
    /\ \/ row' = FALSE /\ added' = added + 1
       \/ ~attached /\ UNCHANGED <<row, added>>
    /\ UNCHANGED <<manifest, parts, published, overlooked, lock, writers, calls, client, breaks>>

\* The other operation saves this very chat.  It has merged the attachments of the
\* record as it was before the row was finished, and replaces what that wrote.
SaveOverRow ==
    /\ Unseen /\ row' = FALSE /\ added' = added + 1 /\ overlooked' = TRUE
    /\ UNCHANGED <<manifest, parts, published, attached, lock, writers, calls, client, breaks>>

FinishComplete ==
    /\ Completing("finish") /\ Step("clear")
    /\ manifest' = [manifest EXCEPT !.status = "completed", !.named = TRUE]
    /\ UNCHANGED <<parts, published, recordVars, writers, calls, client, breaks>>

ClearCompleted ==
    /\ Completing("clear") \/ Cancelling("reconciled")
    /\ parts' = {} /\ lock' = Free
    /\ Completed(lock.live)
    /\ UNCHANGED <<manifest, published, recordVars, writers, calls, breaks>>

-----------------------------------------------------------------------------
(* cancel_upload_session *)

\* As if a session caught in the middle of publishing were always given up.
BeginCancelBlindly ==
    /\ lock = Free /\ breaks < MaxBreaks /\ breaks' = breaks + 1
    /\ IF manifest.status \in {"active", "publishing"}
       THEN /\ manifest' = [manifest EXCEPT !.status = "cancelled"]
            /\ lock' = Held("cancel", "rollback", 0, FALSE)
       ELSE /\ UNCHANGED manifest
            /\ lock' = Held("cancel", "clear", 0, FALSE)
    /\ overlooked' = (overlooked \/ Unseen)
    /\ UNCHANGED <<parts, published, attached, added, row, writers, calls, client>>

\* A session whose attachment is in the record is completed, not cancelled
\* (_reconcile_published_upload_locked); otherwise it is cancelled first and
\* cleaned up afterwards.  Cancelling again repeats what may be left to do.
BeginCancel ==
    /\ lock = Free /\ breaks < MaxBreaks /\ breaks' = breaks + 1
    /\ IF manifest.status = "publishing" /\ manifest.named /\ attached
       THEN /\ manifest' = [manifest EXCEPT !.status = "completed"]
            /\ lock' = Held("cancel", "reconciled", 0, FALSE)
       ELSE IF manifest.status = "completed"
       THEN /\ UNCHANGED manifest
            /\ lock' = Held("cancel", "clear", 0, FALSE)
       ELSE /\ manifest' = [manifest EXCEPT !.status = "cancelled"]
            /\ lock' = Held("cancel", "rollback", 0, FALSE)
    /\ overlooked' = (overlooked \/ Unseen)
    /\ UNCHANGED <<parts, published, attached, added, row, writers, calls, client>>

\* _rollback_published_upload_locked
Rollback ==
    /\ Cancelling("rollback") /\ Step("clear")
    /\ published' = (published /\ ~manifest.named)
    /\ UNCHANGED <<manifest, parts, recordVars, writers, calls, client, breaks>>

\* _clear_upload_payload_locked ...
ClearCancelled ==
    /\ Cancelling("clear") /\ Step("forget")
    /\ parts' = {}
    /\ UNCHANGED <<manifest, published, recordVars, writers, calls, client, breaks>>

\* ... and then the manifest without its chunks.
ForgetChunks ==
    /\ Cancelling("forget") /\ lock' = Free
    /\ manifest' = [manifest EXCEPT !.received = 0]
    /\ UNCHANGED <<parts, published, recordVars, writers, calls, client, breaks>>

Terminal == manifest.status \in {"completed", "cancelled"}

\* _reap_terminal_upload_sessions_locked, when another upload is created: chunk
\* files no manifest counts are removed, and those of sessions that have ended.
Reap ==
    /\ lock = Free
    /\ parts' = IF Terminal THEN {} ELSE parts \cap 1..manifest.received
    /\ manifest' = IF Terminal THEN [manifest EXCEPT !.received = 0] ELSE manifest
    /\ UNCHANGED <<published, recordVars, lock, writers, calls, client, breaks>>

-----------------------------------------------------------------------------
\* The App stops, wherever it is, and starts again, which finishes the row that is left.
StopService ==
    /\ Break
    /\ lock' = Free /\ writers' = {} /\ calls' = {}
    /\ row' = FALSE /\ attached' = (attached \/ row) /\ added' = added + Finished
    /\ IF client.at \in {"put", "complete"} THEN Conflict(TRUE) ELSE UNCHANGED client
    /\ UNCHANGED <<manifest, parts, published, overlooked>>

AppStep ==
    \/ BeginChunk \/ FinishStream \/ CountChunk
    \/ BeginComplete \/ MarkPublishing \/ Publish \/ RecordAttachment
    \/ FinishComplete \/ ClearCompleted \/ Rollback \/ ClearCancelled
    \/ ForgetChunks

ClientStep == SendChunk \/ SendComplete \/ Check \/ SendAgain \/ Confirm

UploadNext ==
    \/ AppStep \/ ClientStep \/ Interrupted \/ CheckFails \/ Resume
    \/ CountFails \/ PublishFails \/ RecordFails \/ FinishRow \/ SaveOverRow
    \/ BeginCancel \/ Reap \/ StopService

UploadSpec == UploadInit /\ [][UploadNext]_uploadVars

-----------------------------------------------------------------------------
\* The commit point is the chat's record: an attachment that is in it has its
\* file, is announced once, and is not taken back by a cancel, whatever stop,
\* failed write or repeated request came between; and what the browser reports as
\* uploaded is attached.  A cancel, a second complete or another save of the chat
\* that meets the pending row of a failed one does not see it, and may take the
\* file away from the attachment, announce it twice or drop it.
AttachedWhole ==
    /\ attached /\ ~row => added > 0
    /\ ~overlooked =>
         /\ attached => published /\ manifest.status \in {"publishing", "completed"}
         /\ added = IF attached /\ ~row THEN 1 ELSE 0
         /\ client.at = "done" => attached

\* A manifest that can still be completed names no chunk that is not on disk.
NothingMissing ==
    manifest.status \in {"active", "publishing"} /\ ~attached
        => 1..manifest.received \subseteq parts

=============================================================================

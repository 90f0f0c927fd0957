---------------------------- MODULE PanelProofs ----------------------------
(***************************************************************************)
(* The two exchanges of a panel with the App that must survive repetition: *)
(* an upload ends with the whole file and one record of it, and what the   *)
(* App says of a question is what Codex heard.  For any number of chunks,  *)
(* questions, panels, answers, calls, retries, failures and restarts.      *)
(***************************************************************************)
EXTENDS UploadSession, Interactions, TLAPS

-----------------------------------------------------------------------------
(* Uploads.  UploadSession keeps AttachedWhole and NothingMissing.  Both   *)
(* rest on what the holder of the lock may count on at each of his steps   *)
(* (Holding), and on what a durable status says of the published file and  *)
(* the chat's record (Recorded).                                           *)

Status == {"active", "publishing", "completed", "cancelled"}
Manifest == [status : Status, received : Nat, named : BOOLEAN]
Holder == [by : {"nobody", "put", "complete", "cancel"},
           at : {"none", "manifest", "mark", "publish", "record", "finish", "clear",
                 "reconciled", "rollback", "forget"},
           chunk : Nat, live : BOOLEAN]
Stream == [chunk : Nat, live : BOOLEAN]
Request == [kind : {"put", "complete"}, chunk : Nat, live : BOOLEAN]
Browser == [at : {"loop", "put", "complete", "check", "again", "confirm", "done", "failed"},
            received : Nat, tries : Nat]

\* The shape of the state.
UploadType ==
    /\ manifest \in Manifest /\ parts \subseteq Nat
    /\ published \in BOOLEAN /\ attached \in BOOLEAN /\ added \in Nat
    /\ row \in BOOLEAN /\ overlooked \in BOOLEAN
    /\ lock \in Holder /\ writers \subseteq Stream /\ calls \subseteq Request
    /\ client \in Browser

\* What a status says: the mark comes before the file, the file before the
\* record or a row for it, and the record before the session is called completed.
\* A pending row that nobody has overlooked is one of a session that still counts.
Recorded ==
    /\ manifest.status = "active" => ~published /\ ~attached /\ ~row
    /\ manifest.status = "publishing" => manifest.named /\ (attached \/ row => published)
    /\ manifest.status = "completed" => attached
    /\ row /\ ~overlooked => published /\ manifest.status \in {"publishing", "completed"}

\* What the holder of the lock may count on.
Holding ==
    /\ lock.by = "put" =>
         manifest.status = "active" /\ lock.chunk = manifest.received + 1 /\ lock.chunk \in parts
    /\ Completing("mark") =>
         ~attached /\ ~row /\ ~published /\ manifest.status \in {"active", "publishing"}
    /\ Completing("publish") => ~attached /\ ~row /\ ~published /\ manifest.status = "publishing"
    /\ Completing("record") => published /\ manifest.status = "publishing"
    /\ Completing("finish") => attached
    /\ Completing("clear") \/ Cancelling("reconciled") => attached
    /\ Cancelling("rollback") => manifest.status = "cancelled"
    /\ Cancelling("clear") \/ Cancelling("forget") =>
         manifest.status \in {"completed", "cancelled"}

UploadInv == UploadType /\ Recorded /\ Holding /\ AttachedWhole /\ NothingMissing

-----------------------------------------------------------------------------

LEMMA UploadInitInv == UploadInit => UploadInv
<1> SUFFICES ASSUME UploadInit PROVE UploadInv
  OBVIOUS
<1>1. UploadType
  BY DEF UploadInit, UploadType, Status, Manifest, Holder, Browser, Free
<1>2. Recorded /\ Holding
  BY DEF UploadInit, Recorded, Holding, Free, Completing, Cancelling
<1>3. AttachedWhole /\ NothingMissing
  BY DEF UploadInit, AttachedWhole, NothingMissing
<1> QED BY <1>1, <1>2, <1>3 DEF UploadInv

LEMMA TryAgainType ==
  ASSUME NEW c \in Browser
  PROVE  TryAgain(c) \in Browser /\ TryAgain(c).at # "done"
<1>1. CASE c.tries = Attempts
  BY <1>1 DEF TryAgain, Browser
<1>2. CASE c.tries # Attempts
  <2>1. TryAgain(c) = [c EXCEPT !.at = "again", !.tries = @ + 1]
    BY <1>2 DEF TryAgain
  <2>2. c.tries + 1 \in Nat
    BY DEF Browser
  <2> QED BY <2>1, <2>2 DEF Browser
<1> QED BY <1>1, <1>2

\* What the browser does by itself changes nothing in the App.
LEMMA ClientStepInv ==
  ASSUME UploadInv, ClientStep \/ CheckFails \/ Resume
  PROVE  UploadInv'
<1>1. /\ UNCHANGED <<manifest, parts, published, recordVars, lock, writers>>
      /\ \/ calls' = calls
         \/ calls' = calls \cup {Call("put", client.received + 1, TRUE)}
         \/ calls' = calls \cup {Call("complete", 0, TRUE)}
  <2>1. CASE SendChunk \/ SendComplete \/ SendAgain
    BY <2>1 DEF SendChunk, SendComplete, SendAgain
  <2>2. CASE Check \/ Confirm \/ CheckFails \/ Resume
    BY <2>2 DEF Check, Confirm, CheckFails, Resume, serverVars
  <2> QED BY <2>1, <2>2 DEF ClientStep
<1>2. client \in Browser /\ manifest \in Manifest
  BY DEF UploadInv, UploadType
<1>3. /\ client' \in Browser
      /\ client'.at = "done" => client.at = "done" \/ manifest.status = "completed"
  <2>1. CASE client' = [client EXCEPT !.at = "put"] \/ client' = [client EXCEPT !.at = "complete"]
    BY <1>2, <2>1 DEF Browser
  <2>2. CASE client' = TryAgain(client)
    BY <1>2, <2>2, TryAgainType
  <2>3. CASE Confirm
    BY <1>2, <2>3 DEF Confirm, Browser
  <2>4. CASE Check
    <3>1. CASE manifest.status = "publishing"
      BY <1>2, <2>4, <3>1 DEF Check, Browser
    <3>2. CASE manifest.status = "completed"
      BY <1>2, <2>4, <3>2 DEF Check, Browser
    <3>3. CASE manifest.status \in {"active", "cancelled"} /\ manifest.received > client.received
      BY <1>2, <2>4, <3>3 DEF Check, Browser, Manifest
    <3>4. CASE manifest.status \in {"active", "cancelled"} /\ ~(manifest.received > client.received)
      BY <1>2, <2>4, <3>4, <2>2 DEF Check
    <3> QED BY <1>2, <3>1, <3>2, <3>3, <3>4 DEF Manifest, Status
  <2>5. CASE Resume
    BY <1>2, <2>5 DEF Resume, Browser, Manifest
  <2> QED BY <2>1, <2>2, <2>3, <2>4, <2>5
          DEF ClientStep, CheckFails, SendChunk, SendComplete, SendAgain
<1>4. calls' \subseteq Request
  <2>1. client.received + 1 \in Nat /\ calls \subseteq Request
    BY <1>2 DEF UploadInv, UploadType, Browser
  <2>2. Call("put", client.received + 1, TRUE) \in Request /\ Call("complete", 0, TRUE) \in Request
    BY <2>1 DEF Call, Request
  <2> QED BY <1>1, <2>1, <2>2
<1>5. UploadType'
  BY <1>1, <1>3, <1>4 DEF UploadInv, UploadType, recordVars
<1>6. Recorded' /\ Holding' /\ NothingMissing'
  BY <1>1 DEF UploadInv, Recorded, Holding, NothingMissing, Completing, Cancelling, recordVars
<1>7. AttachedWhole'
  BY <1>1, <1>3 DEF UploadInv, Recorded, AttachedWhole, recordVars
<1> QED BY <1>5, <1>6, <1>7 DEF UploadInv

-----------------------------------------------------------------------------
(* The App *)

\* An answer ends no upload but that of complete.
LEMMA AnswerFacts ==
  ASSUME client \in Browser, NEW live \in BOOLEAN, NEW n \in Nat,
         Accepted(live, n) \/ Conflict(live) \/ Refused(live)
  PROVE  client' \in Browser /\ (client'.at = "done" => client.at = "done")
<1>1. CASE Accepted(live, n)
  BY <1>1 DEF Accepted, Browser
<1>2. CASE Conflict(live)
  <2>1. CASE client.at = "put"
    BY <1>2, <2>1 DEF Conflict, Browser
  <2>2. CASE client.at # "put"
    BY <1>2, <2>2 DEF Conflict, Browser
  <2> QED BY <2>1, <2>2
<1>3. CASE Refused(live)
  BY <1>3 DEF Refused, Browser
<1> QED BY <1>1, <1>2, <1>3

\* The holder of the lock, and an unclaimed lock.
LEMMA LockFacts ==
  ASSUME lock \in Holder
  PROVE  /\ Free \in Holder
         /\ \A by \in {"put", "complete", "cancel"}, at \in {"manifest", "mark", "record", "finish",
                  "clear", "reconciled", "rollback"}, chunk \in Nat, live \in BOOLEAN :
              Held(by, at, chunk, live) \in Holder
         /\ [lock EXCEPT !.live = FALSE] \in Holder
  BY DEF Free, Held, Holder

LEMMA StepFacts ==
  ASSUME lock \in Holder, NEW at \in {"publish", "record", "finish", "clear", "forget"}, Step(at)
  PROVE  lock' \in Holder /\ lock'.by = lock.by /\ lock'.at = at
  BY DEF Step, Holder

LEMMA InterruptedInv ==
  ASSUME UploadInv, Interrupted
  PROVE  UploadInv'
<1> USE DEF UploadInv, recordVars
<1>1. client' \in Browser /\ (client'.at = "done" => client.at = "done")
  BY AnswerFacts DEF Interrupted, UploadType
<1>2. lock' \in Holder /\ lock'.by = lock.by /\ lock'.at = lock.at /\ lock'.chunk = lock.chunk
  BY LockFacts DEF Interrupted, UploadType, Holder
<1>3. calls' \subseteq Request
  <2>1. PICK lost \in SUBSET {c \in calls : c.live} :
          calls' = {[c EXCEPT !.live = FALSE] : c \in calls \ lost}
    BY DEF Interrupted
  <2>2. \A c \in Request : [c EXCEPT !.live = FALSE] \in Request
    BY DEF Request
  <2> QED BY <2>1, <2>2 DEF UploadType
<1>4. writers' \subseteq Stream
  <2>1. \A w \in Stream : [w EXCEPT !.live = FALSE] \in Stream
    BY DEF Stream
  <2> QED BY <2>1 DEF Interrupted, UploadType
<1>5. UploadType'
  BY <1>1, <1>2, <1>3, <1>4 DEF UploadType, Interrupted
<1>6. Recorded' /\ NothingMissing' /\ AttachedWhole'
  BY <1>1 DEF Interrupted, Recorded, NothingMissing, AttachedWhole
<1>7. Holding'
  BY <1>2 DEF Interrupted, Holding, Completing, Cancelling
<1> QED BY <1>5, <1>6, <1>7

LEMMA StopServiceInv ==
  ASSUME UploadInv, StopService
  PROVE  UploadInv'
<1> USE DEF UploadInv, recordVars
<1>1. client' \in Browser /\ (client'.at = "done" => client.at = "done")
  BY AnswerFacts DEF StopService, UploadType
<1>2. /\ row' = FALSE /\ attached' = (attached \/ row) /\ UNCHANGED <<manifest, parts, published>>
      /\ overlooked' = overlooked /\ added' = added + Finished /\ added \in Nat
  BY DEF StopService, UploadType
<1>3. Finished = IF row THEN 1 ELSE 0
  BY DEF Finished
<1>4. added' \in Nat /\ (row => added' > 0)
  BY <1>2, <1>3
<1>5. UploadType'
  BY <1>1, <1>2, <1>4, LockFacts DEF UploadType, StopService
<1>6. Recorded' /\ NothingMissing'
  BY <1>2 DEF Recorded, NothingMissing
<1>7. AttachedWhole'
  BY <1>1, <1>2, <1>3 DEF Recorded, AttachedWhole, UploadType
<1>8. Holding'
  BY DEF StopService, Free, Holding, Completing, Cancelling
<1> QED BY <1>5, <1>6, <1>7, <1>8

\* What becomes of a row that was left pending, outside the upload.
LEMMA RowInv ==
  ASSUME UploadInv, FinishRow \/ SaveOverRow
  PROVE  UploadInv'
<1> USE DEF UploadInv
<1>1. /\ row /\ added \in Nat
      /\ UNCHANGED <<manifest, parts, published, lock, writers, calls, client>>
      /\ \/ attached' = TRUE /\ row' = FALSE /\ added' = added + 1 /\ overlooked' = overlooked
         \/ attached' = TRUE /\ ~attached /\ UNCHANGED <<row, added, overlooked>>
         \/ ~attached /\ attached' = attached /\ row' = FALSE /\ overlooked' = TRUE
            /\ added' = added + 1
  BY DEF FinishRow, SaveOverRow, Unseen, UploadType
<1>2. /\ attached' \in BOOLEAN /\ row' \in BOOLEAN /\ overlooked' \in BOOLEAN
      /\ added' \in Nat
  <2>1. /\ attached' \in {TRUE, attached} /\ row' \in {FALSE, row}
        /\ overlooked' \in {TRUE, overlooked} /\ added' \in {added, added + 1}
    BY <1>1
  <2>2. added' \in Nat
    BY <1>1, <2>1
  <2> QED BY <2>1, <2>2 DEF UploadType
<1>3. UploadType'
  BY <1>1, <1>2 DEF UploadType
<1>4. NothingMissing'
  BY <1>1 DEF NothingMissing
<1>5. Recorded' /\ AttachedWhole'
  <2>1. CASE attached' = TRUE /\ row' = FALSE /\ added' = added + 1 /\ overlooked' = overlooked
    <3>1. added' > 0 /\ (~overlooked => added' = 1)
      BY <1>1, <2>1 DEF AttachedWhole
    <3> QED BY <1>1, <2>1, <3>1 DEF Recorded, AttachedWhole
  <2>2. CASE attached' = TRUE /\ ~attached /\ UNCHANGED <<row, added, overlooked>>
    BY <1>1, <2>2 DEF Recorded, AttachedWhole
  <2>3. CASE ~attached /\ attached' = attached /\ row' = FALSE /\ overlooked' = TRUE
    BY <1>1, <2>3 DEF Recorded, AttachedWhole
  <2> QED BY <1>1, <2>1, <2>2, <2>3
<1>6. Holding'
  BY <1>1 DEF Recorded, Holding, Completing, Cancelling
<1> QED BY <1>3, <1>4, <1>5, <1>6

LEMMA ReapInv ==
  ASSUME UploadInv, Reap
  PROVE  UploadInv'
<1> USE DEF UploadInv, recordVars
<1>1. /\ manifest' \in Manifest /\ manifest'.status = manifest.status
      /\ manifest'.named = manifest.named
      /\ manifest.status \in {"active", "publishing"} => manifest' = manifest
  BY DEF Reap, Terminal, UploadType, Manifest, Status
<1>2. UploadType'
  BY <1>1 DEF UploadType, Reap
<1>3. Recorded' /\ AttachedWhole'
  BY <1>1 DEF Reap, Recorded, AttachedWhole
<1>4. NothingMissing'
  BY <1>1 DEF Reap, Terminal, NothingMissing
<1>5. Holding'
  BY DEF Reap, Free, Holding, Completing, Cancelling
<1> QED BY <1>2, <1>3, <1>4, <1>5

LEMMA ChunkInv ==
  ASSUME UploadInv, BeginChunk \/ FinishStream \/ CountChunk \/ CountFails
  PROVE  UploadInv'
<1> USE DEF UploadInv, recordVars
<1>1. CASE BeginChunk
  <2> USE <1>1 DEF BeginChunk
  <2>1. client' \in Browser /\ (client'.at = "done" => client.at = "done")
    BY AnswerFacts DEF UploadType, Request, Manifest
  <2>2. calls' \subseteq Request /\ writers' \subseteq Stream
    BY DEF UploadType, Request, Stream
  <2>3. UploadType'
    BY <2>1, <2>2 DEF UploadType
  <2>4. Recorded' /\ NothingMissing' /\ AttachedWhole' /\ Holding'
    BY <2>1 DEF Recorded, NothingMissing, AttachedWhole, Holding, Completing, Cancelling
  <2> QED BY <2>3, <2>4
<1>2. CASE FinishStream
  <2>1. PICK w \in writers :
          /\ writers' = writers \ {w}
          /\ IF manifest.status = "active" /\ w.chunk = manifest.received + 1
             THEN /\ parts' = parts \cup {w.chunk}
                  /\ lock' = Held("put", "manifest", w.chunk, w.live)
                  /\ UNCHANGED client
             ELSE Conflict(w.live) /\ UNCHANGED <<parts, lock>>
    BY <1>2 DEF FinishStream
  <2>2. w.chunk \in Nat /\ w.live \in BOOLEAN
    BY DEF UploadType, Stream
  <2>3. client' \in Browser /\ (client'.at = "done" => client.at = "done")
    BY <2>1, <2>2, AnswerFacts DEF UploadType
  <2>4. UploadType'
    BY <1>2, <2>1, <2>2, <2>3, LockFacts DEF UploadType, FinishStream
  <2>5. Recorded' /\ AttachedWhole'
    BY <1>2, <2>3 DEF FinishStream, Recorded, AttachedWhole
  <2>6. NothingMissing'
    BY <1>2, <2>1 DEF FinishStream, NothingMissing
  <2>7. Holding'
    BY <1>2, <2>1 DEF FinishStream, Free, Held, Holding, Completing, Cancelling
  <2> QED BY <2>4, <2>5, <2>6, <2>7
<1>3. CASE CountChunk
  <2> USE <1>3 DEF CountChunk
  <2>1. client' \in Browser /\ (client'.at = "done" => client.at = "done")
    BY AnswerFacts DEF UploadType, Holder
  <2>2. /\ manifest' \in Manifest /\ manifest'.status = manifest.status
        /\ manifest'.named = manifest.named
        /\ manifest'.received = manifest.received + 1 /\ manifest.received \in Nat
    BY DEF UploadType, Manifest, Holder, Holding
  <2>3. UploadType'
    BY <2>1, <2>2, LockFacts DEF UploadType
  <2>4. Recorded' /\ AttachedWhole'
    BY <2>1, <2>2 DEF Recorded, AttachedWhole
  <2>5. NothingMissing'
    BY <2>2 DEF NothingMissing, Holding, Recorded
  <2>6. Holding'
    BY DEF Free, Holding, Completing, Cancelling
  <2> QED BY <2>3, <2>4, <2>5, <2>6
<1>4. CASE CountFails
  <2> USE <1>4 DEF CountFails
  <2>1. client' \in Browser /\ (client'.at = "done" => client.at = "done")
    BY AnswerFacts DEF UploadType, Holder
  <2>2. UploadType'
    BY <2>1, LockFacts DEF UploadType
  <2>3. Recorded' /\ AttachedWhole'
    BY <2>1 DEF Recorded, AttachedWhole
  <2>4. NothingMissing'
    BY DEF NothingMissing, Holding, UploadType, Manifest
  <2>5. Holding'
    BY DEF Free, Holding, Completing, Cancelling
  <2> QED BY <2>2, <2>3, <2>4, <2>5
<1> QED BY <1>1, <1>2, <1>3, <1>4

\* Between the two ends of complete the record decides.
LEMMA CompleteInv ==
  ASSUME UploadInv,
         \/ BeginComplete \/ MarkPublishing \/ Publish \/ PublishFails
         \/ RecordAttachment \/ RecordFails \/ FinishComplete \/ ClearCompleted
  PROVE  UploadInv'
<1> USE DEF UploadInv, recordVars
<1>1. CASE BeginComplete
  <2>1. PICK c \in calls :
          /\ calls' = calls \ {c}
          /\ \/ /\ attached /\ published
                /\ lock' = Held("complete", "finish", 0, c.live) /\ UNCHANGED client
             \/ /\ ~attached /\ manifest.status \in {"active", "publishing"}
                /\ lock' = Held("complete", IF published THEN "record" ELSE "mark", 0, c.live)
                /\ UNCHANGED client
             \/ Conflict(c.live) /\ UNCHANGED lock
    BY <1>1 DEF BeginComplete
  <2>2. c.live \in BOOLEAN
    BY DEF UploadType, Request
  <2>3. client' \in Browser /\ (client'.at = "done" => client.at = "done")
    BY <2>1, <2>2, AnswerFacts DEF UploadType
  <2>4. lock' \in Holder
    BY <2>1, <2>2, LockFacts DEF UploadType
  <2>5. UploadType'
    BY <1>1, <2>1, <2>3, <2>4 DEF UploadType, BeginComplete
  <2>6. Recorded' /\ AttachedWhole' /\ NothingMissing'
    BY <1>1, <2>3 DEF BeginComplete, Recorded, AttachedWhole, NothingMissing
  <2>7. Holding'
    BY <1>1, <2>1 DEF BeginComplete, Free, Held, Holding, Recorded, Completing, Cancelling
  <2> QED BY <2>5, <2>6, <2>7
<1>2. CASE MarkPublishing
  <2> USE <1>2 DEF MarkPublishing
  <2>1. /\ manifest' \in Manifest /\ manifest'.status = "publishing" /\ manifest'.named
        /\ manifest'.received = manifest.received
    BY DEF UploadType, Manifest, Status
  <2>2. lock' \in Holder /\ lock'.by = "complete" /\ lock'.at = "publish"
    BY StepFacts DEF UploadType, Completing
  <2>3. UploadType'
    BY <2>1, <2>2 DEF UploadType
  <2>4. Recorded' /\ AttachedWhole' /\ NothingMissing'
    BY <2>1 DEF Recorded, AttachedWhole, NothingMissing, Holding
  <2>5. Holding'
    BY <2>1, <2>2 DEF Holding, Completing, Cancelling
  <2> QED BY <2>3, <2>4, <2>5
<1>3. CASE Publish
  <2> USE <1>3 DEF Publish
  <2>1. lock' \in Holder /\ lock'.by = "complete" /\ lock'.at = "record"
    BY StepFacts DEF UploadType, Completing
  <2>2. UploadType'
    BY <2>1 DEF UploadType
  <2>3. Recorded' /\ AttachedWhole' /\ NothingMissing'
    BY DEF Recorded, AttachedWhole, NothingMissing, Holding
  <2>4. Holding'
    BY <2>1 DEF Holding, Completing, Cancelling
  <2> QED BY <2>2, <2>3, <2>4
<1>4. CASE PublishFails
  <2> USE <1>4 DEF PublishFails
  <2>1. client' \in Browser /\ (client'.at = "done" => client.at = "done")
    BY AnswerFacts DEF UploadType, Holder
  <2>2. /\ manifest' \in Manifest /\ manifest'.received = manifest.received
        /\ \/ manifest' = manifest
           \/ manifest'.status = "active"
    BY DEF UploadType, Manifest, Status
  <2>3. UploadType'
    BY <2>1, <2>2, LockFacts DEF UploadType
  <2>4. Recorded' /\ AttachedWhole' /\ NothingMissing'
    BY <2>1, <2>2 DEF Recorded, AttachedWhole, NothingMissing, Holding
  <2>5. Holding'
    BY DEF Free, Holding, Completing, Cancelling
  <2> QED BY <2>3, <2>4, <2>5
<1>5. CASE RecordAttachment
  <2>1. lock' \in Holder /\ lock'.by = "complete" /\ lock'.at = "finish"
    BY <1>5, StepFacts DEF RecordAttachment, UploadType, Completing
  <2>2. /\ published /\ manifest.status = "publishing" /\ added \in Nat
        /\ UNCHANGED <<manifest, parts, published, writers, calls, client>>
    BY <1>5 DEF RecordAttachment, Holding, UploadType
  <2>3. CASE attached
    <3>1. UNCHANGED recordVars
      BY <1>5, <2>3 DEF RecordAttachment
    <3>2. UploadType'
      BY <2>1, <2>2, <3>1 DEF UploadType
    <3>3. Recorded' /\ AttachedWhole' /\ NothingMissing'
      BY <2>2, <3>1 DEF Recorded, AttachedWhole, NothingMissing
    <3>4. Holding'
      BY <2>1, <2>2, <2>3, <3>1 DEF Holding, Completing, Cancelling
    <3> QED BY <3>2, <3>3, <3>4
  <2>4. CASE ~attached
    <3>1. /\ attached' = TRUE /\ row' = FALSE /\ overlooked' = (overlooked \/ row)
          /\ added' = added + Finished + 1
      BY <1>5, <2>4 DEF RecordAttachment, Unseen, UploadType
    <3>2. added' \in Nat /\ added' > 0 /\ (~row => added' = added + 1)
      BY <2>2, <3>1 DEF Finished
    <3>3. UploadType'
      BY <2>1, <2>2, <3>1, <3>2 DEF UploadType
    <3>4. Recorded' /\ AttachedWhole' /\ NothingMissing'
      BY <2>2, <2>4, <3>1, <3>2 DEF Recorded, AttachedWhole, NothingMissing, UploadType
    <3>5. Holding'
      BY <2>1, <2>2, <3>1 DEF Holding, Completing, Cancelling
    <3> QED BY <3>3, <3>4, <3>5
  <2> QED BY <2>3, <2>4
<1>8. CASE RecordFails
  <2>1. client' \in Browser /\ (client'.at = "done" => client.at = "done")
    BY <1>8, AnswerFacts DEF RecordFails, UploadType, Holder
  <2>2. /\ published /\ manifest.status = "publishing" /\ added \in Nat /\ ~attached /\ lock' = Free
        /\ UNCHANGED <<manifest, parts, published, writers, calls>>
    BY <1>8 DEF RecordFails, Holding, UploadType
  <2>3. \/ UNCHANGED recordVars
        \/ row' = TRUE /\ attached' \in BOOLEAN /\ UNCHANGED <<added, overlooked>>
        \/ attached' = TRUE /\ added' = added + 1 /\ row' \in BOOLEAN /\ overlooked' = TRUE
    BY <1>8 DEF RecordFails
  <2>8. /\ attached' \in BOOLEAN /\ row' \in BOOLEAN /\ overlooked' \in BOOLEAN
        /\ added' \in Nat
    <3>1. /\ attached' \in BOOLEAN \cup {attached} /\ row' \in BOOLEAN \cup {row}
          /\ overlooked' \in {TRUE, overlooked} /\ added' \in {added, added + 1}
      BY <2>3
    <3>2. added' \in Nat
      BY <2>2, <3>1
    <3> QED BY <3>1, <3>2 DEF UploadType
  <2>4. UploadType'
    BY <2>1, <2>2, <2>8, LockFacts DEF UploadType
  <2>5. Recorded' /\ NothingMissing'
    BY <2>2, <2>3 DEF Recorded, NothingMissing
  <2>6. AttachedWhole'
    BY <2>1, <2>2, <2>3 DEF AttachedWhole, UploadType
  <2>7. Holding'
    BY <2>2 DEF Free, Holding, Completing, Cancelling
  <2> QED BY <2>4, <2>5, <2>6, <2>7
<1>6. CASE FinishComplete
  <2> USE <1>6 DEF FinishComplete
  <2>1. lock' \in Holder /\ lock'.by = "complete" /\ lock'.at = "clear"
    BY StepFacts DEF UploadType, Completing
  <2>2. manifest' \in Manifest /\ manifest'.status = "completed"
    BY DEF UploadType, Manifest, Status
  <2>3. UploadType'
    BY <2>1, <2>2 DEF UploadType
  <2>4. Recorded' /\ AttachedWhole' /\ NothingMissing'
    BY <2>2 DEF Recorded, AttachedWhole, NothingMissing, Holding
  <2>5. Holding'
    BY <2>1 DEF Holding, Completing, Cancelling
  <2> QED BY <2>3, <2>4, <2>5
<1>7. CASE ClearCompleted
  <2> USE <1>7 DEF ClearCompleted
  <2>1. attached
    BY DEF Holding
  <2>2. client' \in Browser
    BY DEF Completed, UploadType, Browser
  <2>3. UploadType'
    BY <2>2, LockFacts DEF UploadType
  <2>4. Recorded' /\ AttachedWhole' /\ NothingMissing'
    BY <2>1 DEF Recorded, AttachedWhole, NothingMissing
  <2>5. Holding'
    BY DEF Free, Holding, Completing, Cancelling
  <2> QED BY <2>3, <2>4, <2>5
<1> QED BY <1>1, <1>2, <1>3, <1>4, <1>5, <1>6, <1>7, <1>8

\* A cancel takes nothing away that the record has.
LEMMA CancelInv ==
  ASSUME UploadInv, BeginCancel \/ Rollback \/ ClearCancelled \/ ForgetChunks
  PROVE  UploadInv'
<1> USE DEF UploadInv, recordVars
<1>1. CASE BeginCancel
  <2> USE <1>1 DEF BeginCancel
  <2>0. /\ overlooked' = (overlooked \/ Unseen) /\ overlooked' \in BOOLEAN
        /\ (overlooked' = FALSE => overlooked = FALSE /\ (row => attached))
    BY DEF Unseen, UploadType
  <2>1. CASE manifest.status = "publishing" /\ manifest.named /\ attached
    <3>1. /\ manifest' \in Manifest /\ manifest'.status = "completed"
          /\ manifest'.named = manifest.named
      BY <2>1 DEF UploadType, Manifest, Status
    <3>2. lock' = Held("cancel", "reconciled", 0, FALSE)
      BY <2>1
    <3>3. UploadType'
      BY <2>0, <3>1, <3>2, LockFacts DEF UploadType
    <3>4. Recorded' /\ AttachedWhole' /\ NothingMissing'
      BY <2>0, <2>1, <3>1 DEF Recorded, AttachedWhole, NothingMissing
    <3>5. Holding'
      BY <2>1, <3>1, <3>2 DEF Held, Holding, Completing, Cancelling
    <3> QED BY <3>3, <3>4, <3>5
  <2>2. CASE manifest.status = "completed"
    <3>1. UNCHANGED manifest /\ lock' = Held("cancel", "clear", 0, FALSE)
      BY <2>2
    <3>2. UploadType'
      BY <2>0, <3>1, LockFacts DEF UploadType
    <3>3. Recorded' /\ AttachedWhole' /\ NothingMissing'
      BY <2>0, <3>1 DEF Recorded, AttachedWhole, NothingMissing
    <3>4. Holding'
      BY <2>2, <3>1 DEF Held, Holding, Completing, Cancelling
    <3> QED BY <3>2, <3>3, <3>4
  <2>3. CASE /\ ~(manifest.status = "publishing" /\ manifest.named /\ attached)
             /\ manifest.status # "completed"
    <3>1. ~overlooked' => ~attached /\ ~row
      BY <2>0, <2>3 DEF Recorded, AttachedWhole, UploadType
    <3>2. manifest' \in Manifest /\ manifest'.status = "cancelled"
      BY <2>3 DEF UploadType, Manifest, Status
    <3>3. lock' = Held("cancel", "rollback", 0, FALSE)
      BY <2>3
    <3>4. UploadType'
      BY <2>0, <3>2, <3>3, LockFacts DEF UploadType
    <3>5. Recorded' /\ AttachedWhole' /\ NothingMissing'
      BY <2>0, <3>1, <3>2 DEF Recorded, AttachedWhole, NothingMissing
    <3>6. Holding'
      BY <3>2, <3>3 DEF Held, Holding, Completing, Cancelling
    <3> QED BY <3>4, <3>5, <3>6
  <2> QED BY <2>1, <2>2, <2>3
<1>2. CASE Rollback
  <2> USE <1>2 DEF Rollback
  <2>1. manifest.status = "cancelled" /\ (~overlooked => ~attached /\ ~row)
    BY DEF Holding, AttachedWhole, Recorded
  <2>2. lock' \in Holder /\ lock'.by = "cancel" /\ lock'.at = "clear"
    BY StepFacts DEF UploadType, Cancelling
  <2>3. UploadType'
    BY <2>2 DEF UploadType, Manifest
  <2>4. Recorded' /\ AttachedWhole' /\ NothingMissing'
    BY <2>1 DEF Recorded, AttachedWhole, NothingMissing
  <2>5. Holding'
    BY <2>1, <2>2 DEF Holding, Completing, Cancelling
  <2> QED BY <2>3, <2>4, <2>5
<1>3. CASE ClearCancelled
  <2> USE <1>3 DEF ClearCancelled
  <2>1. manifest.status \in {"completed", "cancelled"}
    BY DEF Holding
  <2>2. lock' \in Holder /\ lock'.by = "cancel" /\ lock'.at = "forget"
    BY StepFacts DEF UploadType, Cancelling
  <2>3. UploadType'
    BY <2>2 DEF UploadType
  <2>4. Recorded' /\ AttachedWhole' /\ NothingMissing'
    BY <2>1 DEF Recorded, AttachedWhole, NothingMissing
  <2>5. Holding'
    BY <2>1, <2>2 DEF Holding, Completing, Cancelling
  <2> QED BY <2>3, <2>4, <2>5
<1>4. CASE ForgetChunks
  <2> USE <1>4 DEF ForgetChunks
  <2>1. manifest.status \in {"completed", "cancelled"}
    BY DEF Holding
  <2>2. /\ manifest' \in Manifest /\ manifest'.status = manifest.status
        /\ manifest'.named = manifest.named
    BY DEF UploadType, Manifest
  <2>3. UploadType'
    BY <2>2, LockFacts DEF UploadType
  <2>4. Recorded' /\ AttachedWhole' /\ NothingMissing'
    BY <2>1, <2>2 DEF Recorded, AttachedWhole, NothingMissing
  <2>5. Holding'
    BY DEF Free, Holding, Completing, Cancelling
  <2> QED BY <2>3, <2>4, <2>5
<1> QED BY <1>1, <1>2, <1>3, <1>4

LEMMA UploadNextInv == UploadInv /\ [UploadNext]_uploadVars => UploadInv'
<1> SUFFICES ASSUME UploadInv, [UploadNext]_uploadVars PROVE UploadInv'
  OBVIOUS
<1>1. CASE AppStep
  BY <1>1, ChunkInv, CompleteInv, CancelInv DEF AppStep
<1>2. CASE ClientStep \/ CheckFails \/ Resume
  BY <1>2, ClientStepInv
<1>3. CASE CountFails \/ PublishFails \/ RecordFails \/ BeginCancel
  BY <1>3, ChunkInv, CompleteInv, CancelInv
<1>4. CASE Interrupted \/ Reap \/ StopService \/ FinishRow \/ SaveOverRow
  BY <1>4, InterruptedInv, ReapInv, StopServiceInv, RowInv
<1>5. CASE UNCHANGED uploadVars
  BY <1>5 DEF uploadVars, serverVars, recordVars, UploadInv, UploadType, Recorded, Holding, AttachedWhole,
     NothingMissing, Completing, Cancelling
<1> QED BY <1>1, <1>2, <1>3, <1>4, <1>5 DEF UploadNext

\* Wherever the App stops and whichever of its writes fails, as long as no request
\* has met the pending row of a failed _save_thread_with_events: the record has no
\* attachment without its file or of a cancelled session, announces each once, and
\* uploads.js reports nothing as uploaded that is not in it.  And always: what the
\* record has and no row owes an event has been announced.
THEOREM UploadAttachedWhole == UploadSpec => []AttachedWhole
<1>1. UploadInv => AttachedWhole
  BY DEF UploadInv
<1> QED BY UploadInitInv, UploadNextInv, <1>1, PTL DEF UploadSpec

\* A session that may still be completed has all the chunks its manifest counts.
THEOREM UploadNothingMissing == UploadSpec => []NothingMissing
<1>1. UploadInv => NothingMissing
  BY DEF UploadInv
<1> QED BY UploadInitInv, UploadNextInv, <1>1, PTL DEF UploadSpec

-----------------------------------------------------------------------------
(* Questions.  A question is answered to Codex once, and what a panel is   *)
(* told of it is what Codex heard.                                         *)

Statuses == {"absent", "pending", "responding", "settled", "expired", "outcome_unknown"}
Claims == [id : Nat, answer : Answer \cup {"none"}]
Tables == [Question -> [status : Statuses, claim : Claims]]
Calls == [panel : Panel, q : Question, id : Nat \ {0}, answer : Answer]
Choices == {NoChoice} \cup
    [id : Nat \ {0}, answer : Answer, state : {"sending", "reconciling", "lost", "retryable"}]
Busy == [call : Calls, at : {"respond", "write", "settle", "unknown"}]
Told == [q : Question, answer : Answer]

InteractionType ==
    /\ asking \in Tables /\ stored \in Tables
    /\ heard \in [Question -> Seq(Answer \cup {Nothing})]
    /\ threads \subseteq Busy /\ posts \subseteq Calls /\ told \subseteq Told
    /\ choice \in [Panel -> [Question -> Choices]] /\ ids \in Nat

\* The broker saves whatever it changes, until a save has failed; then it has
\* given up the generation and claims no more.
Saved ==
    /\ ~fatal => stored = asking
    /\ fatal => gone /\ claimable = {}

\* What a table, in memory or on disk, says of a question is true if these are
\* what has been heard and what is being answered.
Truthful(table, hears, busy) ==
    \A q \in Question :
      /\ table[q].status \in {"absent", "pending"} => hears[q] = <<>>
      /\ table[q].status = "expired" => hears[q] \in {<<>>, <<Nothing>>}
      /\ table[q].status = "settled" =>
           /\ hears[q] = <<table[q].claim.answer>>
           /\ \A w \in busy : w.call.q # q
      /\ table[q].status \in {"absent", "pending", "expired"} => table[q].claim = NoClaim

\* A thread that answers has the only claim to its question, in memory and on
\* disk, and writes once.
ClaimOf(w) == [id |-> w.call.id, answer |-> w.call.answer]
Owner(w) ==
    /\ asking[w.call.q].claim = ClaimOf(w) /\ stored[w.call.q].claim = ClaimOf(w)
    /\ w.at \in {"respond", "write"} => heard[w.call.q] = <<>>
    /\ w.at = "settle" => heard[w.call.q] = <<w.call.answer>>

Owners ==
    /\ \A w \in threads : Owner(w)
    /\ \A v, w \in threads : v.call.q = w.call.q => v = w

HeardOnce == \A q \in Question : Len(heard[q]) <= 1
ToldTrue == \A t \in told : heard[t.q] = <<t.answer>>

AnswerInv ==
    /\ InteractionType /\ Saved /\ Owners /\ HeardOnce /\ ToldTrue
    /\ Truthful(asking, heard, threads) /\ Truthful(stored, heard, threads)

-----------------------------------------------------------------------------
(* The helpers *)

LEMMA CloseFacts ==
  ASSUME NEW table \in Tables, NEW qs
  PROVE  /\ Close(qs, table) \in Tables
         /\ \A q \in Question : /\ Close(qs, table)[q].claim = table[q].claim
                                /\ Close(qs, table)[q].status \in {table[q].status, GivenUp(table[q].status)}
<1>1. \A q \in Question : GivenUp(table[q].status) \in Statuses
  BY DEF Tables, Statuses, GivenUp
<1> QED BY <1>1 DEF Close, Tables

LEMMA CloseTruthful ==
  ASSUME NEW table \in Tables, NEW qs, NEW hears, NEW busy, Truthful(table, hears, busy)
  PROVE  Truthful(Close(qs, table), hears, busy)
<1> SUFFICES ASSUME NEW q \in Question
             PROVE  LET new == Close(qs, table)[q] IN
                    /\ new.status \in {"absent", "pending"} => hears[q] = <<>>
                    /\ new.status = "expired" => hears[q] \in {<<>>, <<Nothing>>}
                    /\ new.status = "settled" => /\ hears[q] = <<new.claim.answer>>
                                                 /\ \A w \in busy : w.call.q # q
                    /\ new.status \in {"absent", "pending", "expired"} => new.claim = NoClaim
  BY DEF Truthful
<1>1. table[q].status \in Statuses
  BY DEF Tables
<1> QED BY <1>1, CloseFacts DEF Truthful, GivenUp, Statuses

LEMMA SameTruth ==
  ASSUME NEW table, NEW hears, NEW busy, Truthful(table, hears, busy), NEW table2, NEW hears2,
         \A q \in Question : table2[q] = table[q] /\ hears2[q] = hears[q]
  PROVE  Truthful(table2, hears2, busy)
  BY DEF Truthful

\* Fewer threads are busy.
LEMMA FewerBusy ==
  ASSUME NEW table, NEW hears, NEW busy, NEW fewer \in SUBSET busy, Truthful(table, hears, busy)
  PROVE  Truthful(table, hears, fewer)
  BY DEF Truthful

LEMMA ReplyType ==
  ASSUME InteractionType, NEW p \in Panel, NEW q \in Question, NEW id,
         NEW state \in {"sending", "reconciling", "lost", "retryable"}, Reply(p, q, id, state)
  PROVE  choice' \in [Panel -> [Question -> Choices]]
<1>1. CASE choice[p][q].state = "sending"
  <2>1. choice[p][q] \in Choices
    BY DEF InteractionType
  <2>2. choice[p][q] \in [id : Nat \ {0}, answer : Answer,
                          state : {"sending", "reconciling", "lost", "retryable"}]
    BY <1>1, <2>1 DEF Choices, NoChoice
  <2>3. [choice[p][q] EXCEPT !.state = state] \in Choices
    BY <2>2 DEF Choices
  <2> QED BY <2>3 DEF Reply, InteractionType
<1>2. CASE choice[p][q].state # "sending"
  BY <1>2 DEF Reply, InteractionType
<1> QED BY <1>1, <1>2

LEMMA AppendFirst ==
  \A x, s : s = <<>> => Append(s, x) = <<x>> /\ Len(<<x>>) <= 1 /\ <<x>> # <<>>
  OBVIOUS

\* A question that somebody is answering has been claimed.
LEMMA BusyClaimed ==
  ASSUME AnswerInv
  PROVE  \A w \in threads : /\ w.call.q \in Question /\ w.call.answer \in Answer
                            /\ asking[w.call.q].claim # NoClaim /\ stored[w.call.q].claim # NoClaim
<1> SUFFICES ASSUME NEW w \in threads
             PROVE  /\ w.call.q \in Question /\ w.call.answer \in Answer
                    /\ asking[w.call.q].claim # NoClaim /\ stored[w.call.q].claim # NoClaim
  OBVIOUS
<1>1. w.call \in Calls
  BY DEF AnswerInv, InteractionType, Busy
<1>2. w.call.q \in Question /\ w.call.answer \in Answer /\ w.call.id # 0
  BY <1>1 DEF Calls
<1>3. ClaimOf(w).id # NoClaim.id
  BY <1>2 DEF ClaimOf, NoClaim
<1>4. ClaimOf(w) # NoClaim
  BY <1>3
<1> QED BY <1>2, <1>4 DEF AnswerInv, Owners, Owner

LEMMA AnswerInit == InteractionInit => AnswerInv
<1> SUFFICES ASSUME InteractionInit PROVE AnswerInv
  OBVIOUS
<1> USE DEF InteractionInit
<1>1. NoClaim \in Claims
  BY DEF NoClaim, Claims
<1>2. asking \in Tables /\ stored \in Tables
  BY <1>1 DEF Tables, Statuses
<1>3. InteractionType
  BY <1>2 DEF InteractionType, Choices
<1>4. Truthful(asking, heard, threads) /\ stored = asking
  BY DEF Truthful
<1>5. Saved /\ Owners /\ HeardOnce /\ ToldTrue
  BY DEF Saved, Owners, HeardOnce, ToldTrue
<1> QED BY <1>3, <1>4, <1>5 DEF AnswerInv

-----------------------------------------------------------------------------
(* Steps that only close questions, or do not touch them *)

LEMMA ClosingStep ==
  ASSUME AnswerInv, NEW qs, asking' = Close(qs, asking), Save(asking'),
         gone => gone', fatal' = fatal, claimable' \subseteq claimable,
         UNCHANGED <<heard, threads, clientVars>>
  PROVE  AnswerInv'
<1> USE DEF AnswerInv
<1>1. /\ asking' \in Tables /\ Truthful(asking', heard', threads')
      /\ \A q \in Question : asking'[q].claim = asking[q].claim
  BY CloseFacts, CloseTruthful DEF InteractionType
<1>2. stored' \in {asking', stored} /\ Saved'
  BY DEF Save, Saved
<1>3. InteractionType'
  BY <1>1, <1>2 DEF InteractionType, clientVars
<1>4. Truthful(stored', heard', threads')
  BY <1>1, <1>2
<1>5. Owners'
  <2>1. \A w \in threads : w.call.q \in Question
    BY DEF InteractionType, Busy, Calls
  <2> QED BY <1>1, <1>2, <2>1 DEF Owners, Owner, ClaimOf
<1>6. HeardOnce' /\ ToldTrue'
  BY DEF HeardOnce, ToldTrue, clientVars
<1> QED BY <1>1, <1>2, <1>3, <1>4, <1>5, <1>6

LEMMA PanelStep ==
  ASSUME AnswerInv, UNCHANGED <<asking, stored, heard, threads, told, fatal, claimable>>,
         gone => gone', posts' \subseteq Calls, choice' \in [Panel -> [Question -> Choices]], ids' \in Nat
  PROVE  AnswerInv'
<1> USE DEF AnswerInv
<1>1. InteractionType' /\ Saved' /\ HeardOnce' /\ ToldTrue'
  BY DEF InteractionType, Saved, HeardOnce, ToldTrue
<1>2. Owners' /\ Truthful(asking', heard', threads') /\ Truthful(stored', heard', threads')
  BY DEF Owners, Owner, ClaimOf
<1> QED BY <1>1, <1>2

-----------------------------------------------------------------------------
(* Codex, the turn and the time limit *)

LEMMA AskStep == ASSUME AnswerInv, NEW q \in Question, Ask(q) PROVE AnswerInv'
<1> USE DEF AnswerInv, Ask, clientVars
<1>1. /\ ~fatal /\ ~fatal' /\ stored' = asking' /\ stored = asking
      /\ heard[q] = <<>> /\ asking[q].claim = NoClaim
  BY DEF Saved, Save, StatusOf, Truthful
<1>2. /\ asking' \in Tables
      /\ asking'[q].status = "pending" /\ asking'[q].claim = asking[q].claim
      /\ \A r \in Question \ {q} : asking'[r] = asking[r]
  BY DEF InteractionType, Tables, Statuses
<1>3. InteractionType' /\ Saved' /\ HeardOnce' /\ ToldTrue'
  BY <1>1, <1>2 DEF InteractionType, Saved, HeardOnce, ToldTrue
<1>4. Truthful(asking', heard', threads')
  BY <1>1, <1>2 DEF Truthful
<1>5. Owners'
  <2>1. \A w \in threads : w.call.q \in Question
    BY DEF InteractionType, Busy, Calls
  <2>2. \A w \in threads : asking'[w.call.q].claim = asking[w.call.q].claim
    BY <1>2, <2>1
  <2> QED BY <1>1, <2>2 DEF Owners, Owner, ClaimOf
<1> QED BY <1>1, <1>3, <1>4, <1>5

LEMMA CodexStep ==
  ASSUME AnswerInv,
         \/ \E q \in Question : Ask(q) \/ Resolve(q) \/ FallDue(q)
         \/ EndTurn \/ LoseGeneration \/ Reconcile
  PROVE  AnswerInv'
<1>1. ASSUME NEW q \in Question, Resolve(q) PROVE AnswerInv'
  <2>1. CASE q \in Open
    BY <1>1, <2>1, ClosingStep DEF Resolve
  <2>2. CASE q \notin Open
    BY <1>1, <2>2, PanelStep DEF Resolve, AnswerInv, InteractionType, clientVars
  <2> QED BY <2>1, <2>2
<1>2. CASE EndTurn \/ Reconcile
  BY <1>2, ClosingStep DEF EndTurn, Reconcile, WithdrawAll
<1>3. CASE LoseGeneration \/ \E q \in Question : FallDue(q)
  BY <1>3, PanelStep DEF LoseGeneration, FallDue, AnswerInv, InteractionType, clientVars,
     runtimeVars, codexVars
<1> QED BY <1>1, <1>2, <1>3, AskStep

\* Only questions nobody answers get empty answers, and they are closed with it.
LEMMA ExpireStep == ASSUME AnswerInv, ExpireDue PROVE AnswerInv'
<1> USE DEF AnswerInv
<1> DEFINE lapsed == {q \in Late \cap Optional \cap claimable \cap tokens : StatusOf(q) = "pending"}
<1>1. PICK reached :
        /\ reached \subseteq lapsed
        /\ heard' = [q \in Question |-> IF q \in reached THEN Append(heard[q], Nothing) ELSE heard[q]]
  BY DEF ExpireDue
<1>2. PICK qs : /\ asking' = Close(qs, asking) /\ lapsed \subseteq qs
                /\ claimable' \subseteq claimable /\ (gone => gone')
  <2>1. CASE Late \subseteq Optional
    BY <2>1 DEF ExpireDue
  <2>2. CASE ~(Late \subseteq Optional)
    <3>1. lapsed \subseteq Question
      BY DEF Late, Open
    <3> QED BY <2>2, <3>1 DEF ExpireDue
  <2> QED BY <2>1, <2>2
<1>3. Save(asking') /\ UNCHANGED <<fatal, threads, clientVars>>
  BY DEF ExpireDue
<1>4. \A q \in reached : /\ asking[q].status = "pending" /\ heard[q] = <<>> /\ asking[q].claim = NoClaim
                         /\ ~fatal /\ q \in Question
  BY <1>1 DEF Late, Open, StatusOf, Truthful, Saved
<1>5. \A q \in Question : /\ q \in reached => heard'[q] = <<Nothing>>
                          /\ q \notin reached => heard'[q] = heard[q]
  BY <1>1, <1>4, AppendFirst
<1>6. /\ asking' \in Tables /\ Truthful(asking', heard, threads)
      /\ \A q \in Question : asking'[q].claim = asking[q].claim
      /\ \A q \in reached : asking'[q].status = "expired"
  <2>1. ASSUME NEW q \in reached PROVE asking'[q].status = "expired"
    <3>1. q \in qs /\ q \in Question /\ asking[q].status = "pending"
      BY <1>1, <1>2, <1>4
    <3>2. asking[q] \in [status : Statuses, claim : Claims]
      BY <3>1 DEF InteractionType, Tables
    <3> QED BY <1>2, <3>1, <3>2 DEF Close, GivenUp
  <2> QED BY <1>2, <2>1, CloseFacts, CloseTruthful DEF InteractionType
<1>7. Truthful(asking', heard', threads')
  BY <1>3, <1>5, <1>6 DEF Truthful
<1>8. /\ stored' \in {asking', stored} /\ Saved'
      /\ Truthful(stored', heard', threads')
  <2>1. stored' \in {asking', stored} /\ Saved'
    BY <1>2, <1>3 DEF Save, Saved
  <2>2. CASE stored' = asking'
    <3>1. \A q \in Question : stored'[q] = asking'[q]
      BY <2>2
    <3> QED BY <1>7, <2>1, <3>1, SameTruth
  <2>3. CASE stored' # asking'
    <3>1. fatal /\ stored' = stored /\ reached = {}
      BY <1>3, <1>4, <2>3 DEF Save
    <3>2. \A q \in Question : stored'[q] = stored[q] /\ heard'[q] = heard[q]
      BY <1>5, <3>1
    <3>3. Truthful(stored, heard, threads')
      BY <1>3
    <3> QED BY <2>1, <3>2, <3>3, SameTruth
  <2> QED BY <2>1, <2>2, <2>3
<1>9. InteractionType'
  <2>1. heard' \in [Question -> Seq(Answer \cup {Nothing})]
    BY <1>1 DEF InteractionType
  <2> QED BY <1>3, <1>6, <1>8, <2>1 DEF InteractionType, clientVars
<1>10. Owners'
  <2>1. \A w \in threads : w.call.q \in Question
    BY BusyClaimed
  <2>2. \A w \in threads : w.call.q \notin reached
    BY <1>4, BusyClaimed
  <2> QED BY <1>3, <1>5, <1>6, <1>8, <2>1, <2>2 DEF Owners, Owner, ClaimOf
<1>11. HeardOnce'
  <2>1. \A q \in Question : q \in reached => Len(heard'[q]) <= 1
    BY <1>5, AppendFirst
  <2>2. \A q \in Question : Len(heard'[q]) <= 1
    <3> SUFFICES ASSUME NEW q \in Question PROVE Len(heard'[q]) <= 1
      OBVIOUS
    <3>1. CASE q \in reached
      BY <2>1, <3>1
    <3>2. CASE q \notin reached
      BY <1>5, <3>2 DEF HeardOnce
    <3> QED BY <3>1, <3>2
  <2> QED BY <2>2 DEF HeardOnce
<1>12. ToldTrue'
  <2>1. \A t \in told : t.q \in Question /\ heard[t.q] # <<>>
    BY AppendFirst DEF ToldTrue, InteractionType, Told
  <2>2. \A t \in told : t.q \notin reached
    BY <1>4, <2>1
  <2> QED BY <1>3, <1>5, <2>1, <2>2 DEF ToldTrue, clientVars
<1> QED BY <1>7, <1>8, <1>9, <1>10, <1>11, <1>12

-----------------------------------------------------------------------------
(* An answer: claimed, written, settled *)

LEMMA EntryFacts ==
  ASSUME NEW table \in Tables, NEW q \in Question, NEW entry \in [status : Statuses, claim : Claims]
  PROVE  /\ [table EXCEPT ![q] = entry] \in Tables
         /\ [table EXCEPT ![q] = entry][q] = entry
         /\ \A r \in Question \ {q} : [table EXCEPT ![q] = entry][r] = table[r]
  BY DEF Tables

LEMMA FewerOwners ==
  ASSUME AnswerInv, NEW left, left \subseteq threads, threads' = left, heard' = heard,
         \A w \in left : /\ asking'[w.call.q].claim = asking[w.call.q].claim
                         /\ stored'[w.call.q].claim = stored[w.call.q].claim
  PROVE  Owners'
<1>1. ASSUME NEW w \in left PROVE Owner(w)'
  <2>1. Owner(w)
    BY DEF AnswerInv, Owners
  <2> QED BY <2>1 DEF Owner, ClaimOf
<1>2. \A v, w \in left : v.call.q = w.call.q => v = w
  BY DEF AnswerInv, Owners
<1> QED BY <1>1, <1>2 DEF Owners

LEMMA ClaimStep == ASSUME AnswerInv, NEW c \in posts, Claim(c) PROVE AnswerInv'
<1> DEFINE q == c.q
           mine == [id |-> c.id, answer |-> c.answer]
           entry == [status |-> "responding", claim |-> mine]
           table == [asking EXCEPT ![q] = entry]
           w == [call |-> c, at |-> "respond"]
           free == /\ asking[q].claim = NoClaim /\ StatusOf(q) = "pending" /\ ~gone
<1>1. /\ c \in Calls /\ q \in Question /\ c.panel \in Panel /\ c.answer \in Answer
      /\ mine \in Claims /\ entry \in [status : Statuses, claim : Claims] /\ w \in Busy
      /\ posts' \subseteq Calls /\ ids' \in Nat /\ asking \in Tables
  <2>1. c \in Calls /\ posts' \subseteq Calls /\ ids' \in Nat /\ asking \in Tables
    BY DEF AnswerInv, InteractionType, Claim
  <2>2. q \in Question /\ c.panel \in Panel /\ c.answer \in Answer /\ c.id \in Nat
    BY <2>1 DEF Calls
  <2>3. mine \in Claims
    BY <2>2 DEF Claims
  <2>4. w \in Busy
    BY <2>1 DEF Busy
  <2> QED BY <2>1, <2>2, <2>3, <2>4 DEF Statuses
<1>2. /\ table \in Tables /\ table[q] = entry
      /\ \A r \in Question \ {q} : table[r] = asking[r]
  BY <1>1, EntryFacts
<1>3. free => /\ ~fatal /\ stored = asking /\ heard[q] = <<>>
              /\ \A v \in threads : v.call.q # q
  <2> SUFFICES ASSUME free PROVE /\ ~fatal /\ stored = asking /\ heard[q] = <<>>
                                 /\ \A v \in threads : v.call.q # q
    OBVIOUS
  <2>1. ~fatal /\ stored = asking /\ heard[q] = <<>>
    BY <1>1 DEF AnswerInv, Saved, StatusOf, Truthful
  <2> QED BY <2>1, BusyClaimed
<1>4. free => Truthful(table, heard, threads) /\ Truthful(table, heard, threads \cup {w})
  <2>1. ASSUME free, NEW r \in Question, r # q PROVE \A v \in {w} : v.call.q # r
    BY <2>1
  <2> QED BY <1>1, <1>2, <1>3, <2>1 DEF AnswerInv, Truthful
<1>5. CASE /\ free /\ asking' = table /\ Save(asking') /\ threads' = threads \cup {w}
           /\ UNCHANGED <<claimable, fatal, codexVars, choice, told, upsets>>
  <2>1. stored' = asking' /\ Saved'
    BY <1>3, <1>5 DEF Save, Saved, AnswerInv, codexVars
  <2>2. InteractionType'
    BY <1>1, <1>2, <1>5, <2>1 DEF InteractionType, AnswerInv, codexVars
  <2>3. Truthful(asking', heard', threads') /\ Truthful(stored', heard', threads')
    BY <1>4, <1>5, <2>1 DEF codexVars
  <2>4. Owners'
    <3>1. \A v \in threads : v.call.q \in Question
      BY BusyClaimed
    <3>2. ASSUME NEW v \in threads PROVE Owner(v)'
      <4>1. Owner(v) /\ v.call.q # q /\ v.call.q \in Question
        BY <1>3, <1>5, <3>1 DEF AnswerInv, Owners
      <4> QED BY <1>2, <1>3, <1>5, <2>1, <4>1 DEF Owner, ClaimOf, codexVars
    <3>3. Owner(w)'
      BY <1>2, <1>3, <1>5, <2>1 DEF Owner, ClaimOf, codexVars
    <3>4. \A u, v \in threads' : u.call.q = v.call.q => u = v
      BY <1>3, <1>5 DEF AnswerInv, Owners
    <3> QED BY <1>5, <3>2, <3>3, <3>4 DEF Owners
  <2>5. HeardOnce' /\ ToldTrue'
    BY <1>5 DEF AnswerInv, HeardOnce, ToldTrue, codexVars
  <2> QED BY <2>1, <2>2, <2>3, <2>4, <2>5 DEF AnswerInv
<1>6. CASE /\ free /\ EnterFatal(table) /\ Reply(c.panel, c.q, c.id, "lost")
           /\ UNCHANGED <<threads, heard, resolved, told>>
  <2>1. Saved' /\ stored' = stored /\ asking' = Close(Question, table)
    BY <1>6 DEF EnterFatal, Saved
  <2>2. asking' \in Tables /\ Truthful(asking', heard', threads')
        /\ \A r \in Question : asking'[r].claim = table[r].claim
    <3>. HIDE DEF table
    <3>1. /\ Close(Question, table) \in Tables
          /\ \A r \in Question : Close(Question, table)[r].claim = table[r].claim
      BY <1>2, CloseFacts
    <3>2. Truthful(Close(Question, table), heard, threads)
      BY <1>2, <1>4, <1>6, CloseTruthful
    <3> QED BY <1>6, <2>1, <3>1, <3>2
  <2>3. InteractionType'
    <3>1. choice' \in [Panel -> [Question -> Choices]]
      BY <1>1, <1>6, ReplyType DEF AnswerInv
    <3> QED BY <1>1, <1>6, <2>1, <2>2, <3>1 DEF InteractionType, AnswerInv
  <2>4. Owners'
    <3>1. \A v \in threads : v.call.q \in Question \ {q}
      BY <1>3, <1>6, BusyClaimed
    <3>2. \A v \in threads : asking'[v.call.q].claim = asking[v.call.q].claim
      <4>. HIDE DEF table
      <4> QED BY <1>2, <2>2, <3>1
    <3> QED BY <1>6, <2>1, <3>2, FewerOwners
  <2>5. HeardOnce' /\ ToldTrue' /\ Truthful(stored', heard', threads')
    BY <1>6, <2>1 DEF AnswerInv, HeardOnce, ToldTrue
  <2> QED BY <2>1, <2>2, <2>3, <2>4, <2>5 DEF AnswerInv
<1>7. CASE /\ \/ asking[q].claim = mine /\ StatusOf(q) = "settled" /\ ReplySuccess(c)
              \/ Reply(c.panel, c.q, c.id, "reconciling") /\ UNCHANGED told
           /\ UNCHANGED <<asking, stored, threads, claimable, fatal, codexVars, upsets>>
  <2>1. choice' \in [Panel -> [Question -> Choices]]
    BY <1>1, <1>7, ReplyType DEF AnswerInv, ReplySuccess
  <2>2. CASE UNCHANGED told
    BY <1>1, <1>7, <2>1, <2>2, PanelStep DEF codexVars
  <2>3. CASE asking[q].claim = mine /\ StatusOf(q) = "settled" /\ ReplySuccess(c)
    <3>1. heard[q] = <<c.answer>>
      BY <1>1, <2>3 DEF AnswerInv, Truthful, StatusOf
    <3>2. [q |-> q, answer |-> c.answer] \in Told
      BY <1>1 DEF Told
    <3>3. told' \subseteq Told /\ ToldTrue'
      BY <1>7, <2>3, <3>1, <3>2 DEF AnswerInv, ToldTrue, InteractionType, ReplySuccess, codexVars
    <3>4. InteractionType' /\ Saved' /\ HeardOnce' /\ Owners'
      BY <1>1, <1>7, <2>1, <3>3 DEF AnswerInv, InteractionType, Saved, HeardOnce, Owners, Owner,
         ClaimOf, codexVars
    <3> QED BY <1>7, <3>3, <3>4 DEF AnswerInv, codexVars
  <2> QED BY <1>7, <2>2, <2>3
<1> QED BY <1>5, <1>6, <1>7 DEF Claim

\* A thread goes on; what it writes is the first that Codex hears of its question.
LEMMA MoveStep ==
  ASSUME AnswerInv, NEW w \in threads, NEW step \in {"write", "settle", "unknown"}, Goes(w, step),
         \/ heard' = heard /\ (step = "write" => w.at = "respond")
         \/ /\ w.at = "write" /\ step \in {"settle", "unknown"}
            /\ heard' = [heard EXCEPT ![w.call.q] = Append(@, w.call.answer)],
         step = "settle" => heard' # heard,
         UNCHANGED <<asking, stored, fatal, claimable, clientVars>>, gone' = gone
  PROVE  AnswerInv'
<1> DEFINE q == w.call.q
           moved == [w EXCEPT !.at = step]
<1>1. /\ w \in Busy /\ q \in Question /\ w.call.answer \in Answer
      /\ moved \in Busy /\ moved.call = w.call /\ moved.at = step
      /\ threads' = (threads \ {w}) \cup {moved}
      /\ \A v \in threads \ {w} : v.call.q # q
  BY BusyClaimed DEF AnswerInv, InteractionType, Owners, Busy, Goes
<1>2. /\ \A r \in Question \ {q} : heard'[r] = heard[r]
      /\ heard'[q] \in {heard[q], <<w.call.answer>>}
      /\ step = "write" => heard'[q] = <<>>
      /\ step = "settle" => heard'[q] = <<w.call.answer>>
      /\ heard'[q] # heard[q] => heard[q] = <<>>
      /\ heard' \in [Question -> Seq(Answer \cup {Nothing})]
  <2>1. heard \in [Question -> Seq(Answer \cup {Nothing})] /\ Owner(w)
    BY DEF AnswerInv, InteractionType, Owners
  <2>2. CASE heard' = heard
    BY <2>1, <2>2 DEF Owner
  <2>3. CASE heard' # heard
    <3>1. heard[q] = <<>> /\ Append(heard[q], w.call.answer) = <<w.call.answer>>
      BY <2>1, <2>3, AppendFirst DEF Owner
    <3>2. heard' = [heard EXCEPT ![q] = <<w.call.answer>>]
      BY <2>3, <3>1
    <3>3. <<w.call.answer>> \in Seq(Answer \cup {Nothing})
      BY <1>1
    <3> QED BY <1>1, <2>1, <2>3, <3>1, <3>2, <3>3
  <2> QED BY <2>2, <2>3
<1>3. ASSUME NEW table, table[q].claim # NoClaim, Truthful(table, heard, threads)
      PROVE  Truthful(table, heard', threads')
  <2>1. table[q].status \notin {"absent", "pending", "expired", "settled"}
    BY <1>1, <1>3 DEF Truthful
  <2>2. ASSUME NEW r \in Question \ {q}, \A v \in threads : v.call.q # r
        PROVE  \A v \in threads' : v.call.q # r
    <3>. HIDE DEF moved
    <3> QED BY <1>1, <2>2
  <2>3. \A r \in Question \ {q} : heard'[r] = heard[r]
    BY <1>2
  <2>. HIDE DEF moved
  <2> QED BY <1>3, <2>1, <2>2, <2>3 DEF Truthful
<1>4. Truthful(asking', heard', threads') /\ Truthful(stored', heard', threads')
  BY <1>3, BusyClaimed DEF AnswerInv
<1>5. Owners'
  <2>1. ASSUME NEW v \in threads \ {w} PROVE Owner(v)'
    <3>1. Owner(v) /\ v.call.q \in Question \ {q}
      BY <1>1, BusyClaimed DEF AnswerInv, Owners
    <3> QED BY <1>2, <3>1 DEF Owner, ClaimOf
  <2>2. Owner(moved)'
    <3>1. asking[q].claim = ClaimOf(w) /\ stored[q].claim = ClaimOf(w)
      BY DEF AnswerInv, Owners, Owner
    <3>2. ClaimOf(moved) = ClaimOf(w)
      BY <1>1 DEF ClaimOf
    <3>3. heard'[q] = <<>> \/ step # "write"
      BY <1>2
    <3>. HIDE DEF moved
    <3> QED BY <1>1, <1>2, <3>1, <3>2, <3>3 DEF Owner, ClaimOf
  <2>3. \A u, v \in threads' : u.call.q = v.call.q => u = v
    <3>. HIDE DEF moved
    <3> QED BY <1>1 DEF AnswerInv, Owners
  <2>. HIDE DEF moved
  <2> QED BY <1>1, <2>1, <2>2, <2>3 DEF Owners
<1>6. HeardOnce'
  <2>1. ASSUME NEW r \in Question PROVE Len(heard'[r]) <= 1
    BY <1>2, AppendFirst DEF AnswerInv, HeardOnce
  <2> QED BY <2>1 DEF HeardOnce
<1>7. ToldTrue'
  <2>1. ASSUME NEW t \in told PROVE heard'[t.q] = <<t.answer>>
    <3>1. t.q \in Question /\ heard[t.q] = <<t.answer>> /\ heard[t.q] # <<>>
      BY AppendFirst DEF AnswerInv, InteractionType, Told, ToldTrue
    <3> QED BY <1>2, <3>1
  <2> QED BY <2>1 DEF ToldTrue, clientVars
<1>8. InteractionType' /\ Saved'
  BY <1>1, <1>2 DEF AnswerInv, InteractionType, Saved, clientVars
<1> QED BY <1>4, <1>5, <1>6, <1>7, <1>8 DEF AnswerInv

LEMMA TakeTokenStep == ASSUME AnswerInv, TakeToken PROVE AnswerInv'
<1>1. PICK w \in At("respond") :
        /\ Goes(w, IF w.call.q \in tokens THEN "write" ELSE "unknown")
        /\ UNCHANGED <<turn, asking, stored, claimable, fatal, due, gone, heard, resolved,
                       clientVars, upsets>>
  BY DEF TakeToken
<1> QED BY <1>1, MoveStep DEF At

LEMMA WriteAnswerStep == ASSUME AnswerInv, WriteAnswer PROVE AnswerInv'
<1>1. PICK w \in At("write") :
        /\ \/ /\ Goes(w, "settle")
              /\ heard' = [heard EXCEPT ![w.call.q] = Append(@, w.call.answer)]
           \/ /\ Goes(w, "unknown")
              /\ \/ UNCHANGED heard
                 \/ heard' = [heard EXCEPT ![w.call.q] = Append(@, w.call.answer)]
        /\ UNCHANGED <<turn, asking, stored, claimable, fatal, due, tokens, gone, resolved,
                       clientVars>>
  BY DEF WriteAnswer
<1>2. w \in threads /\ w.at = "write"
  BY DEF At
<1>3. heard' = [heard EXCEPT ![w.call.q] = Append(@, w.call.answer)] => heard' # heard
  <2>1. heard[w.call.q] = <<>> /\ w.call.q \in Question
    BY <1>2, BusyClaimed DEF AnswerInv, Owners, Owner
  <2>2. Append(heard[w.call.q], w.call.answer) # heard[w.call.q]
    BY <2>1, AppendFirst
  <2> QED BY <2>1, <2>2 DEF AnswerInv, InteractionType
<1> QED BY <1>1, <1>2, <1>3, MoveStep

\* A thread ends, and says what became of its question: settled if the answer has
\* been written, unknown if nothing is certain.
LEMMA FinishStep ==
  ASSUME AnswerInv, NEW w \in threads, threads' = threads \ {w},
         NEW status \in {"settled", "outcome_unknown"}, status = "settled" => w.at = "settle",
         NEW qs,
         \/ asking' = [asking EXCEPT ![w.call.q].status = status]
         \/ asking' = Close(qs, [asking EXCEPT ![w.call.q].status = status]),
         stored' \in {asking', stored}, Saved',
         \/ told' = told
         \/ w.at = "settle" /\ told' = told \cup {[q |-> w.call.q, answer |-> w.call.answer]},
         choice' \in [Panel -> [Question -> Choices]], UNCHANGED <<heard, posts, ids>>
  PROVE  AnswerInv'
<1> DEFINE q == w.call.q
           entry == [asking[q] EXCEPT !.status = status]
           table == [asking EXCEPT ![q] = entry]
<1>1. /\ q \in Question /\ w.call.answer \in Answer /\ asking \in Tables
      /\ asking[q] \in [status : Statuses, claim : Claims] /\ asking[q].claim = ClaimOf(w)
      /\ \A v \in threads' : v.call.q \in Question \ {q}
      /\ w.at = "settle" => heard[q] = <<w.call.answer>>
  BY BusyClaimed DEF AnswerInv, InteractionType, Tables, Owners, Owner
<1>2. entry \in [status : Statuses, claim : Claims] /\ entry.status = status /\ entry.claim = ClaimOf(w)
  BY <1>1 DEF Statuses
<1>3. /\ table \in Tables /\ table[q].status = status /\ table[q].claim = ClaimOf(w)
      /\ \A r \in Question \ {q} : table[r] = asking[r]
  <2>. HIDE DEF entry
  <2>1. asking \in Tables /\ q \in Question /\ entry \in [status : Statuses, claim : Claims]
    BY <1>1, <1>2
  <2>2. /\ table \in Tables /\ table[q] = entry
        /\ \A r \in Question \ {q} : table[r] = asking[r]
    BY ONLY <2>1, EntryFacts
  <2> QED BY <1>2, <2>2
<1>4. Truthful(table, heard, threads')
  <2>1. ClaimOf(w).answer = w.call.answer
    BY DEF ClaimOf
  <2>. HIDE DEF table
  <2> QED BY <1>1, <1>3, <2>1 DEF AnswerInv, Truthful
<1>5. asking' = table \/ asking' = Close(qs, table)
  BY <1>1 DEF Tables
<1>6. /\ asking' \in Tables /\ Truthful(asking', heard, threads')
      /\ \A v \in threads' : asking'[v.call.q].claim = asking[v.call.q].claim
  <2>. HIDE DEF table
  <2>1. /\ Close(qs, table) \in Tables /\ Truthful(Close(qs, table), heard, threads')
        /\ \A r \in Question : Close(qs, table)[r].claim = table[r].claim
    BY <1>3, <1>4, CloseFacts, CloseTruthful
  <2> QED BY <1>1, <1>3, <1>4, <1>5, <2>1
<1>7. Truthful(asking', heard', threads') /\ Truthful(stored', heard', threads')
  <2>1. Truthful(stored, heard, threads')
    BY FewerBusy DEF AnswerInv
  <2> QED BY <1>6, <2>1
<1>8. Owners'
  <2>1. \A v \in threads' : stored'[v.call.q].claim = stored[v.call.q].claim
    <3>1. \A v \in threads' : stored[v.call.q].claim = ClaimOf(v) /\ asking[v.call.q].claim = ClaimOf(v)
      BY DEF AnswerInv, Owners, Owner
    <3> QED BY <1>6, <3>1
  <2> QED BY <1>6, <2>1, FewerOwners
<1>9. ToldTrue' /\ told' \subseteq Told
  <2>1. told \subseteq Told /\ ToldTrue
    BY DEF AnswerInv, InteractionType
  <2>2. [q |-> q, answer |-> w.call.answer] \in Told
    BY <1>1 DEF Told
  <2>3. told' \subseteq Told
    BY <2>1, <2>2
  <2>4. ASSUME NEW t \in told' PROVE heard[t.q] = <<t.answer>>
    <3>1. CASE t \in told
      BY <2>1, <3>1 DEF ToldTrue
    <3>2. CASE t = [q |-> q, answer |-> w.call.answer] /\ w.at = "settle"
      <4>1. t.q = q /\ t.answer = w.call.answer
        BY <3>2
      <4> QED BY <1>1, <3>2, <4>1
    <3> QED BY <2>4, <3>1, <3>2
  <2> QED BY <2>3, <2>4 DEF ToldTrue
<1>10. InteractionType' /\ HeardOnce'
  BY <1>6, <1>9 DEF AnswerInv, InteractionType, HeardOnce
<1> QED BY <1>7, <1>8, <1>9, <1>10 DEF AnswerInv

LEMMA SettleStep == ASSUME AnswerInv, SettleAnswer PROVE AnswerInv'
<1>1. PICK w \in At("settle") :
        LET q == w.call.q
            settled == [asking EXCEPT ![q].status = "settled"]
        IN
        /\ threads' = threads \ {w}
        /\ \/ /\ StatusOf(q) = "responding"
              /\ Concluded(w, settled) /\ Save(asking')
              /\ ReplySuccess(w.call) /\ UNCHANGED <<fatal, gone, upsets>>
           \/ /\ StatusOf(q) = "responding" /\ ~fatal /\ Upset
              /\ EnterFatal(settled)
              /\ IF w.call.answer \in Cancels /\ turn # "over"
                 THEN turn' = "cancelling" /\ Reply(w.call.panel, q, w.call.id, "lost")
                 ELSE UNCHANGED turn /\ Reply(w.call.panel, q, w.call.id, "reconciling")
              /\ UNCHANGED told
           \/ /\ StatusOf(q) # "responding"
              /\ Concluded(w, [asking EXCEPT ![q].status = "outcome_unknown"])
              /\ Save(asking')
              /\ \/ Reply(w.call.panel, q, w.call.id, "reconciling")
                 \/ /\ fatal
                    /\ Reply(w.call.panel, q, w.call.id, "lost")
              /\ UNCHANGED <<told, fatal, gone, upsets>>
        /\ UNCHANGED <<due, heard, resolved, posts, listed, ids>>
  BY DEF SettleAnswer
<1>2. /\ w \in threads /\ w.at = "settle" /\ w.call.panel \in Panel /\ w.call.q \in Question
      /\ threads' = threads \ {w} /\ UNCHANGED <<heard, posts, ids>> /\ InteractionType
  BY <1>1 DEF At, AnswerInv, InteractionType, Busy, Calls
<1>3. choice' \in [Panel -> [Question -> Choices]]
  BY <1>1, <1>2, ReplyType DEF ReplySuccess
<1>4. PICK status \in {"settled", "outcome_unknown"} :
        LET table == [asking EXCEPT ![w.call.q].status = status]
        IN  asking' = table \/ asking' = Close(Question, table)
  BY <1>1 DEF Concluded, WithdrawAll, EnterFatal
<1>5. stored' \in {asking', stored} /\ Saved'
  <2>1. CASE EnterFatal([asking EXCEPT ![w.call.q].status = "settled"])
    BY <2>1 DEF EnterFatal, Saved
  <2>2. CASE Save(asking') /\ claimable' \subseteq claimable /\ UNCHANGED <<fatal, gone>>
    BY <2>2 DEF Save, Saved, AnswerInv
  <2> QED BY <1>1, <2>1, <2>2 DEF Concluded, WithdrawAll
<1>6. \/ told' = told
      \/ told' = told \cup {[q |-> w.call.q, answer |-> w.call.answer]}
  BY <1>1 DEF ReplySuccess
<1> QED BY <1>2, <1>3, <1>4, <1>5, <1>6, FinishStep

LEMMA MarkUnknownStep == ASSUME AnswerInv, MarkUnknown PROVE AnswerInv'
<1>1. PICK w \in At("unknown") :
        /\ threads' = threads \ {w}
        /\ Concluded(w, [asking EXCEPT ![w.call.q].status = "outcome_unknown"])
        /\ Save(asking')
        /\ Reply(w.call.panel, w.call.q, w.call.id, "reconciling")
        /\ UNCHANGED <<fatal, due, gone, heard, resolved, posts, listed, told, ids, upsets>>
  BY DEF MarkUnknown
<1>2. w \in threads /\ w.call.panel \in Panel /\ w.call.q \in Question /\ InteractionType
  BY DEF At, AnswerInv, InteractionType, Busy, Calls
<1>3. choice' \in [Panel -> [Question -> Choices]]
  BY <1>1, <1>2, ReplyType
<1>4. LET table == [asking EXCEPT ![w.call.q].status = "outcome_unknown"]
      IN  asking' = table \/ asking' = Close(Question, table)
  BY <1>1 DEF Concluded, WithdrawAll
<1>5. stored' \in {asking', stored} /\ Saved'
  BY <1>1 DEF Save, Saved, AnswerInv, Concluded, WithdrawAll
<1> QED BY <1>1, <1>2, <1>3, <1>4, <1>5, FinishStep

-----------------------------------------------------------------------------
(* The panels, and a restart of the App *)

LEMMA PostType ==
  ASSUME InteractionType, NEW p \in Panel, NEW q \in Question, NEW id \in Nat \ {0},
         NEW answer \in Answer, Post(p, q, id, answer)
  PROVE  posts' \subseteq Calls /\ choice' \in [Panel -> [Question -> Choices]]
  BY DEF Post, InteractionType, Calls, Choices

LEMMA PanelSteps ==
  ASSUME AnswerInv,
         \/ \E p \in Panel : Refresh(p) \/ Reselect(p)
         \/ \E p \in Panel, q \in Question : Submit(p, q) \/ SubmitAgain(p, q) \/ ReplyLost(p, q)
  PROVE  AnswerInv'
<1> USE DEF codexVars, runtimeVars
<1>1. InteractionType /\ choice \in [Panel -> [Question -> Choices]] /\ ids \in Nat /\ posts \subseteq Calls
  BY DEF AnswerInv, InteractionType
<1>2. ASSUME NEW p \in Panel, Reselect(p) PROVE AnswerInv'
  BY <1>1, <1>2, PanelStep DEF Reselect, Choices
<1>3. ASSUME NEW p \in Panel, Refresh(p) PROVE AnswerInv'
  <2>1. \A q \in Question :
          \/ choice'[p][q] = NoChoice
          \/ choice'[p][q] = choice[p][q]
          \/ /\ choice[p][q].state = "lost"
             /\ choice'[p][q] = [choice[p][q] EXCEPT !.state = "retryable"]
    BY <1>1, <1>3 DEF Refresh
  <2>2. ASSUME NEW q \in Question, choice[p][q].state = "lost"
        PROVE  [choice[p][q] EXCEPT !.state = "retryable"] \in Choices
    <3>1. choice[p][q] \in Choices /\ choice[p][q] # NoChoice
      BY <1>1, <2>2 DEF NoChoice
    <3> QED BY <3>1 DEF Choices
  <2>3. \A q \in Question : choice'[p][q] \in Choices
    <3>1. NoChoice \in Choices /\ \A q \in Question : choice[p][q] \in Choices
      BY <1>1 DEF Choices
    <3> QED BY <2>1, <2>2, <3>1
  <2>4. choice' \in [Panel -> [Question -> Choices]]
    BY <1>1, <1>3, <2>3 DEF Refresh
  <2> QED BY <1>1, <1>3, <2>4, PanelStep DEF Refresh
<1>4. ASSUME NEW p \in Panel, NEW q \in Question, Submit(p, q) PROVE AnswerInv'
  <2>1. ids' \in Nat \ {0} /\ \E answer \in Answer : Post(p, q, ids', answer)
    BY <1>1, <1>4 DEF Submit
  <2> QED BY <1>1, <1>4, <2>1, PostType, PanelStep DEF Submit
<1>5. ASSUME NEW p \in Panel, NEW q \in Question, SubmitAgain(p, q) PROVE AnswerInv'
  <2>1. choice[p][q] \in Choices /\ choice[p][q] # NoChoice
    BY <1>1, <1>5 DEF SubmitAgain, NoChoice
  <2>2. choice[p][q].id \in Nat \ {0} /\ choice[p][q].answer \in Answer
    BY <2>1 DEF Choices
  <2> QED BY <1>1, <1>5, <2>2, PostType, PanelStep DEF SubmitAgain
<1>6. ASSUME NEW p \in Panel, NEW q \in Question, ReplyLost(p, q) PROVE AnswerInv'
  <2>1. choice[p][q] \in Choices /\ choice[p][q] # NoChoice
    BY <1>1, <1>6 DEF ReplyLost, NoChoice
  <2>2. [choice[p][q] EXCEPT !.state = "lost"] \in Choices
    BY <2>1 DEF Choices
  <2>3. choice' \in [Panel -> [Question -> Choices]] /\ posts' \subseteq Calls
    BY <1>1, <1>6, <2>2 DEF ReplyLost
  <2> QED BY <1>1, <1>6, <2>3, PanelStep DEF ReplyLost
<1> QED BY <1>2, <1>3, <1>4, <1>5, <1>6

LEMMA StopAppStep == ASSUME AnswerInv, StopApp PROVE AnswerInv'
<1> USE DEF StopApp, AnswerInv
<1>1. /\ asking' \in Tables /\ stored' = asking' /\ Truthful(asking', heard, threads')
  BY CloseFacts, CloseTruthful, FewerBusy DEF InteractionType
<1>2. choice' \in [Panel -> [Question -> Choices]]
  <2>1. ASSUME NEW p \in Panel, NEW q \in Question, choice[p][q].state = "sending"
        PROVE  [choice[p][q] EXCEPT !.state = "lost"] \in Choices
    <3>1. choice[p][q] \in Choices /\ choice[p][q] # NoChoice
      BY <2>1 DEF InteractionType, NoChoice
    <3> QED BY <3>1 DEF Choices
  <2> QED BY <2>1 DEF InteractionType
<1>3. InteractionType' /\ Saved' /\ Owners' /\ HeardOnce' /\ ToldTrue'
  BY <1>1, <1>2 DEF InteractionType, Saved, Owners, HeardOnce, ToldTrue
<1> QED BY <1>1, <1>3

-----------------------------------------------------------------------------

LEMMA AnswerNext == AnswerInv /\ [InteractionNext]_interactionVars => AnswerInv'
<1> SUFFICES ASSUME AnswerInv, [InteractionNext]_interactionVars PROVE AnswerInv'
  OBVIOUS
<1>1. CASE UNCHANGED interactionVars
  BY <1>1, PanelStep DEF interactionVars, codexVars, runtimeVars, clientVars, AnswerInv, InteractionType
<1> QED BY <1>1, CodexStep, ExpireStep, ClaimStep, TakeTokenStep, WriteAnswerStep, SettleStep,
           MarkUnknownStep, PanelSteps, StopAppStep DEF InteractionNext, Respond

\* The inductive invariant holds of every question, on disk too.
THEOREM InteractionInvariant == InteractionSpec => []AnswerInv
<1> QED BY AnswerInit, AnswerNext, PTL DEF InteractionSpec

\* Whatever the order of claim, expiry, resolution, failed save and restart, a
\* question counts as settled only with the one answer that Codex heard, as
\* expired only if no user's answer reached Codex, and no panel is told that its
\* answer was taken when another one was (_claim_interaction_locked,
\* _mark_interaction_outcome_unknown_locked).
THEOREM InteractionOutcomeHonest == InteractionSpec => []OutcomeHonest
<1>1. AnswerInv => OutcomeHonest
  BY DEF AnswerInv, Truthful, HeardOnce, ToldTrue, OutcomeHonest, StatusOf
<1> QED BY <1>1, InteractionInvariant, PTL

=============================================================================

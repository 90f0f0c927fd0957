-------------------------- MODULE AutomationProofs --------------------------
(***************************************************************************)
(* AutomationStore never has two turns of one automation, starts none      *)
(* twice for an occurrence, reports no run as finished that goes on, and   *)
(* does not change what it has reported, for any number of occurrences,    *)
(* run-now requests, handlers, edits and crashes, and any size of history. *)
(***************************************************************************)
EXTENDS Automations, FiniteSetTheorems, TLAPS

Points == {"idle", "dispatch", "submit", "link", "block"}
Turns == {"none", "admitted", "live", "reporting", "ended"}
Begun == {"live", "reporting", "ended"}

Shape ==
    /\ clock \in 0 .. MaxDue
    /\ task \in [exists : BOOLEAN, enabled : BOOLEAN,
                 revision : 1 .. MaxRevision, next : Due \cup {None}]
    /\ run \in [Key -> RunRecord \cup {None}]
    /\ offered \subseteq Key
    /\ handler \in [Handler -> [at : Points, key : Key \cup {None}]]
    /\ turn \in [Key -> Turns]
    /\ started \in [Due -> Nat]
    /\ up \in {"down", "starting", "serving"}
    /\ crashes \in 0 .. MaxCrashes
    /\ doubled \subseteq Key

\* The retention order has every finished record at one place.
Ordered(rs, order) ==
    /\ order \subseteq Finished(rs) \X Finished(rs)
    /\ \A j, k \in Finished(rs) : (<<j, k>> \in order) <=> (j # k /\ <<k, j>> \notin order)
    /\ \A i, j, k \in Finished(rs) : <<i, j>> \in order /\ <<j, k>> \in order => <<i, k>> \in order

\* Who is at work for a key, and what he knows of its turn.
HandlerInv ==
    /\ \A h \in Handler : handler[h].at = "idle" <=> handler[h].key = None
    /\ up # "serving" => /\ \A h \in Handler : handler[h].key = None
                         /\ \A k \in Key : turn[k] # "admitted"
    /\ \A h \in Handler : handler[h].at = "submit" => turn[handler[h].key] = "admitted"
    /\ \A h \in Handler : handler[h].at = "link" => turn[handler[h].key] \in Begun
    /\ \A k \in Key : turn[k] = "admitted" =>
          \E h \in Handler : handler[h].at = "submit" /\ handler[h].key = k
    /\ \A h, i \in Handler : h # i /\ handler[h].key = handler[i].key /\ handler[h].key # None =>
          /\ handler[h].key \in doubled
          /\ ~(handler[h].at = "submit" /\ handler[i].at = "submit")

\* One record is active at most; a queued one has a handler, a running one a turn.
RunInv ==
    /\ \A j, k \in Key : Active(run[j]) /\ Active(run[k]) => j = k
    /\ \A k \in Key : run[k] # None /\ run[k].status = "queued" =>
          /\ ~run[k].linked /\ ~run[k].started
          /\ up # "starting"
          /\ up = "serving" => \E h \in Handler : handler[h].key = k
    /\ \A k \in Key : run[k] # None /\ run[k].status = "running" => turn[k] \in Begun

\* What the only handler of a key knows of its record.
Sole(h) == handler[h].key # None /\ handler[h].key \notin doubled
Queued(r) == r # None /\ r.status = "queued"

Knows(h) ==
    LET k == handler[h].key
    IN  /\ handler[h].at = "dispatch" => turn[k] = "none" /\ Queued(run[k])
        /\ handler[h].at = "submit" => Queued(run[k])
        /\ handler[h].at = "link" =>
              IF turn[k] = "ended" THEN task.exists => PendingLink(run[k]) ELSE Queued(run[k])
        /\ handler[h].at = "block" => turn[k] \in {"none", "ended"}

DispatchInv == \A h \in Handler : Sole(h) => Knows(h)

\* A prompt or a turn that goes on is that of the active record; while the
\* process is down or starting there is at most the one of the last process.
Going(k) == k \notin doubled /\ turn[k] \in {"admitted", "live"}
LiveInv ==
    /\ up = "serving" => \A k \in Key : Going(k) => Active(run[k])
    /\ \A j, k \in Key : Going(j) /\ Going(k) => j = k

\* What is over with a key, and which keys can still be claimed.
Spent(k) == run[k] # None \/ turn[k] # "none" \/ \E h \in Handler : handler[h].key = k
Passed(d) == d <= clock /\ (task.exists /\ task.next # None => d < task.next)

OfferInv ==
    /\ \A k \in offered \cap Scheduled :
          /\ k[1] <= task.revision
          /\ task.exists /\ k[1] = task.revision /\ run[k] = None => task.next = k[2]
    /\ \A k \in offered \cap Manual : ~Spent(k)

StartInv ==
    /\ \A k \in Scheduled : Spent(k) => Passed(k[2])
    /\ \A d \in Due : started[d] # 0 => started[d] = 1 /\ Passed(d)
    /\ \A j, k \in Scheduled : Spent(j) /\ Spent(k) /\ j[2] = k[2] => j = k
    /\ \A k \in Scheduled : Spent(k) /\ started[k[2]] # 0 => turn[k] \in Begun

\* An end that was reported has been heard of.
Heard == \A k \in Key : turn[k] = "ended" => ~Active(run[k])
FirstProcess == crashes = 0 => up = "serving" /\ Heard

AutoInv ==
    /\ Shape /\ Ordered(run, settled) /\ HandlerInv /\ RunInv /\ DispatchInv /\ LiveInv
    /\ OfferInv /\ StartInv /\ FirstProcess

-----------------------------------------------------------------------------
(* What the steps do, in terms of single keys and handlers *)

Goes(h, at, k) ==
    /\ handler'[h].at = at /\ handler'[h].key = k
    /\ \A i \in Handler \ {h} : handler'[i] = handler[i]
    /\ handler' = [i \in Handler |-> IF i = h THEN [at |-> at, key |-> k] ELSE handler[i]]

Turned(k, to) == turn'[k] = to /\ \A j \in Key \ {k} : turn'[j] = turn[j]

\* The record of k is pruned: it is of no further interest to anybody.
Dropped(k) ==
    /\ run[k] # None /\ ~Active(run[k]) /\ ~PendingLink(run[k])
    /\ run'[k] = None /\ k \notin offered'

Others(kept) == \A j \in Key \ kept : run'[j] = run[j] \/ Dropped(j)

LEMMA Facts ==
    ASSUME Shape
    PROVE  /\ None \notin Key /\ None \notin Due /\ None \notin RunRecord
           /\ Manual \cap Scheduled = {} /\ Key = Scheduled \cup Manual
           /\ \A k \in Scheduled : k[1] \in 1 .. MaxRevision /\ k[2] \in Due
           /\ Due \subseteq Nat /\ clock \in Nat /\ MaxDue \in Nat
           /\ NextRun \in Due \cup {None}
           /\ NextRun # None => NextRun = clock + 1
BY AutomationsAssumption DEF Shape, Key, Scheduled, Due, NextRun

LEMMA MovesGoes ==
    ASSUME Shape, NEW h \in Handler, NEW at, NEW k, Moves(h, at, k)
    PROVE  Goes(h, at, k)
BY DEF Shape, Moves, Goes

LEMMA AnswersGoes ==
    ASSUME Shape, NEW h \in Handler, Answers(h)
    PROVE  Goes(h, "idle", None)
BY DEF Shape, Answers, Goes, Idle

LEMMA TurnsTurn ==
    ASSUME Shape, NEW k \in Key, NEW to, turn' = [turn EXCEPT ![k] = to]
    PROVE  Turned(k, to)
BY DEF Shape, Turned

\* A save touches no other record than those it writes and those it prunes.
LEMMA SavesIs ==
    ASSUME Shape, NEW rs, NEW order, NEW kept \in SUBSET Key,
           \A k \in Key \ kept : rs[k] = run[k],
           Saves(rs, order, kept)
    PROVE  /\ Others(kept) /\ \A k \in kept : run'[k] = rs[k]
           /\ offered' \subseteq offered \ (kept \cap Manual)
           /\ run' = [k \in Key |-> run'[k]]
<1> DEFINE gone == Excess(rs, order, kept)
<1>1. /\ run' = [k \in Key |-> IF k \in gone THEN None ELSE rs[k]]
      /\ offered' = offered \ (gone \cup (kept \cap Manual))
  BY DEF Saves
<1>2. \A k \in gone : k \in Key \ kept /\ Countable(rs[k])
  BY DEF Excess
<1> HIDE DEF gone
<1>3. Others(kept)
  BY <1>1, <1>2 DEF Others, Dropped, Countable
<1>4. \A k \in kept : run'[k] = rs[k]
  BY <1>1, <1>2
<1> QED BY <1>1, <1>3, <1>4

LEMMA CompletesIs ==
    ASSUME Shape, NEW k \in Key, run[k] # None, NEW status, NEW linked \in BOOLEAN,
           Completes(k, status, linked)
    PROVE  /\ Others({k})
           /\ run'[k].status = status /\ run'[k].linked = linked
           /\ run'[k].started = run[k].started
           /\ status \in ActiveStatus \cup TerminalStatus \cup SkippedStatus =>
                 run' \in [Key -> RunRecord \cup {None}] /\ run'[k] # None
           /\ offered' \subseteq offered \ ({k} \cap Manual)
<1> DEFINE row == [run[k] EXCEPT !.status = status, !.linked = linked]
           rs == [run EXCEPT ![k] = row]
<1>1. run \in [Key -> RunRecord \cup {None}] /\ run[k] \in RunRecord /\ None \notin RunRecord
  BY Facts DEF Shape
<1>2. /\ row.status = status /\ row.linked = linked /\ row.started = run[k].started
      /\ status \in ActiveStatus \cup TerminalStatus \cup SkippedStatus => row \in RunRecord
  BY <1>1 DEF RunRecord
<1>3. Saves(rs, Settles(k), {k})
  BY DEF Completes
<1> HIDE DEF row
<1>4. rs[k] = row /\ \A j \in Key \ {k} : rs[j] = run[j]
  BY <1>1
<1> HIDE DEF rs
<1>5. /\ Others({k}) /\ run'[k] = row /\ offered' \subseteq offered \ ({k} \cap Manual)
      /\ run' = [j \in Key |-> run'[j]]
  BY <1>3, <1>4, SavesIs
<1>6. \A j \in Key \ {k} : run'[j] \in RunRecord \cup {None}
  BY <1>1, <1>5 DEF Others, Dropped
<1> QED BY <1>1, <1>2, <1>5, <1>6

-----------------------------------------------------------------------------
(* What the handlers do *)

\* A handler that is not idle has a key.
LEMMA BusyKey ==
    ASSUME Shape, HandlerInv, NEW h \in Handler, handler[h].at # "idle"
    PROVE  handler[h].key \in Key
BY DEF Shape, HandlerInv

\* A key that is claimed was never claimed before: an occurrence only while it is
\* the next one, and a run-now request once.
LEMMA ClaimFresh ==
    ASSUME Shape, OfferInv, StartInv, NEW k \in Key, k \in offered, run[k] = None,
           task.exists, k \in Scheduled => k[1] = task.revision
    PROVE  /\ ~Spent(k)
           /\ k \in Scheduled => ~Passed(k[2]) /\ started[k[2]] = 0
<1>1. CASE k \in Manual
  BY <1>1, Facts DEF OfferInv
<1>2. CASE k \in Scheduled
  <2>1. task.next = k[2] /\ task.next # None /\ k[2] \in Due /\ k[2] \in Nat
    BY <1>2, Facts DEF OfferInv
  <2>2. ~Passed(k[2])
    BY <2>1 DEF Passed
  <2> QED BY <1>2, <2>1, <2>2 DEF StartInv
<1> QED BY <1>1, <1>2, Facts

LEMMA ClaimIs ==
    ASSUME AutoInv, NEW h \in Handler, NEW k \in Key, Claim(h, k)
    PROVE  /\ up = "serving" /\ task.exists /\ handler[h].key = None /\ run[k] = None
           /\ k \in offered /\ ~Spent(k)
           /\ k \in Scheduled => k[2] <= clock /\ ~Passed(k[2]) /\ started[k[2]] = 0
           /\ doubled' = doubled /\ Turned(k, turn[k])
           /\ Others({k}) /\ run' \in [Key -> RunRecord \cup {None}]
           /\ run'[k] # None /\ ~run'[k].linked /\ ~run'[k].started
           /\ offered' \subseteq offered \ ({k} \cap Manual)
           /\ task' = IF k \in Scheduled THEN [task EXCEPT !.next = NextRun] ELSE task
           /\ \/ /\ run'[k].status = "queued" /\ Goes(h, "dispatch", k)
                 /\ \A j \in Key : ~Active(run[j])
              \/ run'[k].status \in SkippedStatus /\ Goes(h, "idle", None)
           /\ UNCHANGED <<clock, started, up, crashes>>
<1>0. Shape /\ OfferInv /\ StartInv
  BY DEF AutoInv
<1>1. /\ up = "serving" /\ task.exists /\ handler[h] = Idle /\ run[k] = None /\ k \in offered
      /\ k \in Scheduled => k[1] = task.revision /\ k[2] <= clock
      /\ doubled' = IF \E other \in Handler : handler[other].key = k
                    THEN doubled \cup {k} ELSE doubled
      /\ task' = IF k \in Scheduled THEN [task EXCEPT !.next = NextRun] ELSE task
      /\ turn' = [turn EXCEPT ![k] = "none"]
      /\ UNCHANGED <<clock, started, up, crashes>>
  BY DEF Claim, Arrives
<1>2. ~Spent(k) /\ (k \in Scheduled => ~Passed(k[2]) /\ started[k[2]] = 0)
  BY <1>0, <1>1, ClaimFresh
<1>3. doubled' = doubled /\ turn[k] = "none"
  BY <1>1, <1>2 DEF Spent
<1>4. Turned(k, "none") /\ handler[h].key = None
  <2>1. Turned(k, "none")
    BY <1>0, <1>1, TurnsTurn
  <2>2. handler[h].key = None
    BY <1>1 DEF Idle
  <2> QED BY <2>1, <2>2
<1>5. PICK late \in BOOLEAN, capacity \in BOOLEAN :
        LET status == ClaimStatus(k, late, capacity)
            rs == [run EXCEPT ![k] =
                      [status |-> status, linked |-> FALSE, started |-> FALSE]]
        IN  IF status = "queued"
            THEN /\ Saves(rs, settled, {k})
                 /\ Moves(h, "dispatch", k)
            ELSE /\ Saves(rs, Settles(k), {k})
                 /\ Answers(h)
  BY DEF Claim
<1> DEFINE status == ClaimStatus(k, late, capacity)
           row == [status |-> status, linked |-> FALSE, started |-> FALSE]
           rs == [run EXCEPT ![k] = row]
<1>6. /\ status \in {"queued"} \cup SkippedStatus
      /\ status = "queued" => \A j \in Key : ~Active(run[j])
  BY DEF ClaimStatus, SkippedStatus
<1>7. \/ status = "queued" /\ Goes(h, "dispatch", k) /\ Saves(rs, settled, {k})
      \/ status # "queued" /\ Goes(h, "idle", None) /\ Saves(rs, Settles(k), {k})
  BY <1>0, <1>5, MovesGoes, AnswersGoes
<1> HIDE DEF status
<1>8. row \in RunRecord /\ row.status = status /\ ~row.linked /\ ~row.started /\ row # None
  <2>1. row \in RunRecord
    BY <1>6 DEF RunRecord, ActiveStatus
  <2>2. row.status = status /\ ~row.linked /\ ~row.started
    OBVIOUS
  <2>3. None \notin RunRecord
    BY <1>0, Facts
  <2> HIDE DEF row
  <2> QED BY <2>1, <2>2, <2>3
<1> HIDE DEF row
<1>9. run \in [Key -> RunRecord \cup {None}]
  BY <1>0 DEF Shape
<1>10. rs[k] = row /\ \A j \in Key \ {k} : rs[j] = run[j]
  BY <1>9
<1> HIDE DEF rs
<1>11. /\ Others({k}) /\ run'[k] = row /\ offered' \subseteq offered \ ({k} \cap Manual)
       /\ run' = [j \in Key |-> run'[j]]
  BY <1>0, <1>7, <1>10, SavesIs
<1>12. run' \in [Key -> RunRecord \cup {None}]
  <2>1. \A j \in Key \ {k} : run'[j] \in RunRecord \cup {None}
    BY <1>9, <1>11 DEF Others, Dropped
  <2> QED BY <1>8, <1>11, <2>1
<1> QED BY <1>1, <1>2, <1>3, <1>4, <1>6, <1>7, <1>8, <1>11, <1>12

LEMMA ClaimAgainIs ==
    ASSUME AutoInv, NEW h \in Handler, NEW k \in Key, ClaimAgain(h, k)
    PROVE  /\ up = "serving" /\ handler[h].key = None /\ k \in doubled'
           /\ run[k] # None /\ run[k].status = "queued" /\ k \notin Manual
           /\ Goes(h, "dispatch", k) /\ doubled' = doubled \cup {k}
           /\ UNCHANGED <<clock, task, run, settled, offered, turn, started, up, crashes>>
<1>0. Shape /\ RunInv /\ OfferInv
  BY DEF AutoInv
<1>1. /\ up = "serving" /\ handler[h] = Idle /\ run[k] # None /\ run[k].status = "queued"
      /\ k \in offered
      /\ doubled' = IF \E other \in Handler : handler[other].key = k
                    THEN doubled \cup {k} ELSE doubled
      /\ Moves(h, "dispatch", k)
      /\ UNCHANGED <<clock, task, run, settled, offered, turn, started, up, crashes>>
  BY DEF ClaimAgain, Arrives
<1>2. \E other \in Handler : handler[other].key = k
  BY <1>0, <1>1 DEF RunInv
<1>3. k \notin Manual
  BY <1>0, <1>1 DEF OfferInv, Spent
<1> QED BY <1>0, <1>1, <1>2, <1>3, MovesGoes DEF Idle

LEMMA LinkIs ==
    ASSUME AutoInv, NEW h \in Handler, Link(h), NEW k, k = handler[h].key
    PROVE  /\ handler[h].at = "link" /\ k \in Key
           /\ Others({k}) /\ run' \in [Key -> RunRecord \cup {None}]
           /\ offered' \subseteq offered
           /\ \/ /\ Goes(h, "idle", None) /\ run[k] # None /\ run[k].status = "queued"
                 /\ run'[k] # None /\ run'[k].status = "running"
              \/ /\ Goes(h, "idle", None) /\ run[k] # None /\ run[k].status \in TerminalStatus
                 /\ run'[k] # None /\ run'[k].status = run[k].status
              \/ /\ Goes(h, "block", k) /\ run' = run
                 /\ run[k] # None => run[k].status # "queued" /\ ~PendingLink(run[k])
           /\ UNCHANGED <<clock, task, turn, started, up, crashes, doubled>>
<1>0. Shape /\ HandlerInv
  BY DEF AutoInv
<1>1. /\ handler[h].at = "link" /\ k \in Key
      /\ UNCHANGED <<clock, task, turn, started, up, crashes, doubled>>
  BY <1>0, BusyKey DEF Link
<1>2. run \in [Key -> RunRecord \cup {None}] /\ None \notin RunRecord
  BY <1>0, Facts DEF Shape
<1>3. CASE /\ run[k] # None /\ run[k].status = "queued"
           /\ run' = [run EXCEPT ![k] = [status |-> "running", linked |-> TRUE, started |-> TRUE]]
           /\ Answers(h) /\ UNCHANGED <<settled, offered>>
  <2> DEFINE row == [status |-> "running", linked |-> TRUE, started |-> TRUE]
  <2>1. row \in RunRecord /\ row.status = "running"
    BY DEF RunRecord, ActiveStatus
  <2> HIDE DEF row
  <2>2. run' \in [Key -> RunRecord \cup {None}] /\ run'[k] = row /\ run'[k] # None
    BY <1>1, <1>2, <1>3, <2>1 DEF row
  <2>3. Others({k})
    BY <1>1, <1>2, <1>3 DEF Others
  <2>4. Goes(h, "idle", None)
    BY <1>0, <1>3, AnswersGoes
  <2> QED BY <1>1, <1>3, <2>1, <2>2, <2>3, <2>4
<1>4. CASE PendingLink(run[k]) /\ Saves([run EXCEPT ![k].started = TRUE], settled, {k}) /\ Answers(h)
  <2> DEFINE row == [run[k] EXCEPT !.started = TRUE]
             rs == [run EXCEPT ![k] = row]
  <2>1. run[k] # None /\ run[k] \in RunRecord /\ run[k].status \in TerminalStatus
    BY <1>1, <1>2, <1>4 DEF PendingLink
  <2>2. row \in RunRecord /\ row.status = run[k].status
    BY <2>1 DEF RunRecord
  <2>3. rs = [run EXCEPT ![k].started = TRUE]
    OBVIOUS
  <2> HIDE DEF row
  <2>4. rs[k] = row /\ \A j \in Key \ {k} : rs[j] = run[j]
    BY <1>1, <1>2
  <2> HIDE DEF rs
  <2>5. /\ Others({k}) /\ run'[k] = row /\ offered' \subseteq offered
        /\ run' = [j \in Key |-> run'[j]]
    <3>1. Saves(rs, settled, {k}) /\ {k} \in SUBSET Key
      BY <1>1, <1>4, <2>3
    <3> QED BY <1>0, <2>4, <3>1, SavesIs
  <2>6. run' \in [Key -> RunRecord \cup {None}]
    <3>1. \A j \in Key \ {k} : run'[j] \in RunRecord \cup {None}
      BY <1>2, <2>5 DEF Others, Dropped
    <3> QED BY <2>2, <2>5, <3>1
  <2>7. Goes(h, "idle", None)
    BY <1>0, <1>4, AnswersGoes
  <2> QED BY <1>1, <1>2, <2>1, <2>2, <2>5, <2>6, <2>7
<1>5. CASE /\ run[k] # None /\ run[k].status \in TerminalStatus
           /\ Answers(h) /\ UNCHANGED <<run, settled, offered>>
  <2>1. Others({k}) /\ Goes(h, "idle", None)
    BY <1>0, <1>5, AnswersGoes DEF Others
  <2> QED BY <1>1, <1>2, <1>5, <2>1
<1>6. CASE /\ run[k] # None => \/ run[k].status = "running"
                               \/ run[k].status # "queued" /\ ~run[k].linked
           /\ Moves(h, "block", k) /\ UNCHANGED <<run, settled, offered>>
  <2>1. Others({k}) /\ Goes(h, "block", k)
    BY <1>0, <1>6, MovesGoes DEF Others
  <2>2. run[k] # None => run[k].status # "queued" /\ ~PendingLink(run[k])
    BY <1>6 DEF PendingLink, TerminalStatus
  <2> QED BY <1>1, <1>2, <1>6, <2>1, <2>2
<1> QED BY <1>3, <1>4, <1>5, <1>6 DEF Link

LEMMA BlockIs ==
    ASSUME AutoInv, NEW h \in Handler, Block(h), NEW k, k = handler[h].key
    PROVE  /\ handler[h].at = "block" /\ k \in Key /\ Goes(h, "idle", None)
           /\ Others({k}) /\ run' \in [Key -> RunRecord \cup {None}]
           /\ offered' \subseteq offered
           /\ IF Active(run[k]) THEN run'[k] # None /\ run'[k].status = "blocked"
                                ELSE run' = run
           /\ UNCHANGED <<clock, task, turn, started, up, crashes, doubled>>
<1>0. Shape /\ HandlerInv
  BY DEF AutoInv
<1>1. /\ handler[h].at = "block" /\ k \in Key /\ Answers(h)
      /\ UNCHANGED <<clock, task, turn, started, up, crashes, doubled>>
  BY <1>0, BusyKey DEF Block
<1>2. Goes(h, "idle", None)
  BY <1>0, <1>1, AnswersGoes
<1>3. CASE Active(run[k])
  <2>1. Completes(k, "blocked", run[k].linked) /\ run[k] # None
    BY <1>3 DEF Block, Active
  <2>2. run[k].linked \in BOOLEAN
    BY <1>0, <1>1, <2>1 DEF Shape, RunRecord
  <2>3. "blocked" \in ActiveStatus \cup TerminalStatus \cup SkippedStatus
    BY DEF TerminalStatus
  <2>4. /\ Others({k}) /\ run'[k].status = "blocked" /\ run'[k] # None
        /\ run' \in [Key -> RunRecord \cup {None}] /\ offered' \subseteq offered
    <3> DEFINE linked == run[k].linked
    <3>1. Completes(k, "blocked", linked) /\ linked \in BOOLEAN
      BY <2>1, <2>2
    <3> HIDE DEF linked
    <3>2. \A status : Completes(k, status, linked) /\ status \in ActiveStatus \cup TerminalStatus \cup SkippedStatus =>
            /\ Others({k}) /\ run'[k].status = status /\ run'[k] # None
            /\ run' \in [Key -> RunRecord \cup {None}] /\ offered' \subseteq offered
      BY <1>0, <1>1, <2>1, <3>1, CompletesIs
    <3> QED BY <2>3, <3>1, <3>2
  <2> QED BY <1>1, <1>2, <1>3, <2>4
<1>4. CASE ~Active(run[k])
  BY <1>0, <1>1, <1>2, <1>4 DEF Block, Others, Shape
<1> QED BY <1>3, <1>4

LEMMA AdmitIs ==
    ASSUME AutoInv, NEW h \in Handler, Admit(h), NEW k, k = handler[h].key
    PROVE  /\ handler[h].at = "dispatch" /\ k \in Key
           /\ \/ turn[k] = "none" /\ Turned(k, "admitted") /\ Goes(h, "submit", k)
              \/ turn[k] = "admitted" /\ turn' = turn /\ Goes(h, "block", k)
              \/ turn[k] \in {"live", "ended"} /\ turn' = turn /\ Goes(h, "link", k)
           /\ turn' \in [Key -> Turns]
           /\ UNCHANGED <<clock, task, run, settled, offered, started, up, crashes, doubled>>
<1>0. Shape /\ HandlerInv
  BY DEF AutoInv
<1>1. /\ handler[h].at = "dispatch" /\ k \in Key
      /\ UNCHANGED <<clock, task, run, settled, offered, started, up, crashes, doubled>>
  BY <1>0, BusyKey DEF Admit
<1>2. CASE turn[k] = "none" /\ turn' = [turn EXCEPT ![k] = "admitted"] /\ Moves(h, "submit", k)
  <2>1. Turned(k, "admitted") /\ turn' \in [Key -> Turns]
    BY <1>0, <1>1, <1>2, TurnsTurn DEF Shape, Turns
  <2>2. Goes(h, "submit", k)
    BY <1>0, <1>2, MovesGoes
  <2> QED BY <1>1, <1>2, <2>1, <2>2
<1>3. CASE turn[k] = "admitted" /\ turn' = turn /\ Moves(h, "block", k)
  BY <1>0, <1>1, <1>3, MovesGoes DEF Shape
<1>4. CASE turn[k] \in {"live", "ended"} /\ turn' = turn /\ Moves(h, "link", k)
  BY <1>0, <1>1, <1>4, MovesGoes DEF Shape
<1> QED BY <1>2, <1>3, <1>4 DEF Admit

LEMMA SubmitIs ==
    ASSUME AutoInv, NEW h \in Handler, Submit(h), NEW k, k = handler[h].key
    PROVE  /\ handler[h].at = "submit" /\ k \in Key
           /\ Turned(k, "live") /\ turn' \in [Key -> Turns] /\ Goes(h, "link", k)
           /\ started' \in [Due -> Nat]
           /\ IF k \in Scheduled
              THEN /\ k[2] \in Due /\ started'[k[2]] = started[k[2]] + 1
                   /\ \A d \in Due \ {k[2]} : started'[d] = started[d]
              ELSE started' = started
           /\ UNCHANGED <<clock, task, run, settled, offered, up, crashes, doubled>>
<1>0. Shape /\ HandlerInv
  BY DEF AutoInv
<1>1. /\ handler[h].at = "submit" /\ k \in Key
      /\ turn' = [turn EXCEPT ![k] = "live"] /\ Moves(h, "link", k)
      /\ started' = IF k \in Scheduled THEN [started EXCEPT ![k[2]] = @ + 1] ELSE started
      /\ UNCHANGED <<clock, task, run, settled, offered, up, crashes, doubled>>
  BY <1>0, BusyKey DEF Submit
<1>2. Turned(k, "live")
  BY <1>0, <1>1, TurnsTurn
<1>3. turn' \in [Key -> Turns]
  BY <1>0, <1>1 DEF Shape, Turns
<1>4. Goes(h, "link", k)
  BY <1>0, <1>1, MovesGoes
<1>5. started \in [Due -> Nat]
  BY <1>0 DEF Shape
<1>6. CASE k \in Scheduled
  <2>1. k[2] \in Due
    BY <1>0, <1>6, Facts
  <2> DEFINE d == k[2]
  <2>2. started' = [started EXCEPT ![d] = @ + 1] /\ d \in Due
    BY <1>1, <1>6, <2>1
  <2> HIDE DEF d
  <2>3. /\ started' \in [Due -> Nat] /\ started'[d] = started[d] + 1
        /\ \A e \in Due \ {d} : started'[e] = started[e]
    BY <1>5, <2>2
  <2> QED BY <1>1, <1>2, <1>3, <1>4, <1>6, <2>1, <2>3 DEF d
<1>7. CASE k \notin Scheduled
  BY <1>1, <1>2, <1>3, <1>4, <1>5, <1>7
<1> QED BY <1>6, <1>7

LEMMA RefuseIs ==
    ASSUME AutoInv, NEW h \in Handler, Refuse(h), NEW k, k = handler[h].key
    PROVE  /\ handler[h].at \in {"dispatch", "submit"} /\ k \in Key /\ Goes(h, "block", k)
           /\ IF handler[h].at = "submit" THEN Turned(k, "none") ELSE turn' = turn
           /\ turn' \in [Key -> Turns]
           /\ UNCHANGED <<clock, task, run, settled, offered, started, up, crashes, doubled>>
<1>0. Shape /\ HandlerInv
  BY DEF AutoInv
<1>1. /\ handler[h].at \in {"dispatch", "submit"} /\ k \in Key /\ Moves(h, "block", k)
      /\ turn' = IF handler[h].at = "submit" THEN [turn EXCEPT ![k] = "none"] ELSE turn
      /\ UNCHANGED <<clock, task, run, settled, offered, started, up, crashes, doubled>>
  BY <1>0, BusyKey DEF Refuse
<1>2. Goes(h, "block", k)
  BY <1>0, <1>1, MovesGoes
<1>3. CASE handler[h].at = "submit"
  <2>1. Turned(k, "none")
    BY <1>0, <1>1, <1>3, TurnsTurn
  <2>2. turn' \in [Key -> Turns]
    BY <1>0, <1>1, <1>3 DEF Shape, Turns
  <2> QED BY <1>1, <1>2, <1>3, <2>1, <2>2
<1>4. CASE handler[h].at # "submit"
  BY <1>0, <1>1, <1>2, <1>4 DEF Shape
<1> QED BY <1>3, <1>4

-----------------------------------------------------------------------------
(* What the turns and the process do *)

LEMMA TurnEndsIs ==
    ASSUME AutoInv, NEW k \in Key, TurnEnds(k)
    PROVE  /\ up # "down" /\ turn[k] = "live" /\ Turned(k, "reporting") /\ turn' \in [Key -> Turns]
           /\ UNCHANGED <<clock, task, run, settled, offered, handler, started,
                          up, crashes, doubled>>
<1>0. Shape
  BY DEF AutoInv
<1>1. /\ turn' = [turn EXCEPT ![k] = "reporting"] /\ up # "down" /\ turn[k] = "live"
      /\ UNCHANGED <<clock, task, run, settled, offered, handler, started,
                     up, crashes, doubled>>
  BY DEF TurnEnds
<1>2. Turned(k, "reporting")
  BY <1>0, <1>1, TurnsTurn
<1>3. turn' \in [Key -> Turns]
  BY <1>0, <1>1 DEF Shape, Turns
<1> QED BY <1>1, <1>2, <1>3

LEMMA ReportIs ==
    ASSUME AutoInv, NEW k \in Key, Report(k)
    PROVE  /\ turn[k] = "reporting" /\ Turned(k, "ended") /\ turn' \in [Key -> Turns]
           /\ Others({k}) /\ run' \in [Key -> RunRecord \cup {None}] /\ offered' \subseteq offered
           /\ IF Active(run[k])
              THEN /\ run'[k] # None /\ run'[k].status \in TerminalStatus
                   /\ run'[k].linked /\ run'[k].started = run[k].started
              ELSE run' = run
           /\ UNCHANGED <<clock, task, handler, started, up, crashes, doubled>>
<1>0. Shape
  BY DEF AutoInv
<1>1. /\ turn[k] = "reporting" /\ turn' = [turn EXCEPT ![k] = "ended"]
      /\ UNCHANGED <<clock, task, handler, started, up, crashes, doubled>>
  BY DEF Report
<1>2. Turned(k, "ended")
  BY <1>0, <1>1, TurnsTurn
<1>3. turn' \in [Key -> Turns]
  BY <1>0, <1>1 DEF Shape, Turns
<1>4. CASE Active(run[k])
  <2>1. PICK status \in IF up = "starting" THEN {"interrupted_restart"} ELSE Outcome :
            Completes(k, status, TRUE)
    BY <1>4 DEF Report
  <2>2. status \in TerminalStatus /\ status \in ActiveStatus \cup TerminalStatus \cup SkippedStatus
    BY <2>1, AutomationsAssumption DEF TerminalStatus
  <2>3. run[k] # None
    BY <1>4 DEF Active
  <2>4. \A linked \in BOOLEAN : Completes(k, status, linked) =>
          /\ Others({k}) /\ run'[k].status = status /\ run'[k].linked = linked
          /\ run'[k].started = run[k].started /\ run'[k] # None
          /\ run' \in [Key -> RunRecord \cup {None}] /\ offered' \subseteq offered
    BY <1>0, <2>2, <2>3, CompletesIs
  <2> QED BY <1>1, <1>2, <1>3, <1>4, <2>1, <2>2, <2>4
<1>5. CASE ~Active(run[k])
  BY <1>0, <1>1, <1>2, <1>3, <1>5 DEF Report, Others, Shape
<1> QED BY <1>4, <1>5

LEMMA CrashIs ==
    ASSUME AutoInv, Crash
    PROVE  /\ up' = "down" /\ crashes' = crashes + 1 /\ crashes' \in 0 .. MaxCrashes
           /\ handler' \in [Handler -> [at : Points, key : Key \cup {None}]]
           /\ \A h \in Handler : handler'[h].at = "idle" /\ handler'[h].key = None
           /\ turn' \in [Key -> Turns]
           /\ \A k \in Key : turn'[k] = CASE turn[k] = "admitted" -> "none"
                                          [] turn[k] = "reporting" -> "ended"
                                          [] OTHER -> turn[k]
           /\ UNCHANGED <<clock, task, run, settled, offered, started, doubled>>
<1>1. /\ up' = "down" /\ crashes' = crashes + 1 /\ crashes < MaxCrashes
      /\ handler' = [h \in Handler |-> Idle]
      /\ turn' = [k \in Key |-> CASE turn[k] = "admitted" -> "none"
                                  [] turn[k] = "reporting" -> "ended"
                                  [] OTHER -> turn[k]]
      /\ UNCHANGED <<clock, task, run, settled, offered, started, doubled>>
  BY DEF Crash
<1>2. turn \in [Key -> Turns] /\ crashes \in 0 .. MaxCrashes
  BY DEF AutoInv, Shape
<1>3. crashes' \in 0 .. MaxCrashes
  BY <1>1, <1>2, AutomationsAssumption
<1>4. turn' \in [Key -> Turns]
  BY <1>1, <1>2 DEF Turns
<1>5. /\ handler' \in [Handler -> [at : Points, key : Key \cup {None}]]
      /\ \A h \in Handler : handler'[h].at = "idle" /\ handler'[h].key = None
  BY <1>1 DEF Idle, Points
<1> QED BY <1>1, <1>3, <1>4, <1>5

\* What a restart makes of a record.
After(k) ==
    IF run[k] = None THEN run'[k] = None
    ELSE /\ run'[k] # None
         /\ run'[k].status = IF run[k].status = "queued" THEN "interrupted_restart"
                                                         ELSE run[k].status

LEMMA RestartIs ==
    ASSUME AutoInv, Restart
    PROVE  /\ up = "down" /\ up' = "starting"
           /\ run' \in [Key -> RunRecord \cup {None}]
           /\ \A k \in Key : After(k) \/ Dropped(k)
           /\ offered' \subseteq offered
           /\ UNCHANGED <<clock, task, handler, turn, started, crashes, doubled>>
<1> DEFINE rs == [k \in Key |-> Recovered(k)]
           changed == {k \in Key : rs[k] # run[k]}
           order == settled \cup (Finished(run) \X {k \in changed : Active(run[k])})
<1>0. Shape /\ run \in [Key -> RunRecord \cup {None}] /\ None \notin RunRecord
  <2>1. Shape
    BY DEF AutoInv
  <2>2. run \in [Key -> RunRecord \cup {None}]
    BY <2>1 DEF Shape
  <2> QED BY <2>1, <2>2, Facts
<1>1. /\ up = "down" /\ up' = "starting"
      /\ IF changed = {} THEN UNCHANGED <<run, settled, offered>>
         ELSE Saves(rs, order, changed)
      /\ UNCHANGED <<clock, task, handler, turn, started, crashes, doubled>>
  BY DEF Restart
<1>2. ASSUME NEW k \in Key
      PROVE  IF run[k] = None THEN rs[k] = None
             ELSE /\ rs[k] \in RunRecord
                  /\ rs[k].status = IF run[k].status = "queued" THEN "interrupted_restart"
                                                                ELSE run[k].status
  <2>1. rs[k] = Recovered(k)
    OBVIOUS
  <2>2. CASE run[k] = None
    BY <2>1, <2>2 DEF Recovered, PendingLink
  <2>3. CASE PendingLink(run[k])
    <3> DEFINE row == [run[k] EXCEPT !.started = TRUE]
    <3>1. run[k] # None /\ run[k] \in RunRecord /\ run[k].status # "queued"
      BY <1>0, <2>3 DEF PendingLink, TerminalStatus
    <3>2. row \in RunRecord /\ row.status = run[k].status
      BY <3>1 DEF RunRecord
    <3>3. rs[k] = row
      BY <2>1, <2>3, <3>1 DEF Recovered
    <3> HIDE DEF row, rs
    <3> QED BY <3>1, <3>2, <3>3
  <2>4. CASE ~PendingLink(run[k]) /\ run[k] # None /\ run[k].status = "queued"
    <3> DEFINE row == [run[k] EXCEPT !.status = "interrupted_restart"]
    <3>1. run[k] \in RunRecord
      BY <1>0, <2>4
    <3>2. row \in RunRecord /\ row.status = "interrupted_restart"
      BY <3>1 DEF RunRecord, TerminalStatus
    <3>3. rs[k] = row
      BY <2>1, <2>4 DEF Recovered
    <3> HIDE DEF row, rs
    <3> QED BY <2>4, <3>2, <3>3
  <2>5. CASE ~PendingLink(run[k]) /\ run[k] # None /\ run[k].status # "queued"
    <3>1. rs[k] = run[k] /\ run[k] \in RunRecord
      BY <1>0, <2>1, <2>5 DEF Recovered
    <3> HIDE DEF rs
    <3> QED BY <2>5, <3>1
  <2> QED BY <2>2, <2>3, <2>4, <2>5
<1>3. changed \in SUBSET Key /\ \A k \in Key \ changed : rs[k] = run[k]
  OBVIOUS
<1> HIDE DEF rs, changed, order
<1>4. CASE changed = {}
  <2>1. run' = run /\ offered' = offered /\ \A k \in Key : rs[k] = run[k]
    BY <1>1, <1>3, <1>4
  <2>2. \A k \in Key : After(k)
    BY <1>0, <1>2, <2>1 DEF After
  <2> QED BY <1>0, <1>1, <2>1, <2>2
<1>5. CASE changed # {}
  <2>1. /\ Others(changed) /\ \A k \in changed : run'[k] = rs[k]
        /\ offered' \subseteq offered /\ run' = [k \in Key |-> run'[k]]
    BY <1>0, <1>1, <1>3, <1>5, SavesIs
  <2>2. \A k \in Key : run'[k] = rs[k] \/ Dropped(k)
    BY <1>3, <2>1 DEF Others
  <2>3. \A k \in Key : After(k) \/ Dropped(k)
    BY <1>0, <1>2, <2>2 DEF After
  <2>4. \A k \in Key : run'[k] \in RunRecord \cup {None}
    BY <1>2, <2>2 DEF Dropped
  <2> QED BY <1>1, <2>1, <2>3, <2>4
<1> QED BY <1>4, <1>5

-----------------------------------------------------------------------------
(* The retention order *)

LEMMA SavesOrder ==
    ASSUME NEW rs, NEW order, NEW kept, Ordered(rs, order), Saves(rs, order, kept)
    PROVE  Ordered(run', settled')
<1> DEFINE gone == Excess(rs, order, kept)
<1>1. /\ run' = [k \in Key |-> IF k \in gone THEN None ELSE rs[k]]
      /\ settled' = {p \in order : p[1] \notin gone /\ p[2] \notin gone}
  BY DEF Saves
<1> HIDE DEF gone
<1>2. Finished(run') = Finished(rs) \ gone
  BY <1>1 DEF Finished, Active
<1> DEFINE F == Finished(rs)
           G == Finished(run')
<1>3. G \subseteq F /\ \A k \in G : k \notin gone
  BY <1>2
<1>4. \A k \in F : k \notin gone => k \in G
  BY <1>2
<1>5. /\ order \subseteq F \X F
      /\ \A j, k \in F : (<<j, k>> \in order) <=> (j # k /\ <<k, j>> \notin order)
      /\ \A i, j, k \in F : <<i, j>> \in order /\ <<j, k>> \in order => <<i, k>> \in order
  BY DEF Ordered
<1> HIDE DEF F, G
<1>6. settled' \subseteq G \X G
  BY <1>1, <1>4, <1>5
<1>7. \A j, k \in G : <<j, k>> \in settled' <=> <<j, k>> \in order
  BY <1>1, <1>3
<1>8. \A j, k \in G : (<<j, k>> \in settled') <=> (j # k /\ <<k, j>> \notin settled')
  BY <1>3, <1>5, <1>7
<1>9. \A i, j, k \in G : <<i, j>> \in settled' /\ <<j, k>> \in settled' => <<i, k>> \in settled'
  BY <1>3, <1>5, <1>7
<1> QED BY <1>6, <1>8, <1>9 DEF Ordered, G

\* The record that finishes is the last.
LEMMA FinishOrder ==
    ASSUME Ordered(run, settled), NEW rs, NEW over,
           \A j, k \in over : j = k, over \cap Finished(run) = {},
           Finished(rs) = Finished(run) \cup over
    PROVE  Ordered(rs, settled \cup (Finished(run) \X over))
<1> DEFINE F == Finished(run)
           G == Finished(rs)
           order == settled \cup (F \X over)
<1>1. /\ settled \subseteq F \X F
      /\ \A j, k \in F : (<<j, k>> \in settled) <=> (j # k /\ <<k, j>> \notin settled)
      /\ \A i, j, k \in F : <<i, j>> \in settled /\ <<j, k>> \in settled => <<i, k>> \in settled
  BY DEF Ordered
<1>2. G = F \cup over /\ over \cap F = {} /\ \A j, k \in over : j = k
  OBVIOUS
<1> HIDE DEF F, G
<1>3. \A j, k : <<j, k>> \in order <=> <<j, k>> \in settled \/ (j \in F /\ k \in over)
  OBVIOUS
<1>4. \A j, k : <<j, k>> \in settled => j \in F /\ k \in F
  BY <1>1
<1>5. order \subseteq G \X G
  BY <1>1, <1>2
<1> HIDE DEF order
<1>6. ASSUME NEW j \in G, NEW k \in G
      PROVE  (<<j, k>> \in order) <=> (j # k /\ <<k, j>> \notin order)
  <2>1. /\ <<j, k>> \in order <=> <<j, k>> \in settled \/ (j \in F /\ k \in over)
        /\ <<k, j>> \in order <=> <<k, j>> \in settled \/ (k \in F /\ j \in over)
    BY <1>3
  <2>2. /\ <<j, k>> \in settled => j \in F /\ k \in F
        /\ <<k, j>> \in settled => j \in F /\ k \in F
    BY <1>4
  <2>3. CASE j \in F /\ k \in F
    BY <1>1, <1>2, <2>1, <2>3
  <2>4. CASE ~(j \in F /\ k \in F)
    BY <1>2, <2>1, <2>2, <2>4
  <2> QED BY <2>3, <2>4
<1>7. \A i, j, k \in G : <<i, j>> \in order /\ <<j, k>> \in order => <<i, k>> \in order
  BY <1>1, <1>2, <1>3, <1>4
<1> QED BY <1>5, <1>6, <1>7 DEF Ordered, order, F, G

\* A write that finishes no record changes the order of none.
LEMMA SameOrder ==
    ASSUME NEW rs, NEW qs, NEW order, Ordered(rs, order), Finished(qs) = Finished(rs)
    PROVE  Ordered(qs, order)
BY DEF Ordered

LEMMA CompletesOrder ==
    ASSUME Shape, Ordered(run, settled), NEW k \in Key, Active(run[k]),
           NEW status \in TerminalStatus, NEW linked \in BOOLEAN, Completes(k, status, linked)
    PROVE  Ordered(run', settled')
<1> DEFINE row == [run[k] EXCEPT !.status = status, !.linked = linked]
           rs == [run EXCEPT ![k] = row]
<1>1. run \in [Key -> RunRecord \cup {None}] /\ run[k] \in RunRecord /\ None \notin RunRecord
  BY Facts DEF Shape, Active
<1>2. row \in RunRecord /\ row.status = status
  BY <1>1 DEF RunRecord
<1>3. Saves(rs, Settles(k), {k})
  BY DEF Completes
<1> HIDE DEF row
<1>4. rs[k] = row /\ \A j \in Key \ {k} : rs[j] = run[j]
  BY <1>1
<1> HIDE DEF rs
<1>5. rs[k] # None /\ ~Active(rs[k])
  BY <1>1, <1>2, <1>4 DEF Active, ActiveStatus, TerminalStatus
<1>6. Finished(rs) = Finished(run) \cup {k} /\ {k} \cap Finished(run) = {}
  BY <1>4, <1>5 DEF Finished
<1>7. Ordered(rs, settled \cup (Finished(run) \X {k}))
  BY <1>6, FinishOrder
<1> QED BY <1>3, <1>7, SavesOrder DEF Settles

LEMMA OrderNext ==
    ASSUME AutoInv, [Next]_vars
    PROVE  Ordered(run', settled')
<1>0. Shape /\ Ordered(run, settled) /\ RunInv /\ HandlerInv
  BY DEF AutoInv
<1>1. run \in [Key -> RunRecord \cup {None}] /\ None \notin RunRecord
  BY <1>0, Facts DEF Shape
<1>2. CASE UNCHANGED <<run, settled>>
  BY <1>0, <1>2 DEF Ordered
<1>3. CASE Delete
  <2>1. run' = [k \in Key |-> None] /\ settled' = {}
    BY <1>3 DEF Delete
  <2>2. Finished(run') = {}
    BY <2>1 DEF Finished
  <2> QED BY <2>1, <2>2 DEF Ordered
<1>4. ASSUME NEW h \in Handler, NEW k \in Key, Claim(h, k) PROVE Ordered(run', settled')
  <2>1. PICK late \in BOOLEAN, capacity \in BOOLEAN :
          LET status == ClaimStatus(k, late, capacity)
              rs == [run EXCEPT ![k] =
                        [status |-> status, linked |-> FALSE, started |-> FALSE]]
          IN  IF status = "queued"
              THEN /\ Saves(rs, settled, {k})
                   /\ Moves(h, "dispatch", k)
              ELSE /\ Saves(rs, Settles(k), {k})
                   /\ Answers(h)
    BY <1>4 DEF Claim
  <2> DEFINE status == ClaimStatus(k, late, capacity)
             row == [status |-> status, linked |-> FALSE, started |-> FALSE]
             rs == [run EXCEPT ![k] = row]
  <2>2. status \in {"queued"} \cup SkippedStatus
    BY DEF ClaimStatus, SkippedStatus
  <2>3. \/ status = "queued" /\ Saves(rs, settled, {k})
        \/ status # "queued" /\ Saves(rs, Settles(k), {k})
    BY <2>1
  <2> HIDE DEF status
  <2>4. row \in RunRecord /\ row.status = status
    BY <2>2 DEF RunRecord, ActiveStatus
  <2> HIDE DEF row
  <2>5. rs[k] = row /\ \A j \in Key \ {k} : rs[j] = run[j]
    BY <1>1
  <2> HIDE DEF rs
  <2>6. run[k] = None /\ rs[k] # None /\ (Active(rs[k]) <=> status = "queued")
    BY <1>1, <1>4, <2>2, <2>4, <2>5 DEF Claim, Active, ActiveStatus, SkippedStatus
  <2>7. CASE status = "queued"
    <3>1. Finished(rs) = Finished(run)
      BY <2>5, <2>6, <2>7 DEF Finished
    <3>2. Ordered(rs, settled)
      BY <1>0, <3>1, SameOrder
    <3> QED BY <2>3, <2>7, <3>2, SavesOrder
  <2>8. CASE status # "queued"
    <3>1. Finished(rs) = Finished(run) \cup {k} /\ {k} \cap Finished(run) = {}
      BY <2>5, <2>6, <2>8 DEF Finished
    <3>2. Ordered(rs, settled \cup (Finished(run) \X {k}))
      BY <1>0, <3>1, FinishOrder
    <3> QED BY <2>3, <2>8, <3>2, SavesOrder DEF Settles
  <2> QED BY <2>7, <2>8
<1>5. ASSUME NEW h \in Handler, Link(h) PROVE Ordered(run', settled')
  <2> DEFINE k == handler[h].key
  <2>1. k \in Key
    BY <1>0, <1>5, BusyKey DEF Link
  <2>2. \/ /\ run[k] # None /\ run[k].status = "queued"
           /\ run' = [run EXCEPT ![k] =
                         [status |-> "running", linked |-> TRUE, started |-> TRUE]]
           /\ settled' = settled
        \/ /\ PendingLink(run[k])
           /\ Saves([run EXCEPT ![k].started = TRUE], settled, {k})
        \/ UNCHANGED <<run, settled>>
    BY <1>5 DEF Link
  <2> HIDE DEF k
  <2>3. CASE /\ run[k] # None /\ run[k].status = "queued"
             /\ run' = [run EXCEPT ![k] =
                           [status |-> "running", linked |-> TRUE, started |-> TRUE]]
             /\ settled' = settled
    <3> DEFINE row == [status |-> "running", linked |-> TRUE, started |-> TRUE]
    <3>1. row.status = "running"
      OBVIOUS
    <3> HIDE DEF row
    <3>2. run'[k] = row /\ \A j \in Key \ {k} : run'[j] = run[j]
      BY <1>1, <2>1, <2>3 DEF row
    <3>3. Active(run[k]) /\ (Active(run'[k]) \/ run'[k] = None)
      BY <2>3, <3>1, <3>2 DEF Active, ActiveStatus
    <3>4. Finished(run') = Finished(run)
      BY <3>2, <3>3 DEF Finished
    <3> QED BY <1>0, <2>3, <3>4, SameOrder
  <2>4. CASE PendingLink(run[k]) /\ Saves([run EXCEPT ![k].started = TRUE], settled, {k})
    <3> DEFINE row == [run[k] EXCEPT !.started = TRUE]
               rs == [run EXCEPT ![k] = row]
    <3>1. run[k] # None /\ run[k] \in RunRecord /\ run[k].status \in TerminalStatus
      BY <1>1, <2>1, <2>4 DEF PendingLink
    <3>2. row \in RunRecord /\ row.status = run[k].status
      BY <3>1 DEF RunRecord
    <3>3. Saves(rs, settled, {k})
      BY <2>4
    <3> HIDE DEF row
    <3>4. rs[k] = row /\ \A j \in Key \ {k} : rs[j] = run[j]
      BY <1>1, <2>1
    <3> HIDE DEF rs
    <3>5. /\ rs[k] # None /\ ~Active(rs[k])
          /\ run[k] # None /\ ~Active(run[k])
      BY <1>1, <3>1, <3>2, <3>4 DEF Active, ActiveStatus, TerminalStatus
    <3>6. Finished(rs) = Finished(run)
      BY <3>4, <3>5 DEF Finished
    <3>7. Ordered(rs, settled)
      BY <1>0, <3>6, SameOrder
    <3> QED BY <3>3, <3>7, SavesOrder
  <2> QED BY <1>2, <2>2, <2>3, <2>4
<1>6. ASSUME NEW h \in Handler, Block(h) PROVE Ordered(run', settled')
  <2> DEFINE k == handler[h].key
             linked == run[k].linked
  <2>1. k \in Key
    BY <1>0, <1>6, BusyKey DEF Block
  <2>2. IF Active(run[k]) THEN Completes(k, "blocked", linked) ELSE UNCHANGED <<run, settled>>
    BY <1>6 DEF Block
  <2>3. Active(run[k]) => linked \in BOOLEAN
    BY <1>1, <2>1 DEF Active, RunRecord
  <2> HIDE DEF k, linked
  <2>4. "blocked" \in TerminalStatus
    BY DEF TerminalStatus
  <2>5. ASSUME Active(run[k]) PROVE \A status \in TerminalStatus :
            Completes(k, status, linked) => Ordered(run', settled')
    BY <1>0, <2>1, <2>3, <2>5, CompletesOrder
  <2> QED BY <1>2, <2>2, <2>4, <2>5
<1>7. ASSUME NEW k \in Key, Report(k) PROVE Ordered(run', settled')
  <2>1. CASE Active(run[k])
    <3>1. PICK status \in IF up = "starting" THEN {"interrupted_restart"} ELSE Outcome :
              Completes(k, status, TRUE)
      BY <1>7, <2>1 DEF Report
    <3>2. status \in TerminalStatus
      BY <3>1, AutomationsAssumption DEF TerminalStatus
    <3>3. \A linked \in BOOLEAN : Completes(k, status, linked) => Ordered(run', settled')
      BY <1>0, <2>1, <3>2, CompletesOrder
    <3> QED BY <3>1, <3>3
  <2>2. CASE ~Active(run[k])
    BY <1>2, <1>7, <2>2 DEF Report
  <2> QED BY <2>1, <2>2
<1>8. CASE Restart
  <2> DEFINE rs == [k \in Key |-> Recovered(k)]
             changed == {k \in Key : rs[k] # run[k]}
             over == {k \in changed : Active(run[k])}
  <2>1. \/ UNCHANGED <<run, settled>>
        \/ Saves(rs, settled \cup (Finished(run) \X over), changed)
    BY <1>8 DEF Restart
  <2>2. /\ \A j, k \in over : j = k
        /\ over \cap Finished(run) = {}
    BY <1>0 DEF RunInv, Finished
  <2>3. ASSUME NEW k \in Key
        PROVE  k \in Finished(rs) <=> (k \in Finished(run) \/ k \in over)
    <3>1. rs[k] = Recovered(k) /\ (k \in Finished(rs) <=> rs[k] # None /\ ~Active(rs[k]))
      BY DEF Finished
    <3>2. k \in over <=> rs[k] # run[k] /\ Active(run[k])
      OBVIOUS
    <3>3. CASE PendingLink(run[k])
      <4> DEFINE row == [run[k] EXCEPT !.started = TRUE]
      <4>1. run[k] # None /\ run[k] \in RunRecord /\ run[k].status \in TerminalStatus
        BY <1>1, <3>3 DEF PendingLink
      <4>2. row \in RunRecord /\ row.status = run[k].status
        BY <4>1 DEF RunRecord
      <4>3. rs[k] = row
        BY <3>1, <3>3, <4>1 DEF Recovered, TerminalStatus
      <4> HIDE DEF row, rs, changed, over
      <4> QED BY <1>1, <3>1, <4>1, <4>2, <4>3 DEF Finished, Active, ActiveStatus, TerminalStatus
    <3>4. CASE ~PendingLink(run[k]) /\ run[k] # None /\ run[k].status = "queued"
      <4> DEFINE row == [run[k] EXCEPT !.status = "interrupted_restart"]
      <4>1. run[k] \in RunRecord
        BY <1>1, <3>4
      <4>2. row \in RunRecord /\ row.status = "interrupted_restart"
        BY <4>1 DEF RunRecord, TerminalStatus
      <4>3. rs[k] = row
        BY <3>1, <3>4 DEF Recovered
      <4> HIDE DEF row, rs, changed, over
      <4> QED BY <1>1, <3>1, <3>2, <3>4, <4>2, <4>3 DEF Finished, Active, ActiveStatus
    <3>5. CASE ~PendingLink(run[k]) /\ ~(run[k] # None /\ run[k].status = "queued")
      <4>1. rs[k] = run[k]
        BY <3>1, <3>5 DEF Recovered
      <4> HIDE DEF rs, changed, over
      <4> QED BY <3>1, <3>2, <4>1 DEF Finished
    <3> QED BY <3>3, <3>4, <3>5
  <2>4. over \subseteq Key
    OBVIOUS
  <2> HIDE DEF rs, changed, over
  <2>5. Finished(rs) = Finished(run) \cup over
    <3>1. Finished(rs) \subseteq Key /\ Finished(run) \subseteq Key
      BY DEF Finished
    <3> QED BY <2>3, <2>4, <3>1
  <2>6. Ordered(rs, settled \cup (Finished(run) \X over))
    BY <1>0, <2>2, <2>5, FinishOrder
  <2> QED BY <1>2, <2>1, <2>6, SavesOrder
<1>9. CASE \/ Tick \/ Snapshot \/ Update \/ (\E enabled \in BOOLEAN : SetEnabled(enabled))
           \/ Crash \/ Serve \/ UNCHANGED vars
  BY <1>2, <1>9 DEF Tick, Snapshot, Update, SetEnabled, Edits, Crash, Serve, vars
<1>10. ASSUME NEW h \in Handler, \/ (\E k \in Key : ClaimAgain(h, k))
                                 \/ Admit(h) \/ Submit(h) \/ Refuse(h)
       PROVE  Ordered(run', settled')
  BY <1>2, <1>10 DEF ClaimAgain, Admit, Submit, Refuse
<1>11. ASSUME NEW k \in Key, TurnEnds(k) PROVE Ordered(run', settled')
  BY <1>2, <1>11 DEF TurnEnds
<1> QED BY <1>3, <1>4, <1>5, <1>6, <1>7, <1>8, <1>9, <1>10, <1>11 DEF Next

-----------------------------------------------------------------------------
(* The shape of the state *)

LEMMA GoesType ==
    ASSUME Shape, NEW h \in Handler, NEW at \in Points, NEW k \in Key \cup {None}, Goes(h, at, k)
    PROVE  handler' \in [Handler -> [at : Points, key : Key \cup {None}]]
BY DEF Shape, Goes

LEMMA ShapeNext ==
    ASSUME AutoInv, [Next]_vars
    PROVE  Shape'
<1>0. Shape
  BY DEF AutoInv
<1>1. CASE UNCHANGED vars
  BY <1>0, <1>1 DEF Shape, vars
<1>2. CASE Tick
  <2>1. clock' \in 0 .. MaxDue
    BY <1>0, <1>2, AutomationsAssumption DEF Shape, Tick
  <2> QED BY <1>0, <1>2, <2>1 DEF Shape, Tick
<1>3. CASE Snapshot
  <2>1. <<task.revision, task.next>> \in Key
    BY <1>0, <1>3 DEF Shape, Snapshot, Key, Scheduled
  <2>2. offered' \subseteq Key
    BY <1>0, <1>3, <2>1 DEF Shape, Snapshot
  <2> QED BY <1>0, <1>3, <2>2 DEF Shape, Snapshot
<1>4. CASE Update \/ \E enabled \in BOOLEAN : SetEnabled(enabled)
  <2>1. /\ task' \in [exists : BOOLEAN, enabled : BOOLEAN,
                      revision : 1 .. MaxRevision, next : Due \cup {None}]
        /\ UNCHANGED <<clock, run, settled, offered, handler, turn, started, up, crashes, doubled>>
    <3>1. /\ task \in [exists : BOOLEAN, enabled : BOOLEAN,
                       revision : 1 .. MaxRevision, next : Due \cup {None}]
          /\ NextRun \in Due \cup {None} /\ MaxRevision \in Nat
      BY <1>0, Facts, AutomationsAssumption DEF Shape
    <3>2. task.revision < MaxRevision => task.revision + 1 \in 1 .. MaxRevision
      BY <3>1
    <3>3. task.revision < MaxRevision
      BY <1>4 DEF Update, SetEnabled, Edits
    <3>4. CASE Update
      <4>1. PICK next \in {task.next, IF task.enabled THEN NextRun ELSE None} :
                Edits([task EXCEPT !.revision = @ + 1, !.next = next])
        BY <3>4 DEF Update
      <4>2. next \in Due \cup {None}
        BY <3>1, <4>1
      <4> QED BY <3>1, <3>2, <3>3, <4>1, <4>2 DEF Edits
    <3>5. CASE \E enabled \in BOOLEAN : SetEnabled(enabled)
      <4>1. PICK enabled \in BOOLEAN : SetEnabled(enabled)
        BY <3>5
      <4> DEFINE next == IF enabled THEN NextRun ELSE None
      <4>2. next \in Due \cup {None}
        BY <3>1
      <4>3. Edits([task EXCEPT !.enabled = enabled, !.revision = @ + 1, !.next = next])
        BY <4>1 DEF SetEnabled
      <4> HIDE DEF next
      <4> QED BY <3>1, <3>2, <3>3, <4>2, <4>3 DEF Edits
    <3> QED BY <1>4, <3>4, <3>5
  <2> QED BY <1>0, <2>1 DEF Shape
<1>5. CASE Delete
  <2>1. task' \in [exists : BOOLEAN, enabled : BOOLEAN,
                   revision : 1 .. MaxRevision, next : Due \cup {None}]
    BY <1>0, <1>5 DEF Shape, Delete
  <2>2. run' \in [Key -> RunRecord \cup {None}]
    BY <1>5 DEF Delete
  <2> QED BY <1>0, <1>5, <2>1, <2>2 DEF Shape, Delete
<1>6. ASSUME NEW h \in Handler, NEW k \in Key, ClaimAgain(h, k) PROVE Shape'
  <2>1. handler' \in [Handler -> [at : Points, key : Key \cup {None}]]
    BY <1>0, <1>6, ClaimAgainIs, GoesType DEF Points
  <2> QED BY <1>0, <1>6, <2>1, ClaimAgainIs DEF Shape
<1>7. ASSUME NEW h \in Handler, NEW k \in Key, Claim(h, k) PROVE Shape'
  <2>1. /\ run' \in [Key -> RunRecord \cup {None}] /\ offered' \subseteq offered
        /\ task' = IF k \in Scheduled THEN [task EXCEPT !.next = NextRun] ELSE task
        /\ UNCHANGED <<clock, started, up, crashes, doubled>>
        /\ Goes(h, "dispatch", k) \/ Goes(h, "idle", None)
    BY <1>7, ClaimIs
  <2>2. handler' \in [Handler -> [at : Points, key : Key \cup {None}]]
    BY <1>0, <2>1, GoesType DEF Points
  <2>3. task' \in [exists : BOOLEAN, enabled : BOOLEAN,
                   revision : 1 .. MaxRevision, next : Due \cup {None}]
    <3>1. NextRun \in Due \cup {None}
      BY <1>0, Facts
    <3>2. task \in [exists : BOOLEAN, enabled : BOOLEAN,
                    revision : 1 .. MaxRevision, next : Due \cup {None}]
      BY <1>0 DEF Shape
    <3> QED BY <2>1, <3>1, <3>2
  <2>4. turn' \in [Key -> Turns]
    BY <1>0, <1>7 DEF Claim, Shape, Turns
  <2> QED BY <1>0, <2>1, <2>2, <2>3, <2>4 DEF Shape
<1>8. ASSUME NEW h \in Handler, Admit(h) PROVE Shape'
  <2>1. handler' \in [Handler -> [at : Points, key : Key \cup {None}]]
    BY <1>0, <1>8, AdmitIs, GoesType DEF Points
  <2> QED BY <1>0, <1>8, <2>1, AdmitIs DEF Shape
<1>9. ASSUME NEW h \in Handler, Submit(h) PROVE Shape'
  <2>1. handler' \in [Handler -> [at : Points, key : Key \cup {None}]]
    BY <1>0, <1>9, SubmitIs, GoesType DEF Points
  <2>2. started' \in [Due -> Nat] /\ turn' \in [Key -> Turns]
    BY <1>9, SubmitIs
  <2> QED BY <1>0, <1>9, <2>1, <2>2 DEF Shape, Submit
<1>10. ASSUME NEW h \in Handler, Refuse(h) PROVE Shape'
  <2>1. handler' \in [Handler -> [at : Points, key : Key \cup {None}]]
    BY <1>0, <1>10, RefuseIs, GoesType DEF Points
  <2> QED BY <1>0, <1>10, <2>1, RefuseIs DEF Shape
<1>11. ASSUME NEW h \in Handler, Link(h) PROVE Shape'
  <2>1. handler' \in [Handler -> [at : Points, key : Key \cup {None}]]
    BY <1>0, <1>11, LinkIs, GoesType DEF Points
  <2> QED BY <1>0, <1>11, <2>1, LinkIs DEF Shape
<1>12. ASSUME NEW h \in Handler, Block(h) PROVE Shape'
  <2>1. handler' \in [Handler -> [at : Points, key : Key \cup {None}]]
    BY <1>0, <1>12, BlockIs, GoesType DEF Points
  <2> QED BY <1>0, <1>12, <2>1, BlockIs DEF Shape
<1>13. ASSUME NEW k \in Key, TurnEnds(k) PROVE Shape'
  BY <1>0, <1>13, TurnEndsIs DEF Shape
<1>14. ASSUME NEW k \in Key, Report(k) PROVE Shape'
  BY <1>0, <1>14, ReportIs DEF Shape
<1>15. CASE Crash
  BY <1>0, <1>15, CrashIs DEF Shape
<1>16. CASE Restart
  BY <1>0, <1>16, RestartIs DEF Shape
<1>17. CASE Serve
  BY <1>0, <1>17 DEF Shape, Serve
<1> QED BY <1>1, <1>2, <1>3, <1>4, <1>5, <1>6, <1>7, <1>8, <1>9, <1>10, <1>11, <1>12, <1>13,
           <1>14, <1>15, <1>16, <1>17 DEF Next

-----------------------------------------------------------------------------
(* Who is at work for a key *)

LEMMA HandlerNext ==
    ASSUME AutoInv, [Next]_vars
    PROVE  HandlerInv'
<1>0. Shape /\ HandlerInv
  BY DEF AutoInv
<1>1. CASE UNCHANGED <<handler, turn, up, doubled>>
  BY <1>0, <1>1 DEF HandlerInv
<1>2. CASE \/ Tick \/ Snapshot \/ Update \/ (\E enabled \in BOOLEAN : SetEnabled(enabled))
           \/ Delete \/ UNCHANGED vars
  BY <1>1, <1>2 DEF Tick, Snapshot, Update, SetEnabled, Edits, Delete, vars
<1>3. ASSUME NEW h \in Handler, NEW k \in Key, ClaimAgain(h, k) PROVE HandlerInv'
  <2>1. /\ up' = "serving" /\ turn' = turn /\ handler[h].key = None /\ k # None
        /\ Goes(h, "dispatch", k) /\ doubled' = doubled \cup {k}
    BY <1>0, <1>3, ClaimAgainIs, Facts
  <2> QED BY <1>0, <2>1 DEF HandlerInv, Goes
<1>4. ASSUME NEW h \in Handler, NEW k \in Key, Claim(h, k) PROVE HandlerInv'
  <2>1. /\ up' = "serving" /\ Turned(k, turn[k]) /\ handler[h].key = None /\ k # None
        /\ ~Spent(k) /\ doubled' = doubled
        /\ Goes(h, "dispatch", k) \/ Goes(h, "idle", None)
    BY <1>0, <1>4, ClaimIs, Facts
  <2>2. \A j \in Key : turn'[j] = turn[j]
    BY <2>1 DEF Turned
  <2>3. \A i \in Handler : handler[i].key # k
    BY <2>1 DEF Spent
  <2>4. \A i \in Handler : handler[i].key # None => handler[i].key \in Key
    BY <1>0 DEF Shape
  <2> QED BY <1>0, <2>1, <2>2, <2>3, <2>4 DEF HandlerInv, Goes
<1>5. ASSUME NEW h \in Handler, Admit(h) PROVE HandlerInv'
  <2> DEFINE k == handler[h].key
  <2>1. /\ handler[h].at = "dispatch" /\ k \in Key /\ k # None
        /\ \/ turn[k] = "none" /\ Turned(k, "admitted") /\ Goes(h, "submit", k)
           \/ turn[k] = "admitted" /\ turn' = turn /\ Goes(h, "block", k)
           \/ turn[k] \in {"live", "ended"} /\ turn' = turn /\ Goes(h, "link", k)
        /\ UNCHANGED <<up, doubled>>
    BY <1>0, <1>5, AdmitIs, Facts
  <2>2. \A i \in Handler : handler[i].key # None => handler[i].key \in Key
    BY <1>0 DEF Shape
  <2> QED BY <1>0, <2>1, <2>2 DEF HandlerInv, Goes, Turned, Begun
<1>6. ASSUME NEW h \in Handler, Submit(h) PROVE HandlerInv'
  <2> DEFINE k == handler[h].key
  <2>1. /\ handler[h].at = "submit" /\ k \in Key /\ k # None
        /\ Turned(k, "live") /\ Goes(h, "link", k) /\ UNCHANGED <<up, doubled>>
    BY <1>0, <1>6, SubmitIs, Facts
  <2>2. \A i \in Handler : handler[i].key # None => handler[i].key \in Key
    BY <1>0 DEF Shape
  <2> QED BY <1>0, <2>1, <2>2 DEF HandlerInv, Goes, Turned, Begun
<1>7. ASSUME NEW h \in Handler, Refuse(h) PROVE HandlerInv'
  <2> DEFINE k == handler[h].key
  <2>1. /\ handler[h].at \in {"dispatch", "submit"} /\ k \in Key /\ k # None
        /\ IF handler[h].at = "submit" THEN Turned(k, "none") ELSE turn' = turn
        /\ Goes(h, "block", k) /\ UNCHANGED <<up, doubled>>
    BY <1>0, <1>7, RefuseIs, Facts
  <2>2. \A i \in Handler : handler[i].key # None => handler[i].key \in Key
    BY <1>0 DEF Shape
  <2> QED BY <1>0, <2>1, <2>2 DEF HandlerInv, Goes, Turned, Begun
<1>8. ASSUME NEW h \in Handler, Link(h) \/ Block(h) PROVE HandlerInv'
  <2> DEFINE k == handler[h].key
  <2>1. /\ handler[h].at # "submit" /\ k \in Key /\ k # None
        /\ Goes(h, "idle", None) \/ Goes(h, "block", k)
        /\ UNCHANGED <<turn, up, doubled>>
    BY <1>0, <1>8, LinkIs, BlockIs, Facts
  <2>2. \A i \in Handler : handler[i].key # None => handler[i].key \in Key
    BY <1>0 DEF Shape
  <2> QED BY <1>0, <2>1, <2>2 DEF HandlerInv, Goes
<1>9. ASSUME NEW k \in Key, TurnEnds(k) \/ Report(k) PROVE HandlerInv'
  <2>1. /\ turn[k] \in {"live", "reporting"} /\ UNCHANGED <<handler, up, doubled>>
        /\ Turned(k, "reporting") \/ Turned(k, "ended")
    BY <1>9, TurnEndsIs, ReportIs
  <2>2. \A i \in Handler : handler[i].key # None => handler[i].key \in Key
    BY <1>0 DEF Shape
  <2>3. \A i \in Handler : handler[i].at \in {"submit", "link"} => handler[i].key # None
    BY <1>0 DEF HandlerInv
  <2> QED BY <1>0, <2>1, <2>2, <2>3 DEF HandlerInv, Turned, Begun
<1>10. CASE Crash
  BY <1>10, CrashIs DEF HandlerInv
<1>11. CASE Restart
  BY <1>0, <1>11, RestartIs DEF HandlerInv
<1>12. CASE Serve
  BY <1>0, <1>12 DEF HandlerInv, Serve
<1> QED BY <1>2, <1>3, <1>4, <1>5, <1>6, <1>7, <1>8, <1>9, <1>10, <1>11, <1>12 DEF Next

-----------------------------------------------------------------------------
(* The active record *)

LEMMA RunNext ==
    ASSUME AutoInv, [Next]_vars
    PROVE  RunInv'
<1>0. Shape /\ HandlerInv /\ RunInv /\ \A i \in Handler : handler[i].key # None => handler[i].key \in Key
  BY DEF AutoInv, Shape
<1>1. CASE UNCHANGED <<run, handler, turn, up>>
  BY <1>0, <1>1 DEF RunInv
<1>2. CASE \/ Tick \/ Snapshot \/ Update \/ (\E enabled \in BOOLEAN : SetEnabled(enabled))
           \/ UNCHANGED vars
  BY <1>1, <1>2 DEF Tick, Snapshot, Update, SetEnabled, Edits, vars
<1>3. CASE Delete
  BY <1>3 DEF Delete, RunInv, Active
<1>4. ASSUME NEW h \in Handler, NEW k \in Key, ClaimAgain(h, k) PROVE RunInv'
  <2>1. handler[h].key = None /\ Goes(h, "dispatch", k) /\ UNCHANGED <<run, turn, up>> /\ None \notin Key
    BY <1>0, <1>4, ClaimAgainIs, Facts
  <2> QED BY <1>0, <2>1 DEF RunInv, Goes
<1>5. ASSUME NEW h \in Handler, NEW k \in Key, Claim(h, k) PROVE RunInv'
  <2>1. /\ up = "serving" /\ up' = up /\ handler[h].key = None /\ None \notin Key
        /\ run'[k] # None /\ ~run'[k].linked /\ ~run'[k].started
        /\ \/ /\ run'[k].status = "queued" /\ Goes(h, "dispatch", k)
              /\ \A j \in Key : ~Active(run[j])
           \/ run'[k].status \in SkippedStatus /\ Goes(h, "idle", None)
    BY <1>0, <1>5, ClaimIs, Facts
  <2>2. \A j \in Key : turn'[j] = turn[j]
    BY <1>5, ClaimIs DEF Turned
  <2>3. \A j \in Key : j = k \/ run'[j] = run[j] \/ run'[j] = None
    BY <1>5, ClaimIs DEF Others, Dropped
  <2>4. CASE run'[k].status = "queued" /\ Goes(h, "dispatch", k) /\ \A j \in Key : ~Active(run[j])
    BY <1>0, <2>1, <2>2, <2>3, <2>4 DEF RunInv, Active, ActiveStatus, Goes
  <2>5. CASE run'[k].status \in SkippedStatus /\ Goes(h, "idle", None)
    BY <1>0, <2>1, <2>2, <2>3, <2>5 DEF RunInv, Active, ActiveStatus, SkippedStatus, Goes
  <2> QED BY <2>1, <2>4, <2>5
<1>6. ASSUME NEW h \in Handler, Admit(h) \/ Submit(h) \/ Refuse(h) PROVE RunInv'
  <2> DEFINE k == handler[h].key
  <2>1. /\ k \in Key /\ UNCHANGED <<run, up>>
        /\ \E at : Goes(h, at, k)
        /\ \/ turn' = turn
           \/ turn[k] = "none" /\ Turned(k, "admitted")
           \/ handler[h].at = "submit" /\ Turned(k, "live")
           \/ handler[h].at = "submit" /\ Turned(k, "none")
    BY <1>6, AdmitIs, SubmitIs, RefuseIs
  <2>2. handler[h].at = "submit" => turn[k] = "admitted"
    BY <1>0 DEF HandlerInv
  <2>3. \A i \in Handler : handler'[i].key = handler[i].key
    BY <2>1 DEF Goes
  <2>4. \A j \in Key : turn[j] \in Begun => turn'[j] \in Begun
    BY <2>1, <2>2 DEF Turned, Begun
  <2> QED BY <1>0, <2>1, <2>3, <2>4 DEF RunInv
<1>7. ASSUME NEW h \in Handler, Link(h) PROVE RunInv'
  <2> DEFINE k == handler[h].key
  <2>1. /\ handler[h].at = "link" /\ k \in Key /\ UNCHANGED <<turn, up>>
        /\ \/ /\ Goes(h, "idle", None) /\ run[k] # None /\ run[k].status = "queued"
              /\ run'[k] # None /\ run'[k].status = "running"
           \/ /\ Goes(h, "idle", None) /\ run[k] # None /\ run[k].status \in TerminalStatus
              /\ run'[k] # None /\ run'[k].status = run[k].status
           \/ /\ Goes(h, "block", k) /\ run' = run
    BY <1>7, LinkIs
  <2>2. \A j \in Key : j = k \/ run'[j] = run[j] \/ run'[j] = None
    BY <1>7, LinkIs DEF Others, Dropped
  <2>3. turn[k] \in Begun
    BY <1>0, <2>1 DEF HandlerInv
  <2> HIDE DEF k
  <2>4. \A i \in Handler : handler[i].key # k => handler'[i].key = handler[i].key
    BY <2>1 DEF Goes, k
  <2> QED BY <1>0, <2>1, <2>2, <2>3, <2>4 DEF RunInv, Active, ActiveStatus, TerminalStatus, Goes
<1>8. ASSUME NEW h \in Handler, Block(h) PROVE RunInv'
  <2> DEFINE k == handler[h].key
  <2>1. /\ k \in Key /\ UNCHANGED <<turn, up>> /\ Goes(h, "idle", None)
        /\ IF Active(run[k]) THEN run'[k] # None /\ run'[k].status = "blocked"
                             ELSE run' = run
    BY <1>8, BlockIs
  <2>2. \A j \in Key : j = k \/ run'[j] = run[j] \/ run'[j] = None
    BY <1>8, BlockIs DEF Others, Dropped
  <2> HIDE DEF k
  <2>3. \A i \in Handler : handler[i].key # k => handler'[i].key = handler[i].key
    BY <2>1 DEF Goes, k
  <2> QED BY <1>0, <2>1, <2>2, <2>3 DEF RunInv, Active, ActiveStatus
<1>9. ASSUME NEW k \in Key, TurnEnds(k) PROVE RunInv'
  BY <1>0, <1>9, TurnEndsIs DEF RunInv, Turned, Begun
<1>10. ASSUME NEW k \in Key, Report(k) PROVE RunInv'
  <2>1. /\ UNCHANGED <<handler, up>> /\ Turned(k, "ended")
        /\ IF Active(run[k]) THEN run'[k] # None /\ run'[k].status \in TerminalStatus
                             ELSE run' = run
    BY <1>10, ReportIs
  <2>2. \A j \in Key : j = k \/ run'[j] = run[j] \/ run'[j] = None
    BY <1>10, ReportIs DEF Others, Dropped
  <2>3. \A j \in Key : turn[j] \in Begun => turn'[j] \in Begun
    BY <2>1 DEF Turned, Begun
  <2> QED BY <1>0, <2>1, <2>2, <2>3 DEF RunInv, Active, ActiveStatus, TerminalStatus
<1>11. CASE Crash
  <2>1. \A k \in Key : turn[k] \in Begun => turn'[k] \in Begun
    BY <1>11, CrashIs DEF Begun
  <2>2. up' = "down" /\ run' = run
    BY <1>11, CrashIs
  <2> QED BY <1>0, <2>1, <2>2 DEF RunInv
<1>12. CASE Restart
  <2>1. up' = "starting" /\ turn' = turn
        /\ \A k \in Key : run'[k] = None \/ After(k)
    BY <1>12, RestartIs DEF Dropped
  <2>2. ASSUME NEW k \in Key, run'[k] # None
        PROVE  /\ run[k] # None /\ run'[k].status # "queued"
               /\ run[k].status = "running" \/ run'[k].status # "running"
    BY <2>1, <2>2 DEF After
  <2> QED BY <1>0, <2>1, <2>2 DEF RunInv, Active, ActiveStatus
<1>13. CASE Serve
  BY <1>0, <1>13 DEF RunInv, Serve
<1> QED BY <1>2, <1>3, <1>4, <1>5, <1>6, <1>7, <1>8, <1>9, <1>10, <1>11, <1>12, <1>13 DEF Next

-----------------------------------------------------------------------------
(* What the only handler of a key knows *)

\* What i knows stays true while nothing happens to its key.
LEMMA StaysSole ==
    ASSUME AutoInv, NEW i \in Handler, handler'[i] = handler[i], Sole(i)',
           doubled \subseteq doubled', task'.exists => task.exists,
           turn'[handler[i].key] = turn[handler[i].key],
           run'[handler[i].key] = run[handler[i].key] \/ Dropped(handler[i].key)
    PROVE  Knows(i)'
<1> DEFINE k == handler[i].key
<1>1. Sole(i) /\ Knows(i)
  BY DEF AutoInv, DispatchInv, Sole
<1>2. run'[k] = run[k] \/ (~Active(run[k]) /\ ~PendingLink(run[k]))
  BY DEF Dropped
<1>3. CASE run'[k] = run[k]
  BY <1>1, <1>3 DEF Knows
<1>4. CASE ~Active(run[k]) /\ ~PendingLink(run[k])
  <2>1. ~Queued(run[k])
    BY <1>4 DEF Queued, Active, ActiveStatus
  <2> QED BY <1>1, <1>4, <2>1 DEF Knows
<1> QED BY <1>2, <1>3, <1>4

LEMMA DispatchNext ==
    ASSUME AutoInv, [Next]_vars, NEW i \in Handler, Sole(i)'
    PROVE  Knows(i)'
<1>0. /\ Shape /\ HandlerInv /\ RunInv /\ None \notin Key
      /\ \A g \in Handler : handler[g].key # None => handler[g].key \in Key
      /\ Sole(i) => Knows(i)
  BY Facts DEF AutoInv, Shape, DispatchInv
<1>1. CASE UNCHANGED <<run, handler, turn, doubled>> /\ (task'.exists => task.exists)
  BY <1>1, StaysSole
<1>2. CASE Tick \/ Snapshot \/ Serve \/ UNCHANGED vars
  BY <1>1, <1>2 DEF Tick, Snapshot, Serve, vars
<1>3. CASE Update \/ (\E enabled \in BOOLEAN : SetEnabled(enabled))
  BY <1>1, <1>3 DEF Update, SetEnabled, Edits
<1>4. CASE Delete
  <2>1. /\ ~task'.exists /\ UNCHANGED <<handler, turn, doubled>>
        /\ \A k \in Key : ~Active(run[k])
    BY <1>0, <1>4 DEF Delete, Shape
  <2>2. \A k \in Key : ~Queued(run[k])
    BY <2>1 DEF Queued, Active, ActiveStatus
  <2>3. Sole(i) /\ Knows(i) /\ handler[i].key \in Key
    BY <1>0, <2>1 DEF Sole
  <2> QED BY <2>1, <2>2, <2>3 DEF Knows
<1>5. ASSUME NEW h \in Handler, NEW k \in Key, ClaimAgain(h, k) PROVE Knows(i)'
  <2>1. /\ Goes(h, "dispatch", k) /\ doubled' = doubled \cup {k} /\ UNCHANGED <<run, turn, task>>
    BY <1>5, ClaimAgainIs
  <2>2. i # h
    BY <2>1 DEF Goes, Sole
  <2>3. handler'[i] = handler[i]
    BY <2>1, <2>2 DEF Goes
  <2> QED BY <2>1, <2>3, StaysSole
<1>6. ASSUME NEW h \in Handler, NEW k \in Key, Claim(h, k) PROVE Knows(i)'
  <2>1. /\ Others({k}) /\ Turned(k, turn[k]) /\ doubled' = doubled /\ ~Spent(k)
        /\ run'[k] # None
        /\ \/ run'[k].status = "queued" /\ Goes(h, "dispatch", k)
           \/ Goes(h, "idle", None)
    BY <1>6, ClaimIs
  <2>2. task'.exists => task.exists
    BY <1>6, ClaimIs
  <2>3. CASE i = h
    <3>1. handler'[h].at = "dispatch" /\ handler'[h].key = k /\ run'[k].status = "queued"
      BY <2>1, <2>3 DEF Goes, Sole
    <3> QED BY <2>1, <2>3, <3>1 DEF Knows, Queued, Turned, Spent
  <2>4. CASE i # h
    <3>1. handler'[i] = handler[i] /\ handler[i].key \in Key \ {k}
      <4>1. handler'[i] = handler[i]
        BY <2>1, <2>4 DEF Goes
      <4> QED BY <1>0, <2>1, <4>1 DEF Sole, Spent
    <3> QED BY <2>1, <2>2, <3>1, StaysSole DEF Others, Turned
  <2> QED BY <2>3, <2>4
<1>7. ASSUME NEW h \in Handler, handler[h].key \in Key, i # h, handler'[i] = handler[i],
             UNCHANGED doubled
      PROVE  handler[i].key \in Key \ {handler[h].key}
  BY <1>0, <1>7 DEF HandlerInv, Sole
<1>8. ASSUME NEW h \in Handler, Admit(h) PROVE Knows(i)'
  <2> DEFINE k == handler[h].key
  <2>1. /\ handler[h].at = "dispatch" /\ k \in Key
        /\ \/ turn[k] = "none" /\ Turned(k, "admitted") /\ Goes(h, "submit", k)
           \/ turn[k] = "admitted" /\ turn' = turn /\ Goes(h, "block", k)
           \/ turn[k] \in {"live", "ended"} /\ turn' = turn /\ Goes(h, "link", k)
        /\ UNCHANGED <<task, run, doubled>>
    BY <1>8, AdmitIs
  <2>2. CASE i = h
    <3>1. handler'[h].key = k
      BY <2>1 DEF Goes
    <3>2. Sole(h) /\ Knows(h)
      BY <1>0, <2>1, <2>2, <3>1 DEF Sole
    <3>3. turn[k] = "none" /\ Queued(run[k])
      BY <2>1, <3>2 DEF Knows
    <3>4. handler'[h].at = "submit"
      BY <2>1, <3>3 DEF Goes
    <3> QED BY <2>1, <2>2, <3>1, <3>3, <3>4 DEF Knows
  <2>3. CASE i # h
    <3>1. handler'[i] = handler[i]
      BY <2>1, <2>3 DEF Goes
    <3>2. handler[i].key \in Key \ {k}
      BY <1>7, <2>1, <2>3, <3>1
    <3>3. turn'[handler[i].key] = turn[handler[i].key]
      BY <2>1, <3>2 DEF Turned
    <3> QED BY <2>1, <3>1, <3>3, StaysSole
  <2> QED BY <2>2, <2>3
<1>9. ASSUME NEW h \in Handler, Submit(h) PROVE Knows(i)'
  <2> DEFINE k == handler[h].key
  <2>1. /\ handler[h].at = "submit" /\ k \in Key
        /\ Turned(k, "live") /\ Goes(h, "link", k) /\ UNCHANGED <<task, run, doubled>>
    BY <1>9, SubmitIs
  <2>2. CASE i = h
    <3>1. handler'[h].key = k /\ handler'[h].at = "link" /\ turn'[k] = "live"
      BY <2>1 DEF Goes, Turned
    <3>2. Sole(h) /\ Knows(h)
      BY <1>0, <2>1, <2>2, <3>1 DEF Sole
    <3>3. Queued(run[k])
      BY <2>1, <3>2 DEF Knows
    <3> QED BY <2>1, <2>2, <3>1, <3>3 DEF Knows
  <2>3. CASE i # h
    <3>1. handler'[i] = handler[i]
      BY <2>1, <2>3 DEF Goes
    <3>2. handler[i].key \in Key \ {k}
      BY <1>7, <2>1, <2>3, <3>1
    <3> QED BY <2>1, <3>1, <3>2, StaysSole DEF Turned
  <2> QED BY <2>2, <2>3
<1>10. ASSUME NEW h \in Handler, Refuse(h) PROVE Knows(i)'
  <2> DEFINE k == handler[h].key
  <2>1. /\ handler[h].at \in {"dispatch", "submit"} /\ k \in Key /\ Goes(h, "block", k)
        /\ IF handler[h].at = "submit" THEN Turned(k, "none") ELSE turn' = turn
        /\ UNCHANGED <<task, run, doubled>>
    BY <1>10, RefuseIs
  <2>2. CASE i = h
    <3>1. handler'[h].key = k /\ handler'[h].at = "block"
      BY <2>1 DEF Goes
    <3>2. Sole(h) /\ Knows(h)
      BY <1>0, <2>1, <2>2, <3>1 DEF Sole
    <3>3. turn'[k] = "none"
      BY <2>1, <3>2 DEF Knows, Turned
    <3> QED BY <2>2, <3>1, <3>3 DEF Knows
  <2>3. CASE i # h
    <3>1. handler'[i] = handler[i]
      BY <2>1, <2>3 DEF Goes
    <3>2. handler[i].key \in Key \ {k}
      BY <1>7, <2>1, <2>3, <3>1
    <3>3. turn'[handler[i].key] = turn[handler[i].key]
      BY <2>1, <3>2 DEF Turned
    <3> QED BY <2>1, <3>1, <3>3, StaysSole
  <2> QED BY <2>2, <2>3
<1>11. ASSUME NEW h \in Handler, Link(h) \/ Block(h) PROVE Knows(i)'
  <2> DEFINE k == handler[h].key
  <2>1. /\ k \in Key /\ Others({k}) /\ UNCHANGED <<task, turn, doubled>>
        /\ \/ Goes(h, "idle", None)
           \/ /\ handler[h].at = "link" /\ Goes(h, "block", k) /\ run' = run
              /\ run[k] # None => run[k].status # "queued" /\ ~PendingLink(run[k])
    BY <1>11, LinkIs, BlockIs
  <2>2. CASE i = h
    <3>1. /\ handler[h].at = "link" /\ Goes(h, "block", k) /\ run' = run
          /\ run[k] # None => run[k].status # "queued" /\ ~PendingLink(run[k])
      BY <2>1, <2>2 DEF Goes, Sole
    <3>2. handler'[h].key = k /\ handler'[h].at = "block"
      BY <3>1 DEF Goes
    <3>3. Sole(h) /\ Knows(h)
      BY <1>0, <2>1, <2>2, <3>2 DEF Sole
    <3>4. turn[k] = "ended"
      BY <3>1, <3>3 DEF Knows, Queued
    <3> QED BY <2>1, <2>2, <3>2, <3>4 DEF Knows
  <2>3. CASE i # h
    <3>1. handler'[i] = handler[i]
      BY <2>1, <2>3 DEF Goes
    <3>2. handler[i].key \in Key \ {k}
      BY <1>7, <2>1, <2>3, <3>1
    <3> QED BY <2>1, <3>1, <3>2, StaysSole DEF Others
  <2> QED BY <2>2, <2>3
<1>12. ASSUME NEW k \in Key, TurnEnds(k) PROVE Knows(i)'
  <2>1. /\ turn[k] = "live" /\ Turned(k, "reporting")
        /\ UNCHANGED <<task, run, handler, doubled>>
    BY <1>12, TurnEndsIs
  <2>2. CASE handler[i].key = k
    <3>1. Sole(i) /\ Knows(i)
      BY <1>0, <2>1 DEF Sole
    <3> QED BY <2>1, <2>2, <3>1 DEF Knows, Turned
  <2>3. CASE handler[i].key # k
    <3>1. handler[i].key \in Key \ {k}
      BY <1>0, <2>1, <2>3 DEF Sole
    <3> QED BY <2>1, <3>1, StaysSole DEF Turned
  <2> QED BY <2>2, <2>3
<1>13. ASSUME NEW k \in Key, Report(k) PROVE Knows(i)'
  <2>1. /\ turn[k] = "reporting" /\ Turned(k, "ended") /\ Others({k})
        /\ IF Active(run[k])
           THEN /\ run'[k] # None /\ run'[k].status \in TerminalStatus
                /\ run'[k].linked /\ run'[k].started = run[k].started
           ELSE run' = run
        /\ UNCHANGED <<task, handler, doubled>>
    BY <1>13, ReportIs
  <2>2. CASE handler[i].key = k
    <3>1. Sole(i) /\ Knows(i)
      BY <1>0, <2>1 DEF Sole
    <3>2. handler[i].at \notin {"dispatch", "submit"}
      BY <1>0, <2>1, <2>2, <3>1 DEF Knows, HandlerInv
    <3>3. handler[i].at = "link" => PendingLink(run'[k])
      <4>1. handler[i].at = "link" => Queued(run[k]) /\ ~run[k].started
        BY <1>0, <2>1, <2>2, <3>1 DEF Knows, Queued, RunInv
      <4> QED BY <2>1, <4>1 DEF Queued, Active, ActiveStatus, PendingLink
    <3> QED BY <2>1, <2>2, <3>2, <3>3 DEF Knows, Turned
  <2>3. CASE handler[i].key # k
    <3>1. handler[i].key \in Key \ {k}
      BY <1>0, <2>1, <2>3 DEF Sole
    <3> QED BY <2>1, <3>1, StaysSole DEF Turned, Others
  <2> QED BY <2>2, <2>3
<1>14. CASE Crash
  BY <1>14, CrashIs DEF Sole
<1>15. CASE Restart
  BY <1>0, <1>15, RestartIs DEF Sole, HandlerInv
<1> QED BY <1>2, <1>3, <1>4, <1>5, <1>6, <1>8, <1>9, <1>10, <1>11, <1>12, <1>13, <1>14, <1>15 DEF Next

-----------------------------------------------------------------------------
(* The prompts and turns that go on *)

LEMMA LiveNext ==
    ASSUME AutoInv, [Next]_vars
    PROVE  LiveInv'
<1>0. /\ Shape /\ HandlerInv /\ RunInv /\ DispatchInv /\ LiveInv /\ None \notin Key
      /\ \A h \in Handler : handler[h].key # None => up = "serving"
  BY Facts DEF AutoInv, HandlerInv
<1>1. ASSUME NEW k \in Key, Going(k), up = "serving"
      PROVE  Active(run[k]) /\ ~Dropped(k)
  BY <1>0, <1>1 DEF LiveInv, Dropped
<1>2. CASE /\ \A k \in Key : Going(k)' => Going(k)
           /\ up' = "serving" => /\ up = "serving"
                                 /\ \A k \in Key : Going(k)' => Active(run'[k])
  BY <1>0, <1>2 DEF LiveInv
<1>3. CASE UNCHANGED <<run, turn, up>> /\ doubled \subseteq doubled'
  BY <1>0, <1>3 DEF LiveInv, Going
<1>4. CASE \/ Tick \/ Snapshot \/ Update \/ (\E enabled \in BOOLEAN : SetEnabled(enabled))
           \/ UNCHANGED vars
  BY <1>3, <1>4 DEF Tick, Snapshot, Update, SetEnabled, Edits, vars
<1>5. CASE Delete
  <2>1. \A k \in Key : ~Going(k)
    BY <1>0, <1>5 DEF LiveInv, Delete
  <2> QED BY <1>2, <1>5, <2>1 DEF Delete, Going
<1>6. ASSUME NEW h \in Handler, NEW k \in Key, ClaimAgain(h, k) PROVE LiveInv'
  BY <1>3, <1>6, ClaimAgainIs
<1>7. ASSUME NEW h \in Handler, NEW k \in Key, Claim(h, k) PROVE LiveInv'
  <2>1. /\ up = "serving" /\ Others({k}) /\ Turned(k, turn[k]) /\ doubled' = doubled /\ turn[k] = "none"
    BY <1>7, ClaimIs DEF Spent
  <2>2. \A j \in Key : Going(j)' => Going(j) /\ j # k
    BY <2>1 DEF Going, Turned
  <2> QED BY <1>1, <1>2, <2>1, <2>2 DEF Others
<1>8. ASSUME NEW h \in Handler, Admit(h) PROVE LiveInv'
  <2> DEFINE k == handler[h].key
  <2>1. /\ handler[h].at = "dispatch" /\ k \in Key /\ up = "serving"
        /\ turn' = turn \/ Turned(k, "admitted")
    BY <1>0, <1>8, AdmitIs
  <2>2. UNCHANGED <<run, up, doubled>>
    BY <1>8, AdmitIs
  <2>3. CASE turn' = turn
    BY <1>3, <2>2, <2>3
  <2>4. CASE Turned(k, "admitted")
    <3>1. k \notin doubled => Active(run[k])
      BY <1>0, <2>1 DEF DispatchInv, Sole, Knows, Queued, Active, ActiveStatus
    <3>2. \A j \in Key : Going(j)' => Active(run[j])
      BY <1>1, <2>1, <2>2, <2>4, <3>1 DEF Going, Turned
    <3> QED BY <1>0, <2>1, <2>2, <3>2 DEF LiveInv, RunInv
  <2> QED BY <2>1, <2>3, <2>4
<1>9. ASSUME NEW h \in Handler, Submit(h) \/ Refuse(h) PROVE LiveInv'
  <2> DEFINE k == handler[h].key
  <2>1. /\ k \in Key /\ UNCHANGED <<run, up, doubled>>
        /\ \/ turn' = turn
           \/ turn[k] = "admitted" /\ Turned(k, "live")
           \/ Turned(k, "none")
    BY <1>0, <1>9, SubmitIs, RefuseIs DEF HandlerInv
  <2>2. \A j \in Key : Going(j)' => Going(j)
    BY <2>1 DEF Going, Turned
  <2> QED BY <1>1, <1>2, <2>1, <2>2
<1>10. ASSUME NEW h \in Handler, Link(h) PROVE LiveInv'
  <2> DEFINE k == handler[h].key
  <2>1. /\ k \in Key /\ Others({k}) /\ UNCHANGED <<up, turn, doubled>>
        /\ \/ run'[k] # None /\ run'[k].status = "running"
           \/ run'[k] # None /\ ~Active(run[k])
           \/ run' = run
    BY <1>10, LinkIs DEF Active, ActiveStatus, TerminalStatus
  <2>2. \A j \in Key : Going(j)' => Going(j)
    BY <2>1 DEF Going
  <2>3. ASSUME NEW j \in Key, Going(j)', up = "serving" PROVE Active(run'[j])
    <3>1. Active(run[j]) /\ ~Dropped(j)
      BY <1>1, <2>2, <2>3
    <3> QED BY <2>1, <3>1 DEF Others, Active, ActiveStatus
  <2> QED BY <1>2, <2>1, <2>2, <2>3
<1>11. ASSUME NEW h \in Handler, Block(h) PROVE LiveInv'
  <2> DEFINE k == handler[h].key
  <2>1. /\ k \in Key /\ Others({k}) /\ UNCHANGED <<up, turn, doubled>> /\ handler[h].at = "block"
    BY <1>11, BlockIs
  <2>2. \A j \in Key : Going(j)' => Going(j) /\ j # k
    BY <1>0, <2>1 DEF Going, DispatchInv, Sole, Knows
  <2> QED BY <1>1, <1>2, <2>1, <2>2 DEF Others
<1>12. ASSUME NEW k \in Key, TurnEnds(k) \/ Report(k) PROVE LiveInv'
  <2>1. /\ Turned(k, "reporting") \/ Turned(k, "ended")
        /\ Others({k})
    BY <1>12, TurnEndsIs, ReportIs DEF Others
  <2>2. UNCHANGED <<up, doubled>>
    BY <1>12, TurnEndsIs, ReportIs
  <2>3. \A j \in Key : Going(j)' => Going(j) /\ j # k
    BY <2>1, <2>2 DEF Going, Turned
  <2> QED BY <1>1, <1>2, <2>1, <2>2, <2>3 DEF Others
<1>13. CASE Crash
  <2>1. \A k \in Key : Going(k)' => Going(k)
    BY <1>13, CrashIs DEF Going
  <2> QED BY <1>2, <1>13, <2>1, CrashIs
<1>14. CASE Restart
  <2>1. \A k \in Key : Going(k)' => Going(k)
    BY <1>14, RestartIs DEF Going
  <2> QED BY <1>2, <1>14, <2>1, RestartIs
<1>15. CASE Serve
  <2>1. \A k \in Key : ~Going(k)'
    BY <1>0, <1>15 DEF Going, Serve, HandlerInv
  <2> QED BY <2>1 DEF LiveInv
<1> QED BY <1>4, <1>5, <1>6, <1>7, <1>8, <1>9, <1>10, <1>11, <1>12, <1>13, <1>14, <1>15 DEF Next

-----------------------------------------------------------------------------
(* What is over with a key *)

\* A handler that goes on with its key spends no other.
LEMMA GoesSpends ==
    ASSUME NEW h \in Handler, NEW at, NEW k, Goes(h, at, k), NEW j \in Key, j # k,
           run'[j] # None => run[j] # None, turn'[j] # "none" => turn[j] # "none", Spent(j)'
    PROVE  Spent(j)
BY DEF Spent, Goes

\* Every step but a claim leaves what is unspent unspent, and time goes on.
LEMMA SpentNext ==
    ASSUME AutoInv, [Next]_vars
    PROVE  \/ \E h \in Handler, k \in Key : Claim(h, k)
           \/ \A k \in Key : Spent(k)' => Spent(k)
<1>0. /\ Shape /\ HandlerInv /\ None \notin Key
      /\ \A h \in Handler : handler[h].key \in Key => Spent(handler[h].key)
  BY Facts DEF AutoInv, Spent
<1>1. CASE UNCHANGED <<run, turn, handler>>
  BY <1>1 DEF Spent
<1>2. CASE \/ Tick \/ Snapshot \/ Update \/ (\E enabled \in BOOLEAN : SetEnabled(enabled))
           \/ Serve \/ UNCHANGED vars
  BY <1>1, <1>2 DEF Tick, Snapshot, Update, SetEnabled, Edits, Serve, vars
<1>3. CASE Delete
  BY <1>3 DEF Delete, Spent
<1>4. ASSUME NEW h \in Handler, NEW k \in Key, ClaimAgain(h, k), NEW j \in Key, Spent(j)'
      PROVE  Spent(j)
  <2>1. Goes(h, "dispatch", k) /\ UNCHANGED <<run, turn>> /\ Spent(k)
    BY <1>4, ClaimAgainIs DEF Spent
  <2> QED BY <1>4, <2>1, GoesSpends
<1>5. ASSUME NEW h \in Handler, Admit(h) \/ Submit(h) \/ Refuse(h), NEW j \in Key, Spent(j)'
      PROVE  Spent(j)
  <2> DEFINE k == handler[h].key
  <2>1. /\ k \in Key /\ run' = run /\ \E at : Goes(h, at, k)
        /\ turn' = turn \/ \E to : Turned(k, to)
    BY <1>5, AdmitIs, SubmitIs, RefuseIs
  <2>2. PICK at : Goes(h, at, k)
    BY <2>1
  <2>3. j # k => turn'[j] = turn[j]
    BY <2>1 DEF Turned
  <2> QED BY <1>0, <1>5, <2>1, <2>2, <2>3, GoesSpends
<1>6. ASSUME NEW h \in Handler, Link(h) \/ Block(h), NEW j \in Key, Spent(j)'
      PROVE  Spent(j)
  <2> DEFINE k == handler[h].key
  <2>1. /\ k \in Key /\ Others({k}) /\ turn' = turn
        /\ Goes(h, "idle", None) \/ Goes(h, "block", k)
    BY <1>6, LinkIs, BlockIs
  <2>2. j # k => (run'[j] # None => run[j] # None)
    BY <2>1 DEF Others, Dropped
  <2> QED BY <1>0, <1>6, <2>1, <2>2, GoesSpends
<1>7. ASSUME NEW k \in Key, TurnEnds(k) \/ Report(k), NEW j \in Key, Spent(j)'
      PROVE  Spent(j)
  <2>1. /\ turn[k] # "none" /\ handler' = handler
        /\ Turned(k, "reporting") \/ Turned(k, "ended")
        /\ Others({k})
    BY <1>7, TurnEndsIs, ReportIs DEF Others
  <2>2. j # k => (run'[j] # None => run[j] # None)
    BY <2>1 DEF Others, Dropped
  <2> QED BY <1>7, <2>1, <2>2 DEF Turned, Spent
<1>8. ASSUME Crash, NEW k \in Key, Spent(k)' PROVE Spent(k)
  BY <1>0, <1>8, CrashIs DEF Spent
<1>9. ASSUME Restart, NEW k \in Key, Spent(k)' PROVE Spent(k)
  BY <1>9, RestartIs DEF Spent, After, Dropped
<1> QED BY <1>2, <1>3, <1>4, <1>5, <1>6, <1>7, <1>8, <1>9 DEF Next

\* An occurrence that has passed has passed for good.
LEMMA PassedNext ==
    ASSUME AutoInv, [Next]_vars, NEW d \in Due, Passed(d)
    PROVE  Passed(d)'
<1>0. /\ Shape /\ d \in Nat /\ clock \in Nat /\ d <= clock /\ None \notin Due
      /\ (NextRun = None \/ NextRun = clock + 1)
      /\ NextRun # None => d < NextRun
  BY Facts DEF AutoInv, Passed
<1>1. CASE task' = task /\ clock' \in Nat /\ clock' >= clock
  BY <1>0, <1>1 DEF Passed
<1>2. CASE clock' = clock /\ (task'.exists => task.exists)
           /\ (task'.next = task.next \/ task'.next = NextRun \/ task'.next = None)
  BY <1>0, <1>2 DEF Passed
<1>3. CASE Tick
  BY <1>0, <1>1, <1>3 DEF Tick
<1>4. CASE UNCHANGED <<task, clock>>
  BY <1>0, <1>1, <1>4
<1>5. CASE Snapshot \/ Serve \/ UNCHANGED vars
  BY <1>4, <1>5 DEF Snapshot, Serve, vars
<1>6. CASE Update
  <2>1. PICK next \in {task.next, IF task.enabled THEN NextRun ELSE None} :
            Edits([task EXCEPT !.revision = @ + 1, !.next = next])
    BY <1>6 DEF Update
  <2>2. task'.next = next /\ task'.exists = task.exists /\ clock' = clock
    BY <1>0, <2>1 DEF Edits, Shape
  <2> QED BY <1>2, <2>1, <2>2
<1>7. CASE \E enabled \in BOOLEAN : SetEnabled(enabled)
  <2>1. PICK enabled \in BOOLEAN : SetEnabled(enabled)
    BY <1>7
  <2>2. /\ task'.next = IF enabled THEN NextRun ELSE None
        /\ task'.exists = task.exists /\ clock' = clock
    BY <1>0, <2>1 DEF SetEnabled, Edits, Shape
  <2> QED BY <1>2, <2>2
<1>8. CASE Delete
  <2>1. task'.next = task.next /\ (task'.exists => task.exists) /\ clock' = clock
    BY <1>0, <1>8 DEF Delete, Shape
  <2> QED BY <1>2, <2>1
<1>9. ASSUME NEW h \in Handler, NEW k \in Key, Claim(h, k) PROVE Passed(d)'
  <2>1. /\ task' = IF k \in Scheduled THEN [task EXCEPT !.next = NextRun] ELSE task
        /\ clock' = clock
    BY <1>9, ClaimIs
  <2>2. task'.exists = task.exists /\ (task'.next = task.next \/ task'.next = NextRun)
    BY <1>0, <2>1 DEF Shape
  <2> QED BY <1>2, <2>1, <2>2
<1>10. ASSUME NEW h \in Handler, NEW k \in Key, ClaimAgain(h, k) PROVE Passed(d)'
  BY <1>4, <1>10, ClaimAgainIs
<1>11. ASSUME NEW h \in Handler, \/ Admit(h) \/ Submit(h) \/ Refuse(h) \/ Link(h) \/ Block(h)
       PROVE  Passed(d)'
  BY <1>4, <1>11 DEF Admit, Submit, Refuse, Link, Block
<1>12. ASSUME NEW k \in Key, TurnEnds(k) \/ Report(k) PROVE Passed(d)'
  BY <1>4, <1>12 DEF TurnEnds, Report
<1>13. CASE Crash \/ Restart
  BY <1>4, <1>13, CrashIs, RestartIs
<1> QED BY <1>3, <1>5, <1>6, <1>7, <1>8, <1>9, <1>10, <1>11, <1>12, <1>13 DEF Next

-----------------------------------------------------------------------------
(* The keys on offer *)

LEMMA OfferNext ==
    ASSUME AutoInv, [Next]_vars
    PROVE  OfferInv'
<1>0. /\ Shape /\ OfferInv /\ Key = Scheduled \cup Manual /\ Manual \cap Scheduled = {}
      /\ \A k \in Scheduled : k[1] \in Nat /\ k[2] \in Due
      /\ task.revision \in Nat
      /\ task \in [exists : BOOLEAN, enabled : BOOLEAN,
                   revision : 1 .. MaxRevision, next : Due \cup {None}]
  <2>1. Shape /\ OfferInv
    BY DEF AutoInv
  <2>2. /\ Key = Scheduled \cup Manual /\ Manual \cap Scheduled = {}
        /\ \A k \in Scheduled : k[1] \in 1 .. MaxRevision /\ k[2] \in Due
    BY <2>1, Facts
  <2>3. /\ task.revision \in 1 .. MaxRevision
        /\ task \in [exists : BOOLEAN, enabled : BOOLEAN,
                     revision : 1 .. MaxRevision, next : Due \cup {None}]
    BY <2>1 DEF Shape
  <2>4. 1 .. MaxRevision \subseteq Nat
    BY AutomationsAssumption
  <2> QED BY <2>1, <2>2, <2>3, <2>4
<1>1. CASE /\ \A k \in Key : Spent(k)' => Spent(k)
           /\ offered' \subseteq offered /\ task' = task
           /\ \A k \in offered' : run'[k] = None => run[k] = None
  BY <1>0, <1>1 DEF OfferInv
<1>2. \/ \E h \in Handler, k \in Key : Claim(h, k)
      \/ \A k \in Key : Spent(k)' => Spent(k)
  BY SpentNext
<1>3. ASSUME NEW h \in Handler, NEW k \in Key, Claim(h, k) PROVE OfferInv'
  <2>1. /\ k \in offered /\ run[k] = None /\ task.exists /\ ~Spent(k)
        /\ (k \in Scheduled => k[1] = task.revision)
        /\ Others({k}) /\ Turned(k, turn[k]) /\ run'[k] # None
        /\ offered' \subseteq offered \ ({k} \cap Manual)
        /\ task' = IF k \in Scheduled THEN [task EXCEPT !.next = NextRun] ELSE task
        /\ Goes(h, "dispatch", k) \/ Goes(h, "idle", None)
    BY <1>3, ClaimIs DEF Claim
  <2>2. /\ task'.exists = task.exists /\ task'.revision = task.revision
        /\ k \notin Scheduled => task'.next = task.next
    BY <1>0, <2>1
  <2>3. ASSUME NEW j \in offered' \cap Manual PROVE ~Spent(j)'
    <3>1. j # k /\ j \in Key /\ ~Spent(j)
      BY <1>0, <2>1, <2>3 DEF OfferInv
    <3>2. (run'[j] # None => run[j] # None) /\ turn'[j] = turn[j]
      BY <2>1, <3>1 DEF Others, Dropped, Turned
    <3>3. Spent(j)' => \E i \in Handler : handler'[i].key = j
      BY <3>1, <3>2 DEF Spent
    <3>4. None # j
      BY <1>0, <3>1, Facts
    <3> QED BY <2>1, <3>1, <3>3, <3>4 DEF Spent, Goes
  <2>4. ASSUME NEW j \in offered' \cap Scheduled
        PROVE  /\ j[1] <= task'.revision
               /\ task'.exists /\ j[1] = task'.revision /\ run'[j] = None => task'.next = j[2]
    <3>1. j \in offered \cap Scheduled /\ j \in Key
      BY <1>0, <2>1, <2>4
    <3>2. j[1] <= task'.revision
      BY <1>0, <2>2, <3>1 DEF OfferInv
    <3>3. ASSUME task'.exists, j[1] = task'.revision, run'[j] = None PROVE task'.next = j[2]
      <4>1. j # k /\ run[j] = None
        BY <2>1, <2>4, <3>1, <3>3 DEF Others, Dropped
      <4>2. task.next = j[2]
        BY <1>0, <2>2, <3>1, <3>3, <4>1 DEF OfferInv
      <4>3. k \notin Scheduled
        <5>1. SUFFICES ASSUME k \in Scheduled PROVE FALSE
          OBVIOUS
        <5>2. task.next = k[2]
          BY <1>0, <2>1, <5>1 DEF OfferInv
        <5>3. j[1] = k[1] /\ j[2] = k[2]
          BY <2>1, <2>2, <3>3, <4>2, <5>1, <5>2
        <5>4. \A i, l \in Scheduled : i[1] = l[1] /\ i[2] = l[2] => i = l
          BY DEF Scheduled
        <5> QED BY <3>1, <4>1, <5>1, <5>3, <5>4
      <4> QED BY <2>2, <4>2, <4>3
    <3> QED BY <3>2, <3>3
  <2> QED BY <2>3, <2>4 DEF OfferInv
<1>4. ASSUME \A k \in Key : Spent(k)' => Spent(k) PROVE OfferInv'
  <2>1. CASE UNCHANGED <<run, offered, task>>
    BY <1>1, <1>4, <2>1
  <2>2. CASE Tick \/ Serve \/ UNCHANGED vars
    BY <2>1, <2>2 DEF Tick, Serve, vars
  <2>3. CASE Snapshot
    <3>1. offered' = offered \cup {<<task.revision, task.next>>} /\ UNCHANGED <<run, task>>
      BY <2>3 DEF Snapshot
    <3>2. <<task.revision, task.next>> \in Scheduled
      BY <1>0, <2>3 DEF Snapshot, Scheduled
    <3> QED BY <1>0, <1>4, <3>1, <3>2 DEF OfferInv
  <2>4. CASE Update \/ (\E enabled \in BOOLEAN : SetEnabled(enabled))
    <3>1. UNCHANGED <<run, offered>> /\ task'.revision = task.revision + 1
      BY <1>0, <2>4 DEF Update, SetEnabled, Edits
    <3>2. \A k \in offered \cap Scheduled : k[1] <= task'.revision /\ k[1] # task'.revision
      BY <1>0, <3>1 DEF OfferInv
    <3>3. \A k \in offered \cap Manual : ~Spent(k)'
      BY <1>0, <1>4 DEF OfferInv
    <3> QED BY <3>1, <3>2, <3>3 DEF OfferInv
  <2>5. CASE Delete
    <3>1. offered' = offered /\ ~task'.exists /\ task'.revision = task.revision
      BY <1>0, <2>5 DEF Delete
    <3>2. \A k \in offered \cap Manual : ~Spent(k)'
      BY <1>0, <1>4 DEF OfferInv
    <3> QED BY <1>0, <3>1, <3>2 DEF OfferInv
  <2>6. ASSUME NEW h \in Handler, NEW k \in Key, ClaimAgain(h, k) PROVE OfferInv'
    BY <2>1, <2>6, ClaimAgainIs
  <2>7. ASSUME NEW h \in Handler, Admit(h) \/ Submit(h) \/ Refuse(h) PROVE OfferInv'
    BY <2>1, <2>7 DEF Admit, Submit, Refuse
  <2>8. ASSUME NEW h \in Handler, Link(h) \/ Block(h) PROVE OfferInv'
    <3> DEFINE k == handler[h].key
    <3>1. /\ k \in Key /\ Others({k}) /\ offered' \subseteq offered /\ task' = task
          /\ run'[k] # None \/ run' = run
      BY <2>8, LinkIs, BlockIs
    <3>2. \A j \in offered' : run'[j] = None => run[j] = None
      BY <1>0, <3>1 DEF Others, Dropped, Shape
    <3> QED BY <1>1, <1>4, <3>1, <3>2
  <2>9. ASSUME NEW k \in Key, TurnEnds(k) PROVE OfferInv'
    BY <2>1, <2>9 DEF TurnEnds
  <2>10. ASSUME NEW k \in Key, Report(k) PROVE OfferInv'
    <3>1. /\ Others({k}) /\ offered' \subseteq offered /\ task' = task
          /\ run'[k] # None \/ run' = run
      BY <2>10, ReportIs
    <3>2. \A j \in offered' : run'[j] = None => run[j] = None
      BY <1>0, <3>1 DEF Others, Dropped, Shape
    <3> QED BY <1>1, <1>4, <3>1, <3>2
  <2>11. CASE Crash
    BY <2>1, <2>11, CrashIs
  <2>12. CASE Restart
    <3>1. /\ offered' \subseteq offered /\ task' = task
          /\ \A k \in Key : After(k) \/ Dropped(k)
      BY <2>12, RestartIs
    <3>2. \A j \in offered' : run'[j] = None => run[j] = None
      BY <1>0, <3>1 DEF After, Dropped, Shape
    <3> QED BY <1>1, <1>4, <3>1, <3>2
  <2>13. ASSUME NEW h \in Handler, NEW k \in Key, Claim(h, k) PROVE OfferInv'
    BY <1>3, <2>13
  <2> QED BY <2>2, <2>3, <2>4, <2>5, <2>6, <2>7, <2>8, <2>9, <2>10, <2>11, <2>12, <2>13 DEF Next
<1> QED BY <1>2, <1>3, <1>4

-----------------------------------------------------------------------------
(* The turns of an occurrence *)

LEMMA StartNext ==
    ASSUME AutoInv, [Next]_vars
    PROVE  StartInv'
<1>0. /\ Shape /\ HandlerInv /\ StartInv /\ Scheduled \subseteq Key
      /\ \A k \in Scheduled : k[2] \in Due
  BY Facts DEF AutoInv
<1>1. \A d \in Due : Passed(d) => Passed(d)'
  BY PassedNext
<1>2. CASE /\ \A k \in Key : Spent(k)' => Spent(k)
           /\ started' = started
           /\ \A k \in Key : turn[k] \in Begun => turn'[k] \in Begun
  BY <1>0, <1>1, <1>2 DEF StartInv
<1>3. ASSUME NEW h \in Handler, NEW k \in Key, Claim(h, k) PROVE StartInv'
  <2>1. /\ ~Spent(k) /\ Turned(k, turn[k]) /\ started' = started /\ Others({k})
        /\ clock' = clock
        /\ k \in Scheduled => k[2] <= clock /\ ~Passed(k[2]) /\ started[k[2]] = 0
        /\ task' = IF k \in Scheduled THEN [task EXCEPT !.next = NextRun] ELSE task
        /\ Goes(h, "dispatch", k) \/ Goes(h, "idle", None)
    BY <1>3, ClaimIs
  <2>2. ASSUME NEW j \in Key, j # k, Spent(j)' PROVE Spent(j)
    <3>1. (run'[j] # None => run[j] # None) /\ turn'[j] = turn[j] /\ j # None
      BY <1>0, <2>1, <2>2, Facts DEF Others, Dropped, Turned
    <3> QED BY <2>1, <2>2, <3>1 DEF Spent, Goes
  <2>3. \A j \in Key : turn'[j] = turn[j]
    BY <2>1 DEF Turned
  <2>4. k \in Scheduled => Passed(k[2])'
    <3>1. ASSUME k \in Scheduled PROVE task'.next = NextRun /\ k[2] \in Nat /\ clock \in Nat
      BY <1>0, <2>1, <3>1, Facts DEF Shape
    <3>2. NextRun # None => NextRun = clock + 1
      BY <1>0, Facts
    <3> QED BY <2>1, <3>1, <3>2 DEF Passed
  <2>5. \A j \in Scheduled : Spent(j)' => j = k \/ (Spent(j) /\ Passed(j[2]))
    BY <1>0, <2>2 DEF StartInv
  <2>6. \A j \in Scheduled : Spent(j)' => Passed(j[2])'
    BY <1>0, <1>1, <2>4, <2>5
  <2>7. \A d \in Due : started'[d] # 0 => started'[d] = 1 /\ Passed(d)'
    BY <1>0, <1>1, <2>1 DEF StartInv
  <2>8. \A i, j \in Scheduled : Spent(i)' /\ Spent(j)' /\ i[2] = j[2] => i = j
    BY <1>0, <2>1, <2>5 DEF StartInv
  <2>9. \A j \in Scheduled : Spent(j)' /\ started'[j[2]] # 0 => turn'[j] \in Begun
    BY <1>0, <2>1, <2>3, <2>5 DEF StartInv
  <2> QED BY <2>6, <2>7, <2>8, <2>9 DEF StartInv
<1>4. ASSUME \A k \in Key : Spent(k)' => Spent(k) PROVE StartInv'
  <2>1. CASE UNCHANGED <<turn, started>>
    BY <1>2, <1>4, <2>1
  <2>2. CASE \/ Tick \/ Snapshot \/ Update \/ (\E enabled \in BOOLEAN : SetEnabled(enabled))
             \/ Delete \/ Restart \/ Serve \/ UNCHANGED vars
    BY <2>1, <2>2 DEF Tick, Snapshot, Update, SetEnabled, Edits, Delete, Restart, Serve, vars
  <2>3. ASSUME NEW h \in Handler, NEW k \in Key, ClaimAgain(h, k) PROVE StartInv'
    BY <2>1, <2>3 DEF ClaimAgain
  <2>4. ASSUME NEW h \in Handler, Link(h) \/ Block(h) PROVE StartInv'
    BY <2>1, <2>4 DEF Link, Block
  <2>5. ASSUME NEW h \in Handler, Admit(h) PROVE StartInv'
    <3>1. /\ turn' = turn \/ (turn[handler[h].key] = "none" /\ Turned(handler[h].key, "admitted"))
          /\ started' = started
      BY <2>5, AdmitIs
    <3>2. \A k \in Key : turn[k] \in Begun => turn'[k] \in Begun
      BY <3>1 DEF Turned, Begun
    <3> QED BY <1>2, <1>4, <3>1, <3>2
  <2>6. ASSUME NEW h \in Handler, Refuse(h) PROVE StartInv'
    <3>1. /\ turn' = turn \/ (turn[handler[h].key] = "admitted" /\ Turned(handler[h].key, "none"))
          /\ started' = started
      BY <1>0, <2>6, RefuseIs DEF HandlerInv
    <3>2. \A k \in Key : turn[k] \in Begun => turn'[k] \in Begun
      BY <3>1 DEF Turned, Begun
    <3> QED BY <1>2, <1>4, <3>1, <3>2
  <2>7. ASSUME NEW h \in Handler, Submit(h) PROVE StartInv'
    <3> DEFINE k == handler[h].key
    <3>1. /\ k \in Key /\ turn[k] = "admitted" /\ Turned(k, "live") /\ Spent(k)
          /\ IF k \in Scheduled
             THEN /\ k[2] \in Due /\ started'[k[2]] = started[k[2]] + 1
                  /\ \A d \in Due \ {k[2]} : started'[d] = started[d]
             ELSE started' = started
      BY <1>0, <2>7, SubmitIs DEF HandlerInv, Spent
    <3> HIDE DEF k
    <3>2. \A j \in Key : turn[j] \in Begun => turn'[j] \in Begun
      BY <3>1 DEF Turned, Begun
    <3>3. CASE k \notin Scheduled
      BY <1>2, <1>4, <3>1, <3>2, <3>3
    <3>4. CASE k \in Scheduled
      <4>1. started[k[2]] = 0 /\ Passed(k[2])
        BY <1>0, <3>1, <3>4 DEF StartInv, Begun
      <4>2. started'[k[2]] = 1 /\ \A d \in Due \ {k[2]} : started'[d] = started[d]
        BY <3>1, <3>4, <4>1
      <4>3. \A j \in Scheduled : Spent(j)' => Passed(j[2])'
        BY <1>0, <1>1, <1>4 DEF StartInv
      <4>4. \A d \in Due : started'[d] # 0 => started'[d] = 1 /\ Passed(d)'
        BY <1>0, <1>1, <4>1, <4>2 DEF StartInv
      <4>5. \A i, j \in Scheduled : Spent(i)' /\ Spent(j)' /\ i[2] = j[2] => i = j
        BY <1>0, <1>4 DEF StartInv
      <4>6. ASSUME NEW j \in Scheduled, Spent(j)', started'[j[2]] # 0 PROVE turn'[j] \in Begun
        <5>1. CASE j[2] = k[2]
          BY <1>0, <1>4, <3>1, <3>4, <4>6, <5>1 DEF StartInv, Turned, Begun
        <5>2. CASE j[2] # k[2]
          BY <1>0, <1>4, <3>2, <4>2, <4>6, <5>2 DEF StartInv
        <5> QED BY <5>1, <5>2
      <4> QED BY <4>3, <4>4, <4>5, <4>6 DEF StartInv
    <3> QED BY <3>3, <3>4
  <2>8. ASSUME NEW k \in Key, TurnEnds(k) \/ Report(k) PROVE StartInv'
    <3>1. started' = started /\ (Turned(k, "reporting") \/ Turned(k, "ended"))
      BY <2>8, TurnEndsIs, ReportIs
    <3>2. \A j \in Key : turn[j] \in Begun => turn'[j] \in Begun
      BY <3>1 DEF Turned, Begun
    <3> QED BY <1>2, <1>4, <3>1, <3>2
  <2>9. CASE Crash
    <3>1. started' = started /\ \A k \in Key : turn[k] \in Begun => turn'[k] \in Begun
      BY <2>9, CrashIs DEF Begun
    <3> QED BY <1>2, <1>4, <3>1
  <2>10. ASSUME NEW h \in Handler, NEW k \in Key, Claim(h, k) PROVE StartInv'
    BY <1>3, <2>10
  <2> QED BY <2>2, <2>3, <2>4, <2>5, <2>6, <2>7, <2>8, <2>9, <2>10 DEF Next
<1> QED BY <1>3, <1>4, SpentNext

-----------------------------------------------------------------------------
(* The first process *)

\* Once heard of, every end that is reported is heard of, but for a crash, which
\* may come between the two.
LEMMA HeardNext ==
    ASSUME AutoInv, Heard, [Next]_vars, Crash => BrokerFree
    PROVE  Heard'
<1>0. Shape /\ HandlerInv /\ Heard
  BY DEF AutoInv
<1>1. CASE \A k \in Key : /\ turn'[k] = "ended" => turn[k] = "ended"
                          /\ Active(run'[k]) => Active(run[k])
  BY <1>0, <1>1 DEF Heard
<1>2. CASE UNCHANGED <<run, turn>>
  BY <1>1, <1>2
<1>3. CASE \/ Tick \/ Snapshot \/ Update \/ (\E enabled \in BOOLEAN : SetEnabled(enabled))
           \/ Serve \/ UNCHANGED vars
  BY <1>2, <1>3 DEF Tick, Snapshot, Update, SetEnabled, Edits, Serve, vars
<1>4. CASE Delete
  BY <1>1, <1>4 DEF Delete, Active
<1>5. ASSUME NEW h \in Handler, NEW k \in Key, ClaimAgain(h, k) PROVE Heard'
  BY <1>2, <1>5 DEF ClaimAgain
<1>6. ASSUME NEW h \in Handler, NEW k \in Key, Claim(h, k) PROVE Heard'
  <2>1. /\ turn[k] = "none" /\ Turned(k, "none") /\ Others({k})
    BY <1>6, ClaimIs DEF Spent
  <2> QED BY <1>0, <2>1 DEF Heard, Turned, Others, Dropped, Active
<1>7. ASSUME NEW h \in Handler, Admit(h) \/ Submit(h) \/ Refuse(h) PROVE Heard'
  <2>1. /\ run' = run
        /\ \/ turn' = turn \/ Turned(handler[h].key, "admitted") \/ Turned(handler[h].key, "live")
           \/ Turned(handler[h].key, "none")
    BY <1>7, AdmitIs, SubmitIs, RefuseIs
  <2> QED BY <1>1, <2>1 DEF Turned
<1>8. ASSUME NEW h \in Handler, Link(h) \/ Block(h) PROVE Heard'
  <2> DEFINE k == handler[h].key
  <2>1. /\ Others({k}) /\ turn' = turn
        /\ Active(run'[k]) => Active(run[k])
    BY <1>8, LinkIs, BlockIs DEF Active, ActiveStatus, TerminalStatus
  <2>2. \A j \in Key : Active(run'[j]) => Active(run[j])
    BY <2>1 DEF Others, Dropped, Active
  <2> QED BY <1>1, <2>1, <2>2
<1>9. ASSUME NEW k \in Key, TurnEnds(k) PROVE Heard'
  BY <1>1, <1>9, TurnEndsIs DEF Turned
<1>10. ASSUME NEW k \in Key, Report(k) PROVE Heard'
  <2>1. /\ Others({k}) /\ Turned(k, "ended") /\ ~Active(run'[k])
    BY <1>10, ReportIs DEF Active, ActiveStatus, TerminalStatus
  <2>2. \A j \in Key : Active(run'[j]) => Active(run[j])
    BY <2>1 DEF Others, Dropped, Active
  <2> QED BY <1>0, <2>1, <2>2 DEF Heard, Turned
<1>11. CASE Crash
  <2>1. \A k \in Key : turn[k] # "reporting"
    BY <1>11 DEF BrokerFree
  <2> QED BY <1>1, <1>11, <2>1, CrashIs
<1>12. CASE Restart
  <2>1. \A k \in Key : Active(run'[k]) => Active(run[k])
    BY <1>12, RestartIs DEF After, Dropped, Active, ActiveStatus
  <2> QED BY <1>1, <1>12, <2>1, RestartIs
<1> QED BY <1>3, <1>4, <1>5, <1>6, <1>7, <1>8, <1>9, <1>10, <1>11, <1>12 DEF Next

LEMMA FirstNext ==
    ASSUME AutoInv, [Next]_vars
    PROVE  FirstProcess'
<1>0. Shape /\ FirstProcess /\ crashes \in Nat
  BY AutomationsAssumption DEF AutoInv, Shape
<1>1. CASE Crash
  BY <1>0, <1>1 DEF Crash, FirstProcess
<1>2. CASE Restart \/ Serve
  BY <1>0, <1>2 DEF Restart, Serve, FirstProcess
<1>3. CASE ~Crash /\ ~Restart /\ ~Serve
  <2>1. UNCHANGED <<up, crashes>>
    BY <1>3 DEF Next, vars, Tick, Snapshot, Update, SetEnabled, Edits, Delete, ClaimAgain, Claim,
                Admit, Submit, Refuse, Link, Block, TurnEnds, Report
  <2>2. Heard => Heard'
    BY <1>3, HeardNext
  <2>3. crashes = 0 => up = "serving" /\ Heard'
    BY <1>0, <2>2 DEF FirstProcess
  <2> QED BY <2>1, <2>3 DEF FirstProcess
<1> QED BY <1>1, <1>2, <1>3

-----------------------------------------------------------------------------
(* The theorems *)

LEMMA AutoInit ==
    ASSUME Init
    PROVE  AutoInv
<1>0. /\ None \notin Key /\ None \notin Due /\ Key = Scheduled \cup Manual /\ MaxDue \in Nat
      /\ MaxRevision \in Nat \ {0} /\ MaxCrashes \in Nat /\ Manual \cap Scheduled = {}
  BY AutomationsAssumption DEF Key
<1>1. Shape
  <2>1. clock \in 0 .. MaxDue /\ crashes \in 0 .. MaxCrashes /\ offered \subseteq Key
    BY <1>0 DEF Init
  <2>2. task \in [exists : BOOLEAN, enabled : BOOLEAN,
                  revision : 1 .. MaxRevision, next : Due \cup {None}]
    <3>1. (IF MaxDue = 0 THEN None ELSE 1) \in Due \cup {None} /\ 1 \in 1 .. MaxRevision
      BY <1>0 DEF Due
    <3> QED BY <3>1 DEF Init
  <2>3. handler \in [Handler -> [at : Points, key : Key \cup {None}]]
    BY DEF Init, Idle, Points
  <2> QED BY <2>1, <2>2, <2>3 DEF Init, Shape, Turns
<1>2. Ordered(run, settled)
  <2>1. Finished(run) = {} /\ settled = {}
    BY DEF Init, Finished
  <2> QED BY <2>1 DEF Ordered
<1>3. /\ \A k \in Key : run[k] = None /\ turn[k] = "none"
      /\ \A h \in Handler : handler[h].at = "idle" /\ handler[h].key = None
      /\ up = "serving" /\ \A d \in Due : started[d] = 0
      /\ offered = Manual
  BY DEF Init, Idle
<1>4. HandlerInv
  BY <1>3 DEF HandlerInv
<1>5. RunInv
  BY <1>3 DEF RunInv, Active
<1>6. DispatchInv /\ LiveInv
  BY <1>3 DEF DispatchInv, Sole, LiveInv, Going
<1>7. \A k \in Key : ~Spent(k)
  BY <1>0, <1>3 DEF Spent
<1>8. OfferInv /\ StartInv
  BY <1>0, <1>3, <1>7 DEF OfferInv, StartInv
<1>9. FirstProcess
  BY <1>3 DEF FirstProcess, Heard
<1> QED BY <1>1, <1>2, <1>4, <1>5, <1>6, <1>8, <1>9 DEF AutoInv

LEMMA AutoNext ==
    ASSUME AutoInv, [Next]_vars
    PROVE  AutoInv'
<1>1. Shape' /\ HandlerInv' /\ RunInv' /\ LiveInv' /\ OfferInv' /\ StartInv' /\ FirstProcess'
  BY ShapeNext, HandlerNext, RunNext, LiveNext, OfferNext, StartNext, FirstNext
<1>2. Ordered(run', settled')
  BY OrderNext
<1>3. \A i \in Handler : Sole(i)' => Knows(i)'
  BY DispatchNext
<1>4. DispatchInv'
  BY <1>3 DEF DispatchInv
<1>5. Ordered(run, settled)'
  BY <1>2 DEF Ordered, Finished
<1> QED BY <1>1, <1>4, <1>5 DEF AutoInv

\* The inductive invariant: the shape of the state, the retention order, who works
\* for a key and what he knows, the one active record and its one turn, the keys
\* that can still be claimed and the occurrences that have had their turn, over the
\* claim route, the store, the broker's reports, crashes and restarts.
THEOREM AutomationInvariant == Spec => []AutoInv
<1>1. Init => AutoInv
  BY AutoInit
<1>2. AutoInv /\ [Next]_vars => AutoInv'
  BY AutoNext
<1> QED BY <1>1, <1>2, PTL DEF Spec

\* The records, handlers and turns keep their shape, and every finished record in
\* automations.json has one place in the order _prune_runs goes by.
THEOREM AutomationTypeCorrect == Spec => []TypeOK
<1>1. AutoInv => TypeOK
  <2>1. ASSUME AutoInv PROVE Shape /\ Ordered(run, settled)
    BY <2>1 DEF AutoInv
  <2> QED BY <2>1 DEF Shape, Ordered, TypeOK, Points, Turns
<1> QED BY <1>1, AutomationInvariant, PTL

\* A run the store answers as finished has no prompt or turn left in the runtime,
\* whatever failed dispatch or restart finished it, unless its key was asked for
\* twice at once.
THEOREM AutomationFinishedIsOver == Spec => []FinishedIsOver
<1>1. AutoInv => FinishedIsOver
  BY DEF AutoInv, LiveInv, Going, FinishedIsOver
<1> QED BY <1>1, AutomationInvariant, PTL

\* At most one turn of the automation goes on (the overlap policy of _claim), no
\* occurrence has two, an active record has an owner in a process that follows no
\* crash, and the record a handler is about to link has not been pruned.
THEOREM AutomationOneTurn == Spec => []OneTurn
<1>1. ASSUME AutoInv PROVE OneTurn
  <2>0. /\ Shape /\ HandlerInv /\ RunInv /\ DispatchInv /\ LiveInv /\ StartInv /\ FirstProcess
        /\ \A h \in Handler : handler[h].key # None => handler[h].key \in Key
    BY <1>1 DEF AutoInv, Shape
  <2>1. Cardinality({k \in Key \ doubled : turn[k] \in {"admitted", "live"}}) <= 1
    <3> DEFINE G == {k \in Key \ doubled : turn[k] \in {"admitted", "live"}}
    <3>1. \A j, k \in G : j = k
      BY <2>0 DEF LiveInv, Going
    <3> HIDE DEF G
    <3>2. CASE G = {}
      <4>1. Cardinality(G) = 0
        BY <3>2, FS_EmptySet
      <4> QED BY <4>1 DEF G
    <3>3. ASSUME NEW k \in G PROVE Cardinality(G) <= 1
      <4>1. G = {k}
        BY <3>1, <3>3
      <4>2. Cardinality({k}) = 1
        BY FS_Singleton
      <4> QED BY <4>1, <4>2
    <3> QED BY <3>2, <3>3 DEF G
  <2>2. \A d \in Due : started[d] <= 1
    <3>1. ASSUME NEW d \in Due PROVE started[d] \in Nat /\ (started[d] # 0 => started[d] = 1)
      BY <2>0 DEF Shape, StartInv
    <3> QED BY <3>1
  <2>3. up = "serving" /\ crashes = 0 => \A k \in Key : Active(run[k]) => Owned(k)
    BY <2>0 DEF FirstProcess, Heard, RunInv, Active, ActiveStatus, Owned, Begun
  <2>4. ASSUME NEW h \in Handler, handler[h].at = "link", handler[h].key \notin doubled, task.exists
        PROVE  run[handler[h].key] # None
    <3>1. Sole(h) /\ Knows(h)
      BY <2>0, <2>4 DEF HandlerInv, DispatchInv, Sole
    <3> QED BY <2>4, <3>1 DEF Knows, PendingLink, Queued
  <2> QED BY <2>1, <2>2, <2>3, <2>4 DEF OneTurn
<1>2. AutoInv => OneTurn
  BY <1>1
<1> QED BY <1>2, AutomationInvariant, PTL

\* No step changes the status of a record that is finished: mark_running, complete
\* and the recovery of a restart look at the status the record has.
THEOREM AutomationOutcomeStays == Spec => OutcomeStays
<1> DEFINE Stays(k) == (run[k] # None /\ ~Active(run[k]) /\ run'[k] # None)
                          => run'[k].status = run[k].status
<1>1. ASSUME AutoInv, [Next]_vars, NEW k \in Key PROVE Stays(k)
  <2>0. CASE run' = run
    BY <2>0
  <2>1. CASE \/ Tick \/ Snapshot \/ Update \/ (\E enabled \in BOOLEAN : SetEnabled(enabled))
             \/ Crash \/ Serve \/ UNCHANGED vars
    BY <2>0, <2>1 DEF Tick, Snapshot, Update, SetEnabled, Edits, Crash, Serve, vars
  <2>2. CASE Delete
    BY <2>2 DEF Delete
  <2>3. ASSUME NEW j \in Key, Others({j}),
               \/ run[j] = None \/ Active(run[j]) \/ run'[j].status = run[j].status
        PROVE  Stays(k)
    BY <2>3 DEF Others, Dropped
  <2>4. ASSUME NEW h \in Handler, NEW j \in Key, ClaimAgain(h, j) PROVE Stays(k)
    BY <2>0, <2>4 DEF ClaimAgain
  <2>5. ASSUME NEW h \in Handler, NEW j \in Key, Claim(h, j) PROVE Stays(k)
    BY <1>1, <2>3, <2>5, ClaimIs
  <2>6. ASSUME NEW h \in Handler, Admit(h) \/ Submit(h) \/ Refuse(h) PROVE Stays(k)
    BY <2>0, <2>6 DEF Admit, Submit, Refuse
  <2>7. ASSUME NEW h \in Handler, Link(h) PROVE Stays(k)
    <3> DEFINE j == handler[h].key
    <3>1. /\ j \in Key /\ Others({j})
          /\ \/ run[j] # None /\ run[j].status = "queued"
             \/ run'[j].status = run[j].status
      BY <1>1, <2>7, LinkIs
    <3> QED BY <2>3, <3>1 DEF Active, ActiveStatus
  <2>8. ASSUME NEW h \in Handler, Block(h) PROVE Stays(k)
    BY <1>1, <2>0, <2>3, <2>8, BlockIs
  <2>9. ASSUME NEW j \in Key, TurnEnds(j) PROVE Stays(k)
    BY <2>0, <2>9 DEF TurnEnds
  <2>10. ASSUME NEW j \in Key, Report(j) PROVE Stays(k)
    BY <1>1, <2>0, <2>3, <2>10, ReportIs
  <2>11. CASE Restart
    BY <1>1, <2>11, RestartIs DEF After, Dropped, Active, ActiveStatus
  <2> QED BY <1>1, <2>1, <2>2, <2>4, <2>5, <2>6, <2>7, <2>8, <2>9, <2>10, <2>11 DEF Next
<1>2. AutoInv /\ [Next]_vars =>
        [\A k \in Key : (run[k] # None /\ ~Active(run[k]) /\ run'[k] # None)
                           => run'[k].status = run[k].status]_vars
  BY <1>1
<1> QED BY <1>2, AutomationInvariant, PTL DEF Spec, OutcomeStays

\* A crash that never comes between the durable end of a turn and its report to the
\* store leaves no active record without an owner.  That crash, which the run
\* automations_stuck shows, is the only way a reservation is never freed.
THEOREM AutomationReservationFreed ==
    Spec /\ [][Crash => BrokerFree]_vars => []RestartFreesReservation
<1>1. Init => Heard
  BY DEF Init, Heard
<1>2. AutoInv /\ Heard /\ [Next]_vars /\ [Crash => BrokerFree]_vars => Heard'
  <2>1. ASSUME AutoInv, Heard, [Next]_vars, [Crash => BrokerFree]_vars PROVE Heard'
    <3>1. CASE UNCHANGED vars
      BY <2>1, <3>1 DEF vars, Heard
    <3>2. CASE ~UNCHANGED vars
      BY <2>1, <3>2, HeardNext
    <3> QED BY <3>1, <3>2
  <2> QED BY <2>1
<1>3. AutoInv /\ Heard => RestartFreesReservation
  BY DEF AutoInv, Heard, RunInv, Active, ActiveStatus, Owned, Begun, RestartFreesReservation
<1> QED BY <1>1, <1>2, <1>3, AutomationInvariant, PTL DEF Spec

=============================================================================

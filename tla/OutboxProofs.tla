---------------------------- MODULE OutboxProofs ----------------------------
(***************************************************************************)
(* DurableOutbox keeps Published, EventsShowState, NeverWedged and         *)
(* AcknowledgedStays for any updates, documents and number of faults.  The *)
(* argument is about order: begun says who got the documents' locks when,  *)
(* operations that share a document are prepared in that order, at most    *)
(* one of them is not yet in the journal, and it is the last one.          *)
(***************************************************************************)
EXTENDS DurableOutbox, TLAPS

Phases == {"none", "scan", "ready", "apply", "replace", "finalize"}
Points == {"idle", "reading", "numbered", "done", "lost", "conflict", "failed", "rejected"}

Working == phase \in {"apply", "replace", "finalize"}
Shares(u, v) == Touches[u] \cap Touches[v] # {}

\* Where u stands in an order; the initial content comes first.
Place(order, u) == IF u = None THEN 0 ELSE CHOOSE i \in DOMAIN order : order[i] = u
Distinct(seq) == \A i, j \in 1..Len(seq) : seq[i] = seq[j] => i = j

\* An operation that waits to be finished, or that may be prepared yet.
Open(u) == IF u \in Entries(prepared) THEN u \notin Entries(journal) ELSE caller[u] = "numbered"

OutboxType ==
    /\ file \in [Document -> [by : Update \cup {None}, rev : Nat]]
    /\ prepared \in Seq(Update) /\ journal \in Seq(Update) /\ begun \in Seq(Update)
    /\ holder \in Update \cup {None, Boot} /\ phase \in Phases /\ op \in Update \cup {None}
    /\ caller \in [Update -> Points]
    /\ revs \in [Update -> [Document -> Nat]]

\* Who has _operation_lock, and what he knows: nothing is left to be finished,
\* or he finishes the last row of the table.
LockInv ==
    /\ ~up => holder = None
    /\ holder = None <=> phase = "none"
    /\ holder \in Update => Active(holder)
    /\ Working => Len(prepared) = Len(journal) + 1 /\ op = prepared[Len(prepared)]
    /\ todo \subseteq IF phase = "replace" THEN Touches[op] ELSE {}
    /\ reconciled \/ phase = "ready" => Len(prepared) = Len(journal)

\* The journal has the events of every row, except perhaps of the last one.
JournalInv ==
    /\ Len(journal) <= Len(prepared) /\ Len(prepared) <= Len(journal) + 1
    /\ \A i \in 1..Len(journal) : journal[i] = prepared[i]
    /\ Distinct(prepared)
    /\ applied = Entries(journal)

\* What a caller's point says of its row.
CallerInv == \A u \in Update :
    /\ caller[u] \in {"idle", "reading", "rejected"} => u \notin Entries(prepared)
    /\ caller[u] \in {"reading", "numbered", "rejected"} => u \notin Direct
    /\ caller[u] = "numbered" /\ u \in Entries(prepared) => holder = u /\ Working /\ op = u
    /\ caller[u] = "done" /\ u \notin Direct => u \in Entries(journal)
    /\ u \in Entries(prepared) => u \notin Direct
    /\ u \in Entries(begun) <=> caller[u] # "idle"

\* The locks of the documents: who has them is the last one who got them, and
\* rows are written in that order.
OrderInv ==
    /\ Distinct(begun)
    /\ \A u, v \in Update : Active(u) /\ Active(v) /\ u # v => ~Shares(u, v)
    /\ \A u, v \in Update : Active(v) /\ u \in Entries(begun) /\ Shares(u, v) =>
          Place(begun, u) <= Place(begun, v)
    /\ \A i, j \in 1..Len(prepared) : i <= j /\ Shares(prepared[i], prepared[j]) =>
          Place(begun, prepared[i]) <= Place(begun, prepared[j])

\* No document has a change of an update that came before the last published
\* one, nor one that a row still to be finished would run into.
FileInv ==
    /\ \A d \in Document : file[d].by # None =>
          /\ d \in Touches[file[d].by] /\ file[d].by \in Entries(begun)
          /\ file[d].by \in Entries(prepared) \/ file[d].by \in Direct
    /\ \A u \in Update : Open(u) => \A d \in Touches[u] :
          revs[u][d] > 0 /\ (file[d].by = u \/ file[d].rev < revs[u][d])
    /\ \A u, v \in Update : Open(u) /\ Open(v) /\ u # v => ~Shares(u, v)
    /\ \A u \in Update : u \in Entries(journal) => \A d \in Touches[u] :
          Place(begun, file[d].by) >= Place(begun, u)
    /\ phase = "finalize" => \A d \in Touches[op] :
          Place(begun, file[d].by) >= Place(begun, op)

OutboxInv == OutboxType /\ LockInv /\ JournalInv /\ CallerInv /\ OrderInv /\ FileInv

-----------------------------------------------------------------------------
(* Sequences of updates *)

LEMMA EntriesIs ==
    ASSUME NEW s \in Seq(Update)
    PROVE  /\ Entries(s) \subseteq Update
           /\ \A u : u \in Entries(s) <=> \E i \in 1..Len(s) : s[i] = u
BY DEF Entries

LEMMA EntriesAppend ==
    ASSUME NEW s \in Seq(Update), NEW u \in Update
    PROVE  /\ Append(s, u) \in Seq(Update) /\ Len(Append(s, u)) = Len(s) + 1
           /\ Entries(Append(s, u)) = Entries(s) \cup {u}
           /\ \A i \in 1..Len(s) : Append(s, u)[i] = s[i]
           /\ Append(s, u)[Len(s) + 1] = u
<1>1. /\ Append(s, u) \in Seq(Update) /\ Len(Append(s, u)) = Len(s) + 1
      /\ \A i \in 1..Len(s) : Append(s, u)[i] = s[i]
      /\ Append(s, u)[Len(s) + 1] = u
  OBVIOUS
<1>2. ASSUME NEW v PROVE v \in Entries(Append(s, u)) <=> v \in Entries(s) \/ v = u
  <2>1. ASSUME v \in Entries(s) PROVE v \in Entries(Append(s, u))
    <3>1. PICK i \in 1..Len(s) : s[i] = v
      BY <2>1, EntriesIs
    <3>2. i \in 1..Len(Append(s, u)) /\ Append(s, u)[i] = v
      BY <1>1, <3>1
    <3> QED BY <1>1, <3>2, EntriesIs
  <2>2. u \in Entries(Append(s, u))
    <3>1. Len(s) + 1 \in 1..Len(Append(s, u))
      BY <1>1
    <3> QED BY <1>1, <3>1, EntriesIs
  <2>3. ASSUME v \in Entries(Append(s, u)) PROVE v \in Entries(s) \/ v = u
    <3>1. PICK i \in 1..Len(s) + 1 : Append(s, u)[i] = v
      BY <1>1, <2>3, EntriesIs
    <3>2. CASE i = Len(s) + 1
      BY <1>1, <3>1, <3>2
    <3>3. CASE i \in 1..Len(s)
      BY <1>1, <3>1, <3>3, EntriesIs
    <3> QED BY <3>2, <3>3
  <2> QED BY <2>1, <2>2, <2>3
<1> QED BY <1>1, <1>2

LEMMA DistinctAppend ==
    ASSUME NEW s \in Seq(Update), NEW u \in Update, Distinct(s), u \notin Entries(s)
    PROVE  Distinct(Append(s, u))
<1> SUFFICES ASSUME NEW i \in 1..Len(s) + 1, NEW j \in 1..Len(s) + 1,
                    Append(s, u)[i] = Append(s, u)[j]
             PROVE  i = j
  BY EntriesAppend DEF Distinct
<1>1. \A k \in 1..Len(s) : s[k] # u
  BY EntriesIs
<1> QED BY <1>1, EntriesAppend DEF Distinct

\* Where an entry stands, and that it stays there.
LEMMA PlaceIs ==
    ASSUME NEW s \in Seq(Update), Distinct(s)
    PROVE  /\ \A i \in 1..Len(s) : Place(s, s[i]) = i
           /\ \A u \in Entries(s) \cup {None} : Place(s, u) \in 0..Len(s)
<1>1. ASSUME NEW i \in 1..Len(s) PROVE Place(s, s[i]) = i
  <2>1. s[i] \in Update /\ s[i] # None /\ DOMAIN s = 1..Len(s)
    BY OutboxAssumption
  <2>2. \A j \in DOMAIN s : s[j] = s[i] => j = i
    BY <2>1 DEF Distinct
  <2> QED BY <2>1, <2>2 DEF Place
<1>2. Place(s, None) = 0
  BY DEF Place
<1> QED BY <1>1, <1>2, EntriesIs

LEMMA PlaceAppend ==
    ASSUME NEW s \in Seq(Update), NEW u \in Update, Distinct(s), u \notin Entries(s)
    PROVE  /\ \A v \in Entries(s) \cup {None} : Place(Append(s, u), v) = Place(s, v)
           /\ \A v \in Entries(s) \cup {None} : Place(s, v) \in 0..Len(s)
           /\ Place(Append(s, u), u) = Len(s) + 1
<1> DEFINE t == Append(s, u)
<1>1. t \in Seq(Update) /\ Distinct(t) /\ Len(t) = Len(s) + 1 /\ t[Len(s) + 1] = u
  BY EntriesAppend, DistinctAppend
<1>2. \A i \in 1..Len(s) : t[i] = s[i]
  BY EntriesAppend
<1> HIDE DEF t
<1>3. Place(t, u) = Len(s) + 1
  BY <1>1, PlaceIs
<1>4. ASSUME NEW v \in Entries(s) PROVE Place(t, v) = Place(s, v)
  <2>1. PICK i \in 1..Len(s) : s[i] = v
    BY EntriesIs
  <2> QED BY <1>1, <1>2, <2>1, PlaceIs
<1>5. Place(t, None) = Place(s, None)
  BY DEF Place
<1>6. \A v \in Entries(s) \cup {None} : Place(s, v) \in 0..Len(s)
  BY PlaceIs
<1> QED BY <1>3, <1>4, <1>5, <1>6 DEF t

-----------------------------------------------------------------------------
(* The initial state, and what is left when the lock is let go *)

LEMMA OutboxInit == Init => OutboxInv
<1> SUFFICES ASSUME Init PROVE OutboxInv
  OBVIOUS
<1>1. Entries(<<>>) = {} /\ Len(<<>>) = 0 /\ <<>> \in Seq(Update)
  BY DEF Entries
<1>2. OutboxType
  BY <1>1 DEF Init, OutboxType, Phases, Points
<1>3. LockInv
  BY <1>1, OutboxAssumption DEF Init, LockInv, Working, Active
<1>4. JournalInv
  BY <1>1 DEF Init, JournalInv, Distinct
<1>5. CallerInv
  BY <1>1 DEF Init, CallerInv
<1>6. OrderInv
  BY <1>1 DEF Init, OrderInv, Distinct, Active
<1>7. FileInv
  BY <1>1 DEF Init, FileInv, Open
<1> QED BY <1>2, <1>3, <1>4, <1>5, <1>6, <1>7 DEF OutboxInv

\* The lock is let go without a success: the call fails, the start ends, or
\* the process does.
LetGo ==
    /\ ReleaseLock /\ (reconciled' => reconciled)
    /\ caller' \in [Update -> Points]
    /\ \A u \in Update :
          \/ caller'[u] = caller[u] /\ u # holder
          \/ Active(u) /\ caller'[u] \in {"lost", "conflict", "failed"}
          \/ Active(u) /\ caller'[u] = "rejected" /\ u \notin Entries(prepared)
    /\ UNCHANGED <<file, prepared, applied, journal, revs, begun>>

LEMMA LetGoKeeps ==
    ASSUME OutboxInv, LetGo
    PROVE  OutboxInv'
<1> USE DEF LetGo, ReleaseLock, OutboxInv
<1>1. OutboxType'
  BY DEF OutboxType, Phases
<1>2. LockInv'
  BY OutboxAssumption DEF LockInv, Working
<1>3. JournalInv'
  BY DEF JournalInv, Entries, Distinct
<1>4. CallerInv'
  <2> SUFFICES ASSUME NEW u \in Update PROVE CallerInv!(u)'
    BY DEF CallerInv
  <2>1. CallerInv!(u)
    BY DEF CallerInv
  <2>2. Entries(prepared)' = Entries(prepared) /\ Entries(journal)' = Entries(journal)
        /\ Entries(begun)' = Entries(begun)
    BY DEF Entries
  <2> QED BY <2>1, <2>2 DEF Active
<1>5. OrderInv'
  <2>1. Entries(begun)' = Entries(begun) /\ \A u \in Update : Active(u)' => Active(u)
    BY DEF Entries, Active
  <2> QED BY <2>1 DEF OrderInv, Shares, Distinct
<1>6. FileInv'
  <2>1. Entries(prepared)' = Entries(prepared) /\ Entries(journal)' = Entries(journal)
        /\ Entries(begun)' = Entries(begun)
    BY DEF Entries
  <2>2. \A u \in Update : Open(u)' => Open(u)
    BY <2>1 DEF Open
  <2> QED BY <2>1, <2>2 DEF FileInv, Shares, Place
<1> QED BY <1>1, <1>2, <1>3, <1>4, <1>5, <1>6

\* The call of the one who holds the lock raises.
LEMMA RaiseKeeps ==
    ASSUME OutboxInv, NEW outcome \in {"conflict", "failed", "rejected"}, Raise(outcome),
           holder # None, outcome = "rejected" => holder \notin Entries(prepared),
           UNCHANGED <<file, prepared, applied, journal, revs, begun>>, reconciled' = reconciled
    PROVE  OutboxInv'
<1> SUFFICES LetGo
  BY LetGoKeeps
<1>2. CASE holder = Boot
  BY <1>2, OutboxAssumption DEF LetGo, Raise, OutboxInv, OutboxType
<1>3. CASE holder \in Update
  <2>1. Active(holder) /\ holder # Boot
    BY <1>3, OutboxAssumption DEF OutboxInv, LockInv
  <2>2. caller' = [caller EXCEPT ![holder] = outcome]
    BY <2>1 DEF Raise, At
  <2> QED BY <1>3, <2>1, <2>2 DEF LetGo, Raise, OutboxInv, OutboxType, Points
<1> QED BY <1>2, <1>3 DEF OutboxInv, OutboxType

-----------------------------------------------------------------------------
(* Steps of the one who has the lock *)

\* A caller that may be in the middle of its row, as CallerInv has it.
InRow(u) == caller[u] = "numbered" /\ u \in Entries(prepared)

\* A step that only moves the lock on.
LEMMA LockStepKeeps ==
    ASSUME OutboxInv, UNCHANGED <<diskVars, caller, revs, begun>>,
           holder' \in Update \cup {None, Boot}, phase' \in Phases, op' \in Update \cup {None},
           LockInv',
           \A u \in Update : InRow(u) => holder' = u /\ Working' /\ op' = u,
           phase' = "finalize" => \A d \in Touches[op'] :
                Place(begun, file[d].by) >= Place(begun, op')
    PROVE  OutboxInv'
<1> USE DEF OutboxInv, diskVars
<1>1. OutboxType'
  BY DEF OutboxType
<1>2. Entries(prepared)' = Entries(prepared) /\ Entries(journal)' = Entries(journal)
      /\ Entries(begun)' = Entries(begun) /\ \A u \in Update : Active(u)' <=> Active(u)
  BY DEF Entries, Active
<1>3. JournalInv'
  BY <1>2 DEF JournalInv, Distinct
<1>4. CallerInv'
  BY <1>2 DEF CallerInv, InRow
<1>5. OrderInv'
  BY <1>2 DEF OrderInv, Shares, Distinct
<1>6. FileInv'
  <2>1. \A u \in Update : Open(u)' <=> Open(u)
    BY <1>2 DEF Open
  <2> QED BY <1>2, <2>1 DEF FileInv, Shares, Place
<1> QED BY <1>1, <1>3, <1>4, <1>5, <1>6

LEMMA TakesLockKeeps ==
    ASSUME OutboxInv, NEW u \in Update, TakesLock(u)
    PROVE  OutboxInv'
<1>1. LockInv'
  BY OutboxAssumption DEF TakesLock, OutboxInv, LockInv, Working, Active, diskVars
<1>2. \A v \in Update : ~InRow(v)
  BY OutboxAssumption DEF TakesLock, OutboxInv, CallerInv, InRow
<1> QED BY <1>1, <1>2, LockStepKeeps DEF TakesLock, OutboxInv, OutboxType, Phases

LEMMA BootsKeeps ==
    ASSUME OutboxInv, Boots
    PROVE  OutboxInv'
<1>1. holder = None /\ phase = "none"
  BY DEF Boots, OutboxInv, LockInv
<1>2. LockInv'
  BY <1>1, OutboxAssumption DEF Boots, OutboxInv, LockInv, Working, diskVars
<1>3. \A v \in Update : ~InRow(v)
  BY <1>1, OutboxAssumption DEF OutboxInv, CallerInv, InRow
<1> QED BY <1>2, <1>3, LockStepKeeps DEF Boots, OutboxInv, OutboxType, Phases

LEMMA BootEndsKeeps ==
    ASSUME OutboxInv, BootEnds
    PROVE  OutboxInv'
<1> SUFFICES LetGo
  BY LetGoKeeps
<1> QED BY OutboxAssumption DEF BootEnds, LetGo, OutboxInv, OutboxType, diskVars

LEMMA CrashKeeps ==
    ASSUME OutboxInv, Crash
    PROVE  OutboxInv'
<1> SUFFICES LetGo
  BY LetGoKeeps
<1>1. caller \in [Update -> Points]
  BY DEF OutboxInv, OutboxType
<1>2. \A u \in Update : u = holder => Active(u)
  BY DEF OutboxInv, LockInv
<1>3. caller' \in [Update -> Points]
  BY <1>1 DEF Crash, Points
<1> QED BY <1>1, <1>2, <1>3 DEF Crash, LetGo, diskVars

\* Of the rows only the last can be without its events.
LEMMA PendingIs ==
    ASSUME OutboxInv
    PROVE  /\ Pending = {i \in 1..Len(prepared) : i > Len(journal)}
           /\ Pending # {} => /\ Oldest = prepared[Len(prepared)]
                              /\ Len(prepared) = Len(journal) + 1
<1>1. /\ prepared \in Seq(Update) /\ journal \in Seq(Update) /\ JournalInv
  BY DEF OutboxInv, OutboxType
<1>2. ASSUME NEW i \in 1..Len(prepared)
      PROVE  prepared[i] \notin applied <=> i > Len(journal)
  <2>1. prepared[i] \in applied <=> \E j \in 1..Len(journal) : journal[j] = prepared[i]
    BY <1>1, EntriesIs DEF JournalInv
  <2>2. \A j \in 1..Len(journal) : journal[j] = prepared[i] => j = i
    BY <1>1 DEF JournalInv, Distinct
  <2>3. i <= Len(journal) => journal[i] = prepared[i]
    BY <1>1 DEF JournalInv
  <2> QED BY <1>1, <2>1, <2>2, <2>3
<1>3. Pending = {i \in 1..Len(prepared) : i > Len(journal)}
  BY <1>1, <1>2 DEF Pending
<1>4. ASSUME Pending # {}
      PROVE  Oldest = prepared[Len(prepared)] /\ Len(prepared) = Len(journal) + 1
  <2>1. Len(prepared) = Len(journal) + 1
    BY <1>1, <1>3, <1>4 DEF JournalInv
  <2>2. Pending = {Len(prepared)}
    BY <1>1, <1>3, <2>1
  <2>3. \A i \in Pending : i = Len(prepared)
    BY <2>2
  <2> QED BY <1>1, <2>1, <2>2, <2>3 DEF Oldest
<1> QED BY <1>3, <1>4

LEMMA ScansKeeps ==
    ASSUME OutboxInv, Scans
    PROVE  OutboxInv'
<1>1. \A v \in Update : ~InRow(v)
  BY DEF Scans, OutboxInv, CallerInv, InRow, Working
<1>2. /\ prepared \in Seq(Update) /\ journal \in Seq(Update) /\ Len(journal) <= Len(prepared)
      /\ Len(prepared) <= Len(journal) + 1
  BY DEF OutboxInv, OutboxType, JournalInv
<1>3. LockInv /\ phase = "scan" /\ todo = {} /\ holder # None
  BY DEF OutboxInv, LockInv, Scans
<1>4. CASE Pending = {}
  <2>1. Len(prepared) = Len(journal)
    BY <1>2, <1>4, PendingIs
  <2>2. LockInv'
    BY <1>3, <1>4, <2>1 DEF Scans, LockInv, Working, Active, diskVars
  <2> QED BY <1>1, <1>4, <2>2, LockStepKeeps DEF Scans, OutboxInv, OutboxType, Phases
<1>5. CASE Pending # {}
  <2>1. Len(prepared) = Len(journal) + 1 /\ Oldest = prepared[Len(prepared)]
        /\ Oldest \in Update
    BY <1>2, <1>5, PendingIs
  <2>2. LockInv'
    BY <1>2, <1>3, <1>5, <2>1 DEF Scans, LockInv, Working, Active, diskVars
  <2> QED BY <1>1, <1>5, <2>1, <2>2, LockStepKeeps DEF Scans, OutboxInv, OutboxType, Phases
<1> QED BY <1>4, <1>5

\* Whoever works on a row works on the last one, and that one is not published.
LEMMA WorkingIs ==
    ASSUME OutboxInv, Working
    PROVE  /\ op \in Update /\ op \in Entries(prepared) /\ op \notin Entries(journal)
           /\ op = prepared[Len(prepared)] /\ Len(prepared) = Len(journal) + 1
           /\ op \in Entries(begun) /\ Open(op) /\ op \notin Direct /\ holder # None
<1>1. /\ prepared \in Seq(Update) /\ journal \in Seq(Update)
      /\ Len(prepared) = Len(journal) + 1 /\ op = prepared[Len(prepared)]
  BY DEF OutboxInv, OutboxType, LockInv
<1>2. op \in Update /\ op \in Entries(prepared)
  BY <1>1, EntriesIs
<1>3. op \notin Entries(journal)
  <2> SUFFICES ASSUME NEW i \in 1..Len(journal), journal[i] = op PROVE FALSE
    BY <1>1, EntriesIs
  <2>1. prepared[i] = prepared[Len(prepared)] /\ i \in 1..Len(prepared)
    BY <1>1 DEF OutboxInv, JournalInv
  <2> QED BY <1>1, <2>1 DEF OutboxInv, JournalInv, Distinct
<1>4. op \in Entries(begun) /\ op \notin Direct
  BY <1>2 DEF OutboxInv, CallerInv
<1> QED BY <1>1, <1>2, <1>3, <1>4 DEF Open, OutboxInv, LockInv, Working

LEMMA AppliesKeeps ==
    ASSUME OutboxInv, Applies
    PROVE  OutboxInv'
<1>1. Working /\ op \in Update /\ Open(op) /\ phase = "apply"
  BY WorkingIs DEF Applies, Working
<1>2. ASSUME NEW d \in Touches[op] PROVE ~Diverges(op, d)
  <2>1. d \in Document
    BY <1>1, OutboxAssumption
  <2>2. file[d].rev \in Nat /\ revs[op][d] \in Nat
    BY <1>1, <2>1 DEF OutboxInv, OutboxType
  <2>3. file[d].by = op \/ file[d].rev < revs[op][d]
    BY <1>1 DEF OutboxInv, FileInv
  <2> QED BY <2>2, <2>3 DEF Diverges
<1>3. phase' = "replace" /\ todo' = {d \in Touches[op] : file[d].by # op}
      /\ UNCHANGED <<holder, op, up, caller>> /\ UNCHANGED <<diskVars, reconciled, revs, faults, begun>>
  BY <1>2 DEF Applies
<1>4. LockInv'
  BY <1>1, <1>3 DEF OutboxInv, LockInv, Working, Active, diskVars
<1>5. \A u \in Update : InRow(u) => holder' = u /\ Working' /\ op' = u
  BY <1>1, <1>3 DEF OutboxInv, CallerInv, InRow, Working
<1> QED BY <1>3, <1>4, <1>5, LockStepKeeps DEF OutboxInv, OutboxType, Phases

LEMMA ChecksKeeps ==
    ASSUME OutboxInv, Checks
    PROVE  OutboxInv'
<1>1. Working /\ op \in Update /\ op \in Entries(begun) /\ holder # None
  BY WorkingIs DEF Checks, Working
<1>2. CASE \A d \in Touches[op] : file[d].by = op
  <2>1. phase' = "finalize" /\ UNCHANGED <<holder, op, todo, up, caller>>
        /\ UNCHANGED <<diskVars, reconciled, revs, faults, begun>>
    BY <1>2 DEF Checks
  <2>2. LockInv'
    BY <1>1, <2>1 DEF Checks, OutboxInv, LockInv, Working, Active, diskVars
  <2>3. \A u \in Update : InRow(u) => holder' = u /\ Working' /\ op' = u
    BY <1>1, <2>1 DEF OutboxInv, CallerInv, InRow, Working
  <2>4. Place(begun, op) \in Nat
    BY <1>1, PlaceIs DEF OutboxInv, OutboxType, OrderInv
  <2>5. \A d \in Touches[op'] : Place(begun, file[d].by) >= Place(begun, op')
    BY <1>2, <2>1, <2>4
  <2> QED BY <2>1, <2>2, <2>3, <2>5, LockStepKeeps DEF OutboxInv, OutboxType, Phases
<1>3. CASE ~ \A d \in Touches[op] : file[d].by = op
  BY <1>1, <1>3, RaiseKeeps DEF Checks, diskVars
<1> QED BY <1>2, <1>3

\* A document that the row replaces has no later change of another row.
LEMMA LastRow ==
    ASSUME OutboxInv, Working, NEW u \in Update, u \in Entries(prepared), Shares(u, op)
    PROVE  Place(begun, op) >= Place(begun, u)
<1>1. prepared \in Seq(Update) /\ op = prepared[Len(prepared)] /\ op \in Entries(prepared)
      /\ op \in Entries(begun) /\ u \in Entries(begun)
  BY WorkingIs DEF OutboxInv, OutboxType, CallerInv
<1>2. PICK i \in 1..Len(prepared) : prepared[i] = u
  BY <1>1, EntriesIs
<1>3. i <= Len(prepared) /\ Len(prepared) \in 1..Len(prepared)
  BY <1>1, <1>2
<1>4. Place(begun, op) \in Nat /\ Place(begun, u) \in Nat
  BY <1>1, PlaceIs DEF OutboxInv, OutboxType, OrderInv
<1> QED BY <1>1, <1>2, <1>3, <1>4 DEF OutboxInv, OrderInv

\* What is published was a row, and what was a row got its locks.
LEMMA RowsBegan ==
    ASSUME OutboxInv
    PROVE  Entries(journal) \subseteq Entries(prepared) /\ Entries(prepared) \subseteq Entries(begun)
<1>1. prepared \in Seq(Update) /\ journal \in Seq(Update) /\ JournalInv
  BY DEF OutboxInv, OutboxType
<1>2. ASSUME NEW u \in Entries(journal) PROVE u \in Entries(prepared)
  <2>1. PICK i \in 1..Len(journal) : journal[i] = u
    BY <1>1, EntriesIs
  <2>2. i \in 1..Len(prepared) /\ prepared[i] = u
    BY <1>1, <2>1 DEF JournalInv
  <2> QED BY <1>1, <2>2, EntriesIs
<1>3. \A u \in Entries(prepared) : u \in Entries(begun)
  BY <1>1, EntriesIs DEF OutboxInv, CallerInv
<1> QED BY <1>2, <1>3

LEMMA ReplacesKeeps ==
    ASSUME OutboxInv, NEW d \in Document, Replaces(d)
    PROVE  OutboxInv'
<1> USE DEF OutboxInv
<1>1. Working /\ op \in Update /\ op \in Entries(begun) /\ holder # None /\ Open(op)
      /\ op \in Entries(prepared) /\ op \notin Entries(journal) /\ phase = "replace"
  BY WorkingIs DEF Replaces, Working
<1>2. CASE /\ file' = [file EXCEPT ![d] = [by |-> op, rev |-> revs[op][d]]]
           /\ todo' = todo \ {d}
           /\ UNCHANGED <<holder, phase, op, up, caller, faults>>
  <2>1. UNCHANGED <<prepared, applied, journal, reconciled, revs, begun>> /\ d \in todo
    BY DEF Replaces
  <2>2. d \in Touches[op]
    BY <1>1, <2>1 DEF LockInv
  <2>3. file'[d].by = op /\ file'[d].rev = revs[op][d] /\ revs[op][d] \in Nat
        /\ \A e \in Document \ {d} : file'[e] = file[e]
    BY <1>1, <1>2 DEF OutboxType
  <2>4. OutboxType'
    BY <1>1, <1>2, <2>1, <2>3 DEF OutboxType
  <2>5. Entries(prepared)' = Entries(prepared) /\ Entries(journal)' = Entries(journal)
        /\ Entries(begun)' = Entries(begun) /\ \A u \in Update : Active(u)' <=> Active(u)
    BY <1>2, <2>1 DEF Entries, Active
  <2>6. LockInv' /\ JournalInv'
    BY <1>2, <2>1, <2>5 DEF LockInv, JournalInv, Distinct, Working
  <2>7. CallerInv'
    BY <1>2, <2>1, <2>5 DEF CallerInv, Working
  <2>8. OrderInv'
    BY <1>2, <2>1, <2>5 DEF OrderInv, Shares, Distinct
  <2>9. FileInv'
    <3>1. \A u \in Update : Open(u)' <=> Open(u)
      BY <1>2, <2>1, <2>5 DEF Open
    <3>2. \A e \in Document : file'[e].by # None =>
             /\ e \in Touches[file'[e].by] /\ file'[e].by \in Entries(begun)
             /\ file'[e].by \in Entries(prepared) \/ file'[e].by \in Direct
      BY <1>1, <2>2, <2>3 DEF FileInv
    <3>3. ASSUME NEW u \in Update, Open(u), NEW e \in Touches[u]
          PROVE  revs[u][e] > 0 /\ (file'[e].by = u \/ file'[e].rev < revs[u][e])
      <4>1. e \in Document
        BY OutboxAssumption
      <4>2. CASE e = d
        <5>1. u = op
          BY <1>1, <2>2, <3>3, <4>2 DEF FileInv, Shares
        <5> QED BY <2>3, <3>3, <4>2, <5>1 DEF FileInv
      <4>3. CASE e # d
        BY <2>3, <3>3, <4>1, <4>3 DEF FileInv
      <4> QED BY <4>2, <4>3
    <3>4. ASSUME NEW u \in Update, u \in Entries(journal), NEW e \in Touches[u]
          PROVE  Place(begun, file'[e].by) >= Place(begun, u)
      <4>1. e \in Document
        BY OutboxAssumption
      <4>2. u \in Entries(prepared)
        BY <3>4, RowsBegan
      <4>3. CASE e = d
        BY <1>1, <2>2, <2>3, <4>2, <4>3, LastRow DEF Shares
      <4>4. CASE e # d
        BY <2>3, <3>4, <4>1, <4>4 DEF FileInv
      <4> QED BY <4>3, <4>4
    <3>5. phase' # "finalize"
      BY <1>1, <1>2
    <3>6. \A u, v \in Update : Open(u) /\ Open(v) /\ u # v => ~Shares(u, v)
      BY DEF FileInv
    <3> QED BY <2>1, <2>5, <3>1, <3>2, <3>3, <3>4, <3>5, <3>6 DEF FileInv, Shares, Place
  <2> QED BY <2>4, <2>6, <2>7, <2>8, <2>9
<1>3. CASE Fault /\ Raise("failed") /\ UNCHANGED file
  BY <1>1, <1>3, RaiseKeeps DEF Replaces
<1> QED BY <1>2, <1>3 DEF Replaces

LEMMA FinalizesKeeps ==
    ASSUME OutboxInv, Finalizes
    PROVE  OutboxInv'
<1> USE DEF OutboxInv
<1>1. Working /\ op \in Update /\ op \in Entries(begun) /\ holder # None
      /\ op = prepared[Len(prepared)] /\ Len(prepared) = Len(journal) + 1
      /\ op \in Entries(prepared) /\ op \notin Entries(journal) /\ op \notin Direct
      /\ phase = "finalize"
  BY WorkingIs DEF Finalizes, Working
<1>2. CASE Fault /\ Raise("failed") /\ UNCHANGED <<diskVars, reconciled>>
  BY <1>1, <1>2, RaiseKeeps DEF Finalizes, diskVars
<1>3. CASE /\ journal' = Append(journal, op) /\ applied' = applied \cup {op}
           /\ UNCHANGED <<file, prepared, up, faults>>
           /\ IF op = holder
              THEN ReleaseLock /\ At(op, "done") /\ reconciled' = TRUE
              ELSE phase' = "scan" /\ UNCHANGED <<holder, op, todo, reconciled, caller>>
  <2>1. UNCHANGED <<file, prepared, up, revs, begun>>
    BY <1>3 DEF Finalizes
  <2>2. prepared \in Seq(Update) /\ journal \in Seq(Update) /\ caller \in [Update -> Points]
    BY DEF OutboxType
  <2>3. /\ journal' \in Seq(Update) /\ Len(journal') = Len(journal) + 1
        /\ Entries(journal)' = Entries(journal) \cup {op}
        /\ \A i \in 1..Len(journal) : journal'[i] = journal[i]
        /\ journal'[Len(journal) + 1] = op
    <3>1. /\ Append(journal, op) \in Seq(Update) /\ Len(Append(journal, op)) = Len(journal) + 1
          /\ Entries(Append(journal, op)) = Entries(journal) \cup {op}
          /\ \A i \in 1..Len(journal) : Append(journal, op)[i] = journal[i]
          /\ Append(journal, op)[Len(journal) + 1] = op
      BY <1>1, <2>2, EntriesAppend
    <3>2. journal' = Append(journal, op) /\ Entries(journal)' = Entries(journal')
      BY <1>3
    <3> QED BY <3>1, <3>2
  <2>4. Entries(prepared)' = Entries(prepared) /\ Entries(begun)' = Entries(begun)
    BY <2>1 DEF Entries
  <2>5. JournalInv'
    BY <1>1, <1>3, <2>1, <2>2, <2>3 DEF JournalInv, Distinct
  <2>6. /\ caller' \in [Update -> Points]
        /\ \A u \in Update : caller'[u] = caller[u] \/ (u = op /\ u = holder /\ caller'[u] = "done")
        /\ op = holder => caller'[op] = "done" /\ holder' = None
    <3>1. CASE op = holder
      <4>1. caller' = [caller EXCEPT ![op] = "done"] /\ holder' = None
        BY <1>3, <3>1 DEF At, ReleaseLock
      <4>2. caller' \in [Update -> Points]
        BY <2>2, <4>1 DEF Points
      <4>3. \A u \in Update : caller'[u] = IF u = op THEN "done" ELSE caller[u]
        BY <2>2, <4>1
      <4> QED BY <1>1, <3>1, <4>1, <4>2, <4>3
    <3>2. CASE op # holder
      <4>1. caller' = caller
        BY <1>3, <3>2
      <4> QED BY <2>2, <3>2, <4>1
    <3> QED BY <3>1, <3>2
  <2>7. \A u \in Update : (Active(u)' => Active(u)) /\ (Active(u) => Active(u)' \/ (u = holder /\ holder' = None))
    BY <2>6 DEF Active
  <2>8. OutboxType'
    BY <1>3, <2>1, <2>3, <2>6 DEF OutboxType, Phases, ReleaseLock
  <2>9. LockInv'
    <3>1. CASE op = holder
      BY <1>1, <1>3, <2>1, <2>3, <3>1, OutboxAssumption DEF LockInv, ReleaseLock, Working
    <3>2. CASE op # holder
      <4>1. ~reconciled
        BY <1>1, <2>2 DEF LockInv
      <4>2. phase' = "scan" /\ UNCHANGED <<holder, op, todo, reconciled, caller, up>> /\ todo = {}
        BY <1>1, <1>3, <3>2 DEF LockInv
      <4> QED BY <1>1, <4>1, <4>2 DEF LockInv, Working, Active
    <3> QED BY <3>1, <3>2
  <2>10. CallerInv'
    <3> SUFFICES ASSUME NEW u \in Update PROVE CallerInv!(u)'
      BY DEF CallerInv
    <3>1. CallerInv!(u)
      BY DEF CallerInv
    <3>2. CASE (caller'[u] = caller[u] /\ caller[u] # "done") \/ u = op
      BY <1>1, <2>3, <2>4, <2>6, <3>1, <3>2
    <3>3. CASE caller'[u] = caller[u] /\ caller[u] = "done"
      BY <2>3, <2>4, <3>1, <3>3
    <3> QED BY <2>6, <3>2, <3>3
  <2>11. OrderInv'
    BY <2>1, <2>4, <2>7 DEF OrderInv, Shares, Distinct
  <2>12. FileInv'
    <3>1. \A u \in Update : Open(u)' => Open(u)
      BY <2>3, <2>4, <2>6 DEF Open
    <3>2. phase' # "finalize"
      BY <1>3 DEF ReleaseLock
    <3>3. ASSUME NEW u \in Update, u \in Entries(journal) \cup {op}, NEW d \in Touches[u]
          PROVE  Place(begun, file[d].by) >= Place(begun, u)
      BY <1>1, <3>3 DEF FileInv
    <3>4. \A d \in Document : file[d].by # None =>
             /\ d \in Touches[file[d].by] /\ file[d].by \in Entries(begun)
             /\ file[d].by \in Entries(prepared) \/ file[d].by \in Direct
      BY DEF FileInv
    <3>5. \A u \in Update : Open(u) => \A d \in Touches[u] :
             revs[u][d] > 0 /\ (file[d].by = u \/ file[d].rev < revs[u][d])
      BY DEF FileInv
    <3>6. \A u, v \in Update : Open(u) /\ Open(v) /\ u # v => ~Shares(u, v)
      BY DEF FileInv
    <3>7. \A u \in Update : u \in Entries(journal)' => \A d \in Touches[u] :
             Place(begun, file[d].by) >= Place(begun, u)
      BY <2>3, <3>3
    <3>8. \A u \in Update : Open(u)' => \A d \in Touches[u] :
             revs[u][d] > 0 /\ (file[d].by = u \/ file[d].rev < revs[u][d])
      BY <3>1, <3>5
    <3>9. \A u, v \in Update : Open(u)' /\ Open(v)' /\ u # v => ~Shares(u, v)
      BY <3>1, <3>6
    <3> QED BY <2>1, <2>4, <3>2, <3>4, <3>7, <3>8, <3>9 DEF FileInv, Shares, Place
  <2> QED BY <2>5, <2>8, <2>9, <2>10, <2>11, <2>12
<1> QED BY <1>2, <1>3 DEF Finalizes

-----------------------------------------------------------------------------
(* Steps of callers *)

\* While nothing is left to be finished, every row is in the journal.
LEMMA AllPublished ==
    ASSUME OutboxInv, phase = "ready"
    PROVE  /\ Entries(prepared) = Entries(journal) /\ Len(prepared) = Len(journal)
           /\ \A u \in Update : Open(u) => Active(u) /\ u \notin Entries(prepared)
<1>1. prepared \in Seq(Update) /\ journal \in Seq(Update) /\ JournalInv
      /\ Len(prepared) = Len(journal)
  BY DEF OutboxInv, OutboxType, LockInv
<1>2. ASSUME NEW u \in Entries(prepared) PROVE u \in Entries(journal)
  <2>1. PICK i \in 1..Len(prepared) : prepared[i] = u
    BY <1>1, EntriesIs
  <2>2. i \in 1..Len(journal) /\ journal[i] = u
    BY <1>1, <2>1 DEF JournalInv
  <2> QED BY <1>1, <2>2, EntriesIs
<1>3. Entries(prepared) = Entries(journal)
  BY <1>2, RowsBegan
<1> QED BY <1>1, <1>3 DEF Open, Active

LEMMA NumbersKeeps ==
    ASSUME OutboxInv, NEW u \in Update, Numbers(u)
    PROVE  OutboxInv'
<1> USE DEF OutboxInv
<1>1. /\ Entries(prepared) = Entries(journal) /\ Len(prepared) = Len(journal)
      /\ \A v \in Update : Open(v) => Active(v) /\ v \notin Entries(prepared)
  BY AllPublished DEF Numbers
<1>2. UNCHANGED <<file, prepared, applied, journal, up, reconciled, begun>>
  BY DEF Numbers, diskVars
<1>3. /\ caller' \in [Update -> Points] /\ caller'[u] = "numbered" /\ caller[u] = "reading"
      /\ \A v \in Update \ {u} : caller'[v] = caller[v]
  BY DEF Numbers, At, OutboxType, Points
<1>4. /\ Entries(prepared)' = Entries(prepared) /\ Entries(journal)' = Entries(journal)
      /\ Entries(begun)' = Entries(begun)
      /\ \A v \in Update : Active(v)' <=> Active(v)
  BY <1>2, <1>3 DEF Entries, Active
<1>5. /\ revs' \in [Update -> [Document -> Nat]]
      /\ \A v \in Update \ {u} : revs'[v] = revs[v]
      /\ \A d \in Touches[u] : revs'[u][d] = file[d].rev + 1 /\ file[d].rev \in Nat
  <2>1. \A d \in Document : file[d].rev \in Nat
    BY DEF OutboxType
  <2>2. [d \in Document |-> IF d \in Touches[u] THEN file[d].rev + 1 ELSE 0] \in [Document -> Nat]
    BY <2>1
  <2>3. revs' = [revs EXCEPT ![u] = [d \in Document |-> IF d \in Touches[u]
                                                        THEN file[d].rev + 1 ELSE 0]]
    BY DEF Numbers
  <2>4. Touches[u] \subseteq Document
    BY OutboxAssumption
  <2> QED BY <2>1, <2>2, <2>3, <2>4 DEF OutboxType
<1>6. OutboxType'
  BY <1>2, <1>3, <1>5 DEF Numbers, ReleaseLock, OutboxType, Phases
<1>7. LockInv'
  BY <1>1, <1>2, OutboxAssumption DEF Numbers, ReleaseLock, LockInv, Working
<1>8. JournalInv'
  BY <1>2, <1>4 DEF JournalInv, Distinct
<1>9. CallerInv'
  <2> SUFFICES ASSUME NEW v \in Update PROVE CallerInv!(v)'
    BY DEF CallerInv
  <2>1. CallerInv!(v)
    BY DEF CallerInv
  <2>2. phase = "ready" /\ ~Working
    BY DEF Numbers, Working
  <2> QED BY <1>3, <1>4, <2>1, <2>2
<1>10. OrderInv'
  BY <1>2, <1>4 DEF OrderInv, Shares, Distinct
<1>11. FileInv'
  <2>1. \A v \in Update : Open(v)' => v = u \/ Open(v)
    BY <1>3, <1>4 DEF Open
  <2>2. phase' # "finalize"
    BY DEF Numbers, ReleaseLock
  <2>3. ASSUME NEW v \in Update, Open(v)', NEW d \in Touches[v]
        PROVE  revs'[v][d] > 0 /\ (file[d].by = v \/ file[d].rev < revs'[v][d])
    BY <1>5, <2>1, <2>3 DEF FileInv
  <2>4. ASSUME NEW v \in Update, NEW w \in Update, Open(v)', Open(w)', v # w
        PROVE  ~Shares(v, w)
    <3>1. Active(v) /\ Active(w)
      BY <1>1, <1>3, <2>1, <2>4 DEF Active
    <3> QED BY <2>4, <3>1 DEF OrderInv
  <2>5. \A d \in Document : file[d].by # None =>
             /\ d \in Touches[file[d].by] /\ file[d].by \in Entries(begun)
             /\ file[d].by \in Entries(prepared) \/ file[d].by \in Direct
      BY DEF FileInv
  <2>6. \A v \in Update : v \in Entries(journal) => \A d \in Touches[v] :
          Place(begun, file[d].by) >= Place(begun, v)
    BY DEF FileInv
  <2> QED BY <1>2, <1>4, <2>2, <2>3, <2>4, <2>5, <2>6 DEF FileInv, Shares, Place
<1> QED BY <1>6, <1>7, <1>8, <1>9, <1>10, <1>11

LEMMA PreparesKeeps ==
    ASSUME OutboxInv, NEW u \in Update, Prepares(u)
    PROVE  OutboxInv'
<1> USE DEF OutboxInv
<1>1. /\ Len(prepared) = Len(journal) /\ holder = u /\ phase = "ready" /\ caller[u] = "numbered"
      /\ holder # None /\ holder # Boot
  BY AllPublished, OutboxAssumption DEF Prepares
<1>2. u \notin Entries(prepared) /\ u \notin Direct /\ u \in Entries(begun)
  BY <1>1 DEF CallerInv, Working
<1>3. CASE Fault /\ Raise("rejected") /\ UNCHANGED <<prepared, reconciled>>
  BY <1>1, <1>2, <1>3, RaiseKeeps DEF Prepares
<1>4. CASE /\ prepared' = Append(prepared, u) /\ reconciled' = FALSE
           /\ phase' = "apply" /\ op' = u /\ UNCHANGED <<holder, todo, up, caller, faults>>
  <2>1. UNCHANGED <<file, applied, journal, revs, begun>>
    BY DEF Prepares
  <2>2. prepared \in Seq(Update) /\ journal \in Seq(Update)
    BY DEF OutboxType
  <2>3. /\ prepared' \in Seq(Update) /\ Len(prepared') = Len(prepared) + 1
        /\ Entries(prepared)' = Entries(prepared) \cup {u}
        /\ \A i \in 1..Len(prepared) : prepared'[i] = prepared[i]
        /\ prepared'[Len(prepared) + 1] = u
    <3>1. /\ Append(prepared, u) \in Seq(Update) /\ Len(Append(prepared, u)) = Len(prepared) + 1
          /\ Entries(Append(prepared, u)) = Entries(prepared) \cup {u}
          /\ \A i \in 1..Len(prepared) : Append(prepared, u)[i] = prepared[i]
          /\ Append(prepared, u)[Len(prepared) + 1] = u
      BY <2>2, EntriesAppend
    <3>2. prepared' = Append(prepared, u) /\ Entries(prepared)' = Entries(prepared')
      BY <1>4
    <3> QED BY <3>1, <3>2
  <2>4. /\ Entries(journal)' = Entries(journal) /\ Entries(begun)' = Entries(begun)
        /\ \A v \in Update : Active(v)' <=> Active(v)
    BY <1>4, <2>1 DEF Entries, Active
  <2>5. OutboxType'
    BY <1>4, <2>1, <2>3 DEF OutboxType, Phases
  <2>6. LockInv'
    BY <1>1, <1>4, <2>1, <2>2, <2>3, <2>4 DEF LockInv, Working
  <2>7. JournalInv'
    <3>1. Distinct(prepared)'
      BY <1>2, <1>4, <2>2, DistinctAppend DEF JournalInv, Distinct
    <3> QED BY <1>1, <2>1, <2>2, <2>3, <2>4, <3>1 DEF JournalInv
  <2>8. CallerInv'
    <3> SUFFICES ASSUME NEW v \in Update PROVE CallerInv!(v)'
      BY DEF CallerInv
    <3>1. CallerInv!(v) /\ ~Working /\ Working'
      BY <1>1, <1>4 DEF CallerInv, Working
    <3> QED BY <1>1, <1>2, <1>4, <2>3, <2>4, <3>1
  <2>9. OrderInv'
    <3>1. ASSUME NEW i \in 1..Len(prepared'), NEW j \in 1..Len(prepared'),
                 i <= j, Shares(prepared'[i], prepared'[j])
          PROVE  Place(begun, prepared'[i]) <= Place(begun, prepared'[j])
      <4>1. CASE j = Len(prepared) + 1 /\ i = j
        <5>1. Place(begun, u) \in Nat
          BY <1>2, PlaceIs DEF OutboxType, OrderInv
        <5> QED BY <2>3, <4>1, <5>1
      <4>2. CASE j = Len(prepared) + 1 /\ i # j
        <5>1. i \in 1..Len(prepared)
          BY <2>2, <2>3, <4>2
        <5>2. prepared[i] \in Entries(begun) /\ prepared[i] \in Update
          BY <2>2, <5>1, RowsBegan, EntriesIs
        <5>3. Active(u) /\ prepared'[i] = prepared[i] /\ prepared'[j] = u
          BY <1>1, <2>3, <4>2, <5>1 DEF Active
        <5> QED BY <3>1, <5>2, <5>3 DEF OrderInv
      <4>3. CASE j # Len(prepared) + 1
        <5>1. i \in 1..Len(prepared) /\ j \in 1..Len(prepared)
          BY <2>2, <2>3, <3>1, <4>3
        <5> QED BY <2>3, <3>1, <5>1 DEF OrderInv
      <4> QED BY <4>1, <4>2, <4>3
    <3>2. /\ Distinct(begun)
          /\ \A v, w \in Update : Active(v) /\ Active(w) /\ v # w => ~Shares(v, w)
          /\ \A v, w \in Update : Active(w) /\ v \in Entries(begun) /\ Shares(v, w) =>
                Place(begun, v) <= Place(begun, w)
      BY DEF OrderInv
    <3> QED BY <2>1, <2>4, <3>1, <3>2 DEF OrderInv, Shares, Distinct
  <2>10. FileInv'
    <3>1. u \notin Entries(journal) /\ Open(u)
      BY <1>1, <1>2, RowsBegan DEF Open
    <3>2. \A v \in Update : Open(v)' <=> Open(v)
      BY <1>4, <2>3, <2>4, <3>1 DEF Open
    <3>3. \A d \in Document : file[d].by # None =>
             /\ d \in Touches[file[d].by] /\ file[d].by \in Entries(begun)
             /\ file[d].by \in Entries(prepared)' \/ file[d].by \in Direct
      BY <2>3 DEF FileInv
    <3>4. /\ \A v \in Update : Open(v)' => \A d \in Touches[v] :
               revs[v][d] > 0 /\ (file[d].by = v \/ file[d].rev < revs[v][d])
          /\ \A v, w \in Update : Open(v)' /\ Open(w)' /\ v # w => ~Shares(v, w)
      BY <3>2 DEF FileInv
    <3>5. \A v \in Update : v \in Entries(journal) => \A d \in Touches[v] :
             Place(begun, file[d].by) >= Place(begun, v)
      BY DEF FileInv
    <3>6. phase' # "finalize"
      BY <1>4
    <3> QED BY <2>1, <2>4, <3>3, <3>4, <3>5, <3>6 DEF FileInv, Shares, Place
  <2> QED BY <2>5, <2>6, <2>7, <2>8, <2>9, <2>10
<1> QED BY <1>3, <1>4 DEF Prepares

\* A caller that gets its documents' locks comes after all who had them.
LEMMA BeginsKeeps ==
    ASSUME OutboxInv, NEW u \in Update, Free(u), caller[u] = "idle",
           begun' = Append(begun, u), UNCHANGED <<prepared, applied, journal, revs>>,
           caller' \in [Update -> Points], \A v \in Update \ {u} : caller'[v] = caller[v],
           caller'[u] \in {"reading", "done"}
    PROVE  /\ u \notin Entries(begun) /\ begun' \in Seq(Update)
           /\ Entries(begun)' = Entries(begun) \cup {u} /\ u \notin Entries(prepared)
           /\ \A v \in Entries(begun) \cup {None} :
                Place(begun', v) = Place(begun, v) /\ Place(begun', v) \in Nat
           /\ \A v \in Entries(begun) \cup {None} : Place(begun', v) < Place(begun', u)
           /\ Place(begun', u) \in Nat
           /\ OrderInv'
<1> USE DEF OutboxInv
<1>1. u \notin Entries(begun) /\ u \notin Entries(prepared) /\ begun \in Seq(Update)
      /\ Distinct(begun)
  BY DEF CallerInv, OutboxType, OrderInv
<1>2. begun' \in Seq(Update) /\ Entries(begun') = Entries(begun) \cup {u} /\ Distinct(begun')
  BY <1>1, EntriesAppend, DistinctAppend
<1>3. /\ \A v \in Entries(begun) \cup {None} :
            Place(begun', v) = Place(begun, v) /\ Place(begun, v) \in 0..Len(begun)
      /\ Place(begun', u) = Len(begun) + 1
  BY <1>1, PlaceAppend
<1>4. /\ \A v \in Entries(begun) \cup {None} :
            Place(begun', v) = Place(begun, v) /\ Place(begun', v) \in Nat
                /\ Place(begun', v) < Place(begun', u)
      /\ Place(begun', u) \in Nat
  BY <1>1, <1>3
<1>5. OrderInv'
  <2>1. \A v \in Update \ {u} : Active(v)' <=> Active(v)
    BY DEF Active
  <2>2. ASSUME NEW v \in Update, NEW w \in Update, Active(v)', Active(w)', v # w
        PROVE  ~Shares(v, w)
    <3>1. CASE v = u \/ w = u
      BY <2>1, <2>2, <3>1 DEF Free, Shares
    <3>2. CASE v # u /\ w # u
      BY <2>1, <2>2, <3>2 DEF OrderInv
    <3> QED BY <3>1, <3>2
  <2>3. ASSUME NEW v \in Update, NEW w \in Update, Active(w)', v \in Entries(begun'), Shares(v, w)
        PROVE  Place(begun', v) <= Place(begun', w)
    <3>1. CASE w = u
      BY <1>2, <1>4, <2>3, <3>1
    <3>2. CASE w # u
      <4>1. Active(w) /\ v # u
        BY <2>1, <2>3, <3>2 DEF Free, Shares
      <4>2. v \in Entries(begun) /\ w \in Entries(begun)
        BY <1>2, <2>3, <4>1 DEF CallerInv, Active
      <4> QED BY <1>4, <2>3, <4>1, <4>2 DEF OrderInv
    <3> QED BY <3>1, <3>2
  <2>4. ASSUME NEW i \in 1..Len(prepared), NEW j \in 1..Len(prepared), i <= j,
               Shares(prepared[i], prepared[j])
        PROVE  Place(begun', prepared[i]) <= Place(begun', prepared[j])
    <3>1. prepared[i] \in Entries(begun) /\ prepared[j] \in Entries(begun)
      BY RowsBegan, EntriesIs DEF OutboxType
    <3> QED BY <1>4, <2>4, <3>1 DEF OrderInv
  <2> QED BY <1>2, <2>2, <2>3, <2>4 DEF OrderInv, Shares, Distinct
<1> QED BY <1>1, <1>2, <1>4, <1>5

\* What a step that gets a caller its documents leaves as it was, when it
\* touches no document, or writes one past the outbox.
LEMMA BegunKeeps ==
    ASSUME OutboxInv, NEW u \in Update, Free(u), caller[u] = "idle",
           begun' = Append(begun, u), UNCHANGED <<prepared, applied, journal, revs, lockVars, up, reconciled>>,
           caller' \in [Update -> Points], \A v \in Update \ {u} : caller'[v] = caller[v],
           caller'[u] = IF u \in Direct THEN "done" ELSE "reading",
           file' \in [Document -> [by : Update \cup {None}, rev : Nat]],
           \A d \in Document : \/ file'[d] = file[d]
                               \/ d \in Touches[u] /\ u \in Direct /\ file'[d] = [by |-> u, rev |-> 0]
    PROVE  OutboxInv'
<1> USE DEF OutboxInv
<1>1. /\ u \notin Entries(begun) /\ begun' \in Seq(Update)
      /\ Entries(begun)' = Entries(begun) \cup {u} /\ u \notin Entries(prepared)
      /\ \A v \in Entries(begun) \cup {None} :
           Place(begun', v) = Place(begun, v) /\ Place(begun', v) \in Nat
      /\ \A v \in Entries(begun) \cup {None} : Place(begun', v) < Place(begun', u)
      /\ Place(begun', u) \in Nat
      /\ OrderInv'
  BY BeginsKeeps
<1>2. Entries(prepared)' = Entries(prepared) /\ Entries(journal)' = Entries(journal)
  BY DEF Entries
<1>3. OutboxType'
  BY <1>1 DEF OutboxType, lockVars
<1>4. LockInv'
  BY DEF LockInv, Working, Active, lockVars
<1>5. JournalInv'
  BY <1>2 DEF JournalInv, Distinct
<1>6. CallerInv'
  <2> SUFFICES ASSUME NEW v \in Update PROVE CallerInv!(v)'
    BY DEF CallerInv
  <2>1. CallerInv!(v) /\ (Working' <=> Working)
    BY DEF CallerInv, Working, lockVars
  <2>2. CASE v = u
    BY <1>1, <1>2, <2>1, <2>2
  <2>3. CASE v # u
    BY <1>1, <1>2, <2>1, <2>3 DEF lockVars
  <2> QED BY <2>2, <2>3
<1>7. FileInv'
  <2>1. \A v \in Update : Open(v)' => Open(v)
    BY <1>2 DEF Open
  <2>2. ASSUME NEW v \in Entries(begun), NEW d \in Document,
               Place(begun, file[d].by) >= Place(begun, v)
        PROVE  Place(begun', file'[d].by) >= Place(begun', v)
    <3>1. CASE file'[d] = file[d]
      <4>1. file[d].by \in Entries(begun) \cup {None}
        BY DEF FileInv
      <4> QED BY <1>1, <2>2, <3>1, <4>1
    <3>2. CASE file'[d].by = u
      BY <1>1, <3>2
    <3> QED BY <3>1, <3>2
  <2>3. ASSUME NEW d \in Document, file'[d].by # None
        PROVE  /\ d \in Touches[file'[d].by] /\ file'[d].by \in Entries(begun) \cup {u}
               /\ file'[d].by \in Entries(prepared) \/ file'[d].by \in Direct
    <3>1. CASE file'[d] = file[d]
      BY <2>3, <3>1 DEF FileInv
    <3>2. CASE d \in Touches[u] /\ u \in Direct /\ file'[d].by = u
      BY <3>2
    <3> QED BY <3>1, <3>2
  <2>4. ASSUME NEW v \in Update, Open(v)', NEW d \in Touches[v]
        PROVE  revs[v][d] > 0 /\ (file'[d].by = v \/ file'[d].rev < revs[v][d])
    <3>1. d \in Document /\ revs[v][d] > 0 /\ (file[d].by = v \/ file[d].rev < revs[v][d])
      BY <2>1, <2>4, OutboxAssumption DEF FileInv
    <3> QED BY <3>1
  <2>5. \A v, w \in Update : Open(v)' /\ Open(w)' /\ v # w => ~Shares(v, w)
    BY <2>1 DEF FileInv
  <2>6. ASSUME NEW v \in Update, v \in Entries(journal), NEW d \in Touches[v]
        PROVE  Place(begun', file'[d].by) >= Place(begun', v)
    <3>1. v \in Entries(begun) /\ d \in Document
      BY <2>6, RowsBegan, OutboxAssumption
    <3> QED BY <2>2, <2>6, <3>1 DEF FileInv
  <2>7. ASSUME phase = "finalize", NEW d \in Touches[op]
        PROVE  Place(begun', file'[d].by) >= Place(begun', op)
    <3>1. op \in Entries(begun) /\ d \in Document
      BY <2>7, WorkingIs, OutboxAssumption DEF Working
    <3> QED BY <2>2, <2>7, <3>1 DEF FileInv
  <2> QED BY <1>1, <1>2, <2>3, <2>4, <2>5, <2>6, <2>7 DEF FileInv, Shares, lockVars
<1> QED BY <1>1, <1>3, <1>4, <1>5, <1>6, <1>7

LEMMA ReadsKeeps ==
    ASSUME OutboxInv, NEW u \in Update, Reads(u)
    PROVE  OutboxInv'
<1>1. caller' = [caller EXCEPT ![u] = "reading"] /\ caller \in [Update -> Points]
      /\ file \in [Document -> [by : Update \cup {None}, rev : Nat]]
  BY DEF Reads, At, OutboxInv, OutboxType
<1>2. /\ caller' \in [Update -> Points] /\ caller'[u] = "reading"
      /\ \A v \in Update \ {u} : caller'[v] = caller[v]
  BY <1>1 DEF Points
<1> QED BY <1>1, <1>2, BegunKeeps DEF Reads, diskVars

LEMMA SavesKeeps ==
    ASSUME OutboxInv, NEW u \in Update, Saves(u)
    PROVE  OutboxInv'
<1>1. caller' = [caller EXCEPT ![u] = "done"] /\ caller \in [Update -> Points]
      /\ file \in [Document -> [by : Update \cup {None}, rev : Nat]]
  BY DEF Saves, At, OutboxInv, OutboxType
<1>2. /\ caller' \in [Update -> Points] /\ caller'[u] = "done"
      /\ \A v \in Update \ {u} : caller'[v] = caller[v]
  BY <1>1 DEF Points
<1>3. file' \in [Document -> [by : Update \cup {None}, rev : Nat]]
  BY <1>1 DEF Saves
<1>4. \A d \in Document : \/ file'[d] = file[d]
                          \/ d \in Touches[u] /\ u \in Direct /\ file'[d] = [by |-> u, rev |-> 0]
  BY DEF Saves
<1> QED BY <1>2, <1>3, <1>4, BegunKeeps DEF Saves

-----------------------------------------------------------------------------

LEMMA OutboxNext == OutboxInv /\ [Next]_vars => OutboxInv'
<1> SUFFICES ASSUME OutboxInv, [Next]_vars PROVE OutboxInv'
  OBVIOUS
<1>1. CASE UNCHANGED vars
  BY <1>1, LockStepKeeps DEF vars, lockVars, diskVars, OutboxInv, OutboxType, LockInv, Working,
     Active, CallerInv, InRow, FileInv
<1>2. CASE \E u \in Update : Reads(u) \/ TakesLock(u) \/ Numbers(u) \/ Prepares(u) \/ Saves(u)
  BY <1>2, ReadsKeeps, TakesLockKeeps, NumbersKeeps, PreparesKeeps, SavesKeeps
<1>3. CASE \E d \in Document : Replaces(d)
  BY <1>3, ReplacesKeeps
<1> QED BY <1>1, <1>2, <1>3, BootsKeeps, BootEndsKeeps, ScansKeeps, AppliesKeeps, ChecksKeeps,
           FinalizesKeeps, CrashKeeps DEF Next

\* The inductive invariant of the outbox: who holds the lock and what is left
\* to be finished, the order of rows and of documents' locks, and what the
\* documents have.
THEOREM OutboxInvariant == Spec => []OutboxInv
<1> QED BY OutboxInit, OutboxNext, PTL DEF Spec

LEMMA PositionIsPlace ==
    ASSUME NEW u
    PROVE  Position(u) = Place(begun, u)
BY DEF Position, Place

\* The journal has the rows in their order, each once and all but the last one
\* at most; a caller whose row was not committed (_prepare) changed nothing.
THEOREM OutboxPublished == Spec => []Published
<1>1. OutboxInv => Published
  <2> SUFFICES ASSUME OutboxInv PROVE Published
    OBVIOUS
  <2>1. /\ prepared \in Seq(Update) /\ journal \in Seq(Update) /\ JournalInv
        /\ file \in [Document -> [by : Update \cup {None}, rev : Nat]]
    BY DEF OutboxInv, OutboxType
  <2>2. journal = SubSeq(prepared, 1, Len(journal))
    BY <2>1 DEF JournalInv
  <2>3. ASSUME NEW u \in Update, caller[u] = "rejected"
        PROVE  u \notin Entries(prepared) /\ \A d \in Document : file[d].by # u
    <3>1. u # None /\ u \notin Entries(prepared) /\ u \notin Direct
      BY <2>3, OutboxAssumption DEF OutboxInv, CallerInv
    <3> QED BY <3>1 DEF OutboxInv, FileInv
  <2> QED BY <2>1, <2>2, <2>3 DEF Published, JournalInv
<1> QED BY <1>1, OutboxInvariant, PTL

\* Documents are replaced and checked before their events are published, and
\* nothing that came before the published change is written over it.
THEOREM OutboxEventsShowState == Spec => []EventsShowState
<1>1. OutboxInv => EventsShowState
  <2> SUFFICES ASSUME OutboxInv, NEW u \in Entries(journal), NEW d \in Touches[u]
               PROVE  NotOlder(d, u)
    BY DEF EventsShowState
  <2>1. u \in Update
    BY EntriesIs DEF OutboxInv, OutboxType
  <2>2. Place(begun, file[d].by) >= Place(begun, u)
    BY <2>1 DEF OutboxInv, FileInv
  <2> QED BY <2>2, PositionIsPlace DEF NotOlder
<1> QED BY <1>1, OutboxInvariant, PTL

\* _apply_writes never finds a marker of another operation with the same or a
\* later revision, so no row stops the commits after it or the next start.
THEOREM OutboxNeverWedged == Spec => []NeverWedged
<1>1. OutboxInv => NeverWedged
  <2> SUFFICES ASSUME OutboxInv, phase = "apply", NEW d \in Touches[op]
               PROVE  ~Diverges(op, d)
    BY DEF NeverWedged
  <2>1. op \in Update /\ Open(op)
    BY WorkingIs DEF Working
  <2>2. d \in Document
    BY <2>1, OutboxAssumption
  <2>3. file[d].rev \in Nat /\ revs[op][d] \in Nat
    BY <2>1, <2>2 DEF OutboxInv, OutboxType
  <2>4. file[d].by = op \/ file[d].rev < revs[op][d]
    BY <2>1 DEF OutboxInv, FileInv
  <2> QED BY <2>3, <2>4 DEF Diverges
<1> QED BY <1>1, OutboxInvariant, PTL

\* commit_operation returns only when the events are in the journal and the
\* documents show the change; and finishing a row, by whoever comes next, takes
\* no change of a later row back.
THEOREM OutboxAcknowledgedStays == Spec => AcknowledgedStays
<1>1. ASSUME OutboxInv, OutboxInv', [Next]_vars
      PROVE  [/\ \A u \in Update \ Direct : caller'[u] = "done" =>
                    u \in Entries(journal') /\ \A d \in Touches[u] : NotOlder(d, u)'
              /\ \A d \in Document, u \in Update \ Direct : file[d].by = u => NotOlder(d, u)']_vars
  <2> SUFFICES ASSUME Next
               PROVE  /\ \A u \in Update \ Direct : caller'[u] = "done" =>
                           u \in Entries(journal') /\ \A d \in Touches[u] : NotOlder(d, u)'
                      /\ \A d \in Document, u \in Update \ Direct : file[d].by = u => NotOlder(d, u)'
    BY <1>1
  <2>1. ASSUME NEW u \in Update \ Direct, caller'[u] = "done"
        PROVE  u \in Entries(journal') /\ \A d \in Touches[u] : NotOlder(d, u)'
    <3>1. u \in Entries(journal)' /\ Entries(journal)' = Entries(journal')
      BY <1>1, <2>1 DEF OutboxInv, CallerInv
    <3>2. \A d \in Touches[u] : Place(begun', file'[d].by) >= Place(begun', u)
      BY <1>1, <3>1 DEF OutboxInv, FileInv
    <3> QED BY <3>1, <3>2 DEF NotOlder, Position, Place
  <2>2. ASSUME NEW d \in Document, NEW u \in Update \ Direct, file[d].by = u
        PROVE  NotOlder(d, u)'
    <3> SUFFICES Place(begun', file'[d].by) >= Place(begun', u)
      BY DEF NotOlder, Position, Place
    <3>1. u # None /\ d \in Touches[u] /\ u \in Entries(begun) /\ u \in Entries(prepared)
      BY <1>1, <2>2, OutboxAssumption DEF OutboxInv, FileInv
    <3>2. Place(begun, u) \in Nat
      BY <1>1, <3>1, PlaceIs DEF OutboxInv, OutboxType, OrderInv
    <3>3. CASE \E e \in Document : Replaces(e)
      <4>1. Working /\ op \in Update /\ begun' = begun
        BY <1>1, <3>3, WorkingIs DEF Replaces, Working
      <4>2. CASE file'[d] = file[d]
        BY <2>2, <3>2, <4>1, <4>2
      <4>3. CASE file'[d].by = op /\ d \in todo
        <5>1. d \in Touches[op]
          BY <1>1, <3>3, <4>3 DEF Replaces, OutboxInv, LockInv
        <5>2. Shares(u, op)
          BY <3>1, <5>1 DEF Shares
        <5> QED BY <1>1, <3>1, <4>1, <4>3, <5>2, LastRow
      <4> QED BY <1>1, <3>3, <4>2, <4>3 DEF Replaces, OutboxInv, OutboxType
    <3>4. CASE \E v \in Update : Reads(v) \/ Saves(v)
      <4>1. PICK v \in Update : Reads(v) \/ Saves(v)
        BY <3>4
      <4>2. begun' = Append(begun, v) /\ caller[v] = "idle" /\ (file'[d] = file[d] \/ file'[d].by = v)
        BY <1>1, <4>1 DEF Reads, Saves, diskVars, OutboxInv, OutboxType
      <4>3. v \notin Entries(begun)
        BY <1>1, <4>2 DEF OutboxInv, CallerInv
      <4>4. begun \in Seq(Update) /\ Distinct(begun)
        BY <1>1 DEF OutboxInv, OutboxType, OrderInv
      <4>5. Place(begun', u) = Place(begun, u) /\ Place(begun, u) \in 0..Len(begun)
            /\ Place(begun', v) = Len(begun) + 1
        BY <3>1, <4>2, <4>3, <4>4, PlaceAppend
      <4>6. CASE file'[d] = file[d]
        BY <2>2, <3>2, <4>5, <4>6
      <4>7. CASE file'[d].by = v
        BY <4>4, <4>5, <4>7
      <4> QED BY <4>2, <4>6, <4>7
    <3>5. CASE UNCHANGED <<file, begun>>
      BY <2>2, <3>2, <3>5
    <3> QED BY <3>3, <3>4, <3>5 DEF Next, Boots, BootEnds, Scans, Applies, Checks, Finalizes, Crash,
               TakesLock, Numbers, Prepares, diskVars
  <2> QED BY <2>1, <2>2
<1> QED BY <1>1, OutboxInvariant, PTL DEF Spec, AcknowledgedStays

=============================================================================

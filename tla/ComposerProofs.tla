--------------------------- MODULE ComposerProofs ---------------------------
(***************************************************************************)
(* PromptComposer, with the DraftRecovery it writes into, keeps            *)
(* NewestStays, AcceptedOnce, StoreFollowsComposer and UnsentKept for any  *)
(* tabs, chats, limits and number of edits, messages and mishaps.  Three   *)
(* invariants are proved one after the other: what the store may have      *)
(* (StoreInv), how often a text is under way or taken (MessageInv), and    *)
(* what the store has of this tab (FollowInv).                             *)
(***************************************************************************)
EXTENDS PromptComposer, FiniteSetTheorems, TLAPS

Revision == 0..MaxRevisions

Draft == [rev : Revision, text : Nat]
Store == [draft : [DraftChat -> Draft], tomb : [DraftChat -> Revision], floor : Revision]
Op == [kind : {"save", "remove", "clear"}, chat : DraftChat, text : Nat, expected : Nat,
       rev : Revision \ {0}]

StoreType ==
    /\ store \in Store
    /\ pending \in [Tab -> Seq(Op)]
    /\ issued \in [Tab -> SUBSET (Revision \ {0})]
    /\ horizon \in Nat
    /\ applied \in [DraftChat -> Revision]
    /\ forgot \in BOOLEAN

\* A draft is newer than what was dropped, and has no tombstone besides.
Above(s) == \A c \in DraftChat : s.draft[c].rev # 0 =>
                s.draft[c].rev >= s.floor /\ s.tomb[c] = 0

\* What decided the fate of c's draft is the draft, its tombstone or dropped.
Decided(s, c) ==
    IF s.draft[c].rev # 0 THEN s.draft[c].rev = applied[c]
                          ELSE applied[c] <= s.floor \/ applied[c] <= s.tomb[c]

StoreInv ==
    /\ StoreType /\ Above(store)
    /\ forgot \/ \A c \in DraftChat : Decided(store, c)

-----------------------------------------------------------------------------
(* Messages *)

\* A text was typed here, in one of the edits, or by another tab.
Typed(text, edit) == text \in 0..edit \/ (text \in Nat /\ text > MaxEdits)

\* Messages that the App has taken or may still take.
Asked == {call.id : call \in outgoing}

\* Those of them that the panel was not told are refused.
UnderWay == (accepted \cup Asked) \ returned
Live(text) == {id \in UnderWay : sent[id] = text}

Composer == [text : Nat, edit : Nat, checked : BOOLEAN]
Attempt == [id : Nat, try : Nat]
Message == [id : Nat, try : Nat, edit : Nat,
            state : {"none", "sending", "reconciling", "retryable"},
            save : Nat, saved : BOOLEAN, removal : {"no", "issued"}]

MessageType ==
    /\ composer \in Composer /\ composer.edit > 0
    /\ message \in Message
    /\ sent \in Seq(Nat)
    /\ restored \in [edit : Nat, text : Nat]
    /\ mishaps \in Nat /\ reloads \in Nat /\ reloads <= mishaps
    /\ restored.edit <= composer.edit

TextInv ==
    /\ Typed(composer.text, composer.edit) /\ Typed(restored.text, composer.edit)
    /\ \A i \in 1..Len(sent) : Typed(sent[i], composer.edit)
    /\ \A c \in DraftChat : Typed(store.draft[c].text, composer.edit)
    /\ \A w \in Tab : \A i \in 1..Len(pending[w]) : Typed(pending[w][i].text, composer.edit)

\* How often a text may be under way: once, and once more for every time the
\* tab was opened again and has read its draft.
Bound == IF composer.checked THEN 1 + reloads ELSE reloads

CountInv ==
    /\ accepted \cup Asked \cup returned \subseteq 1..Len(sent)
    /\ Bound >= 1
    /\ \A text \in Nat : Cardinality(Live(text)) <= Bound
    /\ message = NoMessage /\ composer.text # 0 => Cardinality(Live(composer.text)) < Bound
    /\ restored.edit = composer.edit =>
         message = NoMessage /\ composer.checked /\ Cardinality(Live(restored.text)) < Bound

\* While a message is being sent the composer has its text.
LockedInv ==
    message # NoMessage =>
      /\ message.id \in UnderWay /\ sent[message.id] = composer.text
      /\ message.edit = composer.edit /\ composer.text # 0
      /\ message.removal = "issued" => message.id \in accepted

\* As long as no answer was lost every message has made one call, which the App
\* has taken or the panel was told is refused, but not both.
FirstTry ==
    /\ outgoing \subseteq Attempt
    /\ mishaps = reloads =>
         /\ accepted \cap returned = {}
         /\ \A call \in outgoing : call.try = 1 /\ call.id \notin accepted \cup returned
         /\ message.state \in {"none", "sending"}
         /\ message.state = "sending" => message.try = 1

MessageInv == MessageType /\ TextInv /\ CountInv /\ LockedInv /\ FirstTry

-----------------------------------------------------------------------------
(* What the store has of this tab *)

\* The stored draft is one of this tab's.
Mine == store.draft[Here].rev \in issued[Self]

Queue == pending[Self]
LastOp == Queue[Len(Queue)]

\* The last operation that this tab has made is this one, of its composer.
LastIs(text, expected) ==
    /\ LastOp.text = text /\ LastOp.expected = expected
    /\ \A q \in issued[Self] : q <= LastOp.rev

\* Operations of a tab are numbered in their order, each tab's with its own
\* numbers, and those of this tab are about its chat.
QueueInv ==
    /\ \A v, w \in Tab : v # w => issued[v] \cap issued[w] = {}
    /\ \A w \in Tab : \A i \in 1..Len(pending[w]) : pending[w][i].rev \in issued[w]
    /\ \A i, j \in 1..Len(Queue) : i < j => Queue[i].rev < Queue[j].rev
    /\ \A i \in 1..Len(Queue) :
         /\ Queue[i].chat = Here /\ Queue[i].kind # "clear"
         /\ Queue[i].kind = "remove" => Queue[i].text = 0
         /\ Mine => store.draft[Here].rev < Queue[i].rev
    /\ store.draft[Here].rev # 0 => \E w \in Tab : store.draft[Here].rev \in issued[w]
    /\ message # NoMessage => message.save \in issued[Self]

\* Once the queue has been worked off, a draft of this tab is the text of the
\* composer, or of the message that is being sent.
FollowInv == mishaps = reloads =>
    /\ message = NoMessage /\ composer.checked /\ restored.edit # composer.edit =>
         IF Queue = <<>> THEN Mine => store.draft[Here].text = composer.text
                         ELSE LastIs(composer.text, 0)
    /\ restored.edit = composer.edit =>
         Queue = <<>> /\ composer.text = 0 /\ (Mine => store.draft[Here].text = restored.text)
    /\ message # NoMessage /\ message.removal = "no" =>
         IF Waiting(message.save)
         THEN LastIs(composer.text, 0) /\ LastOp.rev = message.save
         ELSE Queue = <<>> /\ (Mine => message.saved /\ store.draft[Here].rev = message.save
                                       /\ store.draft[Here].text = composer.text)
    /\ message # NoMessage /\ message.removal = "issued" =>
         IF Queue = <<>> THEN ~Mine
         ELSE /\ Len(Queue) = 1 /\ LastOp.kind = "remove" /\ LastIs(0, message.save)
              /\ LastOp.rev > message.save
              /\ Mine => store.draft[Here].rev = message.save

-----------------------------------------------------------------------------
(* Greatest and least revisions *)

LEMMA LeastOf ==
    ASSUME NEW S, S \subseteq Nat, S # {}
    PROVE  Min(S) \in S /\ \A x \in S : Min(S) <= x
<1>1. PICK m \in S : \A x \in S : ~ <<x, m>> \in OpToRel(<, Nat)
  BY WFMin, NatLessThanWellFounded
<1>2. \A x \in S : m <= x
  <2> SUFFICES ASSUME NEW x \in S PROVE m <= x
    OBVIOUS
  <2>1. x \in Nat /\ m \in Nat /\ ~(x < m)
    BY <1>1 DEF OpToRel
  <2> QED BY <2>1
<1> QED BY <1>1, <1>2 DEF Min

LEMMA GreatestOf ==
    ASSUME NEW S, S \subseteq Revision, S # {}
    PROVE  Max(S) \in S /\ \A x \in S : x <= Max(S)
<1> DEFINE Upper == {m \in Nat : \A x \in S : x <= m}
<1>0. S \subseteq 0..MaxRevisions /\ MaxRevisions \in Nat
  BY DraftAssumption DEF Revision
<1>1. Upper \subseteq Nat /\ MaxRevisions \in Upper
  BY <1>0
<1>2. PICK m \in Upper : \A x \in Upper : m <= x
  <2> HIDE DEF Upper
  <2> QED BY <1>1, LeastOf
<1>3. m \in S
  <2> SUFFICES ASSUME m \notin S PROVE FALSE
    OBVIOUS
  <2>1. \A x \in S : x < m
    BY <1>0
  <2>2. m \in Nat /\ \A x \in S : x \in Nat /\ x <= m - 1
    BY <1>0, <2>1
  <2>3. m - 1 \in Nat
    BY <2>2
  <2>4. m - 1 \in Upper
    BY <2>2, <2>3
  <2> QED BY <1>2, <2>2, <2>4
<1>4. \E x \in S : \A y \in S : x >= y
  BY <1>0, <1>3
<1>5. Max(S) \in S /\ \A y \in S : Max(S) >= y
  BY <1>4 DEF Max
<1> QED BY <1>0, <1>5

\* The limits of the three revisions that Newer compares with.
LEMMA GreatestOfThree ==
    ASSUME NEW a \in Revision, NEW b \in Revision, NEW c \in Revision
    PROVE  /\ Max({a, b, c}) \in Revision
           /\ a <= Max({a, b, c}) /\ b <= Max({a, b, c}) /\ c <= Max({a, b, c})
           /\ Max({a, b, c}) \in {a, b, c}
<1>1. {a, b, c} \subseteq Revision /\ {a, b, c} # {}
  OBVIOUS
<1>2. Max({a, b, c}) \in {a, b, c} /\ \A x \in {a, b, c} : x <= Max({a, b, c})
  BY <1>1, GreatestOf
<1> QED BY <1>2

LEMMA GreatestOfTwo ==
    ASSUME NEW a \in Revision, NEW b \in Revision
    PROVE  /\ Max({a, b}) \in Revision
           /\ a <= Max({a, b}) /\ b <= Max({a, b})
           /\ Max({a, b}) \in {a, b}
<1>1. {a, b} \subseteq Revision /\ {a, b} # {}
  OBVIOUS
<1>2. Max({a, b}) \in {a, b} /\ \A x \in {a, b} : x <= Max({a, b})
  BY <1>1, GreatestOf
<1> QED BY <1>2

-----------------------------------------------------------------------------
(* What is done to the store *)

\* Records go, and the floor is at least what went.
Shrinks(s, t) ==
    /\ t \in Store /\ t.floor >= s.floor
    /\ \A c \in DraftChat :
         /\ \/ t.draft[c] = s.draft[c]
            \/ t.draft[c] = NoDraft /\ t.floor >= s.draft[c].rev
         /\ t.tomb[c] = s.tomb[c] \/ (t.tomb[c] = 0 /\ t.floor >= s.tomb[c])

LEMMA StoredType ==
    ASSUME NEW s \in Store
    PROVE  /\ Stored(s) \subseteq Revision \ {0}
           /\ \A c \in DraftChat : /\ s.draft[c].rev \in Stored(s) \cup {0}
                                   /\ s.tomb[c] \in Stored(s) \cup {0}
BY DEF Store, Draft, Stored, Revision

LEMMA DropShrinks ==
    ASSUME NEW s \in Store, NEW revisions, 0 \notin revisions
    PROVE  Shrinks(s, Drop(s, revisions))
<1> DEFINE gone == (Stored(s) \cap revisions) \cup {s.floor}
           t == Drop(s, revisions)
<1>1. s.floor \in Revision /\ MaxRevisions \in Nat
  BY DraftAssumption DEF Store
<1>2. gone \subseteq Revision /\ gone # {}
  BY <1>1, StoredType
<1>3. Max(gone) \in Revision /\ \A r \in gone : r <= Max(gone)
  <2> HIDE DEF gone
  <2> QED BY <1>2, GreatestOf
<1>4. t.floor = Max(gone)
  BY DEF Drop
<1>5. NoDraft \in Draft /\ 0 \in Revision
  BY <1>1 DEF NoDraft, Draft, Revision
<1>6. /\ t.draft = [c \in DraftChat |-> IF s.draft[c].rev \in revisions THEN NoDraft ELSE s.draft[c]]
      /\ t.tomb = [c \in DraftChat |-> IF s.tomb[c] \in revisions THEN 0 ELSE s.tomb[c]]
      /\ t = [draft |-> t.draft, tomb |-> t.tomb, floor |-> t.floor]
  BY DEF Drop
<1>7. t \in Store
  <2>1. t.draft \in [DraftChat -> Draft]
    BY <1>5, <1>6 DEF Store
  <2>2. t.tomb \in [DraftChat -> Revision]
    BY <1>5, <1>6 DEF Store
  <2> HIDE DEF t, gone
  <2> QED BY <1>3, <1>4, <1>6, <2>1, <2>2 DEF Store
<1>8. s.floor <= t.floor
  BY <1>3, <1>4
<1>9. ASSUME NEW c \in DraftChat
      PROVE /\ \/ t.draft[c] = s.draft[c]
               \/ t.draft[c] = NoDraft /\ t.floor >= s.draft[c].rev
            /\ t.tomb[c] = s.tomb[c] \/ (t.tomb[c] = 0 /\ t.floor >= s.tomb[c])
  <2>1. /\ s.draft[c].rev \in Revision /\ s.tomb[c] \in Revision
        /\ s.draft[c].rev \in revisions => s.draft[c].rev \in gone
        /\ s.tomb[c] \in revisions => s.tomb[c] \in gone
    BY StoredType DEF Store, Draft
  <2>2. /\ s.draft[c].rev \in revisions => s.draft[c].rev <= t.floor
        /\ s.tomb[c] \in revisions => s.tomb[c] <= t.floor
    BY <1>3, <1>4, <2>1
  <2>3. t.floor \in Nat /\ s.draft[c].rev \in Nat /\ s.tomb[c] \in Nat
    BY <1>1, <1>3, <1>4, <2>1 DEF Revision
  <2> HIDE DEF t, gone
  <2> QED BY <1>6, <2>2, <2>3
<1>10. t.floor >= s.floor
  BY <1>1, <1>3, <1>4, <1>8 DEF Revision
<1> HIDE DEF t, gone
<1>11. Shrinks(s, t)
  BY <1>7, <1>9, <1>10 DEF Shrinks
<1> QED BY <1>11 DEF t

LEMMA PrunedShrinks ==
    ASSUME NEW s \in Store, horizon \in Nat
    PROVE  /\ Shrinks(s, Pruned(s))
           /\ \A c \in DraftChat : Pruned(s).draft[c].rev # 0 => Pruned(s).draft[c].rev > horizon
<1>1. Shrinks(s, Pruned(s))
  BY DropShrinks DEF Pruned
<1>2. ASSUME NEW c \in DraftChat, Pruned(s).draft[c].rev # 0 PROVE Pruned(s).draft[c].rev > horizon
  <2>1. Pruned(s).draft[c] = IF s.draft[c].rev \in 1..horizon THEN NoDraft ELSE s.draft[c]
    BY DEF Pruned, Drop
  <2>2. s.draft[c].rev \in Nat
    BY DraftAssumption DEF Store, Draft, Revision
  <2> QED BY <1>2, <2>1, <2>2 DEF NoDraft
<1> QED BY <1>1, <1>2

\* What was dropped for its age is older than what was kept.
LEMMA PrunedAbove ==
    ASSUME NEW s \in Store, Above(s), horizon \in Nat
    PROVE  Above(Pruned(s))
<1> DEFINE t == Pruned(s)
           gone == (Stored(s) \cap (1..horizon)) \cup {s.floor}
<1> SUFFICES ASSUME NEW c \in DraftChat, t.draft[c].rev # 0
             PROVE  t.draft[c].rev >= t.floor /\ t.tomb[c] = 0
  BY DEF Above
<1>1. t.draft[c] = s.draft[c] /\ s.draft[c].rev > horizon
  BY PrunedShrinks DEF Shrinks, NoDraft
<1>2. s.tomb[c] = 0 /\ s.draft[c].rev >= s.floor
  BY <1>1 DEF Above
<1>3. t.tomb[c] = 0
  BY <1>2, PrunedShrinks DEF Shrinks
<1>4. gone \subseteq Revision /\ gone # {} /\ s.floor \in Revision
  BY StoredType DEF Store
<1>5. t.floor \in gone
  <2>1. t.floor = Max(gone)
    BY DEF Pruned, Drop
  <2> HIDE DEF gone
  <2> QED BY <1>4, <2>1, GreatestOf
<1>6. s.draft[c].rev \in Nat
  BY DraftAssumption DEF Store, Draft, Revision
<1>7. CASE t.floor = s.floor
  BY <1>1, <1>2, <1>3, <1>7
<1>8. CASE t.floor \in 1..horizon
  BY <1>1, <1>3, <1>6, <1>8
<1> QED BY <1>5, <1>7, <1>8

LEMMA LimitedKeeps ==
    ASSUME NEW s \in Store, Above(s)
    PROVE  Shrinks(s, Limited(s)) /\ Above(Limited(s))
<1>0. s.floor \in Nat /\ \A c \in DraftChat : s.draft[c].rev \in Nat /\ s.tomb[c] \in Nat
  BY DraftAssumption DEF Store, Draft, Revision
<1>1. CASE Cardinality(Stored(s)) <= MaxRecords
  BY <1>0, <1>1 DEF Limited, Shrinks
<1>2. CASE ~(Cardinality(Stored(s)) <= MaxRecords)
  <2> DEFINE least == Min(Stored(s))
             t == Drop(s, {least})
             gone == (Stored(s) \cap {least}) \cup {s.floor}
  <2>1. Stored(s) # {}
    BY <1>2, FS_EmptySet, DraftAssumption
  <2>2. Stored(s) \subseteq Nat /\ Stored(s) \subseteq Revision \ {0}
    BY StoredType, DraftAssumption DEF Revision
  <2>3. least \in Stored(s) /\ \A r \in Stored(s) : least <= r
    BY <2>1, <2>2, LeastOf
  <2> HIDE DEF least
  <2>4. 0 \notin {least} /\ Limited(s) = t
    BY <1>2, <2>2, <2>3 DEF Limited, least
  <2>5. Shrinks(s, t)
    BY <2>4, DropShrinks
  <2>6. ASSUME NEW c \in DraftChat, t.draft[c].rev # 0
        PROVE  t.draft[c].rev >= t.floor /\ t.tomb[c] = 0
    <3>0. NoDraft.rev = 0
      BY DEF NoDraft
    <3>1. t.draft[c] = s.draft[c]
      <4> HIDE DEF t
      <4> QED BY <2>5, <2>6, <3>0 DEF Shrinks
    <3>2. s.tomb[c] = 0 /\ s.draft[c].rev >= s.floor
      BY <2>6, <3>1 DEF Above
    <3>3. t.tomb[c] = 0
      BY <2>5, <3>2 DEF Shrinks
    <3>4. least <= s.draft[c].rev /\ least \in Nat
      BY <2>2, <2>3, <2>6, <3>1, StoredType
    <3>5. gone \subseteq Revision /\ gone # {}
      BY <2>2 DEF Store
    <3>6. t.floor \in gone
      <4>1. t.floor = Max(gone)
        BY DEF Drop
      <4> HIDE DEF gone
      <4> QED BY <3>5, <4>1, GreatestOf
    <3>7. t.floor = s.floor \/ t.floor = least
      BY <3>6
    <3> HIDE DEF t, gone
    <3> QED BY <1>0, <3>1, <3>2, <3>3, <3>4, <3>7
  <2> HIDE DEF t
  <2> QED BY <2>4, <2>5, <2>6 DEF Above
<1> QED BY <1>1, <1>2

LEMMA EmptyIs ==
    ASSUME NEW f \in Revision
    PROVE  Empty(f) \in Store /\ Above(Empty(f))
           /\ \A c \in DraftChat : Empty(f).draft[c] = NoDraft /\ Empty(f).floor = f
<1>1. 0 \in Revision /\ NoDraft \in Draft /\ NoDraft.rev = 0
  BY DraftAssumption DEF Revision, NoDraft, Draft
<1> QED BY <1>1 DEF Empty, Store, Above

\* A store after an operation that was accepted.
LEMMA PerformedIs ==
    ASSUME NEW s \in Store, NEW op \in Op, Above(s), Accepts(s, op)
    PROVE  /\ Performed(s, op) \in Store /\ Above(Performed(s, op))
           /\ Performed(s, op).floor >= s.floor
           /\ op.kind = "clear" => /\ Performed(s, op).floor >= op.rev
                                   /\ \A c \in DraftChat : Performed(s, op).draft[c] = NoDraft
           /\ op.kind # "clear" =>
                /\ \A c \in DraftChat \ {op.chat} :
                     /\ \/ Performed(s, op).draft[c] = s.draft[c]
                        \/ /\ Performed(s, op).draft[c] = NoDraft
                           /\ Performed(s, op).floor >= s.draft[c].rev
                     /\ \/ Performed(s, op).tomb[c] = s.tomb[c]
                        \/ Performed(s, op).tomb[c] = 0 /\ Performed(s, op).floor >= s.tomb[c]
                /\ op.rev > s.floor /\ op.rev > s.draft[op.chat].rev /\ op.rev > s.tomb[op.chat]
           /\ op.kind = "save" =>
                \/ Performed(s, op).draft[op.chat] = [rev |-> op.rev, text |-> op.text]
                \/ /\ Performed(s, op).draft[op.chat] = NoDraft
                   /\ Performed(s, op).floor >= op.rev
           /\ op.kind = "remove" =>
                /\ Performed(s, op).draft[op.chat] = NoDraft
                /\ Performed(s, op).tomb[op.chat] = op.rev \/ Performed(s, op).floor >= op.rev
<1> DEFINE t == Performed(s, op)
<1>0. /\ MaxRevisions \in Nat
      /\ op.rev \in Revision /\ op.chat \in DraftChat /\ op.text \in Nat /\ op.rev \in Nat
      /\ s.floor \in Revision /\ s.tomb \in [DraftChat -> Revision] /\ s.draft \in [DraftChat -> Draft]
      /\ op.kind \in {"save", "remove", "clear"} /\ 0 \in Revision
  BY DraftAssumption DEF Op, Store, Revision
<1>1. CASE op.kind = "clear"
  <2>1. t = Empty(Max({s.floor, op.rev}))
    BY <1>1 DEF Performed
  <2>2. Max({s.floor, op.rev}) \in Revision /\ Max({s.floor, op.rev}) >= s.floor
        /\ Max({s.floor, op.rev}) >= op.rev
    BY <1>0, GreatestOfTwo DEF Revision
  <2>3. PICK f \in Revision : f >= s.floor /\ f >= op.rev /\ t = Empty(f)
    BY <2>1, <2>2
  <2> HIDE DEF t
  <2>4. t \in Store /\ Above(t) /\ t.floor >= s.floor /\ t.floor >= op.rev
        /\ \A c \in DraftChat : t.draft[c] = NoDraft
    <3>1. Empty(f).floor = f
      BY DEF Empty
    <3> QED BY <2>3, <3>1, EmptyIs
  <2> QED BY <1>1, <2>4 DEF t
<1>2. CASE op.kind # "clear"
  <2>1. /\ op.rev > s.floor /\ op.rev > s.draft[op.chat].rev /\ op.rev > s.tomb[op.chat]
    <3>1. Newer(s, op)
      BY <1>2 DEF Accepts
    <3>2. s.draft[op.chat].rev \in Revision /\ s.tomb[op.chat] \in Revision
      BY <1>0 DEF Draft
    <3>3. op.rev > Max({s.floor, s.draft[op.chat].rev, s.tomb[op.chat]})
      BY <3>1 DEF Newer
    <3> DEFINE newest == Max({s.floor, s.draft[op.chat].rev, s.tomb[op.chat]})
    <3>4. newest \in Revision /\ s.floor <= newest /\ s.draft[op.chat].rev <= newest
          /\ s.tomb[op.chat] <= newest
      BY <1>0, <3>2, GreatestOfThree
    <3> HIDE DEF newest
    <3>5. newest \in Nat /\ s.floor \in Nat /\ s.draft[op.chat].rev \in Nat
          /\ s.tomb[op.chat] \in Nat /\ op.rev > newest
      BY <1>0, <3>2, <3>3, <3>4 DEF Revision, newest
    <3> QED BY <1>0, <3>4, <3>5
  <2> DEFINE one == IF op.kind = "save" THEN [rev |-> op.rev, text |-> op.text] ELSE NoDraft
             mark == IF op.kind = "save" THEN 0 ELSE op.rev
             u == [s EXCEPT !.draft[op.chat] = one, !.tomb[op.chat] = mark]
  <2>2. t = Limited(u)
    <3>2. CASE op.kind = "save"
      BY <3>2 DEF Performed
    <3>3. CASE op.kind = "remove"
      BY <3>3 DEF Performed
    <3> QED BY <1>0, <1>2, <3>2, <3>3
  <2>3. one \in Draft /\ mark \in Revision /\ (mark # 0 => one.rev = 0)
    BY <1>0 DEF Draft, NoDraft
  <2>4. u \in Store
    <3> HIDE DEF one, mark
    <3> QED BY <1>0, <2>3 DEF Store
  <2>7. /\ u.draft[op.chat] = one /\ u.tomb[op.chat] = mark /\ u.floor = s.floor
        /\ \A c \in DraftChat \ {op.chat} : u.draft[c] = s.draft[c] /\ u.tomb[c] = s.tomb[c]
    <3> HIDE DEF one, mark
    <3>1. /\ u.draft = [s.draft EXCEPT ![op.chat] = one] /\ u.tomb = [s.tomb EXCEPT ![op.chat] = mark]
          /\ u.floor = s.floor
      BY DEF Store
    <3> QED BY <1>0, <3>1
  <2>5. Above(u)
    <3> SUFFICES ASSUME NEW c \in DraftChat, u.draft[c].rev # 0
                 PROVE  u.draft[c].rev >= u.floor /\ u.tomb[c] = 0
      BY DEF Above
    <3>1. CASE c = op.chat
      <4>1. one.rev # 0 => one.rev = op.rev /\ mark = 0
        BY <2>3 DEF NoDraft
      <4>2. s.floor \in Nat
        BY <1>0 DEF Revision
      <4> HIDE DEF u, one, mark
      <4> QED BY <1>0, <2>1, <2>7, <3>1, <4>1, <4>2
    <3>2. CASE c # op.chat
      <4> HIDE DEF u, one, mark
      <4> QED BY <2>7, <3>2 DEF Above
    <3> QED BY <3>1, <3>2
  <2>6. Shrinks(u, t) /\ Above(t)
    BY <2>2, <2>4, <2>5, LimitedKeeps
  <2> HIDE DEF t, u, one, mark
  <2>8. t \in Store /\ t.floor >= s.floor
    BY <2>6, <2>7 DEF Shrinks
  <2>9. /\ \A c \in DraftChat \ {op.chat} :
             /\ t.draft[c] = s.draft[c] \/ (t.draft[c] = NoDraft /\ t.floor >= s.draft[c].rev)
             /\ t.tomb[c] = s.tomb[c] \/ (t.tomb[c] = 0 /\ t.floor >= s.tomb[c])
        /\ t.draft[op.chat] = one \/ (t.draft[op.chat] = NoDraft /\ t.floor >= one.rev)
        /\ t.tomb[op.chat] = mark \/ (t.tomb[op.chat] = 0 /\ t.floor >= mark)
    BY <1>0, <2>6, <2>7 DEF Shrinks
  <2>10. op.kind = "save" =>
           t.draft[op.chat] = [rev |-> op.rev, text |-> op.text]
           \/ (t.draft[op.chat] = NoDraft /\ t.floor >= op.rev)
    BY <2>9 DEF one
  <2>11. op.kind = "remove" =>
           /\ t.draft[op.chat] = NoDraft
           /\ t.tomb[op.chat] = op.rev \/ t.floor >= op.rev
    BY <2>9 DEF one, mark
  <2> QED BY <1>2, <2>1, <2>6, <2>8, <2>9, <2>10, <2>11 DEF t
<1> QED BY <1>1, <1>2

-----------------------------------------------------------------------------
(* The steps of the tabs, and the types *)

\* What NextRevisions and Issue give.
LEMMA IssueIs ==
    ASSUME StoreType, NEW w \in Tab, NEW r \in NextRevisions(w),
           NEW kind \in {"save", "remove", "clear"}, NEW c \in DraftChat,
           NEW text \in Nat, NEW expected \in Nat,
           Issue(w, kind, c, text, expected, r)
    PROVE  LET op == [kind |-> kind, chat |-> c, text |-> text, expected |-> expected, rev |-> r]
           IN  /\ op \in Op /\ r \in Revision \ {0}
               /\ pending' \in [Tab -> Seq(Op)] /\ issued' \in [Tab -> SUBSET (Revision \ {0})]
               /\ pending'[w] = Append(pending[w], op) /\ issued'[w] = issued[w] \cup {r}
               /\ \A v \in Tab \ {w} : pending'[v] = pending[v] /\ issued'[v] = issued[v]
               /\ \A v \in Tab : r \notin issued[v]
               /\ \A q \in issued[w] : q < r
<1> DEFINE op == [kind |-> kind, chat |-> c, text |-> text, expected |-> expected, rev |-> r]
<1>1. /\ r \in 1..MaxRevisions /\ MaxRevisions \in Nat
      /\ \A v \in Tab : r \notin issued[v]
      /\ \A q \in issued[w] : q < r
  BY DraftAssumption DEF NextRevisions
<1>2. r \in Revision \ {0}
  BY <1>1 DEF Revision
<1>3. op \in Op
  BY <1>2 DEF Op
<1>4. pending' = [pending EXCEPT ![w] = Append(@, op)] /\ issued' = [issued EXCEPT ![w] = @ \cup {r}]
  BY DEF Issue
<1> HIDE DEF op
<1>5. pending[w] \in Seq(Op) /\ issued[w] \in SUBSET (Revision \ {0})
  BY DEF StoreType
<1>6. Append(pending[w], op) \in Seq(Op) /\ issued[w] \cup {r} \in SUBSET (Revision \ {0})
  BY <1>2, <1>3, <1>5
<1>7. /\ pending' \in [Tab -> Seq(Op)] /\ issued' \in [Tab -> SUBSET (Revision \ {0})]
      /\ pending'[w] = Append(pending[w], op) /\ issued'[w] = issued[w] \cup {r}
      /\ \A v \in Tab \ {w} : pending'[v] = pending[v] /\ issued'[v] = issued[v]
  BY <1>4, <1>5, <1>6 DEF StoreType
<1> QED BY <1>1, <1>2, <1>3, <1>7 DEF op

\* The operations that a step issues, and by whom.
Issues(w, r) ==
    \E kind \in {"save", "remove", "clear"}, c \in DraftChat, text \in Nat, expected \in Nat :
        Issue(w, kind, c, text, expected, r)

LEMMA SaveTextIssues ==
    ASSUME NEW w \in Tab, NEW c \in DraftChat, NEW text \in Nat, NEW r, SaveText(w, c, text, r)
    PROVE  Issues(w, r)
BY DEF SaveText, Issues

LEMMA ShrinksDecided ==
    ASSUME StoreType, NEW s \in Store, NEW t, Shrinks(s, t), NEW c \in DraftChat, Decided(s, c)
    PROVE  Decided(t, c)
<1>1. /\ applied[c] \in Nat /\ s.floor \in Nat /\ s.tomb[c] \in Nat /\ s.draft[c].rev \in Nat
      /\ t.floor \in Nat /\ t.tomb[c] \in Nat /\ NoDraft.rev = 0
  BY DraftAssumption DEF StoreType, Store, Draft, Shrinks, Revision, NoDraft
<1> QED BY <1>1 DEF Shrinks, Decided

LEMMA PruneKeeps ==
    ASSUME StoreInv
    PROVE  /\ Pruned(store) \in Store /\ Above(Pruned(store))
           /\ forgot \/ \A c \in DraftChat : Decided(Pruned(store), c)
<1>1. Shrinks(store, Pruned(store)) /\ Above(Pruned(store))
  BY PrunedShrinks, PrunedAbove DEF StoreInv, StoreType
<1> QED BY <1>1, ShrinksDecided DEF StoreInv, StoreType, Shrinks

LEMMA HeadType ==
    ASSUME StoreType, NEW w \in Tab, pending[w] # <<>>
    PROVE  /\ Head(pending[w]) \in Op /\ Tail(pending[w]) \in Seq(Op)
           /\ [pending EXCEPT ![w] = Tail(@)] \in [Tab -> Seq(Op)]
           /\ Len(pending[w]) \in Nat \ {0} /\ Head(pending[w]) = pending[w][1]
           /\ Len(Tail(pending[w])) = Len(pending[w]) - 1
           /\ \A i \in 1..Len(Tail(pending[w])) : Tail(pending[w])[i] = pending[w][i + 1]
<1>1. pending[w] \in Seq(Op)
  BY DEF StoreType
<1>2. /\ Head(pending[w]) \in Op /\ Tail(pending[w]) \in Seq(Op)
      /\ Len(pending[w]) \in Nat \ {0} /\ Head(pending[w]) = pending[w][1]
      /\ Len(Tail(pending[w])) = Len(pending[w]) - 1
      /\ \A i \in 1..Len(Tail(pending[w])) : Tail(pending[w])[i] = pending[w][i + 1]
  BY <1>1
<1>3. [pending EXCEPT ![w] = Tail(@)] \in [Tab -> Seq(Op)]
  BY <1>2 DEF StoreType
<1> QED BY <1>2, <1>3

LEMMA TransactKeeps ==
    ASSUME StoreInv, NEW w \in Tab, Transact(w)
    PROVE  StoreInv'
<1> DEFINE op == Head(pending[w])
           s  == Considered(op)
<1>1. pending[w] # <<>> /\ pending' = [pending EXCEPT ![w] = Tail(@)] /\ UNCHANGED <<issued, horizon>>
      /\ IF Accepts(s, op)
         THEN /\ store' = Performed(s, op)
              /\ applied' = [c \in DraftChat |-> IF op.kind = "clear" \/ c = op.chat
                                                 THEN Max({applied[c], op.rev}) ELSE applied[c]]
              /\ forgot' = (forgot \/ Overtaken(op))
         ELSE store' = s /\ UNCHANGED <<applied, forgot>>
  BY DEF Transact
<1>2. op \in Op /\ pending' \in [Tab -> Seq(Op)]
  BY <1>1, HeadType DEF StoreInv
<1>3. s \in Store /\ Above(s) /\ (forgot \/ \A c \in DraftChat : Decided(s, c))
  BY PruneKeeps DEF Considered, StoreInv, StoreType
<1> HIDE DEF op, s
<1>4. CASE ~Accepts(s, op)
  <2>1. store' = s /\ UNCHANGED <<applied, forgot, issued, horizon>>
    BY <1>1, <1>4
  <2> QED BY <1>2, <1>3, <2>1 DEF StoreInv, StoreType, Above, Decided
<1>5. CASE Accepts(s, op)
  <2>1. store' = Performed(s, op) /\ UNCHANGED <<issued, horizon>>
        /\ applied' = [c \in DraftChat |-> IF op.kind = "clear" \/ c = op.chat
                                           THEN Max({applied[c], op.rev}) ELSE applied[c]]
    BY <1>1, <1>5
  <2>2. forgot' = (forgot \/ Overtaken(op))
    BY <1>1, <1>5
  <2>3. forgot' \in BOOLEAN
    BY <2>2
  <2>4. /\ op.rev \in Revision /\ op.chat \in DraftChat /\ op.kind \in {"save", "remove", "clear"}
        /\ op.rev \in Nat /\ op.rev # 0
        /\ \A c \in DraftChat : applied[c] \in Revision /\ applied[c] \in Nat
    BY <1>2, DraftAssumption DEF Op, StoreInv, StoreType, Revision
  <2>5. \A c \in DraftChat : /\ Max({applied[c], op.rev}) \in Revision
                             /\ Max({applied[c], op.rev}) \in {applied[c], op.rev}
                             /\ applied[c] <= Max({applied[c], op.rev})
                             /\ op.rev <= Max({applied[c], op.rev})
    BY <2>4, GreatestOfTwo
  <2>6. applied' \in [DraftChat -> Revision]
    BY <2>1, <2>4, <2>5
  <2>7. store' \in Store /\ Above(store)'
    BY <1>2, <1>3, <1>5, <2>1, PerformedIs DEF Above
  <2>8. ASSUME ~forgot', NEW c \in DraftChat PROVE Decided(store, c)'
    <3>1. Decided(s, c) /\ ~Overtaken(op)
      BY <1>3, <2>2, <2>8
    <3>2. /\ store'.floor \in Nat /\ store'.tomb[c] \in Nat /\ store'.draft[c].rev \in Nat
          /\ s.floor \in Nat /\ s.tomb[c] \in Nat /\ s.draft[c].rev \in Nat /\ NoDraft.rev = 0
      BY <1>3, <2>7, DraftAssumption DEF Store, Draft, Revision, NoDraft
    <3>3. CASE op.kind = "clear"
      <4>1. applied[c] <= op.rev
        BY <2>4, <3>1, <3>3 DEF Overtaken
      <4>2. applied'[c] <= op.rev
        BY <2>1, <2>4, <2>5, <3>3, <4>1
      <4>3. store'.draft[c] = NoDraft /\ store'.floor >= op.rev
        BY <1>2, <1>3, <1>5, <2>1, <3>3, PerformedIs
      <4>4. applied'[c] \in Nat
        BY <2>6, DraftAssumption DEF Revision
      <4> QED BY <2>4, <3>2, <4>2, <4>3, <4>4 DEF Decided
    <3>4. CASE op.kind # "clear" /\ c # op.chat
      <4>1. applied'[c] = applied[c]
        BY <2>1, <3>4
      <4>2. /\ store'.floor >= s.floor
            /\ \/ store'.draft[c] = s.draft[c]
               \/ store'.draft[c] = NoDraft /\ store'.floor >= s.draft[c].rev
            /\ \/ store'.tomb[c] = s.tomb[c]
               \/ store'.tomb[c] = 0 /\ store'.floor >= s.tomb[c]
        BY <1>2, <1>3, <1>5, <2>1, <3>4, PerformedIs
      <4> QED BY <2>4, <3>1, <3>2, <4>1, <4>2 DEF Decided
    <3>5. CASE op.kind # "clear" /\ c = op.chat
      <4>1. op.rev > s.floor /\ op.rev > s.draft[c].rev /\ op.rev > s.tomb[c]
        BY <1>2, <1>3, <1>5, <3>5, PerformedIs
      <4>2. applied[c] < op.rev
        BY <2>4, <3>1, <3>2, <4>1 DEF Decided
      <4>3. applied'[c] = op.rev
        BY <2>1, <2>4, <2>5, <3>5, <4>2
      <4>4. op.kind = "save" => \/ store'.draft[c].rev = op.rev
                                \/ store'.draft[c] = NoDraft /\ store'.floor >= op.rev
        <5>1. op.kind = "save" => \/ store'.draft[c] = [rev |-> op.rev, text |-> op.text]
                                  \/ store'.draft[c] = NoDraft /\ store'.floor >= op.rev
          BY <1>2, <1>3, <1>5, <2>1, <3>5, PerformedIs
        <5> QED BY <5>1
      <4>5. op.kind = "remove" => /\ store'.draft[c] = NoDraft
                                  /\ store'.tomb[c] = op.rev \/ store'.floor >= op.rev
        BY <1>2, <1>3, <1>5, <2>1, <3>5, PerformedIs
      <4> QED BY <2>4, <3>2, <3>5, <4>3, <4>4, <4>5 DEF Decided
    <3> QED BY <3>3, <3>4, <3>5
  <2> QED BY <1>2, <2>1, <2>3, <2>6, <2>7, <2>8 DEF StoreInv, StoreType
<1> QED BY <1>4, <1>5

LEMMA IssueKeepsStore ==
    ASSUME StoreInv, NEW w \in Tab, NEW r \in NextRevisions(w), Issues(w, r),
           UNCHANGED <<store, horizon, applied, forgot>>
    PROVE  StoreInv'
<1>1. pending' \in [Tab -> Seq(Op)] /\ issued' \in [Tab -> SUBSET (Revision \ {0})]
  BY IssueIs DEF Issues, StoreInv
<1> QED BY <1>1 DEF StoreInv, StoreType, Above, Decided

LEMMA QuietKeepsStore ==
    ASSUME StoreInv, UNCHANGED storeVars
    PROVE  StoreInv'
BY DEF StoreInv, StoreType, Above, Decided, storeVars

\* What the steps of this tab and of others do to the operations.
LEMMA TypeIssues ==
    ASSUME MessageType, NEW r, Type(r)
    PROVE  Issues(Self, r)
<1>1. Self \in Tab /\ Here \in DraftChat
  BY ComposerAssumption
<1>2. PICK text \in {0, composer.edit + 1} : SaveText(Self, Here, text, r)
  BY DEF Type
<1>3. text \in Nat
  BY DEF MessageType, Composer
<1> QED BY <1>1, <1>2, <1>3, SaveTextIssues

LEMMA SendIssues ==
    ASSUME MessageType, NEW r, Send(r)
    PROVE  Issues(Self, r)
<1>1. Self \in Tab /\ Here \in DraftChat /\ composer.text \in Nat
  BY ComposerAssumption DEF MessageType, Composer
<1> QED BY <1>1, SaveTextIssues DEF Send

LEMMA RemoveIssues ==
    ASSUME MessageType, NEW r, RemoveSentRecoveredDraft(r)
    PROVE  \/ Issues(Self, r)
           \/ UNCHANGED <<pending, issued>>
<1>1. Self \in Tab /\ Here \in DraftChat /\ message.save \in Nat
  BY ComposerAssumption DEF MessageType, Message
<1>2. CASE message.saved
  BY <1>1, <1>2 DEF RemoveSentRecoveredDraft, Issues
<1>3. CASE ~message.saved
  BY <1>3 DEF RemoveSentRecoveredDraft
<1> QED BY <1>2, <1>3

LEMMA OtherTabIssues ==
    ASSUME NEW w \in Tab, NEW r \in NextRevisions(w), OtherTab(w, r)
    PROVE  Issues(w, r)
<1>1. Here \in DraftChat /\ MaxEdits \in Nat /\ r \in Nat /\ 0 \in Nat
  BY ComposerAssumption DEF NextRevisions
<1>2. CASE \E c \in DraftChat, text \in {0, MaxEdits + r} : SaveText(w, c, text, r)
  BY <1>1, <1>2, SaveTextIssues
<1>3. CASE Issue(w, "clear", Here, 0, 0, r)
  BY <1>1, <1>3 DEF Issues
<1> QED BY <1>2, <1>3 DEF OtherTab

\* A tab that was closed has made some of its transactions.
LEMMA ReloadIs ==
    ASSUME StoreType, Reload
    PROVE  /\ pending' \in [Tab -> Seq(Op)]
           /\ \A w \in Tab \ {Self} : pending'[w] = pending[w]
           /\ Len(pending'[Self]) <= Len(pending[Self])
           /\ \A i \in 1..Len(pending'[Self]) : pending'[Self][i] = pending[Self][i]
<1>1. PICK n \in 0..Len(pending[Self]) : pending' = [pending EXCEPT ![Self] = SubSeq(@, 1, n)]
  BY DEF Reload
<1>2. Self \in Tab /\ pending[Self] \in Seq(Op) /\ pending \in [Tab -> Seq(Op)]
  BY ComposerAssumption DEF StoreType
<1>3. n \in Nat /\ n <= Len(pending[Self])
  BY <1>2
<1>4. /\ SubSeq(pending[Self], 1, n) \in Seq(Op) /\ Len(SubSeq(pending[Self], 1, n)) = n
      /\ \A i \in 1..n : SubSeq(pending[Self], 1, n)[i] = pending[Self][i]
  BY <1>2, <1>3
<1>5. pending'[Self] = SubSeq(pending[Self], 1, n) /\ pending' \in [Tab -> Seq(Op)]
      /\ \A w \in Tab \ {Self} : pending'[w] = pending[w]
  BY <1>1, <1>2, <1>4
<1> QED BY <1>3, <1>4, <1>5

LEMMA StoreInitInv == ComposerInit => StoreInv /\ MessageType
<1> SUFFICES ASSUME ComposerInit PROVE StoreInv /\ MessageType
  OBVIOUS
<1>1. MaxRevisions \in Nat /\ 0 \in Revision /\ <<>> \in Seq(Op) /\ Len(<<>>) = 0 /\ NoDraft.rev = 0
  BY DraftAssumption DEF Revision, NoDraft
<1>2. store \in Store /\ Above(store) /\ \A c \in DraftChat : store.draft[c] = NoDraft
  BY <1>1, EmptyIs DEF ComposerInit, StoreInit
<1>3. StoreType
  BY <1>1, <1>2 DEF ComposerInit, StoreInit, StoreType
<1>4. \A c \in DraftChat : Decided(store, c)
  <2> SUFFICES ASSUME NEW c \in DraftChat PROVE Decided(store, c)
    OBVIOUS
  <2>1. applied[c] = 0 /\ store.floor = 0
    BY DEF ComposerInit, StoreInit, Empty
  <2> QED BY <1>1, <1>2, <2>1 DEF Decided
<1>5. MessageType
  BY <1>1 DEF ComposerInit, MessageType, Composer, Message, NoMessage, NothingRestored
<1> QED BY <1>2, <1>3, <1>4, <1>5 DEF StoreInv

LEMMA StoreNext ==
    ASSUME StoreInv, MessageType, [ComposerNext]_draftVars
    PROVE  StoreInv'
<1>1. CASE UNCHANGED draftVars
  BY <1>1, QuietKeepsStore DEF draftVars
<1>2. CASE \E r \in NextRevisions(Self) : Type(r) \/ Send(r)
  BY <1>2, TypeIssues, SendIssues, IssueKeepsStore, ComposerAssumption DEF Type, Send
<1>3. CASE \E r \in NextRevisions(Self) : RemoveSentRecoveredDraft(r)
  <2>1. PICK r \in NextRevisions(Self) : RemoveSentRecoveredDraft(r)
    BY <1>3
  <2>2. UNCHANGED <<store, horizon, applied, forgot>>
    BY <2>1 DEF RemoveSentRecoveredDraft
  <2>3. CASE UNCHANGED <<pending, issued>>
    BY <2>2, <2>3, QuietKeepsStore DEF storeVars
  <2> QED BY <2>1, <2>2, <2>3, RemoveIssues, IssueKeepsStore, ComposerAssumption
<1>4. CASE \E w \in Tab \ {Self} : \E r \in NextRevisions(w) : OtherTab(w, r)
  BY <1>4, OtherTabIssues, IssueKeepsStore DEF OtherTab
<1>5. CASE Retry \/ AppTakes \/ AppRefuses \/ AnswerLost \/ NotObserved \/ SettlePromptMutation
           \/ ApplyRestored
  BY <1>5, QuietKeepsStore DEF Retry, AppTakes, AppRefuses, AnswerLost, NotObserved,
     SettlePromptMutation, ApplyRestored
<1>6. CASE Reload
  BY <1>6, ReloadIs DEF Reload, StoreInv, StoreType, Above, Decided
<1>7. CASE RestoreDraft
  BY <1>7, PruneKeeps DEF RestoreDraft, StoreInv, StoreType, Above, Decided
<1>8. CASE \E w \in Tab : RunTransaction(w)
  BY <1>8, TransactKeeps DEF RunTransaction
<1>9. CASE \E w \in Tab : StorageFails(w)
  BY <1>9, HeadType DEF StorageFails, TransactionFails, StoreInv, StoreType, Above, Decided
<1>10. CASE Age
  BY <1>10 DEF Age, Expire, StoreInv, StoreType, Above, Decided
<1> QED BY <1>1, <1>2, <1>3, <1>4, <1>5, <1>6, <1>7, <1>8, <1>9, <1>10 DEF ComposerNext

\* Another attempt, or the end of one, is one of the same message.
LEMMA AttemptKeeps ==
    ASSUME message \in Message, Retry \/ AnswerLost \/ NotObserved
    PROVE  /\ message' \in Message /\ message'.state \in {"sending", "reconciling", "retryable"}
           /\ message'.id = message.id /\ message'.edit = message.edit
           /\ message'.save = message.save /\ message'.saved = message.saved
           /\ message'.removal = message.removal
           /\ message # NoMessage /\ message' # NoMessage
<1>1. message.try \in Nat /\ message.try + 1 \in Nat
  BY DEF Message
<1>2. message # NoMessage
  BY DEF Retry, AnswerLost, NotObserved, NoMessage
<1>3. CASE Retry
  BY <1>1, <1>2, <1>3 DEF Retry, Message, NoMessage
<1>4. CASE AnswerLost \/ NotObserved
  <2>1. PICK state \in {"reconciling", "retryable"} : message' = [message EXCEPT !.state = state]
    BY <1>4 DEF AnswerLost, NotObserved
  <2> QED BY <1>2, <2>1 DEF Message, NoMessage
<1> QED BY <1>3, <1>4

LEMMA MessageTypeNext ==
    ASSUME StoreInv, MessageType, StoreInv', [ComposerNext]_draftVars
    PROVE  MessageType' /\ composer'.edit >= composer.edit
<1> USE DEF MessageType
<1>0. /\ NoMessage \in Message /\ NothingRestored \in [edit : Nat, text : Nat]
      /\ NothingRestored.edit = 0 /\ composer.edit \in Nat
  BY DEF Message, NoMessage, NothingRestored, Composer
<1>1. CASE UNCHANGED draftVars
  BY <1>0, <1>1 DEF draftVars, composerVars
<1>2. CASE \E r \in NextRevisions(Self) : Type(r)
  <2>1. PICK text \in {0, composer.edit + 1} :
             composer' = [composer EXCEPT !.text = text, !.edit = @ + 1]
    BY <1>2 DEF Type
  <2>2. text \in Nat /\ composer.edit + 1 \in Nat /\ composer.edit \in Nat
        /\ UNCHANGED <<message, sent, outgoing, accepted, restored, mishaps, reloads>>
    BY <1>2 DEF Type, Composer
  <2>3. composer' \in Composer /\ composer'.edit = composer.edit + 1
    BY <2>1, <2>2 DEF Composer
  <2> QED BY <2>2, <2>3
<1>3. CASE \E r \in NextRevisions(Self) : Send(r)
  <2>1. PICK r \in NextRevisions(Self) : Send(r)
    BY <1>3
  <2>2. r \in Nat /\ composer.edit \in Nat /\ composer.text \in Nat
    BY DEF NextRevisions, Composer
  <2>3. sent' = Append(sent, composer.text) /\ sent' \in Seq(Nat) /\ Len(sent') \in Nat
    BY <2>1, <2>2 DEF Send
  <2>4. composer' \in Composer /\ composer'.edit = composer.edit + 1
    <3>1. composer' = [composer EXCEPT !.edit = @ + 1]
      BY <2>1 DEF Send
    <3> QED BY <2>2, <3>1 DEF Composer
  <2>5. message' \in Message
    BY <2>1, <2>2, <2>3, <2>4 DEF Send, Message
  <2>6. UNCHANGED <<restored, mishaps, reloads>>
    BY <2>1 DEF Send
  <2> QED BY <2>2, <2>3, <2>4, <2>5, <2>6
<1>4. CASE \E r \in NextRevisions(Self) : RemoveSentRecoveredDraft(r)
  <2>1. message' = [message EXCEPT !.removal = "issued"]
        /\ UNCHANGED <<composer, sent, outgoing, accepted, restored, mishaps, reloads>>
    BY <1>4 DEF RemoveSentRecoveredDraft
  <2>2. message' \in Message
    BY <2>1 DEF Message
  <2> QED BY <1>0, <2>1, <2>2
<1>5. CASE \E w \in Tab \ {Self} : \E r \in NextRevisions(w) : OtherTab(w, r)
  BY <1>0, <1>5 DEF OtherTab, composerVars
<1>6. CASE AppTakes
  BY <1>0, <1>6 DEF AppTakes
<1>7. CASE Retry \/ AnswerLost \/ NotObserved
  <2>1. message' \in Message
    BY <1>7, AttemptKeeps
  <2>3. UNCHANGED <<composer, sent, restored, reloads>>
    BY <1>7 DEF Retry, AnswerLost, NotObserved
  <2>4. mishaps' \in Nat /\ mishaps' >= mishaps
    BY <1>7 DEF Retry, AnswerLost, NotObserved, Mishap
  <2> QED BY <1>0, <2>1, <2>3, <2>4
<1>8. CASE AppRefuses
  BY <1>0, <1>8 DEF AppRefuses
<1>9. CASE SettlePromptMutation
  <2>1. composer' = composer \/ composer' = [composer EXCEPT !.text = 0, !.edit = @ + 1]
    BY <1>9 DEF SettlePromptMutation
  <2>2. composer' \in Composer /\ composer.edit \in Nat
        /\ composer'.edit \in {composer.edit, composer.edit + 1}
    <3>1. CASE composer' = composer
      BY <3>1 DEF Composer
    <3>2. CASE composer' = [composer EXCEPT !.text = 0, !.edit = @ + 1]
      <4>1. composer.edit \in Nat /\ composer.edit + 1 \in Nat
        BY DEF Composer
      <4>2. composer' \in Composer
        BY <3>2, <4>1 DEF Composer
      <4>3. composer'.edit = composer.edit + 1
        BY <3>2 DEF Composer
      <4> QED BY <4>1, <4>2, <4>3
    <3> QED BY <2>1, <3>1, <3>2
  <2>3. message' \in Message /\ UNCHANGED <<sent, restored, mishaps, reloads>>
    BY <1>0, <1>9 DEF SettlePromptMutation
  <2> QED BY <2>2, <2>3
<1>10. CASE Reload
  <2>1. composer' \in Composer /\ composer.edit \in Nat /\ composer'.edit = composer.edit + 1
    BY <1>10 DEF Reload, Composer
  <2> QED BY <1>0, <1>10, <2>1 DEF Reload, Mishap
<1>11. CASE RestoreDraft
  <2>1. composer' \in Composer /\ composer.edit \in Nat /\ composer'.edit = composer.edit
    BY <1>11 DEF RestoreDraft, Composer
  <2>2. store'.draft[Here].text \in Nat
    BY ComposerAssumption DEF StoreInv, StoreType, Store, Draft
  <2>3. restored' = [edit |-> composer.edit, text |-> store'.draft[Here].text]
        /\ UNCHANGED <<message, sent, outgoing, accepted, mishaps, reloads>>
    BY <1>11 DEF RestoreDraft
  <2>4. restored' \in [edit : Nat, text : Nat] /\ restored'.edit = composer.edit
    BY <2>1, <2>2, <2>3
  <2> QED BY <2>1, <2>3, <2>4
<1>12. CASE ApplyRestored
  <2>1. composer' = composer \/ composer' = [composer EXCEPT !.text = restored.text]
    BY <1>12 DEF ApplyRestored
  <2>2. composer' \in Composer /\ composer.edit \in Nat /\ composer'.edit = composer.edit
    BY <2>1 DEF Composer
  <2>3. restored' = NothingRestored /\ UNCHANGED <<message, sent, outgoing, accepted, mishaps, reloads>>
    BY <1>12 DEF ApplyRestored
  <2> QED BY <1>0, <2>2, <2>3
<1>13. CASE \E w \in Tab : RunTransaction(w)
  <2>1. PICK w \in Tab : RunTransaction(w)
    BY <1>13
  <2>2. Accepts(Considered(Head(pending[w])), Head(pending[w])) \in BOOLEAN
    BY DEF Accepts
  <2>3. PICK ok \in BOOLEAN : message' = message \/ message' = [message EXCEPT !.saved = ok]
    BY <2>1, <2>2 DEF RunTransaction
  <2>4. message' \in Message
    BY <2>3 DEF Message
  <2> QED BY <1>0, <2>1, <2>4 DEF RunTransaction
<1>14. CASE \E w \in Tab : StorageFails(w)
  BY <1>0, <1>14 DEF StorageFails, Mishap
<1>15. CASE Age
  BY <1>0, <1>15 DEF Age, composerVars
<1> QED BY <1>1, <1>2, <1>3, <1>4, <1>5, <1>6, <1>7, <1>8, <1>9, <1>10, <1>11, <1>12, <1>13, <1>14,
        <1>15 DEF ComposerNext

-----------------------------------------------------------------------------
(* Texts *)

LEMMA TypedGrows ==
    ASSUME NEW text, NEW e \in Nat, NEW f \in Nat, e <= f, Typed(text, e)
    PROVE  Typed(text, f)
BY DEF Typed

\* No operation makes up a text.
LEMMA PerformedTexts ==
    ASSUME NEW s \in Store, NEW op \in Op, Above(s), Accepts(s, op), NEW c \in DraftChat
    PROVE  Performed(s, op).draft[c].text \in {s.draft[c].text, 0, op.text}
<1>1. NoDraft.text = 0 /\ op.kind \in {"save", "remove", "clear"}
  BY DEF NoDraft, Op
<1>2. CASE op.kind = "clear" \/ c # op.chat
  BY <1>1, <1>2, PerformedIs
<1>3. CASE op.kind = "save" /\ c = op.chat
  <2>1. \/ Performed(s, op).draft[c] = [rev |-> op.rev, text |-> op.text]
        \/ Performed(s, op).draft[c] = NoDraft
    BY <1>3, PerformedIs
  <2> QED BY <1>1, <2>1
<1>4. CASE op.kind = "remove" /\ c = op.chat
  BY <1>1, <1>4, PerformedIs
<1> QED BY <1>1, <1>2, <1>3, <1>4

LEMMA PrunedTexts ==
    ASSUME NEW s \in Store, horizon \in Nat, NEW c \in DraftChat
    PROVE  Pruned(s).draft[c].text \in {s.draft[c].text, 0}
<1>1. Pruned(s).draft[c] \in {s.draft[c], NoDraft}
  BY PrunedShrinks DEF Shrinks
<1> QED BY <1>1 DEF NoDraft

\* The texts of the operations after a step that issues one.
LEMMA IssueTexts ==
    ASSUME StoreType, TextInv, NEW w \in Tab, NEW r \in NextRevisions(w),
           NEW kind \in {"save", "remove", "clear"}, NEW c \in DraftChat,
           NEW text \in Nat, NEW expected \in Nat,
           Issue(w, kind, c, text, expected, r),
           NEW e \in Nat, composer.edit \in Nat, composer.edit <= e, Typed(text, e)
    PROVE  \A v \in Tab : \A i \in 1..Len(pending'[v]) : Typed(pending'[v][i].text, e)
<1> DEFINE op == [kind |-> kind, chat |-> c, text |-> text, expected |-> expected, rev |-> r]
<1>1. /\ pending'[w] = Append(pending[w], op) /\ op \in Op
      /\ \A v \in Tab \ {w} : pending'[v] = pending[v]
  BY IssueIs
<1>2. \A v \in Tab : \A i \in 1..Len(pending[v]) : Typed(pending[v][i].text, e)
  BY TypedGrows DEF TextInv
<1>3. op.text = text
  OBVIOUS
<1> HIDE DEF op
<1>4. pending[w] \in Seq(Op)
  BY DEF StoreType
<1>5. \A i \in 1..Len(pending'[w]) : Typed(pending'[w][i].text, e)
  <2> SUFFICES ASSUME NEW i \in 1..Len(pending'[w]) PROVE Typed(pending'[w][i].text, e)
    OBVIOUS
  <2>1. \/ i \in 1..Len(pending[w]) /\ pending'[w][i] = pending[w][i]
        \/ pending'[w][i] = op
    BY <1>1, <1>4
  <2> QED BY <1>2, <1>3, <2>1
<1> QED BY <1>1, <1>2, <1>5

\* Any other step: what is pending was pending, and the composer may go on.
LEMMA TextsStay ==
    ASSUME StoreType, TextInv, composer.edit \in Nat, composer'.edit \in Nat,
           composer.edit <= composer'.edit,
           composer'.text \in {composer.text, restored.text, 0},
           restored'.text \in {restored.text, 0} \cup {store'.draft[c].text : c \in DraftChat},
           sent' = sent,
           \A c \in DraftChat :
              store'.draft[c].text \in {store.draft[c].text, 0}
                 \cup {pending[w][i].text : w \in {v \in Tab : pending[v] # <<>>}, i \in {1}},
           \A w \in Tab : /\ Len(pending'[w]) <= Len(pending[w])
                          /\ \A i \in 1..Len(pending'[w]) :
                                \E j \in 1..Len(pending[w]) : pending'[w][i] = pending[w][j]
    PROVE  TextInv'
<1> DEFINE e == composer'.edit
<1>1. Typed(0, e) /\ e \in Nat
  BY DEF Typed
<1>2. \A text : Typed(text, composer.edit) => Typed(text, e)
  BY <1>1, TypedGrows
<1> HIDE DEF e
<1>3. Typed(composer'.text, e)
  BY <1>1, <1>2 DEF TextInv
<1>4. \A w \in Tab : \A i \in 1..Len(pending[w]) : Typed(pending[w][i].text, e)
  BY <1>2 DEF TextInv
<1>5. \A w \in Tab : pending[w] # <<>> => 1 \in 1..Len(pending[w])
  BY DEF StoreType
<1>6. \A c \in DraftChat : Typed(store'.draft[c].text, e)
  BY <1>1, <1>2, <1>4, <1>5 DEF TextInv
<1>7. Typed(restored'.text, e)
  BY <1>1, <1>2, <1>6 DEF TextInv
<1>8. \A i \in 1..Len(sent') : Typed(sent'[i], e)
  BY <1>2 DEF TextInv
<1>9. \A w \in Tab : \A i \in 1..Len(pending'[w]) : Typed(pending'[w][i].text, e)
  BY <1>4
<1> QED BY <1>3, <1>6, <1>7, <1>8, <1>9 DEF TextInv, e

LEMMA TextNext ==
    ASSUME StoreInv, MessageType, TextInv, StoreInv', MessageType', composer'.edit >= composer.edit,
           [ComposerNext]_draftVars
    PROVE  TextInv'
<1>0. /\ composer.edit \in Nat /\ composer'.edit \in Nat /\ composer.edit <= composer'.edit
      /\ StoreType /\ composer.text \in Nat /\ store \in Store /\ horizon \in Nat /\ Above(store)
      /\ Self \in Tab /\ Here \in DraftChat /\ MaxEdits \in Nat /\ 0 \in Nat
      /\ message.save \in Nat /\ sent \in Seq(Nat)
  BY ComposerAssumption DEF MessageType, Composer, Message, StoreInv, StoreType
<1>1. \A w \in Tab : pending[w] \in Seq(Op)
  BY <1>0 DEF StoreType
<1>2. ASSUME UNCHANGED pending
      PROVE  \A w \in Tab : /\ Len(pending'[w]) <= Len(pending[w])
                            /\ \A i \in 1..Len(pending'[w]) :
                                  \E j \in 1..Len(pending[w]) : pending'[w][i] = pending[w][j]
  BY <1>1, <1>2
<1>3. CASE UNCHANGED storeVars /\ UNCHANGED <<sent, restored>> /\ composer'.text \in {composer.text, 0}
  BY <1>0, <1>2, <1>3, TextsStay DEF storeVars
<1>4. CASE \E r \in NextRevisions(Self) : Type(r)
  <2>1. PICK r \in NextRevisions(Self), text \in {0, composer.edit + 1} :
             composer' = [composer EXCEPT !.text = text, !.edit = @ + 1]
             /\ SaveText(Self, Here, text, r)
             /\ UNCHANGED <<store, restored, sent>>
    BY <1>4 DEF Type
  <2>2. text \in Nat /\ composer'.text = text /\ composer'.edit = composer.edit + 1
    BY <1>0, <2>1 DEF MessageType, Composer
  <2>3. Typed(text, composer'.edit)
    BY <1>0, <2>2, <2>1 DEF Typed
  <2>4. PICK kind \in {"save", "remove", "clear"} : Issue(Self, kind, Here, text, 0, r)
    BY <2>1 DEF SaveText
  <2>5. \A v \in Tab : \A i \in 1..Len(pending'[v]) : Typed(pending'[v][i].text, composer'.edit)
    BY <1>0, <2>2, <2>3, <2>4, IssueTexts
  <2>6. /\ Typed(restored.text, composer'.edit)
        /\ \A i \in 1..Len(sent) : Typed(sent[i], composer'.edit)
        /\ \A c \in DraftChat : Typed(store.draft[c].text, composer'.edit)
    BY <1>0, TypedGrows DEF TextInv
  <2> QED BY <2>1, <2>2, <2>3, <2>5, <2>6 DEF TextInv
<1>5. CASE \E r \in NextRevisions(Self) : Send(r)
  <2>1. PICK r \in NextRevisions(Self) : Send(r)
    BY <1>5
  <2>2. /\ SaveText(Self, Here, composer.text, r) /\ UNCHANGED <<store, restored>>
        /\ sent' = Append(sent, composer.text) /\ composer' = [composer EXCEPT !.edit = @ + 1]
    BY <2>1 DEF Send
  <2>3. composer'.text = composer.text
    BY <1>0, <2>2 DEF MessageType, Composer
  <2>4. PICK kind \in {"save", "remove", "clear"} : Issue(Self, kind, Here, composer.text, 0, r)
    BY <2>2 DEF SaveText
  <2>5. Typed(composer.text, composer'.edit)
    BY <1>0, TypedGrows DEF TextInv
  <2>6. \A v \in Tab : \A i \in 1..Len(pending'[v]) : Typed(pending'[v][i].text, composer'.edit)
    BY <1>0, <2>4, <2>5, IssueTexts
  <2>7. /\ Typed(restored.text, composer'.edit)
        /\ \A i \in 1..Len(sent) : Typed(sent[i], composer'.edit)
        /\ \A c \in DraftChat : Typed(store.draft[c].text, composer'.edit)
    BY <1>0, TypedGrows DEF TextInv
  <2>8. \A i \in 1..Len(sent') : Typed(sent'[i], composer'.edit)
    BY <1>0, <2>2, <2>5, <2>7
  <2> QED BY <2>2, <2>3, <2>5, <2>6, <2>7, <2>8 DEF TextInv
<1>6. CASE \E r \in NextRevisions(Self) : RemoveSentRecoveredDraft(r)
  <2>1. PICK r \in NextRevisions(Self) : RemoveSentRecoveredDraft(r)
    BY <1>6
  <2>2. UNCHANGED <<store, restored, sent, composer>>
    BY <2>1 DEF RemoveSentRecoveredDraft
  <2>3. CASE UNCHANGED pending
    BY <1>0, <1>2, <2>2, <2>3, TextsStay
  <2>4. CASE Issue(Self, "remove", Here, 0, message.save, r)
    <3>1. \A v \in Tab : \A i \in 1..Len(pending'[v]) : Typed(pending'[v][i].text, composer.edit)
      BY <1>0, <2>4, IssueTexts DEF Typed
    <3> QED BY <2>2, <3>1 DEF TextInv
  <2>5. UNCHANGED pending \/ Issue(Self, "remove", Here, 0, message.save, r)
    BY <2>1 DEF RemoveSentRecoveredDraft
  <2> QED BY <2>3, <2>4, <2>5
<1>7. CASE \E w \in Tab \ {Self} : \E r \in NextRevisions(w) : OtherTab(w, r)
  <2>0. PICK w \in Tab : \E r \in NextRevisions(w) : OtherTab(w, r)
    BY <1>7
  <2>1. PICK r \in NextRevisions(w) : OtherTab(w, r)
    BY <2>0
  <2>2. UNCHANGED <<store, restored, sent, composer>>
    BY <2>1 DEF OtherTab, composerVars
  <2>3. r \in Nat /\ r > 0
    BY DEF NextRevisions
  <2>4. PICK kind \in {"save", "remove", "clear"}, c \in DraftChat, text \in {0, MaxEdits + r} :
             Issue(w, kind, c, text, 0, r)
    BY <1>0, <2>1 DEF OtherTab, SaveText
  <2>5. text \in Nat /\ Typed(text, composer.edit)
    BY <1>0, <2>3 DEF Typed
  <2>6. \A v \in Tab : \A i \in 1..Len(pending'[v]) : Typed(pending'[v][i].text, composer.edit)
    BY <1>0, <2>4, <2>5, IssueTexts
  <2> QED BY <2>2, <2>6 DEF TextInv
<1>8. CASE Reload
  <2>1. composer'.text = 0 /\ restored'.text = 0 /\ UNCHANGED <<store, sent>>
    BY <1>8 DEF Reload, NothingRestored
  <2>2. \A w \in Tab : /\ Len(pending'[w]) <= Len(pending[w])
                       /\ \A i \in 1..Len(pending'[w]) :
                             \E j \in 1..Len(pending[w]) : pending'[w][i] = pending[w][j]
    <3> SUFFICES ASSUME NEW w \in Tab
                 PROVE  /\ Len(pending'[w]) <= Len(pending[w])
                        /\ \A i \in 1..Len(pending'[w]) :
                              \E j \in 1..Len(pending[w]) : pending'[w][i] = pending[w][j]
      OBVIOUS
    <3>1. CASE w = Self
      <4>1. Len(pending'[w]) \in Nat /\ Len(pending[w]) \in Nat /\ Len(pending'[w]) <= Len(pending[w])
            /\ \A i \in 1..Len(pending'[w]) : pending'[w][i] = pending[w][i]
        BY <1>0, <1>1, <1>8, <3>1, ReloadIs DEF StoreInv, StoreType
      <4> QED BY <4>1
    <3>2. CASE w # Self
      BY <1>0, <1>1, <1>8, <3>2, ReloadIs
    <3> QED BY <3>1, <3>2
  <2> QED BY <1>0, <2>1, <2>2, TextsStay
<1>9. CASE RestoreDraft
  <2>1. /\ composer'.text = composer.text /\ restored'.text = store'.draft[Here].text
        /\ store' = Pruned(store) /\ UNCHANGED <<sent, pending>>
    BY <1>9 DEF RestoreDraft, MessageType, Composer
  <2>2. \A c \in DraftChat : store'.draft[c].text \in {store.draft[c].text, 0}
    BY <1>0, <2>1, PrunedTexts
  <2>3. restored'.text \in {restored.text, 0} \cup {store'.draft[c].text : c \in DraftChat}
    BY <1>0, <2>1
  <2>4. \A c \in DraftChat :
              store'.draft[c].text \in {store.draft[c].text, 0}
                 \cup {pending[w][i].text : w \in {v \in Tab : pending[v] # <<>>}, i \in {1}}
    BY <2>2
  <2>5. composer'.text \in {composer.text, restored.text, 0} /\ sent' = sent /\ UNCHANGED pending
    BY <2>1
  <2> QED BY <1>0, <1>2, <2>3, <2>4, <2>5, TextsStay
<1>10. CASE ApplyRestored
  <2>1. composer' = composer \/ composer' = [composer EXCEPT !.text = restored.text]
    BY <1>10 DEF ApplyRestored
  <2>2. composer'.text \in {composer.text, restored.text}
    BY <2>1 DEF MessageType, Composer
  <2>3. restored'.text = 0 /\ UNCHANGED <<store, pending, sent>>
    BY <1>10 DEF ApplyRestored, NothingRestored, storeVars
  <2> QED BY <1>0, <1>2, <2>2, <2>3, TextsStay
<1>11. CASE \E w \in Tab : RunTransaction(w) \/ StorageFails(w)
  <2>1. PICK w \in Tab : RunTransaction(w) \/ StorageFails(w)
    BY <1>11
  <2>2. UNCHANGED <<composer, sent, restored>> /\ pending[w] # <<>>
        /\ pending' = [pending EXCEPT ![w] = Tail(@)]
    BY <2>1 DEF RunTransaction, StorageFails, Transact, TransactionFails
  <2>3. \A v \in Tab : /\ Len(pending'[v]) <= Len(pending[v])
                       /\ \A i \in 1..Len(pending'[v]) :
                             \E j \in 1..Len(pending[v]) : pending'[v][i] = pending[v][j]
    <3> SUFFICES ASSUME NEW v \in Tab
                 PROVE  /\ Len(pending'[v]) <= Len(pending[v])
                        /\ \A i \in 1..Len(pending'[v]) :
                              \E j \in 1..Len(pending[v]) : pending'[v][i] = pending[v][j]
      OBVIOUS
    <3>1. CASE v = w
      <4>1. pending'[v] = Tail(pending[v])
        BY <1>0, <2>2, <3>1 DEF StoreType
      <4>2. /\ Len(pending[v]) \in Nat \ {0} /\ Len(pending'[v]) = Len(pending[v]) - 1
            /\ \A i \in 1..Len(pending'[v]) : pending'[v][i] = pending[v][i + 1]
        BY <1>0, <2>2, <3>1, <4>1, HeadType
      <4>3. ASSUME NEW i \in 1..Len(pending'[v])
            PROVE  \E j \in 1..Len(pending[v]) : pending'[v][i] = pending[v][j]
        <5>1. i + 1 \in 1..Len(pending[v])
          BY <4>2
        <5> QED BY <4>2, <5>1
      <4> QED BY <4>2, <4>3
    <3>2. CASE v # w
      <4>1. pending'[v] = pending[v]
        BY <1>0, <2>2, <3>2 DEF StoreType
      <4> QED BY <1>1, <4>1
    <3> QED BY <3>1, <3>2
  <2>4. Head(pending[w]) \in Op /\ Head(pending[w]) = pending[w][1]
    BY <1>0, <2>2, HeadType
  <2>5. \A c \in DraftChat : store'.draft[c].text \in {store.draft[c].text, 0, pending[w][1].text}
    <3>1. CASE StorageFails(w)
      BY <3>1 DEF StorageFails, TransactionFails
    <3>2. CASE RunTransaction(w)
      <4> DEFINE op == Head(pending[w])
                 s == Considered(op)
      <4>1. s \in Store /\ Above(s) /\ \A c \in DraftChat : s.draft[c].text \in {store.draft[c].text, 0}
        BY <1>0, PruneKeeps, PrunedTexts DEF Considered
      <4>2. (Accepts(s, op) /\ store' = Performed(s, op)) \/ store' = s
        BY <3>2 DEF RunTransaction, Transact
      <4> HIDE DEF s
      <4>3. ASSUME Accepts(s, op), store' = Performed(s, op), NEW c \in DraftChat
            PROVE  store'.draft[c].text \in {s.draft[c].text, 0, op.text}
        BY <2>4, <4>1, <4>3, PerformedTexts
      <4> QED BY <2>4, <4>1, <4>2, <4>3
    <3> QED BY <2>1, <3>1, <3>2
  <2>6. \A c \in DraftChat :
              store'.draft[c].text \in {store.draft[c].text, 0}
                 \cup {pending[v][i].text : v \in {x \in Tab : pending[x] # <<>>}, i \in {1}}
    BY <2>2, <2>5
  <2>7. /\ composer'.text \in {composer.text, restored.text, 0} /\ sent' = sent
        /\ restored'.text \in {restored.text, 0} \cup {store'.draft[c].text : c \in DraftChat}
    BY <2>2
  <2> QED BY <1>0, <2>3, <2>6, <2>7, TextsStay, SMTT(30)
<1>12. CASE Age
  BY <1>0, <1>2, <1>12, TextsStay DEF Age, Expire, composerVars
<1>13. CASE Retry \/ AppTakes \/ AppRefuses \/ AnswerLost \/ NotObserved
  BY <1>3, <1>13 DEF Retry, AppTakes, AppRefuses, AnswerLost, NotObserved
<1>14. CASE SettlePromptMutation
  <2>1. composer' = composer \/ composer' = [composer EXCEPT !.text = 0, !.edit = @ + 1]
    BY <1>14 DEF SettlePromptMutation
  <2>2. composer'.text \in {composer.text, 0}
    BY <2>1 DEF MessageType, Composer
  <2> QED BY <1>3, <1>14, <2>2 DEF SettlePromptMutation
<1>15. CASE UNCHANGED draftVars
  BY <1>3, <1>15 DEF draftVars, composerVars
<1> QED BY <1>4, <1>5, <1>6, <1>7, <1>8, <1>9, <1>10, <1>11, <1>12, <1>13, <1>14, <1>15
        DEF ComposerNext

-----------------------------------------------------------------------------
(* Counting *)

LEMMA LiveFinite ==
    ASSUME MessageType, CountInv, NEW text
    PROVE  IsFiniteSet(Live(text)) /\ Cardinality(Live(text)) \in Nat
<1>1. Len(sent) \in Int /\ 1 \in Int
  BY DEF MessageType
<1>2. IsFiniteSet(1..Len(sent))
  BY <1>1, FS_Interval
<1>3. Live(text) \subseteq 1..Len(sent)
  BY DEF Live, UnderWay, CountInv
<1>4. IsFiniteSet(Live(text))
  BY <1>2, <1>3, FS_Subset
<1> QED BY <1>4, FS_CardinalityType

\* There are not more when nothing is put under way.
LEMMA LiveShrinks ==
    ASSUME MessageType, CountInv, sent' = sent,
           UnderWay' \subseteq UnderWay, NEW text
    PROVE  /\ IsFiniteSet(Live(text)') /\ Cardinality(Live(text)') \in Nat
           /\ Cardinality(Live(text)') <= Cardinality(Live(text))
<1>1. Live(text)' \subseteq Live(text)
  BY DEF Live
<1>2. IsFiniteSet(Live(text))
  BY LiveFinite
<1>3. IsFiniteSet(Live(text)') /\ Cardinality(Live(text)') <= Cardinality(Live(text))
  BY <1>1, <1>2, FS_Subset
<1> QED BY <1>3, FS_CardinalityType

LEMMA MessageIs ==
    ASSUME MessageType, CountInv, LockedInv
    PROVE  /\ message # NoMessage <=> message.id # 0
           /\ message # NoMessage <=> message.state # "none" \/ message.id # 0
           /\ message # NoMessage => message.id \in 1..Len(sent) /\ message.id \in Nat
           /\ Bound \in Nat /\ NoMessage.id = 0
<1>1. NoMessage.id = 0 /\ NoMessage.state = "none"
  BY DEF NoMessage
<1>2. message # NoMessage => message.id \in 1..Len(sent)
  BY DEF LockedInv, CountInv, UnderWay
<1>3. Bound \in Nat /\ Len(sent) \in Nat
  BY DEF MessageType, Composer, Bound
<1>4. ASSUME message # NoMessage PROVE message.id # 0 /\ message.id \in Nat
  BY <1>2, <1>3, <1>4
<1> QED BY <1>1, <1>2, <1>3, <1>4

\* A step that neither sends nor settles.
LEMMA QuietMessage ==
    ASSUME MessageType, CountInv, LockedInv,
           UNCHANGED <<composer, sent, restored, reloads>>,
           accepted' \cup Asked' = accepted \cup Asked, returned' = returned,
           accepted \subseteq accepted',
           \/ message' = message
           \/ /\ message # NoMessage /\ message'.id = message.id /\ message'.edit = message.edit
              /\ message'.removal = "issued" => message.removal = "issued" \/ message.id \in accepted
    PROVE  CountInv' /\ LockedInv'
<1>1. message' = NoMessage <=> message = NoMessage
  BY MessageIs
<1>2. UnderWay' = UnderWay /\ \A text : Live(text)' = Live(text)
  BY DEF Live, UnderWay
<1>3. CountInv'
  <2>1. Bound' = Bound /\ composer' = composer /\ restored' = restored /\ sent' = sent
    BY DEF Bound
  <2> QED BY <1>1, <1>2, <2>1 DEF CountInv
<1>4. LockedInv'
  BY <1>1, <1>2 DEF LockedInv
<1> QED BY <1>3, <1>4

\* A message is not under way any more, or was taken: the composer is free.
LEMMA TypeCounts ==
    ASSUME MessageType, MessageType', CountInv, LockedInv, TextInv, NEW r, Type(r)
    PROVE  CountInv' /\ LockedInv'
<1>1. PICK text \in {0, composer.edit + 1} :
          composer' = [composer EXCEPT !.text = text, !.edit = @ + 1]
  BY DEF Type
<1>2. UNCHANGED <<message, sent, outgoing, accepted, returned, restored, reloads>> /\ message = NoMessage
      /\ composer.edit < MaxEdits
  BY DEF Type
<1>3. /\ composer'.text = text /\ composer'.edit = composer.edit + 1
      /\ composer'.checked = composer.checked /\ composer.edit \in Nat /\ MaxEdits \in Nat
      /\ restored.edit <= composer.edit /\ restored.edit \in Nat
  BY <1>1, ComposerAssumption DEF MessageType, Composer
<1>4. \A t : Live(t)' = Live(t)
  BY <1>2 DEF Live, UnderWay, Asked
<1>5. Bound' = Bound /\ Bound \in Nat
  BY <1>2, <1>3, MessageIs DEF Bound
<1>6. ASSUME text # 0 PROVE Cardinality(Live(text)) = 0
  <2>1. ~Typed(text, composer.edit)
    BY <1>2, <1>3, <1>6 DEF Typed
  <2>2. Live(text) = {}
    BY <2>1 DEF Live, UnderWay, TextInv, CountInv
  <2> QED BY <2>2, FS_EmptySet
<1>7. restored'.edit # composer'.edit
  BY <1>2, <1>3
<1>8. CountInv'
  <2>1. /\ accepted' \cup Asked' \cup returned' \subseteq 1..Len(sent') /\ Bound' >= 1
        /\ \A t \in Nat : Cardinality(Live(t)') <= Bound'
    BY <1>2, <1>4, <1>5 DEF CountInv, Asked
  <2>2. Live(composer.text)' = Live(text)
    BY <1>2, <1>3 DEF Live, UnderWay, Asked
  <2>3. composer'.text # 0 => Cardinality(Live(composer.text)') < Bound'
    BY <1>3, <1>5, <1>6, <2>1, <2>2
  <2> QED BY <1>7, <2>1, <2>3 DEF CountInv
<1>9. LockedInv'
  BY <1>2 DEF LockedInv
<1> QED BY <1>8, <1>9

LEMMA SendCounts ==
    ASSUME MessageType, MessageType', CountInv, LockedInv, NEW r, Send(r)
    PROVE  CountInv' /\ LockedInv'
<1>1. /\ message = NoMessage /\ composer.text # 0
      /\ sent' = Append(sent, composer.text)
      /\ outgoing' = outgoing \cup {CallOf(message')}
      /\ composer' = [composer EXCEPT !.edit = @ + 1]
      /\ message' = [id |-> Len(sent'), try |-> 1, edit |-> composer'.edit, state |-> "sending",
                     save |-> r, saved |-> FALSE, removal |-> "no"]
      /\ UNCHANGED <<accepted, returned, restored, reloads>>
  BY DEF Send
<1>2. /\ composer'.text = composer.text /\ composer'.edit = composer.edit + 1
      /\ composer'.checked = composer.checked /\ composer.edit \in Nat
      /\ restored.edit <= composer.edit /\ restored.edit \in Nat /\ composer.text \in Nat
      /\ sent \in Seq(Nat)
  BY <1>1 DEF MessageType, Composer
<1>3. /\ Len(sent') = Len(sent) + 1 /\ Len(sent) \in Nat /\ sent'[Len(sent')] = composer.text
      /\ \A i \in 1..Len(sent) : sent'[i] = sent[i]
  BY <1>1, <1>2
<1>4. message'.id = Len(sent') /\ message'.edit = composer'.edit /\ message'.removal = "no"
      /\ message' # NoMessage
  BY <1>1, <1>3 DEF NoMessage
<1>5. Bound' = Bound /\ Bound \in Nat
  BY <1>1, <1>2, MessageIs DEF Bound
<1>6. restored'.edit # composer'.edit
  BY <1>1, <1>2
<1>7. /\ Asked' = Asked \cup {Len(sent')} /\ UnderWay' = UnderWay \cup {Len(sent')}
      /\ accepted' \cup Asked' \cup returned' \subseteq 1..Len(sent')
      /\ UnderWay \subseteq 1..Len(sent)
  <2>1. Asked' = Asked \cup {Len(sent')}
    <3>1. outgoing' = outgoing \cup {CallOf(message')} /\ CallOf(message').id = Len(sent')
      BY <1>1, <1>4 DEF CallOf
    <3> QED BY <3>1 DEF Asked
  <2>2. accepted \cup Asked \cup returned \subseteq 1..Len(sent)
    BY DEF CountInv
  <2>3. Len(sent') \notin 1..Len(sent) /\ 1..Len(sent) \subseteq 1..Len(sent')
        /\ Len(sent') \in 1..Len(sent')
    BY <1>3
  <2> QED BY <1>1, <2>1, <2>2, <2>3 DEF UnderWay
<1>8. ASSUME NEW text \in Nat PROVE Cardinality(Live(text)') <= Bound'
  <2>1. CASE text = composer.text
    <3>1. Live(text)' = Live(text) \cup {Len(sent')} /\ Len(sent') \notin Live(text)
      <4>1. Len(sent') \notin UnderWay /\ \A id \in UnderWay : sent'[id] = sent[id]
        BY <1>3, <1>7
      <4> QED BY <1>3, <1>7, <2>1, <4>1 DEF Live
    <3>2. IsFiniteSet(Live(text)) /\ Cardinality(Live(text)) \in Nat
      BY LiveFinite
    <3>3. Cardinality(Live(text)') = Cardinality(Live(text)) + 1
      BY <3>1, <3>2, FS_AddElement
    <3>4. Cardinality(Live(text)) < Bound
      BY <1>1, <2>1 DEF CountInv
    <3> QED BY <1>5, <3>2, <3>3, <3>4
  <2>2. CASE text # composer.text
    <3>1. Live(text)' = Live(text)
      BY <1>3, <1>7, <2>2 DEF Live
    <3> QED BY <1>5, <3>1 DEF CountInv
  <2> QED BY <2>1, <2>2
<1>9. CountInv'
  BY <1>4, <1>5, <1>6, <1>7, <1>8 DEF CountInv
<1>10. LockedInv'
  BY <1>1, <1>2, <1>3, <1>4, <1>7 DEF LockedInv
<1> QED BY <1>9, <1>10

LEMMA RefusesCounts ==
    ASSUME MessageType, MessageType', CountInv, LockedInv, AppRefuses
    PROVE  CountInv' /\ LockedInv'
<1>1. /\ message.state = "sending" /\ CallOf(message) \in outgoing
      /\ outgoing' = outgoing \ {CallOf(message)} /\ message' = NoMessage
      /\ returned' = returned \cup {message.id}
      /\ UNCHANGED <<composer, sent, accepted, restored, reloads>>
  BY DEF AppRefuses
<1>2. message # NoMessage
  BY <1>1 DEF NoMessage
<1>3. sent[message.id] = composer.text /\ message.id \in Live(composer.text)
  BY <1>1, <1>2 DEF LockedInv, Live
<1>4. /\ message.id \in Asked /\ UnderWay' = UnderWay \ {message.id}
      /\ accepted' \cup Asked' \cup returned' \subseteq 1..Len(sent)
  <2>1. CallOf(message).id = message.id
    BY DEF CallOf
  <2>2. message.id \in Asked /\ Asked' \subseteq Asked /\ Asked \ {message.id} \subseteq Asked'
    BY <1>1, <2>1 DEF Asked
  <2>3. accepted \cup Asked \cup returned \subseteq 1..Len(sent)
    BY DEF CountInv
  <2> QED BY <1>1, <2>2, <2>3 DEF UnderWay
<1>5. Bound' = Bound /\ Bound \in Nat
  BY <1>1, MessageIs DEF Bound
<1>6. \A text : Cardinality(Live(text)') \in Nat /\ Cardinality(Live(text)') <= Cardinality(Live(text))
                /\ Cardinality(Live(text)) \in Nat
  BY <1>1, <1>4, LiveShrinks, LiveFinite
<1>7. Cardinality(Live(composer.text)') < Bound
  <2>1. Live(composer.text)' = Live(composer.text) \ {message.id}
    BY <1>1, <1>4 DEF Live
  <2>2. Cardinality(Live(composer.text)') = Cardinality(Live(composer.text)) - 1
    BY <1>3, <2>1, LiveFinite, FS_RemoveElement
  <2>3. Cardinality(Live(composer.text)) <= Bound
    BY DEF CountInv, MessageType, Composer
  <2> QED BY <1>5, <1>6, <2>2, <2>3
<1>8. restored'.edit # composer'.edit
  BY <1>1, <1>2 DEF CountInv
<1>9. accepted' \cup Asked' \cup returned' \subseteq 1..Len(sent')
  BY <1>1, <1>4
<1>10. ASSUME NEW text \in Nat PROVE Cardinality(Live(text)') <= Bound'
  <2>1. Cardinality(Live(text)) <= Bound
    BY DEF CountInv
  <2> QED BY <1>5, <1>6, <2>1
<1>11. CountInv'
  BY <1>1, <1>5, <1>7, <1>8, <1>9, <1>10 DEF CountInv
<1>12. LockedInv'
  BY <1>1 DEF LockedInv
<1> QED BY <1>11, <1>12

LEMMA SettlesCounts ==
    ASSUME MessageType, MessageType', CountInv, LockedInv, SettlePromptMutation
    PROVE  CountInv' /\ LockedInv'
<1>1. /\ message.removal = "issued" /\ message' = NoMessage
      /\ composer' = IF message.edit = composer.edit
                     THEN [composer EXCEPT !.text = 0, !.edit = @ + 1] ELSE composer
      /\ UNCHANGED <<sent, outgoing, accepted, returned, restored, reloads>>
  BY DEF SettlePromptMutation
<1>2. message # NoMessage
  BY <1>1 DEF NoMessage
<1>3. composer' = [composer EXCEPT !.text = 0, !.edit = @ + 1]
  BY <1>1, <1>2 DEF LockedInv
<1>4. /\ composer'.text = 0 /\ composer'.edit = composer.edit + 1 /\ composer'.checked = composer.checked
      /\ composer.edit \in Nat /\ restored.edit <= composer.edit /\ restored.edit \in Nat
  BY <1>3 DEF MessageType, Composer
<1>5. \A text : Live(text)' = Live(text)
  BY <1>1 DEF Live, UnderWay, Asked
<1>6. Bound' = Bound
  BY <1>1, <1>4 DEF Bound
<1>7. restored'.edit # composer'.edit
  BY <1>1, <1>4
<1>8. CountInv'
  BY <1>1, <1>4, <1>5, <1>6, <1>7 DEF CountInv, Asked
<1>9. LockedInv'
  BY <1>1 DEF LockedInv
<1> QED BY <1>8, <1>9

LEMMA ReloadCounts ==
    ASSUME MessageType, MessageType', CountInv, LockedInv, Reload
    PROVE  CountInv' /\ LockedInv'
<1>1. /\ composer' = [text |-> 0, edit |-> composer.edit + 1, checked |-> FALSE]
      /\ reloads' = reloads + 1 /\ message' = NoMessage /\ restored' = NothingRestored
      /\ UNCHANGED <<sent, outgoing, accepted, returned>>
  BY DEF Reload
<1>2. composer'.text = 0 /\ composer'.checked = FALSE /\ restored'.edit = 0 /\ composer'.edit > 0
  BY <1>1 DEF NothingRestored, MessageType
<1>3. Bound' = reloads + 1 /\ Bound' >= Bound /\ Bound' \in Nat /\ Bound \in Nat
  BY <1>1, <1>2, MessageIs DEF Bound, MessageType
<1>4. \A text : Live(text)' = Live(text)
  BY <1>1 DEF Live, UnderWay, Asked
<1>5. ASSUME NEW text \in Nat PROVE Cardinality(Live(text)') <= Bound'
  <2>1. Cardinality(Live(text)) <= Bound /\ Cardinality(Live(text)) \in Nat
    BY LiveFinite DEF CountInv
  <2> QED BY <1>3, <1>4, <2>1
<1>6. CountInv'
  <2>1. restored'.edit # composer'.edit
    BY <1>2
  <2>2. Bound' >= 1
    BY <1>3 DEF MessageType
  <2> QED BY <1>1, <1>2, <1>5, <2>1, <2>2 DEF CountInv, Asked
<1>7. LockedInv'
  BY <1>1 DEF LockedInv
<1> QED BY <1>6, <1>7

LEMMA RestoreCounts ==
    ASSUME MessageType, MessageType', CountInv, LockedInv, RestoreDraft
    PROVE  CountInv' /\ LockedInv'
<1>1. /\ ~composer.checked /\ composer.text = 0 /\ message = NoMessage
      /\ composer' = [composer EXCEPT !.checked = TRUE]
      /\ UNCHANGED <<message, sent, outgoing, accepted, returned, reloads>>
  BY DEF RestoreDraft
<1>2. composer'.text = 0 /\ composer'.checked /\ composer'.edit = composer.edit
  BY <1>1 DEF MessageType, Composer
<1>3. Bound = reloads /\ Bound' = reloads + 1 /\ Bound \in Nat
  BY <1>1, <1>2, MessageIs DEF Bound
<1>4. \A text : Live(text)' = Live(text)
  BY <1>1 DEF Live, UnderWay, Asked
<1>5. \A text \in Nat : Cardinality(Live(text)') < Bound' /\ Cardinality(Live(text)') <= Bound'
  <2> SUFFICES ASSUME NEW text \in Nat
               PROVE  Cardinality(Live(text)') < Bound' /\ Cardinality(Live(text)') <= Bound'
    OBVIOUS
  <2>1. Cardinality(Live(text)) <= Bound /\ Cardinality(Live(text)) \in Nat
    BY LiveFinite DEF CountInv
  <2> QED BY <1>3, <1>4, <2>1
<1>6. Cardinality(Live(restored.text)') < Bound'
  <2>1. PICK text \in Nat : text = restored'.text
    BY DEF MessageType
  <2>2. Live(restored.text)' = Live(text)'
    BY <2>1 DEF Live
  <2> QED BY <1>5, <2>2
<1>7. CountInv'
  <2>1. Bound' >= 1
    BY <1>3
  <2> QED BY <1>1, <1>2, <1>5, <1>6, <2>1 DEF CountInv, Asked
<1>8. LockedInv'
  BY <1>1 DEF LockedInv
<1> QED BY <1>7, <1>8

LEMMA ApplyCounts ==
    ASSUME MessageType, MessageType', CountInv, LockedInv, ApplyRestored
    PROVE  CountInv' /\ LockedInv'
<1>1. /\ restored' = NothingRestored
      /\ composer' = IF restored.edit = composer.edit /\ composer.text = 0 /\ message = NoMessage
                     THEN [composer EXCEPT !.text = restored.text] ELSE composer
      /\ UNCHANGED <<message, sent, outgoing, accepted, returned, reloads>>
  BY DEF ApplyRestored
<1>2. composer'.edit = composer.edit /\ composer'.checked = composer.checked
  BY <1>1 DEF MessageType, Composer
<1>3. restored'.edit # composer'.edit
  BY <1>1, <1>2 DEF NothingRestored, MessageType
<1>4. \A text : Live(text)' = Live(text)
  BY <1>1 DEF Live, UnderWay, Asked
<1>5. Bound' = Bound
  BY <1>1, <1>2 DEF Bound
<1>6. CASE composer' = composer
  BY <1>1, <1>3, <1>4, <1>5, <1>6 DEF CountInv, LockedInv, Live, UnderWay, Asked
<1>7. CASE /\ restored.edit = composer.edit /\ composer.text = 0 /\ message = NoMessage
           /\ composer' = [composer EXCEPT !.text = restored.text]
  <2>1. composer'.text = restored.text
    BY <1>7 DEF MessageType, Composer
  <2>2. Live(composer.text)' = Live(restored.text)
    BY <1>1, <2>1 DEF Live, UnderWay, Asked
  <2>3. Cardinality(Live(composer.text)') < Bound'
    BY <1>5, <1>7, <2>2 DEF CountInv
  <2> QED BY <1>1, <1>3, <1>4, <1>5, <1>7, <2>3 DEF CountInv, LockedInv, Asked
<1> QED BY <1>1, <1>6, <1>7

LEMMA FirstTryNext ==
    ASSUME MessageType, MessageType', CountInv, LockedInv, FirstTry, [ComposerNext]_draftVars
    PROVE  FirstTry'
<1> USE DEF FirstTry
<1>0. /\ mishaps \in Nat /\ reloads \in Nat /\ reloads <= mishaps /\ message \in Message
      /\ NoMessage.state = "none" /\ sent \in Seq(Nat)
      /\ message.id \in Nat /\ message.try \in Nat
  BY DEF MessageType, Message, NoMessage
<1>1. ASSUME UNCHANGED <<outgoing, accepted, returned, mishaps, reloads>>,
             message'.state \in {message.state, "none"}, message'.try = message.try
                                                           \/ message'.state = "none"
      PROVE  FirstTry'
  BY <1>1
<1>2. ASSUME mishaps' = mishaps + 1, reloads' = reloads, outgoing' = outgoing PROVE FirstTry'
  BY <1>0, <1>2
<1>3. CASE UNCHANGED draftVars
  BY <1>1, <1>3 DEF draftVars, composerVars
<1>4. CASE \E r \in NextRevisions(Self) : Type(r)
  BY <1>1, <1>4 DEF Type
<1>5. CASE \E r \in NextRevisions(Self) : Send(r)
  <2>1. /\ sent' = Append(sent, composer.text) /\ message'.id = Len(sent') /\ message'.try = 1
        /\ outgoing' = outgoing \cup {CallOf(message')} /\ message'.state = "sending"
        /\ UNCHANGED <<accepted, returned, mishaps, reloads>>
    BY <1>5 DEF Send
  <2>2. message'.id = Len(sent) + 1 /\ message'.id \in Nat /\ message'.id \notin 1..Len(sent)
    <3>1. composer.text \in Nat
      BY DEF MessageType, Composer
    <3> QED BY <1>0, <2>1, <3>1
  <2>3. CallOf(message') \in Attempt /\ CallOf(message').id = message'.id /\ CallOf(message').try = 1
    BY <2>1, <2>2 DEF CallOf, Attempt
  <2>4. message'.id \notin accepted \cup returned
    BY <2>2 DEF CountInv
  <2> QED BY <2>1, <2>3, <2>4
<1>6. CASE \E r \in NextRevisions(Self) : RemoveSentRecoveredDraft(r)
  <2>1. /\ message' = [message EXCEPT !.removal = "issued"]
        /\ UNCHANGED <<outgoing, accepted, returned, mishaps, reloads>>
    BY <1>6 DEF RemoveSentRecoveredDraft
  <2>2. message'.state = message.state /\ message'.try = message.try
    BY <1>0, <2>1 DEF Message
  <2> QED BY <1>1, <2>1, <2>2
<1>7. CASE \E w \in Tab \ {Self} : \E r \in NextRevisions(w) : OtherTab(w, r)
  BY <1>1, <1>7 DEF OtherTab, composerVars
<1>8. CASE Retry
  <2>1. /\ message.state = "retryable" /\ message'.id = message.id /\ message'.try = message.try + 1
        /\ outgoing' = outgoing \cup {CallOf(message')} /\ UNCHANGED <<mishaps, reloads>>
    BY <1>0, <1>8 DEF Retry, Message
  <2>2. CallOf(message') \in Attempt
    BY <1>0, <2>1 DEF CallOf, Attempt
  <2> QED BY <2>1, <2>2
<1>9. CASE NotObserved
  BY <1>9 DEF NotObserved
<1>10. CASE AnswerLost
  BY <1>2, <1>10 DEF AnswerLost, Mishap
<1>11. CASE AppTakes
  <2>1. PICK call \in outgoing :
             outgoing' = outgoing \ {call} /\ accepted' = accepted \cup {call.id}
             /\ UNCHANGED <<message, returned, mishaps, reloads>>
    BY <1>11 DEF AppTakes
  <2>2. ASSUME mishaps = reloads, NEW other \in outgoing, other.id = call.id PROVE other = call
    BY <2>1, <2>2 DEF Attempt
  <2> QED BY <2>1, <2>2
<1>12. CASE AppRefuses
  <2>1. /\ message.state = "sending" /\ CallOf(message) \in outgoing
        /\ outgoing' = outgoing \ {CallOf(message)} /\ message' = NoMessage
        /\ returned' = returned \cup {message.id} /\ UNCHANGED <<accepted, mishaps, reloads>>
    BY <1>12 DEF AppRefuses
  <2>2. CallOf(message).id = message.id /\ CallOf(message).try = message.try
    BY DEF CallOf
  <2>3. ASSUME mishaps = reloads, NEW other \in outgoing, other.id = message.id
        PROVE  other = CallOf(message)
    BY <2>1, <2>2, <2>3 DEF Attempt
  <2> QED BY <1>0, <2>1, <2>2, <2>3
<1>13. CASE SettlePromptMutation
  BY <1>0, <1>1, <1>13 DEF SettlePromptMutation
<1>14. CASE Reload
  <2>1. /\ message' = NoMessage /\ UNCHANGED <<outgoing, accepted, returned>>
        /\ mishaps' = mishaps + 1 /\ reloads' = reloads + 1
    BY <1>14 DEF Reload, Mishap
  <2>2. mishaps' = reloads' => mishaps = reloads
    BY <1>0, <2>1
  <2> QED BY <1>0, <2>1, <2>2
<1>15. CASE RestoreDraft \/ ApplyRestored
  BY <1>1, <1>15 DEF RestoreDraft, ApplyRestored
<1>16. CASE \E w \in Tab : RunTransaction(w)
  <2>1. PICK w \in Tab : RunTransaction(w)
    BY <1>16
  <2>2. PICK ok : message' = message \/ message' = [message EXCEPT !.saved = ok]
    BY <2>1 DEF RunTransaction
  <2>3. message'.state = message.state /\ message'.try = message.try
    BY <1>0, <2>2 DEF Message
  <2>4. UNCHANGED <<outgoing, accepted, returned, mishaps, reloads>>
    BY <2>1 DEF RunTransaction
  <2> QED BY <1>1, <2>3, <2>4
<1>17. CASE \E w \in Tab : StorageFails(w)
  BY <1>2, <1>17 DEF StorageFails, Mishap
<1>18. CASE Age
  BY <1>1, <1>18 DEF Age, composerVars
<1> QED BY <1>3, <1>4, <1>5, <1>6, <1>7, <1>8, <1>9, <1>10, <1>11, <1>12, <1>13, <1>14, <1>15,
        <1>16, <1>17, <1>18 DEF ComposerNext

LEMMA MessageNext ==
    ASSUME StoreInv, MessageInv, [ComposerNext]_draftVars
    PROVE  StoreInv' /\ MessageInv'
<1>0. /\ StoreInv' /\ MessageType' /\ TextInv'
      /\ MessageType /\ CountInv /\ LockedInv /\ TextInv /\ FirstTry'
  BY StoreNext, MessageTypeNext, TextNext, FirstTryNext DEF MessageInv
<1> USE <1>0
<1> SUFFICES CountInv' /\ LockedInv'
  BY DEF MessageInv
<1>1. CASE UNCHANGED draftVars
  BY <1>1, QuietMessage DEF draftVars, composerVars, Asked
<1>2. CASE \E r \in NextRevisions(Self) : Type(r) \/ Send(r)
  BY <1>2, TypeCounts, SendCounts
<1>3. CASE \E r \in NextRevisions(Self) : RemoveSentRecoveredDraft(r)
  <2>1. /\ message' = [message EXCEPT !.removal = "issued"] /\ message.id \in accepted
        /\ UNCHANGED <<composer, sent, outgoing, accepted, returned, restored, reloads>>
    BY <1>3 DEF RemoveSentRecoveredDraft
  <2>2. message # NoMessage
    <3>1. message.id # 0
      BY <2>1 DEF CountInv, MessageType
    <3> QED BY <3>1, MessageIs
  <2>3. message'.id = message.id /\ message'.edit = message.edit
    BY <2>1 DEF MessageType, Message
  <2> QED BY <2>1, <2>2, <2>3, QuietMessage DEF Asked
<1>4. CASE \E w \in Tab \ {Self} : \E r \in NextRevisions(w) : OtherTab(w, r)
  BY <1>4, QuietMessage DEF OtherTab, composerVars, Asked
<1>5. CASE Retry \/ AnswerLost \/ NotObserved
  <2>1. /\ message # NoMessage /\ message'.id = message.id /\ message'.edit = message.edit
        /\ message'.removal = message.removal
    BY <1>5, AttemptKeeps DEF MessageType
  <2>2. UNCHANGED <<composer, sent, accepted, returned, restored, reloads>>
    BY <1>5 DEF Retry, AnswerLost, NotObserved
  <2>3. accepted' \cup Asked' = accepted \cup Asked
    <3>1. CASE Retry
      <4>1. outgoing' = outgoing \cup {CallOf(message')} /\ CallOf(message').id = message.id
        BY <2>1, <3>1 DEF Retry, CallOf
      <4>2. message.id \in accepted \cup Asked
        BY <2>1 DEF LockedInv, UnderWay
      <4>3. Asked' = Asked \cup {message.id}
        BY <4>1 DEF Asked
      <4> QED BY <2>2, <4>2, <4>3
    <3>2. CASE AnswerLost \/ NotObserved
      BY <3>2 DEF AnswerLost, NotObserved, Asked
    <3> QED BY <1>5, <3>1, <3>2
  <2> QED BY <2>1, <2>2, <2>3, QuietMessage
<1>6. CASE AppTakes
  <2>1. PICK call \in outgoing :
             outgoing' = outgoing \ {call} /\ accepted' = accepted \cup {call.id}
    BY <1>6 DEF AppTakes
  <2>2. accepted' \cup Asked' = accepted \cup Asked
    <3>1. call.id \in Asked /\ Asked' \subseteq Asked /\ Asked \ {call.id} \subseteq Asked'
      BY <2>1 DEF Asked
    <3> QED BY <2>1, <3>1
  <2>3. UNCHANGED <<message, composer, sent, returned, restored, reloads>>
    BY <1>6 DEF AppTakes
  <2> QED BY <2>1, <2>2, <2>3, QuietMessage
<1>7. CASE \E w \in Tab : RunTransaction(w)
  <2>1. PICK w \in Tab : RunTransaction(w)
    BY <1>7
  <2>2. Head(pending[w]).rev # 0
    <3>1. Head(pending[w]) \in Op
      BY <2>1, HeadType DEF RunTransaction, Transact, StoreInv
    <3> QED BY <3>1 DEF Op
  <2>3. UNCHANGED <<composer, sent, outgoing, accepted, returned, restored, reloads>>
    BY <2>1 DEF RunTransaction
  <2>4. CASE message.save = Head(pending[w]).rev
    <3>1. message # NoMessage
      BY <2>2, <2>4 DEF NoMessage
    <3>2. message'.id = message.id /\ message'.edit = message.edit /\ message'.removal = message.removal
      BY <2>1 DEF RunTransaction, MessageType, Message
    <3> QED BY <2>3, <3>1, <3>2, QuietMessage DEF Asked
  <2>5. CASE message.save # Head(pending[w]).rev
    <3>1. message' = message
      BY <2>1, <2>5 DEF RunTransaction
    <3> QED BY <2>3, <3>1, QuietMessage DEF Asked
  <2> QED BY <2>4, <2>5
<1>8. CASE \E w \in Tab : StorageFails(w)
  BY <1>8, QuietMessage DEF StorageFails, Asked
<1>9. CASE Age
  BY <1>9, QuietMessage DEF Age, composerVars, Asked
<1> QED BY <1>1, <1>2, <1>3, <1>4, <1>5, <1>6, <1>7, <1>8, <1>9, RefusesCounts, SettlesCounts,
        ReloadCounts, RestoreCounts, ApplyCounts DEF ComposerNext

LEMMA MessageInit == ComposerInit => StoreInv /\ MessageInv
<1> SUFFICES ASSUME ComposerInit PROVE StoreInv /\ MessageInv
  OBVIOUS
<1>1. StoreInv /\ MessageType
  BY StoreInitInv
<1>2. /\ composer.text = 0 /\ composer.edit = 1 /\ composer.checked /\ message = NoMessage
      /\ sent = <<>> /\ accepted = {} /\ outgoing = {} /\ returned = {} /\ restored.text = 0 /\ restored.edit = 0
      /\ reloads = 0 /\ \A w \in Tab : pending[w] = <<>>
  BY DEF ComposerInit, StoreInit, NothingRestored
<1>3. \A c \in DraftChat : store.draft[c].text = 0
  BY DEF ComposerInit, StoreInit, Empty, NoDraft
<1>4. TextInv
  BY <1>2, <1>3 DEF TextInv, Typed
<1>5. \A text : Cardinality(Live(text)) = 0
  <2>1. \A text : Live(text) = {}
    BY <1>2 DEF Live, UnderWay, Asked
  <2> QED BY <2>1, FS_EmptySet
<1>6. CountInv /\ LockedInv
  BY <1>2, <1>5 DEF CountInv, LockedInv, Bound, Asked
<1>7. FirstTry
  BY <1>2 DEF FirstTry, NoMessage
<1> QED BY <1>1, <1>4, <1>6, <1>7 DEF MessageInv

-----------------------------------------------------------------------------
(* What follows *)

\* The composer and the store keep their types and invariants in every step: the
\* draft of a chat is decided by its newest revision (_ownerTransaction), and a
\* text is under way once per opening of the tab (_sendPrompt, its retries).
THEOREM ComposerInvariant == ComposerSpec => [](StoreInv /\ MessageInv)
<1>1. StoreInv /\ MessageInv /\ [ComposerNext]_draftVars => (StoreInv /\ MessageInv)'
  BY MessageNext
<1> QED BY <1>1, MessageInit, PTL DEF ComposerSpec

\* As long as no clear ran behind newer operations, the stored draft of every chat
\* is the one of its newest accepted revision, in whatever order the tabs'
\* transactions run and whatever _pruneExpired and _enforceRecordLimit drop.
THEOREM ComposerNewestStays == ComposerSpec => []NewestStays
<1>1. StoreInv => NewestStays
  BY DEF StoreInv, Decided, NewestStays, RemovedStaysRemoved
<1> QED BY <1>1, ComposerInvariant, PTL

\* A text that the user sent once becomes one message, however often _sendPrompt
\* retries it, and one more for every reload of the tab, unless a retry is refused;
\* and what the panel was told is refused was not taken, unless an answer was lost.
THEOREM ComposerAcceptedOnce == ComposerSpec => []AcceptedOnce
<1>1. ASSUME StoreInv /\ MessageInv, NEW id \in accepted \ returned
      PROVE  Cardinality({other \in accepted \ returned : sent[other] = sent[id]}) <= 1 + reloads
  <2> USE <1>1
  <2> DEFINE same == {other \in accepted \ returned : sent[other] = sent[id]}
  <2>1. same \subseteq Live(sent[id])
    BY DEF Live, UnderWay
  <2>2. IsFiniteSet(Live(sent[id])) /\ Cardinality(Live(sent[id])) \in Nat
    BY LiveFinite DEF MessageInv
  <2> HIDE DEF same
  <2>3. Cardinality(same) <= Cardinality(Live(sent[id])) /\ Cardinality(same) \in Nat
    BY <2>1, <2>2, FS_Subset, FS_CardinalityType
  <2>4. sent[id] \in Nat
    BY DEF MessageInv, MessageType, CountInv
  <2>5. Cardinality(Live(sent[id])) <= Bound /\ Bound <= 1 + reloads /\ Bound \in Nat
        /\ reloads \in Nat
    BY <2>4 DEF MessageInv, MessageType, CountInv, Bound, Composer
  <2>6. Cardinality(same) <= 1 + reloads
    BY <2>2, <2>3, <2>5
  <2> QED BY <2>6 DEF same
<1>2. StoreInv /\ MessageInv => AcceptedOnce
  BY <1>1 DEF AcceptedOnce, MessageInv, FirstTry
<1> QED BY <1>2, ComposerInvariant, PTL

\* _settlePromptMutation empties the composer of a message only when the App has
\* taken it; no other step but an edit or a reload replaces an unsent text.
THEOREM ComposerUnsentKept == ComposerSpec => UnsentKept
<1> DEFINE Kept == /\ composer.text # 0 /\ composer'.text # composer.text
                   /\ composer'.checked
                   /\ pending' = pending
                   => \E id \in accepted : sent[id] = composer.text
<1>1. StoreInv /\ MessageInv /\ [ComposerNext]_draftVars => [Kept]_draftVars
  <2> SUFFICES ASSUME StoreInv, MessageInv, ComposerNext, composer.text # 0,
                      composer'.text # composer.text, composer'.checked, pending' = pending
               PROVE  \E id \in accepted : sent[id] = composer.text
    BY DEF Kept
  <2>1. composer \in Composer /\ Self \in Tab /\ pending[Self] \in Seq(Op)
    BY ComposerAssumption DEF MessageInv, MessageType, StoreInv, StoreType
  <2>2. CASE \E r \in NextRevisions(Self) : Type(r)
    <3>1. PICK r \in NextRevisions(Self), text \in {0, composer.edit + 1} :
               SaveText(Self, Here, text, r)
      BY <2>2 DEF Type
    <3>2. text \in Nat /\ Here \in DraftChat /\ StoreType /\ 0 \in Nat
      BY <2>1, ComposerAssumption DEF Composer, StoreInv
    <3>3. PICK kind \in {"save", "remove", "clear"} : Issue(Self, kind, Here, text, 0, r)
      BY <3>1 DEF SaveText
    <3>4. Len(pending'[Self]) = Len(pending[Self]) + 1
      <4> DEFINE op == [kind |-> kind, chat |-> Here, text |-> text, expected |-> 0, rev |-> r]
      <4>1. pending'[Self] = Append(pending[Self], op) /\ op \in Op
        <5> HIDE DEF NextRevisions
        <5> QED BY <2>1, <3>2, <3>3, IssueIs
      <4> HIDE DEF op
      <4> QED BY <2>1, <4>1
    <3>5. Len(pending[Self]) \in Nat
      BY <2>1
    <3> QED BY <3>4, <3>5
  <2>3. CASE SettlePromptMutation
    <3>1. message.removal = "issued" /\ message # NoMessage
      BY <2>3 DEF SettlePromptMutation, NoMessage
    <3> QED BY <3>1 DEF MessageInv, LockedInv
  <2>4. CASE Reload
    BY <2>4 DEF Reload
  <2>5. CASE ApplyRestored
    BY <2>5 DEF ApplyRestored
  <2>6. CASE \/ \E r \in NextRevisions(Self) : Send(r)
             \/ RestoreDraft
    BY <2>1, <2>6 DEF Send, RestoreDraft, Composer
  <2>7. CASE UNCHANGED composer
    BY <2>7
  <2>8. CASE \E r \in NextRevisions(Self) : RemoveSentRecoveredDraft(r)
    BY <2>7, <2>8 DEF RemoveSentRecoveredDraft
  <2>9. CASE \E w \in Tab \ {Self} : \E r \in NextRevisions(w) : OtherTab(w, r)
    BY <2>7, <2>9 DEF OtherTab, composerVars
  <2>10. CASE Retry \/ AppTakes \/ AppRefuses \/ AnswerLost \/ NotObserved \/ Age
    BY <2>7, <2>10 DEF Retry, AppTakes, AppRefuses, AnswerLost, NotObserved, Age, composerVars
  <2>11. CASE \E w \in Tab : RunTransaction(w) \/ StorageFails(w)
    BY <2>7, <2>11 DEF RunTransaction, StorageFails
  <2> QED BY <2>2, <2>3, <2>4, <2>5, <2>6, <2>8, <2>9, <2>10, <2>11 DEF ComposerNext
<1> HIDE DEF Kept
<1>2. ComposerSpec => [][Kept]_draftVars
  BY <1>1, ComposerInvariant, PTL DEF ComposerSpec
<1> QED BY <1>2 DEF UnsentKept, Kept

-----------------------------------------------------------------------------
(* The queue of this tab *)

LEMMA NoneIsMine ==
    ASSUME StoreType
    PROVE  /\ Self \in Tab /\ Here \in DraftChat /\ Queue \in Seq(Op) /\ Len(Queue) \in Nat
           /\ 0 \notin issued[Self] /\ NoDraft.rev = 0
           /\ store.draft[Here].rev \in Nat /\ issued[Self] \subseteq Nat
BY ComposerAssumption, DraftAssumption DEF StoreType, Store, Draft, Revision, NoDraft, Queue

\* A transaction leaves the draft, deletes it, or stores the one it is about.
LEMMA TransactDraft ==
    ASSUME StoreInv, NEW w \in Tab, Transact(w)
    PROVE  store'.draft[Here] \in {store.draft[Here], NoDraft,
                                   [rev |-> Head(pending[w]).rev, text |-> Head(pending[w]).text]}
<1> DEFINE op == Head(pending[w])
           s == Considered(op)
<1>1. op \in Op /\ op.kind \in {"save", "remove", "clear"}
  BY HeadType DEF Transact, StoreInv, Op
<1>2. s \in Store /\ Above(s) /\ s.draft[Here] \in {store.draft[Here], NoDraft}
  BY PruneKeeps, PrunedShrinks, ComposerAssumption DEF Considered, StoreInv, StoreType, Shrinks
<1>3. (Accepts(s, op) /\ store' = Performed(s, op)) \/ store' = s
  BY DEF Transact
<1> HIDE DEF s, op
<1>4. ASSUME Accepts(s, op)
      PROVE  Performed(s, op).draft[Here]
                \in {s.draft[Here], NoDraft, [rev |-> op.rev, text |-> op.text]}
  <2>1. CASE op.kind = "clear" \/ op.chat # Here
    BY <1>1, <1>2, <1>4, <2>1, PerformedIs, ComposerAssumption
  <2>2. CASE op.kind = "save" /\ op.chat = Here
    BY <1>1, <1>2, <1>4, <2>2, PerformedIs
  <2>3. CASE op.kind = "remove" /\ op.chat = Here
    BY <1>1, <1>2, <1>4, <2>3, PerformedIs
  <2> QED BY <1>1, <2>1, <2>2, <2>3
<1> QED BY <1>2, <1>3, <1>4 DEF op

\* What a transaction of this tab leaves of this tab's drafts.
LEMMA OwnTransaction ==
    ASSUME StoreInv, QueueInv, Transact(Self), Mine'
    PROVE  LET op == Head(Queue)
           IN  IF op.kind = "save"
               THEN /\ Accepts(Considered(op), op)
                    /\ store'.draft[Here] = [rev |-> op.rev, text |-> op.text]
               ELSE Mine /\ op.expected \notin {0, store.draft[Here].rev}
<1> DEFINE op == Head(Queue)
           s == Considered(op)
<1>1. /\ op \in Op /\ op.rev \in Nat /\ Self \in Tab /\ Here \in DraftChat /\ 0 \notin issued[Self]
      /\ NoDraft.rev = 0 /\ op.kind \in {"save", "remove", "clear"}
  BY HeadType, NoneIsMine, DraftAssumption DEF Transact, StoreInv, Op, Queue, Revision
<1>2. op.chat = Here /\ op.kind # "clear" /\ (Mine => store.draft[Here].rev < op.rev)
  <2>1. op = Queue[1] /\ 1 \in 1..Len(Queue)
    BY <1>1, HeadType DEF Transact, StoreInv, Queue
  <2> QED BY <2>1 DEF QueueInv
<1>3. /\ s \in Store /\ Above(s) /\ s.draft[Here] \in {store.draft[Here], NoDraft}
      /\ s.draft[Here].rev # 0 => s.draft[Here].rev > horizon
      /\ horizon \in Nat
  <2>1. s = Pruned(store)
    BY <1>2 DEF Considered
  <2> QED BY <1>1, <2>1, PruneKeeps, PrunedShrinks DEF StoreInv, StoreType, Shrinks
<1>4. IF Accepts(s, op) THEN store' = Performed(s, op) ELSE store' = s
  BY DEF Transact, Queue
<1>5. store'.draft[Here].rev \in issued[Self]
  BY DEF Mine, Transact
<1> HIDE DEF s, op
<1>6. CASE Accepts(s, op)
  <2>1. op.kind = "save"
    <3>1. op.kind = "remove" => Performed(s, op).draft[Here] = NoDraft
      BY <1>1, <1>2, <1>3, <1>6, PerformedIs
    <3>2. store' = Performed(s, op)
      BY <1>4, <1>6
    <3>3. op.kind # "remove"
      BY <1>1, <1>5, <3>1, <3>2
    <3> QED BY <1>1, <1>2, <3>3
  <2>2. store'.draft[Here] = [rev |-> op.rev, text |-> op.text]
    BY <1>1, <1>2, <1>3, <1>4, <1>5, <1>6, <2>1, PerformedIs
  <2> QED BY <1>6, <2>1, <2>2 DEF s, op
<1>7. CASE ~Accepts(s, op)
  <2>1. s.draft[Here] = store.draft[Here] /\ s.draft[Here].rev # 0 /\ Mine
    BY <1>1, <1>3, <1>4, <1>5, <1>7 DEF Mine
  <2> DEFINE newest == Max({s.floor, s.draft[Here].rev, s.tomb[Here]})
  <2>2. s.draft[Here].rev >= s.floor /\ s.tomb[Here] = 0
    BY <1>1, <1>3, <2>1 DEF Above
  <2>3. s.floor \in Revision /\ s.draft[Here].rev \in Revision /\ s.tomb[Here] \in Revision
    BY <1>1, <1>3 DEF Store, Draft
  <2>4. newest \in {s.floor, s.draft[Here].rev, s.tomb[Here]}
    BY <2>3, GreatestOfThree
  <2>5. s.floor \in Nat /\ s.draft[Here].rev \in Nat
    BY <2>3, DraftAssumption DEF Revision
  <2> HIDE DEF newest
  <2>6. s.draft[Here].rev < op.rev
    BY <1>2, <2>1
  <2>7. op.rev > newest
    BY <1>1, <2>2, <2>4, <2>5, <2>6
  <2>8. Newer(s, op)
    BY <1>2, <2>7 DEF Newer, newest
  <2>9. op.rev > horizon
    BY <1>1, <1>3, <2>1, <2>5, <2>6
  <2>10. op.kind # "save" /\ op.expected \notin {0, s.draft[Here].rev}
    BY <1>1, <1>2, <1>7, <2>8, <2>9 DEF Accepts
  <2> QED BY <2>1, <2>10 DEF op
<1> QED BY <1>6, <1>7

\* A step that issues nothing: the queues lose operations at one end.
LEMMA QueueStays ==
    ASSUME StoreType, StoreType', QueueInv, issued' = issued,
           message' # NoMessage => message # NoMessage /\ message'.save = message.save,
           \A w \in Tab : \E k \in Nat : \A i \in 1..Len(pending'[w]) :
                i + k \in 1..Len(pending[w]) /\ pending'[w][i] = pending[w][i + k],
           store'.draft[Here].rev # 0 => \E w \in Tab : store'.draft[Here].rev \in issued[w],
           Mine' => \A i \in 1..Len(Queue') : store'.draft[Here].rev < Queue'[i].rev
    PROVE  QueueInv'
<1>1. Self \in Tab
  BY NoneIsMine
<1>2. PICK k \in Nat : \A i \in 1..Len(Queue') :
          i + k \in 1..Len(Queue) /\ Queue'[i] = Queue[i + k]
  BY <1>1 DEF Queue
<1>3. \A w \in Tab : \A i \in 1..Len(pending'[w]) : pending'[w][i].rev \in issued'[w]
  <2> SUFFICES ASSUME NEW w \in Tab, NEW i \in 1..Len(pending'[w])
               PROVE  pending'[w][i].rev \in issued'[w]
    OBVIOUS
  <2>1. PICK j \in Nat : i + j \in 1..Len(pending[w]) /\ pending'[w][i] = pending[w][i + j]
    OBVIOUS
  <2> QED BY <2>1 DEF QueueInv
<1>4. \A i, j \in 1..Len(Queue') : i < j => Queue'[i].rev < Queue'[j].rev
  <2> SUFFICES ASSUME NEW i \in 1..Len(Queue'), NEW j \in 1..Len(Queue'), i < j
               PROVE  Queue'[i].rev < Queue'[j].rev
    OBVIOUS
  <2>1. i + k < j + k
    OBVIOUS
  <2> QED BY <1>2, <2>1 DEF QueueInv
<1>5. \A i \in 1..Len(Queue') :
         /\ Queue'[i].chat = Here /\ Queue'[i].kind # "clear"
         /\ Queue'[i].kind = "remove" => Queue'[i].text = 0
  BY <1>2 DEF QueueInv
<1>6. \A v, w \in Tab : v # w => issued'[v] \cap issued'[w] = {}
  BY DEF QueueInv
<1>7. message' # NoMessage => message'.save \in issued'[Self]
  BY DEF QueueInv
<1> QED BY <1>3, <1>4, <1>5, <1>6, <1>7 DEF QueueInv

LEMMA QuietQueue ==
    ASSUME StoreType, StoreType', QueueInv, UNCHANGED <<pending, issued>>,
           store'.draft[Here] \in {store.draft[Here], NoDraft},
           message' # NoMessage => message # NoMessage /\ message'.save = message.save
    PROVE  QueueInv'
<1>1. \A w \in Tab : \E k \in Nat : \A i \in 1..Len(pending'[w]) :
                i + k \in 1..Len(pending[w]) /\ pending'[w][i] = pending[w][i + k]
  <2> SUFFICES ASSUME NEW w \in Tab
               PROVE  \A i \in 1..Len(pending'[w]) :
                         i + 0 \in 1..Len(pending[w]) /\ pending'[w][i] = pending[w][i + 0]
    OBVIOUS
  <2>1. pending[w] \in Seq(Op)
    BY DEF StoreType
  <2> QED BY <2>1
<1>2. NoDraft.rev = 0 /\ 0 \notin issued[Self]
  BY NoneIsMine
<1>3. store'.draft[Here].rev # 0 => \E w \in Tab : store'.draft[Here].rev \in issued[w]
  BY <1>2 DEF QueueInv
<1>4. Mine' => \A i \in 1..Len(Queue') : store'.draft[Here].rev < Queue'[i].rev
  BY <1>2 DEF QueueInv, Mine, Queue
<1> QED BY <1>1, <1>3, <1>4, QueueStays

\* A step that issues an operation: it is the newest of its tab, and no draft is its yet.
LEMMA QueueIssued ==
    ASSUME StoreInv, StoreInv', QueueInv, NEW w \in Tab, NEW r \in NextRevisions(w),
           NEW kind \in {"save", "remove", "clear"}, NEW c \in DraftChat,
           NEW text \in Nat, NEW expected \in Nat,
           Issue(w, kind, c, text, expected, r),
           w = Self => c = Here /\ kind # "clear" /\ (kind = "remove" => text = 0),
           store' = store,
           message' # NoMessage => \/ w = Self /\ message'.save = r
                                   \/ message # NoMessage /\ message'.save = message.save
    PROVE  /\ QueueInv' /\ (Mine' <=> Mine)
           /\ w = Self =>
                /\ Queue' = Append(Queue, [kind |-> kind, chat |-> c, text |-> text,
                                           expected |-> expected, rev |-> r])
                /\ LastIs(text, expected)' /\ LastOp'.rev = r /\ LastOp'.kind = kind
                /\ Len(Queue') = Len(Queue) + 1 /\ \A q \in issued[Self] : q < r
           /\ w # Self => Queue' = Queue /\ issued'[Self] = issued[Self]
<1> DEFINE op == [kind |-> kind, chat |-> c, text |-> text, expected |-> expected, rev |-> r]
<1>1. /\ op \in Op /\ r \in Revision \ {0}
      /\ pending'[w] = Append(pending[w], op) /\ issued'[w] = issued[w] \cup {r}
      /\ \A v \in Tab \ {w} : pending'[v] = pending[v] /\ issued'[v] = issued[v]
      /\ \A v \in Tab : r \notin issued[v]
      /\ \A q \in issued[w] : q < r
  <2> HIDE DEF NextRevisions, Issue
  <2> QED BY IssueIs DEF StoreInv
<1>2. /\ op.kind = kind /\ op.chat = c /\ op.text = text /\ op.expected = expected /\ op.rev = r
  OBVIOUS
<1>3. Self \in Tab /\ r \in Nat /\ r # 0 /\ issued[Self] \subseteq Nat /\ 0 \notin issued[Self]
  BY <1>1, NoneIsMine, DraftAssumption DEF Revision, StoreInv
<1> HIDE DEF op
<1>4. \A v \in Tab : pending[v] \in Seq(Op)
  BY DEF StoreInv, StoreType
<1>5. \A v \in Tab : \A i \in 1..Len(pending'[v]) :
         \/ i \in 1..Len(pending[v]) /\ pending'[v][i] = pending[v][i]
         \/ v = w /\ i = Len(pending[v]) + 1 /\ pending'[v][i] = op
  <2> SUFFICES ASSUME NEW v \in Tab, NEW i \in 1..Len(pending'[v])
               PROVE  \/ i \in 1..Len(pending[v]) /\ pending'[v][i] = pending[v][i]
                      \/ v = w /\ i = Len(pending[v]) + 1 /\ pending'[v][i] = op
    OBVIOUS
  <2>1. CASE v = w
    BY <1>1, <1>4, <2>1
  <2>2. CASE v # w
    BY <1>1, <2>2
  <2> QED BY <2>1, <2>2
<1>6. \A v \in Tab : issued[v] \subseteq issued'[v]
  BY <1>1
<1>7. Mine' <=> Mine
  <2>1. store.draft[Here].rev # r
    BY <1>1, <1>3 DEF QueueInv
  <2>2. issued'[Self] = issued[Self] \/ issued'[Self] = issued[Self] \cup {r}
    BY <1>1, <1>3
  <2> QED BY <2>1, <2>2 DEF Mine
<1>8. \A u, v \in Tab : u # v => issued'[u] \cap issued'[v] = {}
  <2> SUFFICES ASSUME NEW u \in Tab, NEW v \in Tab, u # v, NEW q \in issued'[u], q \in issued'[v]
               PROVE  FALSE
    OBVIOUS
  <2>1. q \in issued[u] \/ (u = w /\ q = r)
    BY <1>1
  <2>2. q \in issued[v] \/ (v = w /\ q = r)
    BY <1>1
  <2> QED BY <1>1, <2>1, <2>2 DEF QueueInv
<1>9. \A v \in Tab : \A i \in 1..Len(pending'[v]) : pending'[v][i].rev \in issued'[v]
  BY <1>1, <1>2, <1>5, <1>6 DEF QueueInv
<1>10. \A i \in 1..Len(Queue') :
         \/ i \in 1..Len(Queue) /\ Queue'[i] = Queue[i]
         \/ w = Self /\ i = Len(Queue) + 1 /\ Queue'[i] = op
  BY <1>3, <1>5 DEF Queue
<1>11. \A i \in 1..Len(Queue) : Queue[i].rev \in issued[Self]
  BY <1>3 DEF Queue, QueueInv
<1>12. \A i, j \in 1..Len(Queue') : i < j => Queue'[i].rev < Queue'[j].rev
  <2> SUFFICES ASSUME NEW i \in 1..Len(Queue'), NEW j \in 1..Len(Queue'), i < j
               PROVE  Queue'[i].rev < Queue'[j].rev
    OBVIOUS
  <2>0. Len(Queue) \in Nat /\ i \in Nat /\ j \in Nat
    BY <1>3, <1>4 DEF Queue
  <2>1. i \in 1..Len(Queue) /\ Queue'[i] = Queue[i]
    <3>1. j \in 1..Len(Queue) \/ j = Len(Queue) + 1
      BY <1>10
    <3>2. i # Len(Queue) + 1
      BY <2>0, <3>1
    <3> QED BY <1>10, <3>2
  <2>2. CASE j \in 1..Len(Queue) /\ Queue'[j] = Queue[j]
    BY <2>1, <2>2 DEF QueueInv
  <2>3. CASE w = Self /\ Queue'[j] = op
    BY <1>1, <1>2, <1>11, <2>1, <2>3
  <2> QED BY <1>10, <2>2, <2>3
<1>13. \A i \in 1..Len(Queue') :
         /\ Queue'[i].chat = Here /\ Queue'[i].kind # "clear"
         /\ Queue'[i].kind = "remove" => Queue'[i].text = 0
         /\ Mine' => store'.draft[Here].rev < Queue'[i].rev
  <2> SUFFICES ASSUME NEW i \in 1..Len(Queue')
               PROVE  /\ Queue'[i].chat = Here /\ Queue'[i].kind # "clear"
                      /\ Queue'[i].kind = "remove" => Queue'[i].text = 0
                      /\ Mine' => store'.draft[Here].rev < Queue'[i].rev
    OBVIOUS
  <2>1. CASE i \in 1..Len(Queue) /\ Queue'[i] = Queue[i]
    BY <1>7, <2>1 DEF QueueInv
  <2>2. CASE w = Self /\ Queue'[i] = op
    <3>1. Mine => store.draft[Here].rev < r
      BY <1>1, <2>2 DEF Mine
    <3> QED BY <1>2, <1>7, <2>2, <3>1
  <2> QED BY <1>10, <2>1, <2>2
<1>14. store'.draft[Here].rev # 0 => \E v \in Tab : store'.draft[Here].rev \in issued'[v]
  BY <1>6 DEF QueueInv
<1>15. message' # NoMessage => message'.save \in issued'[Self]
  BY <1>1, <1>3, <1>6 DEF QueueInv
<1>16. QueueInv'
  BY <1>8, <1>9, <1>12, <1>13, <1>14, <1>15 DEF QueueInv
<1>17. ASSUME w = Self
       PROVE  /\ Queue' = Append(Queue, op)
              /\ LastIs(text, expected)' /\ LastOp'.rev = r /\ LastOp'.kind = kind
              /\ Len(Queue') = Len(Queue) + 1 /\ \A q \in issued[Self] : q < r
  <2>1. Queue' = Append(Queue, op) /\ Queue \in Seq(Op)
    BY <1>1, <1>4, <1>17 DEF Queue
  <2>2. Len(Queue') = Len(Queue) + 1 /\ Queue'[Len(Queue')] = op
    BY <1>1, <2>1
  <2>3. \A q \in issued'[Self] : q <= r
    BY <1>1, <1>3, <1>17
  <2> QED BY <1>1, <1>2, <1>17, <2>1, <2>2, <2>3 DEF LastIs, LastOp
<1>18. w # Self => Queue' = Queue /\ issued'[Self] = issued[Self]
  BY <1>1, <1>3 DEF Queue
<1> QED BY <1>7, <1>16, <1>17, <1>18 DEF op

\* An operation of the queue has run, or failed.
LEMMA QueueRuns ==
    ASSUME StoreInv, StoreInv', QueueInv, NEW w \in Tab, pending[w] # <<>>,
           pending' = [pending EXCEPT ![w] = Tail(@)], issued' = issued,
           message' # NoMessage => message # NoMessage /\ message'.save = message.save,
           store'.draft[Here] \in {store.draft[Here], NoDraft,
                                   [rev |-> Head(pending[w]).rev, text |-> Head(pending[w]).text]}
    PROVE  /\ QueueInv'
           /\ w # Self => Queue' = Queue /\ (Mine' => Mine /\ store'.draft[Here] = store.draft[Here])
           /\ w = Self => Queue' = Tail(Queue)
<1> DEFINE op == Head(pending[w])
<1>1. /\ op = pending[w][1] /\ Len(pending[w]) \in Nat \ {0}
      /\ Len(Tail(pending[w])) = Len(pending[w]) - 1
      /\ \A i \in 1..Len(Tail(pending[w])) : Tail(pending[w])[i] = pending[w][i + 1]
  BY HeadType DEF StoreInv
<1>2. /\ pending'[w] = Tail(pending[w]) /\ \A v \in Tab \ {w} : pending'[v] = pending[v]
      /\ \A i \in 1..Len(pending'[w]) :
            i + 1 \in 1..Len(pending[w]) /\ pending'[w][i] = pending[w][i + 1] /\ i + 1 > 1
  <2>1. /\ pending'[w] = Tail(pending[w]) /\ \A v \in Tab \ {w} : pending'[v] = pending[v]
    BY DEF StoreInv, StoreType
  <2>2. Len(pending'[w]) = Len(pending[w]) - 1
    BY <1>1, <2>1
  <2>3. ASSUME NEW i \in 1..Len(pending'[w])
        PROVE  i + 1 \in 1..Len(pending[w]) /\ pending'[w][i] = pending[w][i + 1] /\ i + 1 > 1
    <3>1. i \in Nat /\ i >= 1 /\ i <= Len(pending[w]) - 1
      BY <1>1, <2>2
    <3>2. i + 1 \in 1..Len(pending[w]) /\ i + 1 > 1
      BY <1>1, <3>1
    <3> QED BY <1>1, <2>1, <3>2
  <2> QED BY <2>1, <2>3
<1>3. Self \in Tab /\ NoDraft.rev = 0 /\ 0 \notin issued[Self]
  BY NoneIsMine DEF StoreInv
<1>4. op.rev \in issued[w]
  BY <1>1 DEF QueueInv
<1>5. store'.draft[Here] \in {store.draft[Here], NoDraft, [rev |-> op.rev, text |-> op.text]}
  OBVIOUS
<1> HIDE DEF op
<1>6. \A v \in Tab : \E k \in Nat : \A i \in 1..Len(pending'[v]) :
            i + k \in 1..Len(pending[v]) /\ pending'[v][i] = pending[v][i + k]
  <2> SUFFICES ASSUME NEW v \in Tab
               PROVE  \E k \in Nat : \A i \in 1..Len(pending'[v]) :
                         i + k \in 1..Len(pending[v]) /\ pending'[v][i] = pending[v][i + k]
    OBVIOUS
  <2>1. CASE v = w
    <3>1. \A i \in 1..Len(pending'[v]) :
             i + 1 \in 1..Len(pending[v]) /\ pending'[v][i] = pending[v][i + 1]
      BY <1>2, <2>1
    <3> QED BY <3>1
  <2>2. CASE v # w
    <3>1. pending[v] \in Seq(Op) /\ pending'[v] = pending[v]
      BY <1>2, <2>2 DEF StoreInv, StoreType
    <3>2. \A i \in 1..Len(pending'[v]) :
             i + 0 \in 1..Len(pending[v]) /\ pending'[v][i] = pending[v][i + 0]
      <4>1. \A i \in 1..Len(pending[v]) : i + 0 = i
        OBVIOUS
      <4> QED BY <3>1, <4>1
    <3>3. 0 \in Nat
      OBVIOUS
    <3> QED BY <3>2, <3>3
  <2> QED BY <2>1, <2>2
<1>7. store'.draft[Here].rev # 0 => \E v \in Tab : store'.draft[Here].rev \in issued[v]
  BY <1>3, <1>4, <1>5 DEF QueueInv
<1>8. w # Self => (Mine' => Mine /\ store'.draft[Here] = store.draft[Here])
  <2> SUFFICES ASSUME w # Self, Mine' PROVE Mine /\ store'.draft[Here] = store.draft[Here]
    OBVIOUS
  <2>1. store'.draft[Here].rev \in issued[Self]
    BY DEF Mine
  <2>2. store'.draft[Here].rev # op.rev
    BY <1>3, <1>4, <2>1 DEF QueueInv
  <2> QED BY <1>3, <1>5, <2>1, <2>2 DEF Mine
<1>9. Mine' => \A i \in 1..Len(Queue') : store'.draft[Here].rev < Queue'[i].rev
  <2> SUFFICES ASSUME Mine', NEW i \in 1..Len(Queue')
               PROVE  store'.draft[Here].rev < Queue'[i].rev
    OBVIOUS
  <2>1. CASE w # Self
    <3>1. Queue' = Queue
      BY <1>2, <1>3, <2>1 DEF Queue
    <3> QED BY <1>8, <2>1, <3>1 DEF QueueInv
  <2>2. CASE w = Self
    <3>1. /\ i + 1 \in 1..Len(Queue) /\ Queue'[i] = Queue[i + 1]
          /\ 1 \in 1..Len(Queue) /\ 1 < i + 1 /\ i + 1 \in Nat
      <4>1. i + 1 \in 1..Len(Queue) /\ Queue'[i] = Queue[i + 1] /\ i + 1 > 1
        BY <1>2, <2>2 DEF Queue
      <4>2. Len(Queue) \in Nat \ {0}
        BY <1>1, <2>2 DEF Queue
      <4> QED BY <4>1, <4>2
    <3>2. op.rev < Queue[i + 1].rev
      BY <1>1, <2>2, <3>1 DEF QueueInv, Queue
    <3>3. CASE store'.draft[Here] = store.draft[Here]
      <4>1. Mine
        BY <3>3 DEF Mine
      <4> QED BY <3>1, <3>3, <4>1 DEF QueueInv
    <3>4. CASE store'.draft[Here] = NoDraft
      BY <1>3, <3>4 DEF Mine
    <3>5. CASE store'.draft[Here] = [rev |-> op.rev, text |-> op.text]
      BY <3>1, <3>2, <3>5
    <3> QED BY <1>5, <3>3, <3>4, <3>5
  <2> QED BY <2>1, <2>2
<1>10. QueueInv'
  BY <1>6, <1>7, <1>9, QueueStays DEF StoreInv
<1>11. (w # Self => Queue' = Queue) /\ (w = Self => Queue' = Tail(Queue))
  BY <1>2, <1>3 DEF Queue
<1> QED BY <1>8, <1>10, <1>11

LEMMA ReloadQueue ==
    ASSUME StoreInv, StoreInv', QueueInv, Reload
    PROVE  QueueInv'
<1>1. Self \in Tab /\ store' = store /\ issued' = issued /\ message' = NoMessage
  BY NoneIsMine DEF Reload, StoreInv
<1>2. /\ \A w \in Tab \ {Self} : pending'[w] = pending[w]
      /\ \A w \in Tab : Len(pending[w]) \in Nat /\ Len(pending'[w]) \in Nat
                        /\ Len(pending'[w]) <= Len(pending[w])
      /\ \A i \in 1..Len(Queue') : Queue'[i] = Queue[i]
  <2>1. /\ pending' \in [Tab -> Seq(Op)] /\ pending \in [Tab -> Seq(Op)]
        /\ \A w \in Tab \ {Self} : pending'[w] = pending[w]
        /\ Len(pending'[Self]) <= Len(pending[Self])
        /\ \A i \in 1..Len(pending'[Self]) : pending'[Self][i] = pending[Self][i]
    BY ReloadIs DEF StoreInv, StoreType
  <2>2. \A w \in Tab : Len(pending[w]) \in Nat /\ Len(pending'[w]) \in Nat
    BY <2>1
  <2>3. ASSUME NEW w \in Tab PROVE Len(pending'[w]) <= Len(pending[w])
    <3>1. CASE w = Self
      BY <2>1, <3>1
    <3>2. CASE w # Self
      <4>1. pending'[w] = pending[w]
        BY <2>1, <3>2
      <4> QED BY <2>2, <4>1
    <3> QED BY <3>1, <3>2
  <2> QED BY <1>1, <2>1, <2>2, <2>3 DEF Queue
<1>3. \A w \in Tab : \A i \in 1..Len(pending'[w]) :
         i + 0 \in 1..Len(pending[w]) /\ pending'[w][i] = pending[w][i + 0]
  BY <1>1, <1>2 DEF Queue
<1>4. \A w \in Tab : \E k \in Nat : \A i \in 1..Len(pending'[w]) :
         i + k \in 1..Len(pending[w]) /\ pending'[w][i] = pending[w][i + k]
  BY <1>3
<1>5. Mine' => \A i \in 1..Len(Queue') : store'.draft[Here].rev < Queue'[i].rev
  <2>1. \A i \in 1..Len(Queue') : i \in 1..Len(Queue)
    BY <1>1, <1>2 DEF Queue
  <2> QED BY <1>1, <1>2, <2>1 DEF Mine, QueueInv
<1>6. store'.draft[Here].rev # 0 => \E w \in Tab : store'.draft[Here].rev \in issued[w]
  BY <1>1 DEF QueueInv
<1> QED BY <1>1, <1>4, <1>5, <1>6, QueueStays DEF StoreInv

-----------------------------------------------------------------------------
(* The store follows the composer *)

\* What the lemmas about the steps have in common.
FollowAll == StoreInv /\ MessageInv /\ QueueInv /\ FollowInv

LEMMA FollowFacts ==
    ASSUME StoreInv, MessageInv
    PROVE  /\ StoreType /\ MessageType /\ CountInv /\ LockedInv
           /\ composer \in Composer /\ message \in Message
           /\ composer.text \in Nat /\ composer.edit \in Nat /\ composer.edit > 0
           /\ restored.edit \in Nat /\ restored.edit <= composer.edit
           /\ mishaps \in Nat /\ reloads \in Nat /\ reloads <= mishaps
           /\ message.save \in Nat
           /\ restored.edit = composer.edit => message = NoMessage
BY DEF StoreInv, MessageInv, MessageType, CountInv, Composer, Message

\* A step that leaves the composer and the queue alone.
LEMMA QuietFollow ==
    ASSUME FollowAll, UNCHANGED <<composer, restored, reloads, mishaps>>, Queue' = Queue,
           issued'[Self] = issued[Self],
           Mine' => Mine /\ store'.draft[Here] = store.draft[Here],
           \/ message' = message
           \/ /\ message # NoMessage /\ message' # NoMessage /\ message'.save = message.save
              /\ message'.saved = message.saved /\ message'.removal = message.removal
    PROVE  FollowInv'
<1>1. /\ message' # NoMessage <=> message # NoMessage
      /\ message'.save = message.save /\ message'.saved = message.saved
      /\ message'.removal = message.removal
  OBVIOUS
<1>2. /\ LastOp' = LastOp
      /\ \A text, expected : LastIs(text, expected)' = LastIs(text, expected)
      /\ Waiting(message.save)' = Waiting(message.save)
  <2>1. LastOp' = LastOp
    BY DEF LastOp
  <2>2. \A text, expected : LastIs(text, expected)' = LastIs(text, expected)
    BY <2>1 DEF LastIs
  <2>3. Waiting(message.save)' = Waiting(message.save)
    BY <1>1 DEF Waiting, Queue
  <2> QED BY <2>1, <2>2, <2>3
<1> SUFFICES ASSUME mishaps = reloads
             PROVE  FollowInv!2'
  BY DEF FollowInv
<1>3. FollowInv!2
  BY DEF FollowAll, FollowInv
<1> QED BY <1>1, <1>2, <1>3

LEMMA TypeFollows ==
    ASSUME FollowAll, StoreInv', NEW r \in NextRevisions(Self), Type(r)
    PROVE  QueueInv' /\ FollowInv'
<1>1. /\ StoreType /\ composer \in Composer /\ composer.edit \in Nat /\ restored.edit \in Nat
      /\ restored.edit <= composer.edit /\ Self \in Tab /\ Here \in DraftChat /\ 0 \in Nat
  BY FollowFacts, ComposerAssumption DEF FollowAll
<1>2. PICK text \in {0, composer.edit + 1} :
           composer' = [composer EXCEPT !.text = text, !.edit = @ + 1]
           /\ SaveText(Self, Here, text, r)
  BY DEF Type
<1>3. composer'.text = text /\ composer'.edit = composer.edit + 1 /\ text \in Nat
  BY <1>1, <1>2 DEF Composer
<1>4. PICK kind \in {"save", "remove"} :
           Issue(Self, kind, Here, text, 0, r) /\ (kind = "remove" => text = 0)
  BY <1>2 DEF SaveText
<1>5. message' = NoMessage /\ store' = store /\ restored' = restored
  BY DEF Type
<1>6. QueueInv' /\ LastIs(text, 0)' /\ Len(Queue') = Len(Queue) + 1
  <2>1. kind \in {"save", "remove", "clear"} /\ kind # "clear"
    BY <1>4
  <2> HIDE DEF NextRevisions, Issue
  <2> QED BY <1>1, <1>3, <1>4, <1>5, <2>1, QueueIssued DEF FollowAll
<1>7. Queue' # <<>>
  BY <1>1, <1>6, NoneIsMine
<1>8. restored'.edit # composer'.edit
  BY <1>1, <1>3, <1>5
<1> QED BY <1>3, <1>5, <1>6, <1>7, <1>8 DEF FollowInv

LEMMA SendFollows ==
    ASSUME FollowAll, StoreInv', NEW r \in NextRevisions(Self), Send(r)
    PROVE  QueueInv' /\ FollowInv'
<1>1. /\ StoreType /\ composer \in Composer /\ composer.edit \in Nat /\ restored.edit \in Nat
      /\ restored.edit <= composer.edit /\ Self \in Tab /\ Here \in DraftChat /\ 0 \in Nat
      /\ composer.text \in Nat
  BY FollowFacts, ComposerAssumption DEF FollowAll
<1>2. /\ composer' = [composer EXCEPT !.edit = @ + 1] /\ composer.text # 0
      /\ SaveText(Self, Here, composer.text, r) /\ store' = store /\ restored' = restored
      /\ message'.save = r /\ message'.removal = "no" /\ message'.id = Len(sent')
      /\ sent' = Append(sent, composer.text)
  BY DEF Send
<1>3. composer'.text = composer.text /\ composer'.edit = composer.edit + 1
  BY <1>1, <1>2 DEF Composer
<1>4. message' # NoMessage
  <2>1. sent \in Seq(Nat)
    BY DEF FollowAll, MessageInv, MessageType
  <2>2. message'.id # 0
    BY <1>1, <1>2, <2>1
  <2> QED BY <2>2 DEF NoMessage
<1>5. Issue(Self, "save", Here, composer.text, 0, r)
  BY <1>2 DEF SaveText
<1>6. /\ QueueInv' /\ LastIs(composer.text, 0)' /\ LastOp'.rev = r
      /\ Len(Queue') = Len(Queue) + 1
  <2>1. PICK kind \in {"save", "remove", "clear"}, text \in Nat :
             kind = "save" /\ text = composer.text
    BY <1>1
  <2>2. Issue(Self, kind, Here, text, 0, r) /\ kind # "clear" /\ kind # "remove"
    BY <1>5, <2>1
  <2>3. /\ QueueInv' /\ LastIs(text, 0)' /\ LastOp'.rev = r /\ Len(Queue') = Len(Queue) + 1
    <3> HIDE DEF NextRevisions, Issue
    <3> QED BY <1>1, <1>2, <2>1, <2>2, QueueIssued DEF FollowAll
  <2> QED BY <1>3, <2>1, <2>3 DEF LastIs
<1>7. Len(Queue') \in DOMAIN Queue'
  <2>1. Queue \in Seq(Op) /\ Queue' \in Seq(Op)
    BY <1>1, NoneIsMine DEF StoreInv, StoreType, Queue
  <2> QED BY <1>6, <2>1
<1>8. Waiting(message.save)'
  BY <1>2, <1>6, <1>7 DEF Waiting, LastOp, Queue
<1>9. restored'.edit # composer'.edit
  BY <1>1, <1>2, <1>3
<1>10. LastIs(composer.text, 0)' <=> /\ LastOp'.text = composer'.text /\ LastOp'.expected = 0
                                     /\ \A q \in issued'[Self] : q <= LastOp'.rev
  BY <1>3 DEF LastIs
<1> QED BY <1>2, <1>4, <1>6, <1>8, <1>9, <1>10 DEF FollowInv, LastIs

LEMMA RemoveFollows ==
    ASSUME FollowAll, StoreInv', NEW r \in NextRevisions(Self), RemoveSentRecoveredDraft(r)
    PROVE  QueueInv' /\ FollowInv'
<1>1. /\ StoreType /\ message \in Message /\ message.save \in Nat /\ Self \in Tab
      /\ Here \in DraftChat /\ 0 \in Nat /\ MessageType /\ CountInv /\ LockedInv
      /\ restored.edit = composer.edit => message = NoMessage
  BY FollowFacts, ComposerAssumption DEF FollowAll
<1>2. /\ message.id \in accepted /\ message.removal = "no" /\ ~Waiting(message.save)
      /\ message' = [message EXCEPT !.removal = "issued"]
      /\ UNCHANGED <<store, composer, restored, mishaps, reloads>>
      /\ IF message.saved THEN Issue(Self, "remove", Here, 0, message.save, r)
         ELSE UNCHANGED <<pending, issued>>
  BY DEF RemoveSentRecoveredDraft
<1>3. message # NoMessage
  <2>1. message.id # 0
    BY <1>1, <1>2 DEF CountInv, MessageType
  <2> QED BY <2>1 DEF NoMessage
<1>4. message'.save = message.save /\ message'.removal = "issued" /\ message' # NoMessage
  BY <1>1, <1>2 DEF Message, NoMessage
<1>5. mishaps = reloads => /\ Queue = <<>>
                           /\ Mine => message.saved /\ store.draft[Here].rev = message.save
  BY <1>2, <1>3 DEF FollowAll, FollowInv
<1>6. restored'.edit # composer'.edit
  BY <1>1, <1>2, <1>3
<1>7. CASE ~message.saved
  <2>1. QueueInv'
    BY <1>1, <1>2, <1>3, <1>4, <1>7, QuietQueue DEF FollowAll, StoreInv
  <2>2. Queue' = Queue /\ (Mine' <=> Mine)
    BY <1>2, <1>7 DEF Queue, Mine
  <2> QED BY <1>2, <1>4, <1>5, <1>6, <1>7, <2>1, <2>2 DEF FollowInv
<1>8. CASE message.saved
  <2>1. Issue(Self, "remove", Here, 0, message.save, r)
    BY <1>2, <1>8
  <2>2. /\ QueueInv' /\ (Mine' <=> Mine) /\ LastIs(0, message.save)' /\ LastOp'.rev = r
        /\ LastOp'.kind = "remove" /\ Len(Queue') = Len(Queue) + 1
        /\ \A q \in issued[Self] : q < r
    <3> HIDE DEF NextRevisions, Issue
    <3> QED BY <1>1, <1>2, <1>3, <1>4, <2>1, QueueIssued DEF FollowAll
  <2>3. message.save < r
    BY <1>3, <2>2 DEF FollowAll, QueueInv
  <2>4. LastOp'.rev > message'.save
    <3>1. r \in Nat
      BY DraftAssumption DEF NextRevisions
    <3> QED BY <1>1, <1>4, <2>2, <2>3, <3>1
  <2>5. mishaps = reloads => Len(Queue') = 1 /\ Queue' # <<>>
    <3>1. mishaps = reloads => Len(Queue) = 0
      BY <1>5
    <3> QED BY <2>2, <3>1
  <2>6. LastIs(0, message.save)' <=> /\ LastOp'.text = 0 /\ LastOp'.expected = message'.save
                                     /\ \A q \in issued'[Self] : q <= LastOp'.rev
    BY <1>4 DEF LastIs
  <2> QED BY <1>2, <1>4, <1>5, <1>6, <2>2, <2>4, <2>5, <2>6 DEF FollowInv, LastIs
<1> QED BY <1>7, <1>8

LEMMA RefusesFollows ==
    ASSUME FollowAll, StoreInv', AppRefuses
    PROVE  QueueInv' /\ FollowInv'
<1>1. /\ StoreType /\ MessageType /\ CountInv /\ LockedInv /\ message \in Message
      /\ restored.edit = composer.edit => message = NoMessage
  BY FollowFacts DEF FollowAll
<1>2. /\ message' = NoMessage /\ message # NoMessage /\ CallOf(message) \in outgoing
      /\ UNCHANGED <<store, pending, issued, composer, restored, mishaps, reloads>>
  BY DEF AppRefuses, storeVars, NoMessage
<1>3. mishaps = reloads => message.removal = "no"
  <2>1. CallOf(message).id = message.id
    BY DEF CallOf
  <2>2. mishaps = reloads => message.id \notin accepted
    BY <1>2, <2>1 DEF FollowAll, MessageInv, FirstTry
  <2> QED BY <1>1, <1>2, <2>2 DEF LockedInv, Message
<1>4. QueueInv'
  BY <1>1, <1>2, QuietQueue DEF FollowAll, StoreInv
<1>5. /\ Queue' = Queue /\ (Mine' <=> Mine) /\ composer' = composer /\ restored' = restored
      /\ LastIs(composer.text, 0)' <=> LastIs(composer.text, 0)
  BY <1>2 DEF Queue, Mine, LastIs, LastOp
<1>6. Waiting(message.save) => Queue # <<>>
  BY <1>1, NoneIsMine DEF Waiting, Queue
<1>7. mishaps = reloads =>
         IF Queue = <<>> THEN Mine => store.draft[Here].text = composer.text
                         ELSE LastIs(composer.text, 0)
  BY <1>2, <1>3, <1>6 DEF FollowAll, FollowInv
<1>8. restored'.edit # composer'.edit
  BY <1>1, <1>2
<1> QED BY <1>2, <1>4, <1>5, <1>7, <1>8 DEF FollowInv

LEMMA SettlesFollows ==
    ASSUME FollowAll, StoreInv', SettlePromptMutation
    PROVE  QueueInv' /\ FollowInv'
<1>1. /\ StoreType /\ LockedInv /\ composer \in Composer /\ composer.edit \in Nat
      /\ restored.edit \in Nat /\ restored.edit <= composer.edit
      /\ Queue \in Seq(Op) /\ Len(Queue) \in Nat
  BY FollowFacts, NoneIsMine DEF FollowAll
<1>2. /\ message' = NoMessage /\ message # NoMessage /\ message.removal = "issued"
      /\ \A i \in DOMAIN Queue : Queue[i].kind # "remove"
      /\ UNCHANGED <<store, pending, issued, restored, mishaps, reloads>>
  BY DEF SettlePromptMutation, storeVars, NoMessage, Queue
<1>3. composer' = [composer EXCEPT !.text = 0, !.edit = @ + 1]
  BY <1>1, <1>2 DEF SettlePromptMutation, LockedInv
<1>4. composer'.edit = composer.edit + 1
  BY <1>1, <1>3 DEF Composer
<1>5. QueueInv'
  BY <1>1, <1>2, QuietQueue DEF FollowAll, StoreInv
<1>6. Queue' = Queue /\ (Mine' <=> Mine)
  BY <1>2 DEF Queue, Mine
<1>7. mishaps = reloads => Queue = <<>> /\ ~Mine
  <2>1. Queue # <<>> => Len(Queue) \in DOMAIN Queue
    BY <1>1
  <2> QED BY <1>2, <2>1 DEF FollowAll, FollowInv, LastOp
<1>8. restored'.edit # composer'.edit
  BY <1>1, <1>2, <1>4
<1> QED BY <1>2, <1>5, <1>6, <1>7, <1>8 DEF FollowInv

LEMMA ReloadFollows ==
    ASSUME FollowAll, StoreInv', Reload
    PROVE  QueueInv' /\ FollowInv'
<1>1. QueueInv'
  BY ReloadQueue DEF FollowAll
<1>2. composer.edit \in Nat
  BY FollowFacts DEF FollowAll
<1>3. /\ message' = NoMessage /\ ~composer'.checked /\ restored'.edit = 0
      /\ composer'.edit = composer.edit + 1
  BY DEF Reload, NothingRestored
<1>4. restored'.edit # composer'.edit
  BY <1>2, <1>3
<1> QED BY <1>1, <1>3, <1>4 DEF FollowInv

LEMMA RestoreFollows ==
    ASSUME FollowAll, StoreInv', RestoreDraft
    PROVE  QueueInv' /\ FollowInv'
<1>1. StoreType /\ composer \in Composer /\ Here \in DraftChat
  BY FollowFacts, NoneIsMine DEF FollowAll
<1>2. /\ composer.text = 0 /\ message' = message /\ message = NoMessage /\ Queue = <<>>
      /\ composer' = [composer EXCEPT !.checked = TRUE] /\ store' = Pruned(store)
      /\ restored'.edit = composer.edit /\ restored'.text = store'.draft[Here].text
      /\ UNCHANGED <<pending, issued, mishaps, reloads>>
  BY DEF RestoreDraft, Queue
<1>3. composer'.edit = composer.edit /\ composer'.text = 0
  BY <1>1, <1>2 DEF Composer
<1>4. store'.draft[Here] \in {store.draft[Here], NoDraft}
  BY <1>1, <1>2, PrunedShrinks DEF StoreType, Shrinks
<1>5. QueueInv'
  BY <1>1, <1>2, <1>4, QuietQueue DEF FollowAll, StoreInv
<1>6. Queue' = <<>>
  BY <1>2 DEF Queue
<1> QED BY <1>2, <1>3, <1>5, <1>6 DEF FollowInv

LEMMA ApplyFollows ==
    ASSUME FollowAll, StoreInv', ApplyRestored
    PROVE  QueueInv' /\ FollowInv'
<1>1. /\ StoreType /\ composer \in Composer /\ composer.edit \in Nat /\ composer.edit > 0
      /\ restored.edit = composer.edit => message = NoMessage
  BY FollowFacts DEF FollowAll
<1>2. /\ restored'.edit = 0 /\ message' = message
      /\ UNCHANGED <<store, pending, issued, mishaps, reloads>>
      /\ composer' = IF /\ restored.edit = composer.edit /\ composer.text = 0
                        /\ message = NoMessage
                     THEN [composer EXCEPT !.text = restored.text] ELSE composer
  BY DEF ApplyRestored, storeVars, NothingRestored
<1>3. QueueInv'
  BY <1>1, <1>2, QuietQueue DEF FollowAll, StoreInv
<1>4. Queue' = Queue /\ (Mine' <=> Mine)
  BY <1>2 DEF Queue, Mine
<1>5. CASE restored.edit = composer.edit
  <2>1. mishaps = reloads =>
          Queue = <<>> /\ composer.text = 0 /\ (Mine => store.draft[Here].text = restored.text)
    BY <1>5 DEF FollowAll, FollowInv
  <2>2. mishaps = reloads => composer' = [composer EXCEPT !.text = restored.text]
    BY <1>1, <1>2, <1>5, <2>1
  <2>3. mishaps = reloads => composer'.text = restored.text /\ composer'.edit = composer.edit
    BY <1>1, <2>2 DEF Composer
  <2>4. mishaps = reloads => restored'.edit # composer'.edit
    BY <1>1, <1>2, <2>3
  <2> QED BY <1>1, <1>2, <1>3, <1>4, <1>5, <2>1, <2>3, <2>4 DEF FollowInv
<1>6. CASE restored.edit # composer.edit
  <2>1. composer' = composer /\ restored'.edit # composer'.edit
    BY <1>1, <1>2, <1>6
  <2>2. \A text, expected : LastIs(text, expected)' = LastIs(text, expected)
    BY <1>2, <1>4 DEF LastIs, LastOp
  <2>3. LastOp' = LastOp /\ Waiting(message.save)' = Waiting(message.save)
    BY <1>2, <1>4 DEF LastOp, Waiting
  <2> QED BY <1>2, <1>3, <1>4, <1>6, <2>1, <2>2, <2>3 DEF FollowAll, FollowInv
<1> QED BY <1>5, <1>6

\* A transaction of this tab: the last one decides what the store has of it.
LEMMA RunFollows ==
    ASSUME FollowAll, StoreInv', RunTransaction(Self)
    PROVE  QueueInv' /\ FollowInv'
<1> DEFINE op == Head(Queue)
           accepts == Accepts(Considered(op), op)
<1>1. /\ StoreType /\ message \in Message /\ message.save \in Nat /\ LockedInv /\ CountInv
      /\ MessageType /\ restored.edit = composer.edit => message = NoMessage
      /\ Self \in Tab /\ Queue \in Seq(Op)
  BY FollowFacts, NoneIsMine DEF FollowAll
<1>2. /\ Transact(Self) /\ Queue # <<>> /\ pending' = [pending EXCEPT ![Self] = Tail(@)]
      /\ issued' = issued /\ UNCHANGED <<composer, restored, mishaps, reloads>>
      /\ message' = IF message.save = op.rev THEN [message EXCEPT !.saved = accepts] ELSE message
  BY DEF RunTransaction, Transact, Queue
<1>3. /\ op \in Op /\ op = Queue[1] /\ Len(Queue) \in Nat \ {0} /\ op.rev # 0 /\ op.rev \in Nat
      /\ Len(Tail(Queue)) = Len(Queue) - 1
      /\ \A i \in 1..Len(Tail(Queue)) : Tail(Queue)[i] = Queue[i + 1]
  <2>1. /\ op \in Op /\ op = Queue[1] /\ Len(Queue) \in Nat \ {0}
        /\ Len(Tail(Queue)) = Len(Queue) - 1
        /\ \A i \in 1..Len(Tail(Queue)) : Tail(Queue)[i] = Queue[i + 1]
    BY <1>1, <1>2, HeadType DEF Queue
  <2> QED BY <2>1, DraftAssumption DEF Op, Revision
<1>4. Mine' => IF op.kind = "save"
               THEN /\ accepts
                    /\ store'.draft[Here] = [rev |-> op.rev, text |-> op.text]
               ELSE Mine /\ op.expected \notin {0, store.draft[Here].rev}
  BY <1>2, OwnTransaction DEF FollowAll
<1> HIDE DEF accepts
<1>5. /\ message'.save = message.save /\ message'.removal = message.removal
      /\ message' # NoMessage <=> message # NoMessage
      /\ message.save = op.rev => message'.saved = accepts
      /\ message.save # op.rev => message' = message
  <2>1. CASE message.save = op.rev
    <3>1. message' = [message EXCEPT !.saved = accepts] /\ message.save # 0
      BY <1>2, <1>3, <2>1
    <3> QED BY <1>1, <2>1, <3>1 DEF Message, NoMessage
  <2>2. CASE message.save # op.rev
    BY <1>2, <2>2
  <2> QED BY <2>1, <2>2
<1>6. store'.draft[Here] \in {store.draft[Here], NoDraft,
                              [rev |-> Head(pending[Self]).rev, text |-> Head(pending[Self]).text]}
  BY <1>1, <1>2, TransactDraft DEF FollowAll
<1>7. QueueInv' /\ Queue' = Tail(Queue)
  BY <1>1, <1>2, <1>5, <1>6, QueueRuns DEF FollowAll, Queue
<1> SUFFICES ASSUME mishaps = reloads PROVE FollowInv'
  BY <1>2, <1>7 DEF FollowInv
<1> HIDE DEF op
<1>8. FollowInv!2
  BY DEF FollowAll, FollowInv
<1>9. restored'.edit # composer'.edit
  BY <1>2, <1>8
<1>10. CASE Len(Queue) > 1
  <2>1. LastOp' = LastOp /\ Queue' # <<>> /\ Len(Queue') \in DOMAIN Queue'
    <3>1. Len(Queue') \in 1..Len(Tail(Queue)) /\ Len(Queue') + 1 = Len(Queue)
      BY <1>3, <1>7, <1>10
    <3>2. Queue'[Len(Queue')] = Queue[Len(Queue)]
      BY <1>3, <1>7, <3>1
    <3>3. Queue' \in Seq(Op)
      BY <1>1, <1>2, <1>7
    <3>4. Len(Queue') \in 1..Len(Queue') /\ DOMAIN Queue' = 1..Len(Queue') /\ Len(<<>>) = 0
      BY <1>7, <3>1, <3>3
    <3>5. Queue' # <<>>
      BY <3>4
    <3> QED BY <3>2, <3>4, <3>5 DEF LastOp
  <2>2. \A text, expected : LastIs(text, expected)' = LastIs(text, expected)
    BY <1>2, <2>1 DEF LastIs
  <2>3. op.rev < LastOp.rev
    <3>1. 1 \in 1..Len(Queue) /\ Len(Queue) \in 1..Len(Queue) /\ 1 < Len(Queue)
      BY <1>3, <1>10
    <3> QED BY <1>3, <3>1 DEF FollowAll, QueueInv, LastOp
  <2>4. ASSUME message # NoMessage, message.removal = "no"
        PROVE  Waiting(message.save)' /\ LastIs(composer.text, 0) /\ LastOp.rev = message.save
    <3>1. Waiting(message.save) /\ LastIs(composer.text, 0) /\ LastOp.rev = message.save
      BY <1>2, <1>8, <2>4
    <3>2. Queue'[Len(Queue')].rev = message'.save
      BY <1>5, <2>1, <3>1 DEF LastOp
    <3> QED BY <2>1, <3>1, <3>2 DEF Waiting, Queue
  <2>5. ~(message # NoMessage /\ message.removal = "issued")
    <3>1. Len(Queue) # 1
      BY <1>3, <1>10
    <3> QED BY <1>2, <1>8, <3>1
  <2>6. LastOp'.rev = LastOp.rev /\ composer' = composer /\ restored' = restored
    BY <1>2, <2>1
  <2> QED BY <1>2, <1>5, <1>8, <1>9, <2>1, <2>2, <2>4, <2>5, <2>6 DEF FollowInv
<1>11. CASE Len(Queue) = 1
  <2>1. Queue' = <<>> /\ LastOp = op
    <3>1. Len(Queue') = 0 /\ Queue' \in Seq(Op)
      BY <1>1, <1>2, <1>3, <1>7, <1>11
    <3> QED BY <1>3, <1>11, <3>1 DEF LastOp
  <2>2. ~Waiting(message.save)'
    BY <2>1 DEF Waiting, Queue
  <2>3. ASSUME message = NoMessage, composer.checked, Mine'
        PROVE  store'.draft[Here].text = composer'.text
    <3>1. op.text = composer.text /\ op.expected = 0
      BY <1>2, <1>8, <1>9, <2>1, <2>3 DEF LastIs
    <3> QED BY <1>2, <1>4, <2>3, <3>1
  <2>4. ASSUME message # NoMessage, message.removal = "no", Mine'
        PROVE  /\ message'.saved /\ store'.draft[Here].rev = message'.save
               /\ store'.draft[Here].text = composer'.text
    <3>1. op.text = composer.text /\ op.expected = 0 /\ op.rev = message.save
      BY <1>2, <1>8, <2>1, <2>4 DEF LastIs
    <3> QED BY <1>2, <1>4, <1>5, <2>4, <3>1
  <2>5. ASSUME message # NoMessage, message.removal = "issued"
        PROVE  ~Mine'
    <3>1. /\ op.kind = "remove" /\ op.expected = message.save
          /\ Mine => store.draft[Here].rev = message.save
      BY <1>2, <1>8, <2>1, <2>5 DEF LastIs
    <3> QED BY <1>4, <3>1
  <2> QED BY <1>2, <1>5, <1>9, <2>1, <2>2, <2>3, <2>4, <2>5 DEF FollowInv
<1> QED BY <1>3, <1>10, <1>11

LEMMA FollowNext ==
    ASSUME FollowAll, [ComposerNext]_draftVars
    PROVE  FollowAll'
<1>0. /\ StoreInv /\ MessageInv /\ StoreInv' /\ MessageInv' /\ QueueInv
      /\ StoreType /\ StoreType' /\ MessageType /\ message \in Message /\ message.save \in Nat
      /\ Self \in Tab
  <2>1. StoreInv /\ MessageInv /\ StoreInv' /\ MessageInv' /\ QueueInv
    BY MessageNext DEF FollowAll
  <2>2. StoreType'
    BY <2>1 DEF StoreInv
  <2> QED BY <2>1, <2>2, FollowFacts, NoneIsMine
<1> SUFFICES QueueInv' /\ FollowInv'
  BY <1>0 DEF FollowAll
<1>1. ASSUME UNCHANGED <<composer, restored, reloads, mishaps, pending, issued, store>>,
             \/ message' = message
             \/ /\ message # NoMessage /\ message' # NoMessage /\ message'.save = message.save
                /\ message'.saved = message.saved /\ message'.removal = message.removal
      PROVE  QueueInv' /\ FollowInv'
  <2>1. QueueInv'
    BY <1>0, <1>1, QuietQueue
  <2>2. /\ Queue' = Queue /\ issued'[Self] = issued[Self]
        /\ Mine' => Mine /\ store'.draft[Here] = store.draft[Here]
    BY <1>1 DEF Queue, Mine
  <2>3. UNCHANGED <<composer, restored, reloads, mishaps>>
    BY <1>1
  <2> QED BY <1>1, <2>1, <2>2, <2>3, QuietFollow
<1>2. ASSUME mishaps' = mishaps + 1, reloads' = reloads PROVE FollowInv'
  <2>1. mishaps' # reloads'
    BY <1>0, <1>2, FollowFacts
  <2> QED BY <2>1 DEF FollowInv
<1>4. CASE UNCHANGED draftVars
  BY <1>1, <1>4 DEF draftVars, storeVars, composerVars
<1>5. CASE \E r \in NextRevisions(Self) : Type(r) \/ Send(r) \/ RemoveSentRecoveredDraft(r)
  BY <1>0, <1>5, TypeFollows, SendFollows, RemoveFollows
<1>6. CASE \E w \in Tab \ {Self} : \E r \in NextRevisions(w) : OtherTab(w, r)
  <2>1. PICK w \in Tab : w # Self /\ \E r \in NextRevisions(w) : OtherTab(w, r)
    BY <1>6
  <2>2. PICK r \in NextRevisions(w) : OtherTab(w, r)
    BY <2>1
  <2>3. UNCHANGED <<store, composerVars>> /\ Issues(w, r)
    BY <2>2, OtherTabIssues DEF OtherTab
  <2>4. PICK kind \in {"save", "remove", "clear"}, c \in DraftChat, text \in Nat,
             expected \in Nat : Issue(w, kind, c, text, expected, r)
    BY <2>3 DEF Issues
  <2>5. UNCHANGED <<message, composer, restored, reloads, mishaps, store>>
    BY <2>3 DEF composerVars
  <2>6. QueueInv' /\ (Mine' <=> Mine) /\ Queue' = Queue /\ issued'[Self] = issued[Self]
    <3> HIDE DEF NextRevisions, Issue
    <3> QED BY <1>0, <2>1, <2>4, <2>5, QueueIssued
  <2> QED BY <2>5, <2>6, QuietFollow
<1>7. CASE Retry \/ NotObserved
  <2>1. UNCHANGED <<composer, restored, reloads, mishaps, pending, issued, store>>
    BY <1>7 DEF Retry, NotObserved, storeVars
  <2> QED BY <1>0, <1>1, <1>7, <2>1, AttemptKeeps
<1>8. CASE AnswerLost
  <2>1. /\ UNCHANGED <<pending, issued, store>>
        /\ mishaps' = mishaps + 1 /\ reloads' = reloads
    BY <1>8 DEF AnswerLost, Mishap, storeVars
  <2>2. message # NoMessage /\ message'.save = message.save
    BY <1>0, <1>8, AttemptKeeps
  <2>3. QueueInv'
    BY <1>0, <2>1, <2>2, QuietQueue
  <2> QED BY <1>2, <2>1, <2>3
<1>9. CASE AppTakes
  BY <1>1, <1>9 DEF AppTakes, storeVars
<1>10. CASE Age
  BY <1>1, <1>10 DEF Age, Expire, composerVars
<1>11. CASE \E w \in Tab : RunTransaction(w)
  <2>1. PICK w \in Tab : RunTransaction(w)
    BY <1>11
  <2>2. CASE w = Self
    BY <1>0, <2>1, <2>2, RunFollows
  <2>3. CASE w # Self
    <3>1. /\ pending[w] # <<>> /\ pending' = [pending EXCEPT ![w] = Tail(@)]
          /\ issued' = issued /\ UNCHANGED <<message, composer, restored, reloads, mishaps>>
          /\ Transact(w)
      BY <2>1, <2>3 DEF RunTransaction, Transact
    <3>2. store'.draft[Here] \in {store.draft[Here], NoDraft,
                              [rev |-> Head(pending[w]).rev, text |-> Head(pending[w]).text]}
      BY <1>0, <3>1, TransactDraft
    <3>3. /\ QueueInv' /\ Queue' = Queue
          /\ Mine' => Mine /\ store'.draft[Here] = store.draft[Here]
      BY <1>0, <2>3, <3>1, <3>2, QueueRuns
    <3>4. issued'[Self] = issued[Self] /\ message' = message
          /\ UNCHANGED <<composer, restored, reloads, mishaps>>
      BY <3>1
    <3> QED BY <3>3, <3>4, QuietFollow
  <2> QED BY <2>2, <2>3
<1>12. CASE \E w \in Tab : StorageFails(w)
  <2>1. PICK w \in Tab : StorageFails(w)
    BY <1>12
  <2>2. /\ pending[w] # <<>> /\ pending' = [pending EXCEPT ![w] = Tail(@)]
        /\ issued' = issued /\ message' = message /\ store' = store
        /\ mishaps' = mishaps + 1 /\ reloads' = reloads
    BY <2>1 DEF StorageFails, TransactionFails, Mishap
  <2>3. QueueInv'
    BY <1>0, <2>2, QueueRuns
  <2> QED BY <1>2, <2>2, <2>3
<1> QED BY <1>0, <1>4, <1>5, <1>6, <1>7, <1>8, <1>9, <1>10, <1>11, <1>12, RefusesFollows,
        SettlesFollows, ReloadFollows, RestoreFollows, ApplyFollows DEF ComposerNext

LEMMA FollowInit == ComposerInit => FollowAll
<1> SUFFICES ASSUME ComposerInit PROVE FollowAll
  OBVIOUS
<1>1. StoreInv /\ MessageInv
  BY MessageInit
<1>2. /\ Self \in Tab /\ Here \in DraftChat /\ \A w \in Tab : pending[w] = <<>> /\ issued[w] = {}
      /\ Len(<<>>) = 0 /\ store.draft[Here].rev = 0 /\ message = NoMessage
      /\ restored.edit = 0 /\ composer.edit = 1
  BY ComposerAssumption DEF ComposerInit, StoreInit, Empty, NoDraft, NothingRestored
<1>3. Queue = <<>> /\ ~Mine
  BY <1>2 DEF Queue, Mine
<1>4. \A i \in 1..0 : FALSE
  OBVIOUS
<1>5. QueueInv
  BY <1>2, <1>3, <1>4 DEF QueueInv
<1>6. FollowInv
  BY <1>2, <1>3 DEF FollowInv
<1> QED BY <1>1, <1>5, <1>6 DEF FollowAll

\* A tab at rest that sees its own draft in the store has the same text: what
\* _sendPrompt sent is removed by _removeSentRecoveredDraft and never restored
\* as unsent, and no newer edit goes with it, whatever other tabs write and
\* whatever is dropped for its age or for the limit.
THEOREM ComposerStoreFollows == ComposerSpec => []StoreFollowsComposer
<1>1. FollowAll /\ [ComposerNext]_draftVars => FollowAll'
  BY FollowNext
<1>2. FollowAll => StoreFollowsComposer
  <2> SUFFICES ASSUME FollowAll, message = NoMessage, pending[Self] = <<>>, composer.checked,
                      restored = NothingRestored, mishaps = reloads,
                      store.draft[Here].rev \in issued[Self]
               PROVE  store.draft[Here].text = composer.text
    BY DEF StoreFollowsComposer
  <2>1. restored.edit # composer.edit
    BY FollowFacts DEF FollowAll, NothingRestored
  <2> QED BY <2>1 DEF FollowAll, FollowInv, Queue, Mine
<1> QED BY <1>1, <1>2, FollowInit, PTL DEF ComposerSpec

=============================================================================

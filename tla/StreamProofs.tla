---------------------------- MODULE StreamProofs ----------------------------
(***************************************************************************)
(* PanelStream, with the EventBroker and the EventJournal it reads, keeps  *)
(* NoSilentGap and FiredOnce for any scopes, limits and number of events,  *)
(* failures and selections.  What the panel has not shown yet is still on  *)
(* its way, in order (FlowInv), or in a snapshot being read (ReadInv).     *)
(***************************************************************************)
EXTENDS PanelStream, FiniteSetTheorems, TLAPS

\* Everything is told by the cursors of the n events written so far.
Cursor(n) == 0..n
Kinds == {"event", "snapshot", "status", "heartbeat"}
Envelope(n) ==
    {e \in [kind : Kinds, at : Cursor(n), hard : BOOLEAN] : e.kind = "heartbeat" => e.at = 0}
Page(n) == [kind : {"none", "page", "gone"}, events : SUBSET (1..n), more : BOOLEAN,
            next : Cursor(n), floor : Cursor(n)]
Reader(n) == [by : {"select", "event", "user", "poll", "system"}, floor : Cursor(n),
              at : Cursor(n), got : SUBSET (1..n), ready : BOOLEAN]
Subscription(n) == [after : Cursor(n), scopes : {{Chat}, {System}}, open : BOOLEAN,
                    queue : Seq(Envelope(n))]

JournalType ==
    /\ written \in Seq(Scope) /\ Len(written) <= MaxEvents
    /\ minimum \in [Scope -> Cursor(Len(written))]
    /\ snapshot \in [Scope -> Cursor(Len(written))]

\* A page that has events ends with the last of them.
BrokerType ==
    /\ cursor \in Cursor(Len(written)) /\ saved \in Cursor(Len(written))
    /\ history \in Seq(1..Len(written))
    /\ answer \in Page(Len(written)) /\ (answer.events # {} => answer.next \in answer.events)
    /\ sub # None => sub \in Subscription(Len(written))

PanelType ==
    /\ view \in {"chat", "system"} /\ sequence \in Cursor(Len(written))
    /\ needsSnapshot \in BOOLEAN
    /\ asked \in Cursor(Len(written)) /\ (request # None => request \in Cursor(Len(written)))
    /\ wire \in Seq(Envelope(Len(written)))
    /\ refresh # None => refresh \in Reader(Len(written))
    /\ poll # None => poll \in Page(Len(written)) /\ view = "chat"

\* The history is the newest events without a hole.
HistoryInv == \A i \in 1..Len(history) : history[i] + Len(history) = cursor + i

\* The receipt is ahead of everything that was put on the bus.
FiredInv ==
    /\ fired \in [1..MaxEvents -> {0, 1}] /\ receipt \in Nat
    /\ \A c \in 1..MaxEvents : c > receipt => fired[c] = 0
    /\ phase = "firing" => Fresh # {} /\ receipt = Current /\ fired[Current] = 0

\* A subscription is asked for, or open, where the panel was when it asked.
LinkInv ==
    /\ link # "off" => asked <= sequence
    /\ request # None => request = asked /\ link # "off" /\ sub = None /\ wire = <<>>
    /\ sub # None => link # "off" /\ sub.after = asked /\ sub.scopes = Wanted

-----------------------------------------------------------------------------
\* An event of the chat that the panel still has to be told of.
Due(c) == written[c] = Chat /\ c > sequence
Among(c, q, n) == \E i \in 1..n : q[i] = Event(c)
OnWire(c) == Among(c, wire, Len(wire))

\* Nothing is skipped: before an event there are all that are due before it.
ShownInv == \A c \in 1..sequence : written[c] = Chat => c \in shown

WireInv ==
    \A i \in 1..Len(wire) : wire[i].kind = "event" =>
        \A c \in 1..wire[i].at : Due(c) => c = wire[i].at \/ Among(c, wire, i - 1)

QueueInv == sub # None =>
    \A i \in 1..Len(sub.queue) : sub.queue[i].kind = "event" =>
        \A c \in 1..sub.queue[i].at : Due(c) =>
            c = sub.queue[i].at \/ OnWire(c) \/ Among(c, sub.queue, i - 1)

LiveInv == sub # None /\ sub.open /\ phase # "gap" =>
    \A c \in 1..cursor : Due(c) => OnWire(c) \/ Among(c, sub.queue, Len(sub.queue))

PollInv == poll # None =>
    /\ poll.kind = "page"
    /\ \A d \in poll.events : \A c \in 1..d : Due(c) => c \in poll.events

FlowInv == ShownInv /\ WireInv /\ QueueInv /\ LiveInv /\ PollInv

\* A snapshot being read has everything up to its page; one that was read has
\* everything up to the newest it has, and up to where the panel was.
ReadInv == refresh # None =>
    IF refresh.ready
    THEN \A c \in 1..Len(written) :
           written[c] = Chat /\ (c <= refresh.floor \/ \E d \in refresh.got : c <= d)
             => c \in refresh.got
    ELSE /\ refresh.got \subseteq 1..refresh.at
         /\ \A c \in 1..refresh.at : written[c] = Chat => c \in refresh.got

ChatInv == view = "chat" /\ minimum[Chat] = 0 => ReadInv /\ (needsSnapshot \/ FlowInv)
SystemInv == view = "system" =>
    refresh # None \/ {c \in 1..sequence : written[c] = System} \subseteq shown

-----------------------------------------------------------------------------
(* Greatest, least, and in order *)

LEMMA LeastOf ==
    ASSUME NEW S, S \subseteq Nat, S # {}
    PROVE  Min(S) \in S /\ \A x \in S : Min(S) <= x
<1>1. PICK m \in S : \A x \in S : ~ <<x, m>> \in OpToRel(<, Nat)
  BY WFMin, NatLessThanWellFounded
<1>2. \A x \in S : m <= x
  <2> SUFFICES ASSUME NEW x \in S PROVE m <= x
    OBVIOUS
  <2>1. x \in Nat /\ m \in Nat /\ ~(x < m)
    BY <1>1 DEF OpToRel
  <2> QED BY <2>1
<1> QED BY <1>1, <1>2 DEF Min

LEMMA GreatestOf ==
    ASSUME NEW n \in Nat, NEW S, S \subseteq 0..n, S # {}
    PROVE  Max(S) \in S /\ \A x \in S : x <= Max(S)
<1> DEFINE Upper == {m \in Nat : \A x \in S : x <= m}
<1>1. Upper \subseteq Nat /\ n \in Upper
  OBVIOUS
<1>2. PICK m \in Upper : \A x \in Upper : m <= x
  <2> HIDE DEF Upper
  <2> QED BY <1>1, LeastOf
<1>3. m \in S
  <2> SUFFICES ASSUME m \notin S PROVE FALSE
    OBVIOUS
  <2>1. \A x \in S : x < m
    OBVIOUS
  <2>2. m \in Nat /\ \A x \in S : x \in Nat /\ x <= m - 1
    BY <2>1
  <2>3. m - 1 \in Nat
    <3>1. PICK x \in S : TRUE
      OBVIOUS
    <3> QED BY <2>2, <3>1
  <2>4. m - 1 \in Upper
    BY <2>2, <2>3
  <2> QED BY <1>2, <2>2, <2>4
<1>4. \E x \in S : \A y \in S : x >= y
  BY <1>3
<1>5. Max(S) \in S /\ \A y \in S : Max(S) >= y
  BY <1>4 DEF Max
<1> QED BY <1>5

LEMMA RankIs ==
    ASSUME NEW n \in Nat, NEW S \in SUBSET (1..n)
    PROVE  /\ IsFiniteSet(S) /\ Cardinality(S) \in Nat
           /\ \A c \in S : Rank(c, S) \in 1..Cardinality(S)
           /\ \A c, d \in S : (c < d) <=> (Rank(c, S) < Rank(d, S))
<1>1. IsFiniteSet(1..n) /\ IsFiniteSet(S) /\ S \subseteq Nat
  <2>1. IsFiniteSet(1..n)
    BY FS_Interval
  <2>2. IsFiniteSet(S)
    BY <2>1, FS_Subset
  <2> QED BY <2>1, <2>2
<1>2. Cardinality(S) \in Nat
  BY <1>1, FS_CardinalityType
<1>3. ASSUME NEW c \in S
      PROVE  /\ IsFiniteSet({d \in S : d <= c}) /\ Rank(c, S) \in 1..Cardinality(S)
  <2> DEFINE T == {d \in S : d <= c}
  <2>1. T \subseteq S /\ c \in T
    OBVIOUS
  <2>2. IsFiniteSet(T) /\ Cardinality(T) <= Cardinality(S) /\ Cardinality(T) \in Nat
    BY <1>1, <2>1, FS_Subset, FS_CardinalityType
  <2>3. Cardinality(T) # 0
    BY <2>1, <2>2, FS_EmptySet
  <2> QED BY <1>2, <2>2, <2>3 DEF Rank
<1>4. ASSUME NEW c \in S, NEW d \in S, c < d
      PROVE  Rank(c, S) < Rank(d, S)
  <2> DEFINE T == {e \in S : e <= c}
             U == {e \in S : e <= d}
  <2>1. T \subseteq U /\ d \in U /\ d \notin T
    <3>1. c \in Nat /\ d \in Nat /\ ~(d <= c)
      BY <1>1, <1>4
    <3>2. ASSUME NEW e \in T PROVE e \in U
      <4>1. e \in S /\ e \in Nat /\ e <= c
        BY <1>1
      <4> QED BY <1>4, <3>1, <4>1
    <3>3. d <= d
      BY <3>1
    <3> QED BY <3>1, <3>2, <3>3
  <2>2. IsFiniteSet(T) /\ IsFiniteSet(U)
    BY <1>3
  <2>3. Cardinality(T) <= Cardinality(U) /\ (Cardinality(T) = Cardinality(U) => T = U)
    BY <2>1, <2>2, FS_Subset
  <2>4. Cardinality(T) # Cardinality(U) /\ Cardinality(T) \in Nat /\ Cardinality(U) \in Nat
    BY <2>1, <2>2, <2>3, FS_CardinalityType
  <2> QED BY <2>3, <2>4 DEF Rank
<1>5. ASSUME NEW c \in S, NEW d \in S, Rank(c, S) < Rank(d, S)
      PROVE  c < d
  <2>1. Rank(c, S) \in Nat /\ Rank(d, S) \in Nat /\ c \in Nat /\ d \in Nat
    <3>1. Rank(c, S) \in 1..Cardinality(S) /\ Rank(d, S) \in 1..Cardinality(S)
      BY <1>3
    <3> QED BY <1>1, <1>2, <3>1
  <2>2. CASE c = d
    BY <1>5, <2>1, <2>2
  <2>3. CASE d < c
    <3>1. Rank(d, S) < Rank(c, S)
      BY <1>4, <2>3
    <3> QED BY <1>5, <2>1, <3>1
  <2> QED BY <2>2, <2>3
<1> QED BY <1>1, <1>2, <1>3, <1>4, <1>5

\* A page is a beginning of what was found, and not an empty one.
LEMMA FirstOfIs ==
    ASSUME NEW n \in Nat, NEW S \in SUBSET (1..n), NEW m \in Nat \ {0}
    PROVE  /\ FirstOf(S, m) \subseteq S
           /\ \A d \in FirstOf(S, m) : \A c \in S : c <= d => c \in FirstOf(S, m)
           /\ S # {} => FirstOf(S, m) # {}
<1>1. FirstOf(S, m) \subseteq S
  BY DEF FirstOf
<1>2. ASSUME NEW d \in FirstOf(S, m), NEW c \in S, c <= d
      PROVE  c \in FirstOf(S, m)
  <2>1. d \in S /\ Rank(d, S) <= m
    BY DEF FirstOf
  <2>2. /\ Rank(c, S) \in 1..Cardinality(S) /\ Rank(d, S) \in 1..Cardinality(S)
        /\ Cardinality(S) \in Nat /\ ((d < c) <=> (Rank(d, S) < Rank(c, S)))
    BY <2>1, RankIs
  <2>4. ~(d < c)
    BY <1>2, <2>1
  <2>3. Rank(c, S) <= m
    BY <2>1, <2>2, <2>4
  <2> QED BY <2>3 DEF FirstOf
<1>3. ASSUME S # {} PROVE FirstOf(S, m) # {}
  <2>0. S \subseteq Nat
    OBVIOUS
  <2>1. Min(S) \in S /\ \A x \in S : Min(S) <= x
    BY <1>3, <2>0, LeastOf
  <2> DEFINE least == Min(S)
  <2> HIDE DEF least
  <2>2. {d \in S : d <= least} = {least}
    <3>1. least \in S /\ least \in Nat /\ \A x \in S : x \in Nat /\ least <= x
      BY <2>0, <2>1 DEF least
    <3>2. \A x \in S : x <= least => x = least
      BY <3>1
    <3>3. least <= least
      BY <3>1
    <3> QED BY <3>1, <3>2, <3>3
  <2>3. Rank(least, S) = 1
    BY <2>2, FS_Singleton DEF Rank
  <2> QED BY <2>1, <2>3 DEF FirstOf, least
<1> QED BY <1>1, <1>2, <1>3

\* Every one of them is at its place, and the older ones before it.
LEMMA InOrderIs ==
    ASSUME NEW n \in Nat, NEW S \in SUBSET (1..n)
    PROVE  /\ InOrder(S) \in Seq({Event(c) : c \in S}) /\ Len(InOrder(S)) = Cardinality(S)
           /\ \A c \in S : Rank(c, S) \in 1..Cardinality(S) /\ InOrder(S)[Rank(c, S)] = Event(c)
           /\ \A i \in 1..Cardinality(S) : \E c \in S : InOrder(S)[i] = Event(c) /\ Rank(c, S) = i
<1> DEFINE k == Cardinality(S)
           rank == [c \in S |-> Rank(c, S)]
<1>1. /\ IsFiniteSet(S) /\ k \in Nat /\ \A c \in S : Rank(c, S) \in 1..k
      /\ \A c, d \in S : (c < d) <=> (Rank(c, S) < Rank(d, S))
  BY RankIs
<1>2. \A c, d \in S : Rank(c, S) = Rank(d, S) => c = d
  <2> SUFFICES ASSUME NEW c \in S, NEW d \in S, Rank(c, S) = Rank(d, S) PROVE c = d
    OBVIOUS
  <2>1. ~(c < d) /\ ~(d < c)
    BY <1>1
  <2> QED BY <2>1
<1>3. \A i \in 1..k : \E c \in S : Rank(c, S) = i
  <2> DEFINE R == {Rank(c, S) : c \in S}
  <2>1. rank \in Bijection(S, R)
    BY <1>2 DEF Bijection, Injection, Surjection, IsInjective
  <2>2. IsFiniteSet(R) /\ Cardinality(R) = k
    <3>1. ExistsBijection(S, R)
      BY <2>1 DEF ExistsBijection
    <3> HIDE DEF rank, R
    <3> QED BY <1>1, <3>1, FS_Bijection
  <2>3. R \subseteq 1..k /\ IsFiniteSet(1..k) /\ Cardinality(1..k) = k
    BY <1>1, FS_Interval
  <2>4. R = 1..k
    <3> HIDE DEF R
    <3> QED BY <2>2, <2>3, FS_Subset
  <2> QED BY <2>4
<1>4. \A i \in 1..k : \E c \in S : InOrder(S)[i] = Event(c) /\ Rank(c, S) = i
  <2> SUFFICES ASSUME NEW i \in 1..k
               PROVE  \E c \in S : InOrder(S)[i] = Event(c) /\ Rank(c, S) = i
    OBVIOUS
  <2>1. PICK c \in S : Rank(c, S) = i /\ c = CHOOSE d \in S : Rank(d, S) = i
    BY <1>3
  <2> QED BY <2>1 DEF InOrder
<1>5. ASSUME NEW c \in S PROVE Rank(c, S) \in 1..k /\ InOrder(S)[Rank(c, S)] = Event(c)
  <2>1. PICK d \in S : InOrder(S)[Rank(c, S)] = Event(d) /\ Rank(d, S) = Rank(c, S)
    BY <1>1, <1>4
  <2> QED BY <1>1, <1>2, <2>1
<1>6. InOrder(S) \in [1..k -> {Event(c) : c \in S}]
  <2>1. InOrder(S) = [i \in 1..k |-> InOrder(S)[i]]
    BY DEF InOrder
  <2> QED BY <1>4, <2>1
<1>7. InOrder(S) \in Seq({Event(c) : c \in S}) /\ Len(InOrder(S)) = k
  BY <1>1, <1>6
<1> QED BY <1>4, <1>5, <1>7

-----------------------------------------------------------------------------
(* The journal *)

LEMMA LargerIs ==
    ASSUME NEW n \in Nat, NEW a \in 0..n, NEW b \in 0..n
    PROVE  Larger(a, b) \in 0..n /\ Larger(a, b) \in {a, b} /\ Larger(a, b) >= a /\ Larger(a, b) >= b
BY DEF Larger

LEMMA JournalFacts ==
    ASSUME JournalType
    PROVE  /\ Len(written) \in Nat /\ DOMAIN written = 1..Len(written)
           /\ \A s \in Scope : Retained(s) \subseteq 1..Len(written)
           /\ Chat \in Scope /\ {Chat} \subseteq Scope
           /\ minimum[Chat] = 0 => Retained(Chat) = {c \in 1..Len(written) : written[c] = Chat}
           /\ minimum[Chat] \in Nat
<1>1. Len(written) \in Nat /\ DOMAIN written = 1..Len(written)
  BY DEF JournalType
<1>2. Chat \in Scope
  BY PanelAssumption, JournalAssumption
<1>3. minimum[Chat] \in Nat
  BY <1>1, <1>2 DEF JournalType, Cursor
<1> QED BY <1>1, <1>2, <1>3 DEF Retained

LEMMA FloorIs ==
    ASSUME JournalType, NEW scopes \in SUBSET Scope
    PROVE  /\ Floor(scopes) \in Cursor(Len(written)) /\ SnapshotFloor(scopes) \in Cursor(Len(written))
           /\ scopes = {Chat} /\ minimum[Chat] = 0 => Floor(scopes) = 0
<1> DEFINE n == Len(written)
           M == {minimum[s] : s \in scopes} \cup {0}
           T == {snapshot[s] : s \in scopes} \cup {0}
<1>1. n \in Nat
  BY JournalFacts
<1>2. M \subseteq 0..n /\ M # {} /\ T \subseteq 0..n /\ T # {}
  BY <1>1 DEF JournalType, Cursor
<1>3. scopes = {Chat} /\ minimum[Chat] = 0 => M = {0}
  OBVIOUS
<1> HIDE DEF M, T, n
<1>4. Max(M) \in M /\ Max(T) \in T
  BY <1>1, <1>2, GreatestOf
<1>5. Floor(scopes) = Max(M) /\ SnapshotFloor(scopes) = Max(T)
  BY DEF Floor, SnapshotFloor, M, T
<1> QED BY <1>2, <1>3, <1>4, <1>5 DEF Cursor, n

\* A page leaves nothing out, of what the journal still has of the scopes.
LEMMA ReplayIs ==
    ASSUME JournalType, NEW scopes \in SUBSET Scope, NEW after \in Cursor(Len(written))
    PROVE  LET page == Replay(after, scopes)
               found == (UNION {Retained(s) : s \in scopes}) \ 0..after
           IN  /\ page \in Page(Len(written)) /\ page.kind \in {"page", "gone"}
               /\ page.kind = "gone" => after < Floor(scopes)
               /\ page.events \subseteq found
               /\ page.events # {} => page.next \in page.events
               /\ \A d \in page.events : d <= page.next /\ \A c \in found : c <= d => c \in page.events
               /\ page.kind = "page" => IF page.more THEN page.events # {} ELSE page.events = found
<1> DEFINE n == Len(written)
           found == (UNION {Retained(s) : s \in scopes}) \ 0..after
           first == FirstOf(found, BatchLimit)
           left == UNION {Retained(s) : s \in Scope}
           all == (UNION {Retained(s) : s \in Scope}) \cup {after}
           page == Replay(after, scopes)
<1>1. n \in Nat /\ after \in 0..n /\ BatchLimit \in Nat \ {0} /\ \A s \in Scope : Retained(s) \subseteq 1..n
  BY JournalFacts, JournalAssumption DEF Cursor
<1>2. Floor(scopes) \in Cursor(n) /\ SnapshotFloor(scopes) \in Cursor(n)
  BY FloorIs
<1>3. found \in SUBSET (1..n) /\ all \subseteq 0..n /\ all # {}
  <2>1. \A s \in scopes : Retained(s) \subseteq 1..n
    BY <1>1
  <2>2. UNION {Retained(s) : s \in scopes} \subseteq 1..n
    BY <2>1
  <2>3. left \subseteq 1..n
    BY <1>1
  <2>4. 1..n \subseteq 0..n /\ after \in 0..n
    BY <1>1
  <2>5. found \in SUBSET (1..n)
    BY <2>2
  <2>6. all \subseteq 0..n /\ all # {}
    <3>1. all = left \cup {after}
      OBVIOUS
    <3> HIDE DEF left, all, n
    <3> QED BY <2>3, <2>4, <3>1
  <2> QED BY <2>5, <2>6
<1>4. /\ first \subseteq found /\ first \in SUBSET (1..n)
      /\ \A d \in first : \A c \in found : c <= d => c \in first
      /\ found # {} => first # {}
  <2> HIDE DEF found
  <2> QED BY <1>1, <1>3, FirstOfIs
<1>5. first # {} => Max(first) \in first /\ \A x \in first : x <= Max(first)
  <2> HIDE DEF first
  <2>1. first \subseteq 0..n
    BY <1>1, <1>4
  <2> QED BY <1>1, <2>1, GreatestOf
<1>6. Max(all) \in Cursor(n)
  <2> HIDE DEF all
  <2>1. Max(all) \in all
    BY <1>1, <1>3, GreatestOf
  <2> QED BY <1>3, <2>1 DEF Cursor
<1>7. CASE after < Floor(scopes)
  <2>1. page = Gone(scopes)
    BY <1>7 DEF Replay
  <2>2. Gone(scopes) \in Page(n)
    <3> HIDE DEF n
    <3> QED BY <1>2 DEF Gone, Page
  <2> QED BY <1>7, <2>1, <2>2 DEF Gone
<1>8. CASE ~(after < Floor(scopes))
  <2> DEFINE next == IF first # {} THEN Max(first) ELSE Max(all)
  <2>1. page = [kind |-> "page", events |-> first, more |-> first # found,
                next |-> next, floor |-> Floor(scopes)]
    BY <1>8 DEF Replay
  <2>2. next \in Cursor(n) /\ (first # {} => next \in first /\ \A x \in first : x <= next)
    <3>1. first # {} => Max(first) \in Cursor(n)
      <4>1. first \subseteq 0..n
        BY <1>1, <1>4
      <4> HIDE DEF first, n
      <4> QED BY <1>5, <4>1 DEF Cursor
    <3> QED BY <1>5, <1>6, <3>1
  <2>3. (first # found) \in BOOLEAN
    OBVIOUS
  <2> HIDE DEF next, first, found, page, n
  <2>4. page \in Page(n)
    BY <1>2, <1>4, <2>1, <2>2, <2>3 DEF Page
  <2>5. page.kind = "page" /\ page.events = first /\ page.more = (first # found) /\ page.next = next
    BY <2>1
  <2>6. page.more => page.events # {}
    BY <1>4, <2>5
  <2> QED BY <1>4, <2>2, <2>4, <2>5, <2>6 DEF page, found, n
<1> QED BY <1>7, <1>8

-----------------------------------------------------------------------------
(* Types *)

TypeInv == JournalType /\ BrokerType /\ PanelType /\ HistoryInv

\* What was an envelope, a page or a subscription still is when more is written.
LEMMA Growth ==
    ASSUME NEW n \in Nat, NEW m \in Nat, n <= m
    PROVE  /\ Cursor(n) \subseteq Cursor(m) /\ 1..n \subseteq 1..m
           /\ Envelope(n) \subseteq Envelope(m) /\ Page(n) \subseteq Page(m)
           /\ Reader(n) \subseteq Reader(m) /\ Subscription(n) \subseteq Subscription(m)
           /\ Seq(Envelope(n)) \subseteq Seq(Envelope(m)) /\ Seq(1..n) \subseteq Seq(1..m)
<1>1. Cursor(n) \subseteq Cursor(m) /\ 1..n \subseteq 1..m
  BY DEF Cursor
<1>2. Envelope(n) \subseteq Envelope(m)
  BY <1>1 DEF Envelope
<1>3. Page(n) \subseteq Page(m)
  BY <1>1 DEF Page
<1>4. Reader(n) \subseteq Reader(m)
  BY <1>1 DEF Reader
<1>5. Seq(Envelope(n)) \subseteq Seq(Envelope(m)) /\ Seq(1..n) \subseteq Seq(1..m)
  <2>1. \A S, T : S \subseteq T => Seq(S) \subseteq Seq(T)
    OBVIOUS
  <2> QED BY <1>1, <1>2, <2>1
<1>6. Subscription(n) \subseteq Subscription(m)
  BY <1>1, <1>5 DEF Subscription
<1> QED BY <1>1, <1>2, <1>3, <1>4, <1>5, <1>6

LEMMA EnvelopesAre ==
    ASSUME NEW n \in Nat
    PROVE  /\ \A c \in Cursor(n) : Event(c) \in Envelope(n) /\ SnapshotRequired(c) \in Envelope(n)
           /\ \A hard \in BOOLEAN : Status(hard) \in Envelope(n)
           /\ Heartbeat \in Envelope(n)
BY DEF Envelope, Event, SnapshotRequired, Status, Heartbeat, Cursor, Kinds

\* An envelope is put at the end of the queue, or ends the subscription.
LEMMA PutIs ==
    ASSUME NEW n \in Nat, NEW s \in Subscription(n), NEW e \in Envelope(n), cursor' \in Cursor(n)
    PROVE  /\ Put(s, e) \in Subscription(n)
           /\ Put(s, e).after = s.after /\ Put(s, e).scopes = s.scopes
           /\ \/ Put(s, e).open = s.open /\ Put(s, e).queue = Append(s.queue, e)
              \/ ~Put(s, e).open /\ Put(s, e).queue = <<SnapshotRequired(cursor')>>
<1>1. s.queue \in Seq(Envelope(n)) /\ s.open \in BOOLEAN /\ s.after \in Cursor(n)
      /\ s.scopes \in {{Chat}, {System}}
  BY DEF Subscription
<1>2. Append(s.queue, e) \in Seq(Envelope(n))
  BY <1>1
<1>3. <<SnapshotRequired(cursor')>> \in Seq(Envelope(n))
  BY EnvelopesAre
<1>4. CASE Len(s.queue) < QueueSize
  <2>1. Put(s, e) = [s EXCEPT !.queue = Append(@, e)]
    BY <1>4 DEF Put
  <2> QED BY <1>1, <1>2, <2>1 DEF Subscription
<1>5. CASE ~(Len(s.queue) < QueueSize)
  <2>1. Put(s, e) = [s EXCEPT !.open = FALSE, !.queue = <<SnapshotRequired(cursor')>>]
    BY <1>5 DEF Put, Closed
  <2> QED BY <1>1, <1>3, <2>1 DEF Subscription
<1> QED BY <1>4, <1>5

LEMMA ClosedIs ==
    ASSUME NEW n \in Nat, NEW s \in Subscription(n), NEW e \in Envelope(n)
    PROVE  /\ Closed(s, e) \in Subscription(n)
           /\ Closed(s, e).after = s.after /\ Closed(s, e).scopes = s.scopes
           /\ ~Closed(s, e).open /\ Closed(s, e).queue = <<e>>
<1>1. s.after \in Cursor(n) /\ s.scopes \in {{Chat}, {System}} /\ <<e>> \in Seq(Envelope(n))
  BY DEF Subscription
<1>2. Closed(s, e) = [s EXCEPT !.open = FALSE, !.queue = <<e>>]
  BY DEF Closed
<1> QED BY <1>1, <1>2 DEF Subscription

\* What a publication makes of the subscription.
Told(e) ==
    \/ sub' = sub /\ ~Live
    \/ /\ Live /\ sub'.open /\ sub'.queue = Append(sub.queue, e)
    \/ /\ Live /\ ~sub'.open
       /\ \/ sub'.queue = <<e>> /\ e.kind # "event"
          \/ sub'.queue = <<SnapshotRequired(cursor')>>

LEMMA PublishIs ==
    ASSUME BrokerType, Len(written) \in Nat, cursor' \in Cursor(Len(written)),
           NEW e \in Envelope(Len(written)),
           \/ Live /\ (sub' = Put(sub, e) \/ (sub' = Closed(sub, e) /\ e.kind # "event"))
           \/ ~Live /\ sub' = sub
    PROVE  /\ sub' # None => sub' \in Subscription(Len(written))
           /\ Live => sub'.after = sub.after /\ sub'.scopes = sub.scopes
           /\ Told(e)
<1>1. CASE ~Live
  BY <1>1 DEF BrokerType, Told
<1>2. CASE Live
  <2>1. sub \in Subscription(Len(written)) /\ sub.open
    BY <1>2 DEF BrokerType, Live
  <2>2. CASE sub' = Put(sub, e)
    BY <1>2, <2>1, <2>2, PutIs DEF Told
  <2>3. CASE sub' = Closed(sub, e) /\ e.kind # "event"
    BY <1>2, <2>1, <2>3, ClosedIs DEF Told
  <2> QED BY <1>2, <2>2, <2>3
<1> QED BY <1>1, <1>2

\* The history and the cursor grow together.
LEMMA BothUp ==
    ASSUME NEW x \in Nat, NEW l \in Nat, NEW c \in Nat, NEW k \in Nat, x + l = c + k
    PROVE  x + (l + 1) = (c + 1) + k
OBVIOUS

\* The oldest of the history is dropped, and the rest moves down by one.
LEMMA UpAndDown ==
    ASSUME NEW x \in Nat, NEW l \in Nat, NEW c \in Nat, NEW k \in Nat, x + l = c + (k + 1)
    PROVE  x + (l - 1) = c + k
OBVIOUS

\* A new subscription gets all it has missed, in order, or is told that it
\* needs a snapshot.
Missed(c, after, scopes) == c > after /\ written[c] \in scopes

PicksUp(s, after, scopes) ==
    /\ s \in Subscription(Len(written)) /\ s.after = after /\ s.scopes = scopes
    /\ \/ ~s.open /\ s.queue = <<SnapshotRequired(cursor)>>
       \/ /\ s.open
          /\ \A c \in 1..cursor : Missed(c, after, scopes) => Among(c, s.queue, Len(s.queue))
          /\ \A i \in 1..Len(s.queue) : s.queue[i].at <= cursor /\
               \A c \in 1..s.queue[i].at :
                 Missed(c, after, scopes) => c = s.queue[i].at \/ Among(c, s.queue, i - 1)

LEMMA WithHistoryIs ==
    ASSUME JournalType, BrokerType, HistoryInv,
           NEW after \in Cursor(Len(written)), NEW scopes \in {{Chat}, {System}}
    PROVE  PicksUp(WithHistory([after |-> after, scopes |-> scopes,
                                open |-> TRUE, queue |-> <<>>]), after, scopes)
<1> DEFINE n == Len(written)
           new == [after |-> after, scopes |-> scopes, open |-> TRUE, queue |-> <<>>]
           s == WithHistory(new)
           matching == {c \in Range(history) : Matches(new, c)}
<1> SUFFICES PicksUp(s, after, scopes)
  OBVIOUS
<1>1. n \in Nat /\ after \in 0..n /\ cursor \in 0..n /\ history \in Seq(1..n)
  BY JournalFacts DEF BrokerType, Cursor
<1>2. new \in Subscription(n)
  BY DEF Subscription
<1> DEFINE shut == Closed(new, SnapshotRequired(cursor))
<1>3. /\ shut \in Subscription(n) /\ shut.after = new.after /\ shut.scopes = new.scopes
      /\ ~shut.open /\ shut.queue = <<SnapshotRequired(cursor)>>
  <2>1. SnapshotRequired(cursor) \in Envelope(n)
    BY <1>1, EnvelopesAre DEF BrokerType
  <2> HIDE DEF new, n
  <2> QED BY <1>1, <1>2, <2>1, ClosedIs
<1>4. CASE s = shut
  <2>1. new.after = after /\ new.scopes = scopes
    OBVIOUS
  <2> HIDE DEF shut, s, new, n
  <2> QED BY <1>3, <1>4, <2>1 DEF n, PicksUp
<1>5. CASE after >= cursor
  <2>1. s = new
    BY <1>5 DEF WithHistory
  <2>2. \A c \in 1..cursor : ~Missed(c, after, scopes)
    BY <1>1, <1>5 DEF Missed
  <2>3. s.open /\ s.after = after /\ s.scopes = scopes /\ s.queue = <<>>
    BY <2>1
  <2>4. \A i \in 1..Len(s.queue) : FALSE
    BY <2>3
  <2>5. s \in Subscription(n)
    BY <1>2, <2>1
  <2> HIDE DEF s, new, n
  <2> QED BY <2>2, <2>3, <2>4, <2>5 DEF n, PicksUp
<1>6. CASE /\ after < cursor /\ history # <<>> /\ history[Len(history)] = cursor
           /\ ~(after < history[1] - 1)
           /\ s = [new EXCEPT !.queue = InOrder(matching)]
  <2> DEFINE q == InOrder(matching)
  <2>1. matching \in SUBSET (1..n) /\ \A c \in matching : c <= cursor
    <3>1. \A i \in 1..Len(history) : history[i] \in 1..n /\ history[i] <= cursor
      <4> SUFFICES ASSUME NEW i \in 1..Len(history) PROVE history[i] \in 1..n /\ history[i] <= cursor
        OBVIOUS
      <4>1. history[i] \in 1..n /\ Len(history) \in Nat /\ history[i] + Len(history) = cursor + i
        BY <1>1 DEF HistoryInv
      <4> QED BY <1>1, <4>1
    <3>2. \A c \in Range(history) : \E i \in 1..Len(history) : c = history[i]
      BY <1>1 DEF Range
    <3> QED BY <3>1, <3>2
  <2>2. \A c \in 1..cursor : Missed(c, after, scopes) => c \in matching
    <3> SUFFICES ASSUME NEW c \in 1..cursor, Missed(c, after, scopes) PROVE c \in matching
      OBVIOUS
    <3> DEFINE k == Len(history)
               i == c + k - cursor
    <3>1. k \in Nat \ {0} /\ c \in Nat /\ c > after /\ history[1] + k = cursor + 1
      <4>1. k \in Nat \ {0}
        BY <1>1, <1>6
      <4>2. 1 \in 1..k
        BY <4>1
      <4> QED BY <1>1, <4>1, <4>2 DEF HistoryInv, Missed
    <3>2. i \in 1..k
      <4>1. history[1] \in Nat /\ ~(after < history[1] - 1)
        BY <1>1, <1>6, <3>1
      <4> DEFINE first == history[1]
      <4>2. first \in Nat /\ ~(after < first - 1) /\ first + k = cursor + 1
        BY <3>1, <4>1
      <4> HIDE DEF first, k
      <4> QED BY <1>1, <3>1, <4>2
    <3>3. history[i] = c
      <4>1. history[i] + k = cursor + i /\ history[i] \in Nat
        BY <1>1, <3>2 DEF HistoryInv
      <4> QED BY <1>1, <3>1, <4>1
    <3>4. c \in Range(history)
      BY <1>1, <3>2, <3>3 DEF Range
    <3> QED BY <3>4 DEF Matches, Missed
  <2>3. /\ q \in Seq({Event(c) : c \in matching}) /\ Len(q) = Cardinality(matching)
        /\ \A c \in matching : Rank(c, matching) \in 1..Len(q) /\ q[Rank(c, matching)] = Event(c)
        /\ \A i \in 1..Len(q) : \E c \in matching : q[i] = Event(c) /\ Rank(c, matching) = i
        /\ \A c, d \in matching : (c < d) <=> (Rank(c, matching) < Rank(d, matching))
        /\ Len(q) \in Nat
    <3> HIDE DEF matching
    <3>1. Len(q) = Cardinality(matching) /\ Cardinality(matching) \in Nat
      BY <1>1, <2>1, InOrderIs, RankIs
    <3> QED BY <1>1, <2>1, <3>1, InOrderIs, RankIs
  <2>4. q \in Seq(Envelope(n))
    <3>1. {Event(c) : c \in matching} \subseteq Envelope(n)
      <4>1. \A c \in matching : c \in Cursor(n)
        BY <1>1, <2>1 DEF Cursor
      <4> HIDE DEF matching, n
      <4> QED BY <1>1, <4>1, EnvelopesAre
    <3>2. \A S, T : S \subseteq T => Seq(S) \subseteq Seq(T)
      OBVIOUS
    <3> HIDE DEF q, matching, n
    <3> QED BY <2>3, <3>1, <3>2
  <2>5. s = [after |-> after, scopes |-> scopes, open |-> TRUE, queue |-> q]
    BY <1>6
  <2>6. s \in Subscription(n)
    <3> HIDE DEF q, n, s
    <3> QED BY <1>1, <2>4, <2>5 DEF Subscription, Cursor
  <2>7. \A c \in matching : Among(c, q, Len(q))
    <3> HIDE DEF q, matching
    <3> QED BY <2>3 DEF Among
  <2>8. ASSUME NEW i \in 1..Len(q)
        PROVE  /\ q[i].at <= cursor
               /\ \A c \in 1..q[i].at :
                    Missed(c, after, scopes) => c = q[i].at \/ Among(c, q, i - 1)
    <3>1. PICK d \in matching : q[i] = Event(d) /\ Rank(d, matching) = i
      BY <2>3
    <3>2. q[i].at = d /\ d <= cursor /\ d \in Nat
      <4> HIDE DEF matching, q
      <4> QED BY <1>1, <2>1, <3>1 DEF Event
    <3>3. ASSUME NEW c \in 1..d, Missed(c, after, scopes), c # d
          PROVE  Among(c, q, i - 1)
      <4>1. c \in matching /\ c < d
        <5>1. c \in 1..cursor /\ c < d
          BY <1>1, <3>2, <3>3
        <5> QED BY <2>2, <3>3, <5>1
      <4>2. Rank(c, matching) \in 1..Len(q) /\ Rank(c, matching) < i
            /\ q[Rank(c, matching)] = Event(c)
        <5> HIDE DEF matching, q
        <5> QED BY <2>3, <3>1, <4>1
      <4>3. Rank(c, matching) \in 1..(i - 1)
        <5> HIDE DEF matching, q
        <5> QED BY <2>3, <4>2
      <4> HIDE DEF matching, q
      <4> QED BY <4>2, <4>3 DEF Among
    <3> QED BY <3>2, <3>3
  <2>9. s.queue = q /\ s.open /\ s.after = after /\ s.scopes = scopes
    <3> HIDE DEF s, q
    <3> QED BY <2>5
  <2> HIDE DEF s, q, matching, n
  <2>10. \A c \in 1..cursor : Missed(c, after, scopes) => Among(c, q, Len(q))
    BY <2>2, <2>7
  <2> QED BY <2>6, <2>8, <2>9, <2>10 DEF n, PicksUp
<1>7. \/ s = Closed(new, SnapshotRequired(cursor))
      \/ after >= cursor
      \/ /\ after < cursor /\ history # <<>> /\ history[Len(history)] = cursor
         /\ ~(after < history[1] - 1)
         /\ s = [new EXCEPT !.queue = InOrder(matching)]
  <2>1. new.after = after
    OBVIOUS
  <2>2. ~(after >= cursor) => after < cursor
    BY <1>1
  <2> HIDE DEF new, n
  <2> QED BY <2>1, <2>2 DEF WithHistory
<1> QED
  <2> HIDE DEF s, new, n, matching
  <2> QED BY <1>4, <1>5, <1>6, <1>7

-----------------------------------------------------------------------------
(* Types, step by step *)

LEMMA TypeInit == PanelInit => TypeInv
<1> SUFFICES ASSUME PanelInit PROVE TypeInv
  OBVIOUS
<1>1. JournalType
  BY JournalAssumption DEF PanelInit, JournalInit, JournalType, Cursor
<1>2. BrokerType /\ HistoryInv
  <2>1. Len(written) = 0 /\ history = <<>> /\ sub = None
    BY DEF PanelInit, JournalInit, BrokerInit
  <2>2. NoAnswer \in Page(0) /\ NoAnswer.events = {}
    BY DEF NoAnswer, Page, Cursor
  <2>3. HistoryInv
    BY <2>1 DEF HistoryInv
  <2> QED BY <2>1, <2>2, <2>3 DEF PanelInit, BrokerInit, BrokerType, Cursor
<1>3. PanelType
  <2>1. Len(written) = 0
    BY DEF PanelInit, JournalInit
  <2>2. Reading("select", 0) \in Reader(0) /\ Reading("system", 0) \in Reader(0)
    BY DEF Reading, Reader, Cursor
  <2>3. refresh \in Reader(0)
    BY <2>2 DEF PanelInit
  <2>4. view \in {"chat", "system"} /\ wire = <<>> /\ poll = None
    BY PanelAssumption DEF PanelInit
  <2>5. sequence = 0 /\ asked = 0 /\ needsSnapshot = FALSE /\ (request # None => request = 0)
    BY DEF PanelInit
  <2>6. wire \in Seq(Envelope(0))
    BY <2>4
  <2>7. 0 \in Cursor(0) /\ FALSE \in BOOLEAN
    BY DEF Cursor
  <2> QED BY <2>1, <2>3, <2>4, <2>5, <2>6, <2>7 DEF PanelType
<1> QED BY <1>1, <1>2, <1>3 DEF TypeInv

\* The facts about what a step leaves alone.
LEMMA TypesStay ==
    ASSUME TypeInv
    PROVE  /\ UNCHANGED journalVars => JournalType'
           /\ UNCHANGED <<written, cursor, saved, history, answer, sub>> => BrokerType' /\ HistoryInv'
           /\ UNCHANGED <<written, panelVars>> => PanelType'
<1>1. UNCHANGED journalVars => JournalType'
  BY DEF TypeInv, JournalType, journalVars
<1>2. UNCHANGED <<written, cursor, saved, history, answer, sub>> => BrokerType' /\ HistoryInv'
  BY DEF TypeInv, BrokerType, HistoryInv
<1>3. UNCHANGED <<written, panelVars>> => PanelType'
  BY DEF TypeInv, PanelType, panelVars
<1> QED BY <1>1, <1>2, <1>3

\* More is written: everything that was a cursor still is.
LEMMA WriteTypes ==
    ASSUME TypeInv, NEW s \in Scope, Write(s)
    PROVE  TypeInv'
<1> DEFINE n == Len(written)
<1>1. written' = Append(written, s) /\ n < MaxEvents /\ UNCHANGED <<brokerVars, panelVars>>
  BY DEF Write, WriteEvent
<1>2. /\ written \in Seq(Scope) /\ n \in Nat /\ written' \in Seq(Scope) /\ Len(written') = n + 1
      /\ Len(written') <= MaxEvents
  BY <1>1, JournalAssumption, JournalFacts DEF TypeInv, JournalType
<1>3. /\ Cursor(n) \subseteq Cursor(n + 1) /\ 1..n \subseteq 1..(n + 1)
      /\ Envelope(n) \subseteq Envelope(n + 1) /\ Page(n) \subseteq Page(n + 1)
      /\ Reader(n) \subseteq Reader(n + 1) /\ Subscription(n) \subseteq Subscription(n + 1)
      /\ Seq(Envelope(n)) \subseteq Seq(Envelope(n + 1)) /\ Seq(1..n) \subseteq Seq(1..(n + 1))
  <2> HIDE DEF n
  <2> QED BY <1>2, Growth
<1>4. JournalType'
  <2> DEFINE full == Cardinality(Retained(s)) = MaxRetained
             oldest == Min(Retained(s))
  <2>1. /\ minimum' = IF full THEN [minimum EXCEPT ![s] = oldest] ELSE minimum
        /\ snapshot' = IF full THEN [snapshot EXCEPT ![s] = n + 1] ELSE snapshot
    BY DEF Write, WriteEvent
  <2>2. full => oldest \in Cursor(n + 1)
    <3> SUFFICES ASSUME full PROVE oldest \in Cursor(n + 1)
      OBVIOUS
    <3>1. Retained(s) \subseteq 1..n /\ Retained(s) \subseteq Nat
      BY JournalFacts DEF TypeInv
    <3>2. Retained(s) # {}
      BY FS_EmptySet, JournalAssumption
    <3>3. oldest \in Retained(s)
      BY <3>1, <3>2, LeastOf
    <3> QED BY <1>2, <3>1, <3>3 DEF Cursor
  <2>3. n + 1 \in Cursor(n + 1)
    BY <1>2 DEF Cursor
  <2>4. minimum \in [Scope -> Cursor(n + 1)] /\ snapshot \in [Scope -> Cursor(n + 1)]
    BY <1>3 DEF TypeInv, JournalType
  <2> HIDE DEF full, oldest, n
  <2>5. minimum' \in [Scope -> Cursor(n + 1)] /\ snapshot' \in [Scope -> Cursor(n + 1)]
    BY <2>1, <2>2, <2>3, <2>4
  <2> QED BY <1>2, <2>5 DEF JournalType, n
<1>5. BrokerType'
  <2> HIDE DEF n
  <2> QED BY <1>1, <1>2, <1>3 DEF TypeInv, BrokerType, brokerVars, n
<1>6. PanelType'
  <2> HIDE DEF n
  <2> QED BY <1>1, <1>2, <1>3 DEF TypeInv, PanelType, panelVars, n
<1>7. HistoryInv'
  BY <1>1 DEF TypeInv, HistoryInv, brokerVars
<1> QED BY <1>4, <1>5, <1>6, <1>7 DEF TypeInv

LEMMA PurgeTypes ==
    ASSUME TypeInv, NEW s \in Chats \ Wanted, Purge(s)
    PROVE  TypeInv'
<1> DEFINE n == Len(written)
           newest == Max(Retained(s))
<1>1. UNCHANGED <<written, brokerVars, panelVars>>
  BY DEF Purge, PurgeThread
<1>2. s \in Scope /\ n \in Nat /\ newest \in 0..n
  <2>1. s \in Scope /\ n \in Nat /\ Retained(s) \subseteq 1..n /\ Retained(s) # {}
    BY JournalAssumption, JournalFacts DEF TypeInv, Purge, PurgeThread
  <2>2. Retained(s) \subseteq 0..n
    BY <2>1
  <2>3. newest \in Retained(s)
    BY <2>1, <2>2, GreatestOf
  <2> QED BY <2>1, <2>2, <2>3
<1>3. JournalType'
  <2>1. /\ minimum' = [minimum EXCEPT ![s] = newest]
        /\ snapshot' = [snapshot EXCEPT ![s] = Larger(@, newest)]
    BY DEF Purge, PurgeThread
  <2>2. /\ written \in Seq(Scope) /\ n <= MaxEvents
        /\ minimum \in [Scope -> 0..n] /\ snapshot \in [Scope -> 0..n]
    BY DEF TypeInv, JournalType, Cursor
  <2>3. Larger(snapshot[s], newest) \in 0..n
    <3>1. snapshot[s] \in 0..n
      BY <1>2, <2>2
    <3> HIDE DEF newest, n
    <3> QED BY <1>2, <3>1, LargerIs
  <2> HIDE DEF newest, n
  <2>4. minimum' \in [Scope -> 0..n] /\ snapshot' \in [Scope -> 0..n]
    BY <1>2, <2>1, <2>2, <2>3
  <2> QED BY <1>1, <2>2, <2>4 DEF JournalType, Cursor, n
<1>4. BrokerType' /\ HistoryInv' /\ PanelType'
  BY <1>1, TypesStay DEF brokerVars
<1> QED BY <1>3, <1>4 DEF TypeInv

\* While a page is consumed its next event follows the cursor at once.
LEMMA FreshIs ==
    ASSUME TypeInv
    PROVE  /\ Fresh # {} => Current \in Fresh /\ Current \in 1..Len(written) /\ Current > cursor
           /\ Fresh # {} /\ ~Gap => Current = cursor + 1
<1>1. Fresh \subseteq 1..Len(written) /\ Fresh \subseteq Nat /\ cursor \in Nat /\ \A c \in Fresh : c > cursor
  BY JournalFacts DEF TypeInv, BrokerType, Fresh, Page, Cursor
<1>2. Fresh # {} => Min(Fresh) \in Fresh
  BY <1>1, LeastOf
<1>3. Fresh # {} => Min(Fresh) \in 1..Len(written) /\ Min(Fresh) \in Nat /\ Min(Fresh) > cursor
  BY <1>1, <1>2
<1>4. Fresh # {} /\ ~Gap => ~(Min(Fresh) > cursor + 1)
  BY DEF Gap
<1> DEFINE least == Min(Fresh)
<1>5. Fresh # {} /\ ~Gap => least = cursor + 1
  <2> SUFFICES ASSUME Fresh # {}, ~Gap PROVE least = cursor + 1
    OBVIOUS
  <2>1. least \in Nat /\ least > cursor /\ ~(least > cursor + 1)
    BY <1>3, <1>4
  <2> HIDE DEF least
  <2> QED BY <1>1, <2>1
<1> QED BY <1>2, <1>3, <1>5 DEF Current

\* A publication, by whatever name, puts or closes.
LEMMA PublicationIs ==
    ASSUME NEW e
    PROVE  PublishEnvelope(e) \/ PublishSnapshot(e) =>
             \/ Live /\ sub' \in {Put(sub, e), Closed(sub, e)}
             \/ ~Live /\ sub' = sub
BY DEF PublishEnvelope, PublishSnapshot

\* What the broker does to its cursor and to the subscription.
BrokerMove ==
    \/ cursor' = cursor /\ sub' = sub /\ (phase = "gap" => phase' = "gap")
    \/ phase' = "gap" /\ sub' = sub
    \/ /\ cursor' = cursor
       /\ \E e \in Envelope(Len(written)) : e.kind # "event" /\ Told(e)
       /\ phase # "gap" \/ sub' = None \/ ~sub'.open
    \/ /\ cursor' = cursor + 1 /\ phase # "gap"
       /\ IF Live /\ Matches(sub, cursor') THEN Told(Event(cursor')) ELSE sub' = sub

LEMMA HomeAssistantIs ==
    ASSUME TypeInv, HomeAssistant
    PROVE  TypeInv' /\ BrokerMove
           /\ UNCHANGED <<journalVars, panelVars>>
           /\ (Live => sub' = sub \/ (sub'.after = sub.after /\ sub'.scopes = sub.scopes))
           /\ (~Live => sub' = sub)
<1> DEFINE n == Len(written)
<1>1. n \in Nat /\ cursor \in Cursor(n) /\ BrokerType /\ JournalType
  BY JournalFacts DEF TypeInv, BrokerType
<1>2. UNCHANGED <<journalVars, panelVars>>
  BY DEF HomeAssistant, Fetch, FetchNothing, FetchFails, FetchRefused, SkipGap, AnnounceGap,
         SaveReceipt, Fire, ListenerFails, ConsumeEvent, FinishPage
<1>3. UNCHANGED written /\ JournalType' /\ PanelType'
  BY <1>2, TypesStay DEF journalVars
<1>4. ASSUME UNCHANGED <<cursor, saved, history, answer, sub>> PROVE BrokerType' /\ HistoryInv'
  BY <1>3, <1>4, TypesStay
<1>5. ASSUME NEW e \in Envelope(n), e.kind # "event", cursor' = cursor, saved' \in {saved, cursor'},
             UNCHANGED history, answer' \in {answer, NoAnswer},
             PublishEnvelope(e) \/ PublishSnapshot(e)
      PROVE  /\ BrokerType' /\ HistoryInv' /\ Told(e)
             /\ Live => sub'.after = sub.after /\ sub'.scopes = sub.scopes
             /\ ~Live => sub' = sub
  <2>1. \/ Live /\ sub' \in {Put(sub, e), Closed(sub, e)}
        \/ ~Live /\ sub' = sub
    BY <1>5, PublicationIs
  <2>2. /\ sub' # None => sub' \in Subscription(n)
        /\ Live => sub'.after = sub.after /\ sub'.scopes = sub.scopes
        /\ Told(e)
    <3>1. cursor' \in Cursor(n)
      BY <1>1, <1>5
    <3> QED BY <1>1, <1>5, <2>1, <3>1, PublishIs
  <2>3. NoAnswer \in Page(n) /\ NoAnswer.events = {}
    BY <1>1 DEF NoAnswer, Page, Cursor
  <2>4. BrokerType'
    BY <1>1, <1>3, <1>5, <2>2, <2>3 DEF BrokerType
  <2>5. HistoryInv'
    BY <1>5 DEF TypeInv, HistoryInv
  <2> QED BY <2>1, <2>2, <2>4, <2>5
<1>6. CASE Fetch
  <2>1. Replay(cursor, Scope) \in Page(n) /\ (answer'.events # {} => answer'.next \in answer'.events)
    BY <1>1, <1>6, ReplayIs DEF Fetch
  <2>2. UNCHANGED <<cursor, saved, history, sub>> /\ answer' = Replay(cursor, Scope) /\ phase = "idle"
    BY <1>6 DEF Fetch
  <2>3. BrokerType'
    BY <1>1, <1>3, <2>1, <2>2 DEF BrokerType
  <2>4. HistoryInv' /\ BrokerMove
    BY <2>2 DEF TypeInv, HistoryInv, BrokerMove
  <2> QED BY <1>2, <1>3, <2>2, <2>3, <2>4 DEF TypeInv
<1>7. CASE FetchNothing
  <2>1. Heartbeat \in Envelope(n) /\ Heartbeat.kind # "event"
    BY <1>1, EnvelopesAre DEF Heartbeat
  <2>2. /\ BrokerType' /\ HistoryInv' /\ Told(Heartbeat)
        /\ Live => sub'.after = sub.after /\ sub'.scopes = sub.scopes
        /\ ~Live => sub' = sub
    BY <1>5, <1>7, <2>1 DEF FetchNothing
  <2>3. cursor' = cursor /\ phase = "idle"
    BY <1>7 DEF FetchNothing
  <2> QED BY <1>2, <1>3, <2>1, <2>2, <2>3 DEF TypeInv, BrokerMove
<1>8. CASE FetchFails
  <2>1. Status(FALSE) \in Envelope(n) /\ Status(FALSE).kind # "event"
    BY <1>1, EnvelopesAre DEF Status
  <2>2. /\ BrokerType' /\ HistoryInv' /\ Told(Status(FALSE))
        /\ Live => sub'.after = sub.after /\ sub'.scopes = sub.scopes
        /\ ~Live => sub' = sub
    BY <1>5, <1>8, <2>1 DEF FetchFails
  <2>3. cursor' = cursor /\ phase = "idle"
    BY <1>8 DEF FetchFails
  <2> QED BY <1>2, <1>3, <2>1, <2>2, <2>3 DEF TypeInv, BrokerMove
<1>9. CASE FetchRefused
  <2>1. Status(TRUE) \in Envelope(n) /\ Status(TRUE).kind # "event"
    BY <1>1, EnvelopesAre DEF Status
  <2>2. /\ BrokerType' /\ HistoryInv' /\ Told(Status(TRUE))
        /\ Live => sub'.after = sub.after /\ sub'.scopes = sub.scopes
        /\ ~Live => sub' = sub
    BY <1>5, <1>9, <2>1 DEF FetchRefused
  <2>3. cursor' = cursor /\ phase = "idle"
    BY <1>9 DEF FetchRefused
  <2> QED BY <1>2, <1>3, <2>1, <2>2, <2>3 DEF TypeInv, BrokerMove
<1>10. CASE SkipGap
  <2>1. {cursor, answer.floor, answer.next} \subseteq 0..n
    BY <1>1 DEF BrokerType, Page, Cursor
  <2>2. Max({cursor, answer.floor, answer.next}) \in Cursor(n)
    <3> DEFINE S == {cursor, answer.floor, answer.next}
    <3>1. S # {}
      OBVIOUS
    <3> HIDE DEF S
    <3>2. Max(S) \in S
      BY <1>1, <2>1, <3>1, GreatestOf DEF S
    <3> QED BY <2>1, <3>2 DEF S, Cursor
  <2>3. cursor' \in Cursor(n) /\ history' = <<>> /\ UNCHANGED <<saved, answer, sub>> /\ phase' = "gap"
    BY <1>10, <2>2 DEF SkipGap
  <2>4. BrokerType'
    BY <1>1, <1>3, <2>3 DEF BrokerType
  <2>5. HistoryInv' /\ BrokerMove
    BY <2>3 DEF HistoryInv, BrokerMove
  <2> QED BY <1>2, <1>3, <2>3, <2>4, <2>5 DEF TypeInv
<1>11. CASE AnnounceGap
  <2>1. SnapshotRequired(cursor) \in Envelope(n) /\ SnapshotRequired(cursor).kind # "event"
    BY <1>1, EnvelopesAre DEF SnapshotRequired
  <2>2. /\ cursor' = cursor /\ saved' \in {saved, cursor'} /\ UNCHANGED history
        /\ answer' = NoAnswer /\ PublishSnapshot(SnapshotRequired(cursor))
    BY <1>11 DEF AnnounceGap, Persist
  <2>3. /\ BrokerType' /\ HistoryInv' /\ Told(SnapshotRequired(cursor))
        /\ Live => sub'.after = sub.after /\ sub'.scopes = sub.scopes
        /\ ~Live => sub' = sub
    BY <1>5, <2>1, <2>2
  <2>4. sub' = None \/ ~sub'.open
    <3>1. CASE Live
      <4>1. sub \in Subscription(n)
        BY <1>1, <3>1 DEF BrokerType, Live
      <4>2. sub' = Closed(sub, SnapshotRequired(cursor))
        BY <2>2, <3>1 DEF PublishSnapshot
      <4> QED BY <1>1, <2>1, <4>1, <4>2, ClosedIs
    <3>2. CASE ~Live
      BY <2>3, <3>2 DEF Live
    <3> QED BY <3>1, <3>2
  <2> QED BY <1>2, <1>3, <2>1, <2>2, <2>3, <2>4 DEF TypeInv, BrokerMove
<1>12. CASE SaveReceipt
  <2>1. UNCHANGED <<cursor, saved, history, answer, sub>> /\ phase = "consuming"
    BY <1>12 DEF SaveReceipt
  <2> QED BY <1>2, <1>3, <1>4, <2>1 DEF TypeInv, BrokerMove
<1>13. CASE Fire
  <2>1. UNCHANGED <<cursor, saved, history, answer, sub>> /\ phase = "firing"
    BY <1>13 DEF Fire
  <2> QED BY <1>2, <1>3, <1>4, <2>1 DEF TypeInv, BrokerMove
<1>14. CASE ListenerFails
  <2>1. Status(FALSE) \in Envelope(n) /\ Status(FALSE).kind # "event"
    BY <1>1, EnvelopesAre DEF Status
  <2>2. /\ BrokerType' /\ HistoryInv' /\ Told(Status(FALSE))
        /\ Live => sub'.after = sub.after /\ sub'.scopes = sub.scopes
        /\ ~Live => sub' = sub
    BY <1>5, <1>14, <2>1 DEF ListenerFails
  <2>3. cursor' = cursor /\ phase = "consuming"
    BY <1>14 DEF ListenerFails
  <2> QED BY <1>2, <1>3, <2>1, <2>2, <2>3 DEF TypeInv, BrokerMove
<1>15. CASE ConsumeEvent
  <2>1. /\ cursor' = Current /\ Remember(Current) /\ PublishEvent(Current)
        /\ Fresh # {} /\ ~Gap /\ phase = "consuming" /\ UNCHANGED <<saved, answer>>
    BY <1>15 DEF ConsumeEvent
  <2>2. cursor' = cursor + 1 /\ cursor' \in 1..n /\ cursor \in Nat
    BY <1>1, <2>1, FreshIs DEF Cursor
  <2>3. Event(cursor') \in Envelope(n) /\ cursor' \in Cursor(n)
    BY <1>1, <2>2, EnvelopesAre DEF Cursor
  <2>4. /\ sub' # None => sub' \in Subscription(n)
        /\ Live => sub' = sub \/ (sub'.after = sub.after /\ sub'.scopes = sub.scopes)
        /\ ~Live => sub' = sub
        /\ IF Live /\ Matches(sub, cursor') THEN Told(Event(cursor')) ELSE sub' = sub
    <3>1. CASE Live /\ Matches(sub, cursor')
      <4>1. sub' = Put(sub, Event(cursor'))
        BY <2>1, <3>1 DEF PublishEvent
      <4> QED BY <1>1, <2>3, <3>1, <4>1, PublishIs
    <3>2. CASE ~(Live /\ Matches(sub, cursor'))
      <4>1. sub' = sub
        BY <2>1, <3>2 DEF PublishEvent
      <4> QED BY <1>1, <3>2, <4>1 DEF BrokerType
    <3> QED BY <3>1, <3>2
  <2>5. history' \in Seq(1..n) /\ HistoryInv'
    <3> DEFINE h == IF Len(history) >= HistorySize THEN Tail(history) ELSE history
    <3>1. history' = Append(h, cursor')
      BY <2>1 DEF Remember
    <3>2. history \in Seq(1..n) /\ \A i \in 1..Len(history) : history[i] + Len(history) = cursor + i
      BY <1>1 DEF TypeInv, BrokerType, HistoryInv
    <3>3. h \in Seq(1..n) /\ \A i \in 1..Len(h) : h[i] + Len(h) = cursor + i
      <4>1. CASE Len(history) >= HistorySize
        <5>1. history # <<>> /\ h = Tail(history)
          BY <3>2, <4>1, BrokerAssumption
        <5>2. Tail(history) \in Seq(1..n) /\ Len(Tail(history)) = Len(history) - 1
          BY <3>2, <5>1
        <5>3. ASSUME NEW i \in 1..Len(Tail(history))
              PROVE  Tail(history)[i] + Len(Tail(history)) = cursor + i
          <6>1. Tail(history)[i] = history[i + 1] /\ i + 1 \in 1..Len(history) /\ Len(history) \in Nat
            <7>1. Len(history) \in Nat /\ i \in 1..(Len(history) - 1)
              BY <3>2, <5>2, <5>3
            <7>2. Tail(history)[i] = history[i + 1]
              BY <3>2, <5>1, <7>1
            <7> QED BY <7>1, <7>2
          <6>2. history[i + 1] + Len(history) = cursor + (i + 1) /\ history[i + 1] \in Nat
            BY <3>2, <6>1
          <6>3. Len(Tail(history)) = Len(history) - 1 /\ Len(history) \in Nat /\ i \in Nat
            BY <5>2, <6>1
          <6>4. history[i + 1] + (Len(history) - 1) = cursor + i
            BY <2>2, <6>2, <6>3, UpAndDown
          <6> QED BY <6>1, <6>3, <6>4
        <5> HIDE DEF h
        <5> QED BY <5>1, <5>2, <5>3
      <4>2. CASE ~(Len(history) >= HistorySize)
        BY <3>2, <4>2
      <4> QED BY <4>1, <4>2
    <3> HIDE DEF h
    <3>4. history' \in Seq(1..n) /\ Len(history') = Len(h) + 1 /\ Len(h) \in Nat
      BY <2>2, <3>1, <3>3
    <3>5. ASSUME NEW i \in 1..(Len(h) + 1)
          PROVE  history'[i] + (Len(h) + 1) = cursor' + i
      <4>1. CASE i = Len(h) + 1
        <5>1. history'[i] = cursor'
          BY <3>1, <3>3, <3>4, <4>1
        <5> QED BY <2>2, <3>4, <4>1, <5>1
      <4>2. CASE i \in 1..Len(h)
        <5>1. history'[i] = h[i] /\ h[i] \in Nat /\ h[i] + Len(h) = cursor + i
          BY <2>2, <3>1, <3>3, <3>4, <4>2
        <5>2. h[i] + (Len(h) + 1) = (cursor + 1) + i
          <6>1. h[i] \in Nat /\ Len(h) \in Nat /\ cursor \in Nat /\ i \in Nat
            BY <2>2, <3>4, <4>2, <5>1
          <6> QED BY <5>1, <6>1, BothUp
        <5> QED BY <2>2, <5>1, <5>2
      <4> QED BY <3>4, <3>5, <4>1, <4>2
    <3> QED BY <3>4, <3>5 DEF HistoryInv
  <2>6. BrokerType'
    BY <1>1, <1>3, <2>1, <2>3, <2>4, <2>5 DEF BrokerType
  <2>7. BrokerMove
    <3>1. phase # "gap"
      BY <2>1
    <3> QED BY <2>2, <2>4, <3>1 DEF BrokerMove
  <2> QED BY <1>2, <1>3, <2>4, <2>5, <2>6, <2>7 DEF TypeInv
<1>16. CASE FinishPage
  <2>1. /\ phase = "consuming" /\ ~Gap /\ Fresh = {} /\ cursor' = Larger(cursor, answer.next)
        /\ saved' \in {saved, cursor'} /\ answer' = NoAnswer /\ UNCHANGED <<history, sub>>
    BY <1>16 DEF FinishPage, Persist
  <2>2. answer \in Page(n) /\ (answer.events # {} => answer.next \in answer.events)
    BY <1>1 DEF BrokerType
  <2>3. answer.next \in Nat /\ cursor \in Nat /\ ~(answer.next > cursor)
    <3>1. answer.next \in Nat /\ cursor \in Nat
      BY <1>1, <2>2 DEF Page, Cursor
    <3>2. CASE answer.events = {}
      BY <2>1, <3>1, <3>2 DEF Gap
    <3>3. CASE answer.events # {}
      BY <2>1, <2>2, <3>1, <3>3 DEF Fresh
    <3> QED BY <3>1, <3>2, <3>3
  <2>4. cursor' = cursor
    BY <2>1, <2>3 DEF Larger
  <2>5. NoAnswer \in Page(n) /\ NoAnswer.events = {}
    BY <1>1 DEF NoAnswer, Page, Cursor
  <2>6. BrokerType'
    BY <1>1, <1>3, <2>1, <2>4, <2>5 DEF BrokerType
  <2>7. HistoryInv' /\ BrokerMove
    BY <2>1, <2>4 DEF TypeInv, HistoryInv, BrokerMove
  <2> QED BY <1>2, <1>3, <2>1, <2>6, <2>7 DEF TypeInv
<1> QED
  BY <1>6, <1>7, <1>8, <1>9, <1>10, <1>11, <1>12, <1>13, <1>14, <1>15, <1>16 DEF HomeAssistant

LEMMA SubscriptionEnds ==
    ASSUME TypeInv, UNCHANGED <<written, cursor, saved, history, answer>>, sub' \in {sub, None}
    PROVE  BrokerType' /\ HistoryInv'
BY DEF TypeInv, BrokerType, HistoryInv

LEMMA RestartTypes ==
    ASSUME TypeInv, RestartHomeAssistant
    PROVE  TypeInv'
<1> DEFINE n == Len(written)
<1>1. /\ n \in Nat /\ cursor' \in {saved, 0} /\ history' = <<>> /\ answer' = NoAnswer
      /\ sub' = None /\ UNCHANGED <<journalVars, saved>>
  BY JournalFacts DEF TypeInv, RestartHomeAssistant, Restart
<1>2. JournalType'
  BY <1>1, TypesStay
<1>3. BrokerType' /\ HistoryInv'
  <2>1. NoAnswer \in Page(n) /\ NoAnswer.events = {} /\ 0 \in Cursor(n)
    BY <1>1 DEF NoAnswer, Page, Cursor
  <2>2. history' \in Seq(1..n)
    BY <1>1
  <2>3. UNCHANGED written /\ BrokerType
    BY <1>1 DEF TypeInv, journalVars
  <2>4. BrokerType'
    BY <1>1, <2>1, <2>2, <2>3 DEF BrokerType
  <2> QED BY <1>1, <2>4 DEF HistoryInv
<1>4. PanelType'
  <2>1. wire' = <<>> /\ wire' \in Seq(Envelope(n))
    BY DEF RestartHomeAssistant, LoseConnection
  <2>2. request' # None => request' = asked
    BY DEF RestartHomeAssistant, LoseConnection
  <2>3. (refresh' # None => refresh' = refresh) /\ (poll' # None => poll' = poll)
    BY DEF RestartHomeAssistant, Settle
  <2>4. UNCHANGED <<written, view, sequence, needsSnapshot, asked>>
    BY <1>1 DEF RestartHomeAssistant, journalVars
  <2> QED BY <2>1, <2>2, <2>3, <2>4 DEF TypeInv, PanelType
<1> QED BY <1>2, <1>3, <1>4 DEF TypeInv

\* A subscription is opened behind the cursor the panel asked for.
LEMMA OpenTypes ==
    ASSUME TypeInv, OpenSubscription
    PROVE  TypeInv'
<1>1. /\ request # None /\ sub' = WithHistory([after |-> request, scopes |-> Wanted,
                                               open |-> TRUE, queue |-> <<>>])
      /\ request' = None
      /\ UNCHANGED <<journalVars, cursor, saved, history, answer, view, sequence, needsSnapshot,
                     asked, wire, refresh, poll>>
  BY DEF OpenSubscription, Subscribe
<1>2. request \in Cursor(Len(written)) /\ Wanted \in {{Chat}, {System}}
  BY <1>1 DEF TypeInv, PanelType, Wanted
<1>3. sub' \in Subscription(Len(written))
  <2>1. JournalType /\ BrokerType /\ HistoryInv
    BY DEF TypeInv
  <2>2. PicksUp(sub', request, Wanted)
    BY <1>1, <1>2, <2>1, WithHistoryIs
  <2> QED BY <2>2 DEF PicksUp
<1>4. JournalType' /\ HistoryInv'
  BY <1>1, TypesStay DEF TypeInv, HistoryInv
<1>5. BrokerType' /\ PanelType'
  <2>1. UNCHANGED written
    BY <1>1 DEF journalVars
  <2> QED BY <1>1, <1>3, <2>1 DEF TypeInv, BrokerType, PanelType
<1> QED BY <1>4, <1>5 DEF TypeInv

LEMMA ForwardTypes ==
    ASSUME TypeInv, Forward
    PROVE  /\ TypeInv'
           /\ sub # None /\ sub.queue \in Seq(Envelope(Len(written))) /\ sub.queue # <<>>
           /\ wire \in Seq(Envelope(Len(written)))
           /\ UNCHANGED <<journalVars, cursor, saved, history, phase, answer, receipt, fired,
                          view, shown, sequence, needsSnapshot, link, asked, request, refresh,
                          poll>>
           /\ wire' = IF Head(sub.queue) = Heartbeat THEN wire ELSE Append(wire, Head(sub.queue))
           /\ ~sub.open => sub' = None
           /\ sub.open => /\ sub'.open /\ sub'.queue = Tail(sub.queue)
                          /\ sub'.after = sub.after /\ sub'.scopes = sub.scopes
<1> DEFINE n == Len(written)
           q == sub.queue
<1>1. /\ sub # None /\ q # <<>>
      /\ sub' = IF ~sub.open THEN None ELSE [sub EXCEPT !.queue = Tail(@)]
      /\ wire' = IF Head(q) = Heartbeat THEN wire ELSE Append(wire, Head(q))
      /\ UNCHANGED <<journalVars, cursor, saved, history, phase, answer, receipt, fired,
                     view, shown, sequence, needsSnapshot, link, asked, request, refresh, poll>>
  BY DEF Forward
<1>2. sub \in Subscription(n) /\ wire \in Seq(Envelope(n)) /\ UNCHANGED written
  BY <1>1 DEF TypeInv, BrokerType, PanelType, journalVars
<1>3. q \in Seq(Envelope(n))
  BY <1>2 DEF Subscription
<1>4. Head(q) \in Envelope(n) /\ Tail(q) \in Seq(Envelope(n))
  <2> HIDE DEF q, n
  <2> QED BY <1>1, <1>3
<1>5. wire' \in Seq(Envelope(n))
  <2> HIDE DEF q, n
  <2> QED BY <1>1, <1>2, <1>4
<1>6. sub.open => /\ sub' = [sub EXCEPT !.queue = Tail(q)]
                  /\ sub' \in Subscription(n) /\ sub'.open /\ sub'.queue = Tail(q)
                  /\ sub'.after = sub.after /\ sub'.scopes = sub.scopes
  <2> SUFFICES ASSUME sub.open
               PROVE  /\ sub' = [sub EXCEPT !.queue = Tail(q)]
                      /\ sub' \in Subscription(n) /\ sub'.open /\ sub'.queue = Tail(q)
                      /\ sub'.after = sub.after /\ sub'.scopes = sub.scopes
    OBVIOUS
  <2>1. sub' = [sub EXCEPT !.queue = Tail(q)]
    BY <1>1
  <2> DEFINE rest == Tail(q)
  <2>2. sub' = [sub EXCEPT !.queue = rest] /\ rest \in Seq(Envelope(n))
    BY <1>4, <2>1
  <2> HIDE DEF rest, q, n
  <2> QED BY <1>2, <2>2 DEF Subscription, rest, q
<1>7. ~sub.open => sub' = None
  BY <1>1
<1>8. TypeInv'
  <2>1. JournalType' /\ HistoryInv'
    BY <1>1, TypesStay DEF TypeInv, HistoryInv
  <2>2. sub' # None => sub' \in Subscription(n)
    BY <1>6, <1>7
  <2>3. BrokerType' /\ PanelType'
    <3> HIDE DEF n, q
    <3> QED BY <1>1, <1>2, <1>5, <2>2 DEF TypeInv, BrokerType, PanelType, n
  <2> QED BY <2>1, <2>3 DEF TypeInv
<1> QED BY <1>1, <1>2, <1>3, <1>6, <1>7, <1>8

\* The actions of the panel alone: they end the subscription or leave it.
PanelAlone ==
    \/ RefuseSubscription \/ Linked \/ Reconnect \/ Disconnect \/ ReceiveChat \/ ReceiveSystem
    \/ ReadSystem \/ ReadSystemFails \/ Select \/ UserRefresh \/ LoadPage \/ Commit
    \/ RefreshFails \/ Poll \/ PollFails

LEMMA ReadingIs ==
    ASSUME NEW n \in Nat, NEW floor \in Cursor(n),
           NEW by \in {"select", "event", "user", "poll", "system"}
    PROVE  Reading(by, floor) \in Reader(n) /\ Reading(by, floor) # None
<1>1. Reading(by, floor) \in Reader(n)
  BY DEF Reading, Reader, Cursor
<1>2. Reader(n) \subseteq [by : {"select", "event", "user", "poll", "system"}, floor : Nat, at : Nat,
                           got : SUBSET Nat, ready : BOOLEAN]
  BY DEF Reader, Cursor
<1> QED BY <1>1, <1>2, PanelAssumption

LEMMA AloneFrame ==
    ASSUME PanelAlone
    PROVE  /\ UNCHANGED <<journalVars, cursor, saved, history, phase, answer, receipt, fired, view>>
           /\ sub' \in {sub, None}
BY DEF PanelAlone, RefuseSubscription, Linked, Reconnect, Start, Disconnect, ReceiveChat,
       AcceptEvent, AcceptControl, Ignore, Stop, ReceiveSystem, ReadSystem, ReadSystemFails,
       Select, UserRefresh,
       LoadPage, Commit, RefreshFails, Poll, TickSnapshot, TickEvents, TickLinked, ApplyEvents,
       ApplyGap, PollFails, brokerVars, brokerOnly

LEMMA ConnectTypes ==
    ASSUME TypeInv, RefuseSubscription \/ Linked \/ Reconnect \/ Disconnect, UNCHANGED written
    PROVE  PanelType'
<1> DEFINE n == Len(written)
<1>1. PanelType /\ <<>> \in Seq(Envelope(n))
  BY DEF TypeInv
<1>2. CASE RefuseSubscription \/ Linked
  BY <1>1, <1>2 DEF PanelType, RefuseSubscription, Linked
<1>3. CASE Reconnect
  BY <1>1, <1>3 DEF PanelType, Reconnect, Start
<1>4. CASE Disconnect
  BY <1>1, <1>4 DEF PanelType, Disconnect, LoseConnection
<1> QED BY <1>2, <1>3, <1>4

LEMMA ReceiveTypes ==
    ASSUME TypeInv, ReceiveChat \/ ReceiveSystem, UNCHANGED written
    PROVE  /\ PanelType'
           /\ wire # <<>> /\ Head(wire) \in Envelope(Len(written)) /\ Head(wire).at \in Cursor(Len(written))
<1> DEFINE n == Len(written)
           e == Head(wire)
<1>1. PanelType /\ <<>> \in Seq(Envelope(n)) /\ n \in Nat /\ wire # <<>> /\ wire \in Seq(Envelope(n))
  <2>1. PanelType /\ n \in Nat
    BY JournalFacts DEF TypeInv
  <2>2. wire # <<>>
    BY DEF ReceiveChat, ReceiveSystem
  <2>3. <<>> \in Seq(Envelope(n))
    OBVIOUS
  <2>4. wire \in Seq(Envelope(n))
    BY <2>1 DEF PanelType
  <2> QED BY <2>1, <2>2, <2>3, <2>4
<1>2. e \in Envelope(n) /\ Tail(wire) \in Seq(Envelope(n))
  <2> HIDE DEF n
  <2> QED BY <1>1
<1>3. e.at \in Cursor(n) /\ sequence \in Cursor(n)
  BY <1>1, <1>2 DEF Envelope, PanelType
<1> HIDE DEF e, n
<1>4. PanelType'
  <2>1. CASE ReceiveChat /\ AcceptEvent(e)
    BY <1>1, <1>2, <1>3, <2>1 DEF PanelType, AcceptEvent, Settle, n
  <2>2. CASE ReceiveChat /\ AcceptControl(e)
    <3>1. sequence' \in Cursor(n)
      BY <1>3, <2>2 DEF AcceptControl
    <3>2. refresh' = Reading("event", sequence') /\ refresh' \in Reader(n)
      <4>1. refresh' = Reading("event", sequence')
        BY <2>2 DEF AcceptControl, Read
      <4> QED BY <1>1, <3>1, <4>1, ReadingIs
    <3>3. /\ needsSnapshot' = TRUE /\ wire' = <<>> /\ poll' = None /\ request' = None
          /\ UNCHANGED <<asked, view>>
      BY <2>2 DEF AcceptControl, Stop, Read
    <3> QED BY <1>1, <3>1, <3>2, <3>3 DEF PanelType, n
  <2>3. CASE ReceiveChat /\ Ignore(e)
    BY <1>1, <1>2, <2>3 DEF PanelType, Ignore, n
  <2>4. CASE ReceiveSystem
    <3>1. /\ view = "system" /\ sequence' = Larger(sequence, e.at)
          /\ refresh' \in {Reading("system", 0), refresh}
          /\ \/ wire' = <<>> /\ request' = None /\ UNCHANGED asked
             \/ wire' = Tail(wire) /\ UNCHANGED <<asked, request>>
          /\ UNCHANGED <<view, needsSnapshot, poll>>
      BY <2>4 DEF ReceiveSystem, Stop, e
    <3>2. sequence' \in Cursor(n)
      BY <1>1, <1>3, <3>1, LargerIs DEF Cursor
    <3>3. Reading("system", 0) \in Reader(n)
      BY <1>1, ReadingIs DEF Cursor
    <3> QED BY <1>1, <1>2, <3>1, <3>2, <3>3 DEF PanelType, n
  <2> QED BY <2>1, <2>2, <2>3, <2>4 DEF ReceiveChat, e
<1> QED BY <1>1, <1>2, <1>3, <1>4 DEF e, n

\* The sequence after a snapshot, or after a poll, is an event that it has.
LEMMA CommitIs ==
    ASSUME TypeInv, Commit
    PROVE  /\ sequence' \in Cursor(Len(written))
           /\ sequence' \in refresh.got \cup {refresh.floor}
<1> DEFINE S == refresh.got \cup {refresh.floor}
<1>1. Len(written) \in Nat /\ S \subseteq 0..Len(written) /\ S # {}
  BY JournalFacts DEF TypeInv, PanelType, Commit, Reader, Cursor
<1>2. sequence' = Max(S)
  BY DEF Commit
<1> HIDE DEF S
<1>3. Max(S) \in S
  BY <1>1, GreatestOf
<1> QED BY <1>1, <1>2, <1>3 DEF S, Cursor

LEMMA ApplyIs ==
    ASSUME TypeInv, ApplyEvents
    PROVE  /\ sequence' \in Cursor(Len(written)) /\ sequence' >= sequence
           /\ sequence' \in poll.events \cup {sequence}
<1> DEFINE S == poll.events \cup {sequence}
<1>1. Len(written) \in Nat /\ S \subseteq 0..Len(written) /\ S # {} /\ sequence \in S
  BY JournalFacts DEF TypeInv, PanelType, ApplyEvents, Page, Cursor
<1>2. sequence' = Max(S)
  BY DEF ApplyEvents
<1> HIDE DEF S
<1>3. Max(S) \in S /\ sequence <= Max(S)
  BY <1>1, GreatestOf
<1>4. sequence \in Nat /\ sequence' \in Nat /\ sequence <= sequence'
  <2> DEFINE m == Max(S)
  <2>1. m \in S /\ sequence <= m /\ sequence' = m
    BY <1>2, <1>3
  <2>2. \A x \in S : x \in Nat
    BY <1>1
  <2> HIDE DEF m
  <2> QED BY <1>1, <2>1, <2>2
<1> QED BY <1>1, <1>2, <1>3, <1>4 DEF S, Cursor

LEMMA SnapshotTypes ==
    ASSUME TypeInv, UNCHANGED written,
           Select \/ UserRefresh \/ LoadPage \/ Commit \/ RefreshFails \/ ReadSystem
           \/ ReadSystemFails
    PROVE  PanelType'
<1> DEFINE n == Len(written)
<1>1. PanelType /\ <<>> \in Seq(Envelope(n)) /\ n \in Nat /\ 0 \in Cursor(n) /\ n' = n
  BY JournalFacts DEF TypeInv, Cursor
<1> HIDE DEF n
<1>2. CASE Select
  <2>1. Reading("select", 0) \in Reader(n)
    BY <1>1, ReadingIs
  <2>2. /\ sequence' = 0 /\ needsSnapshot' = FALSE /\ wire' = <<>> /\ request' = None
        /\ refresh' = Reading("select", 0) /\ poll' = None /\ UNCHANGED <<asked, view>>
    BY <1>2 DEF Select, Stop
  <2> QED BY <1>1, <2>1, <2>2 DEF PanelType, n
<1>3. CASE UserRefresh
  <2>1. Reading("user", 0) \in Reader(n)
    BY <1>1, ReadingIs
  <2>2. /\ refresh' = Reading("user", 0) /\ poll' = None
        /\ UNCHANGED <<sequence, needsSnapshot, wire, request, asked, view>>
    BY <1>3 DEF UserRefresh, Read
  <2> QED BY <1>1, <2>1, <2>2 DEF PanelType, n
<1>4. CASE LoadPage
  <2> DEFINE page == Replay(refresh.at, {Chat})
  <2>1. refresh # None /\ refresh \in Reader(n)
    BY <1>1, <1>4 DEF LoadPage, PanelType, n
  <2>2. page \in Page(n)
    <3>1. refresh.at \in Cursor(n) /\ {Chat} \in SUBSET Scope
      BY <2>1, JournalFacts DEF Reader, TypeInv
    <3> QED BY <3>1, ReplayIs DEF TypeInv, n
  <2>3. /\ refresh' = [refresh EXCEPT !.got = @ \cup page.events,
                                      !.at = page.next, !.ready = ~page.more]
        /\ UNCHANGED <<sequence, needsSnapshot, wire, request, asked, view, poll>>
    BY <1>4 DEF LoadPage
  <2> HIDE DEF page
  <2>4. page.events \in SUBSET (1..n) /\ page.next \in Cursor(n) /\ page.more \in BOOLEAN
    BY <2>2 DEF Page
  <2>5. refresh' \in Reader(n)
    BY <2>1, <2>3, <2>4 DEF Reader
  <2> QED BY <1>1, <2>3, <2>5 DEF PanelType, n
<1>5. CASE Commit
  <2>1. sequence' \in Cursor(n)
    BY <1>5, CommitIs DEF n
  <2>2. /\ needsSnapshot' = FALSE /\ wire' = <<>> /\ request' = sequence' /\ asked' = sequence'
        /\ refresh' = None /\ poll' = None /\ UNCHANGED view
    BY <1>5 DEF Commit, Start, Settle
  <2> QED BY <1>1, <2>1, <2>2 DEF PanelType, n
<1>6. CASE RefreshFails
  BY <1>1, <1>6 DEF RefreshFails, Settle, PanelType, n
<1>7. CASE ReadSystem
  BY <1>1, <1>7 DEF ReadSystem, PanelType, n
<1>8. CASE ReadSystemFails
  <2>1. /\ refresh \in Reader(n) /\ refresh # None /\ refresh' = [refresh EXCEPT !.ready = TRUE]
        /\ UNCHANGED <<sequence, needsSnapshot, wire, request, asked, view, poll>>
    BY <1>1, <1>8 DEF ReadSystemFails, PanelType, n
  <2>2. refresh' \in Reader(n)
    BY <2>1 DEF Reader
  <2> QED BY <1>1, <2>1, <2>2 DEF PanelType, n
<1> QED BY <1>2, <1>3, <1>4, <1>5, <1>6, <1>7, <1>8

LEMMA PollTypes ==
    ASSUME TypeInv, UNCHANGED written, Poll \/ PollFails
    PROVE  PanelType'
<1> DEFINE n == Len(written)
<1>1. PanelType /\ <<>> \in Seq(Envelope(n)) /\ n \in Nat /\ n' = n /\ sequence \in Cursor(n)
  BY JournalFacts DEF TypeInv, PanelType
<1> HIDE DEF n
<1>2. CASE TickSnapshot
  <2>1. Reading("poll", sequence) \in Reader(n)
    BY <1>1, ReadingIs
  <2>2. /\ wire' = <<>> /\ request' = None /\ refresh' = Reading("poll", sequence) /\ poll' = None
        /\ UNCHANGED <<sequence, needsSnapshot, asked, view>>
    BY <1>2 DEF TickSnapshot, Stop, Read
  <2> QED BY <1>1, <2>1, <2>2 DEF PanelType, n
<1>3. CASE TickEvents
  <2>1. Replay(sequence, {Chat}) \in Page(n)
    <3>1. {Chat} \in SUBSET Scope
      BY JournalFacts DEF TypeInv
    <3> QED BY <1>1, <3>1, ReplayIs DEF TypeInv, n
  <2>2. /\ poll' = Replay(sequence, {Chat}) /\ refresh' = None /\ view = "chat"
        /\ UNCHANGED <<sequence, needsSnapshot, wire, request, asked, view>>
    BY <1>3 DEF TickEvents, MayTick
  <2> QED BY <1>1, <2>1, <2>2 DEF PanelType, n
<1>4. CASE TickLinked
  BY <1>1, <1>4 DEF TickLinked, Settle, PanelType, n
<1>5. CASE ApplyEvents
  <2>1. sequence' \in Cursor(n)
    BY <1>5, ApplyIs DEF n
  <2>2. poll' = None /\ UNCHANGED <<needsSnapshot, wire, request, asked, view, refresh>>
    BY <1>5 DEF ApplyEvents
  <2> QED BY <1>1, <2>1, <2>2 DEF PanelType, n
<1>6. CASE ApplyGap
  <2>1. sequence' \in Cursor(n)
    <3>1. poll.next \in Cursor(n) /\ poll.floor \in Cursor(n)
      BY <1>1, <1>6 DEF ApplyGap, PanelType, Page, n
    <3>2. sequence' = Larger(poll.next, poll.floor)
      BY <1>6 DEF ApplyGap
    <3> QED BY <1>1, <3>1, <3>2, LargerIs DEF Cursor
  <2>2. /\ wire' = <<>> /\ request' = None /\ refresh' = Reading("poll", sequence') /\ poll' = None
        /\ needsSnapshot' = TRUE /\ UNCHANGED <<asked, view>>
    BY <1>6 DEF ApplyGap, Stop, Read
  <2>3. Reading("poll", sequence') \in Reader(n)
    BY <1>1, <2>1, ReadingIs
  <2> QED BY <1>1, <2>1, <2>2, <2>3 DEF PanelType, n
<1>7. CASE PollFails
  BY <1>1, <1>7 DEF PollFails, PanelType, n
<1> QED BY <1>2, <1>3, <1>4, <1>5, <1>6, <1>7 DEF Poll

LEMMA TypeNext == TypeInv /\ [PanelNext]_vars => TypeInv'
<1> SUFFICES ASSUME TypeInv, [PanelNext]_vars PROVE TypeInv'
  OBVIOUS
<1>1. CASE \E s \in Scope : Write(s)
  BY <1>1, WriteTypes
<1>2. CASE \E s \in Chats \ Wanted : Purge(s)
  BY <1>2, PurgeTypes
<1>3. CASE HomeAssistant
  BY <1>3, HomeAssistantIs
<1>4. CASE RestartHomeAssistant
  BY <1>4, RestartTypes
<1>5. CASE OpenSubscription
  BY <1>5, OpenTypes
<1>6. CASE Forward
  BY <1>6, ForwardTypes
<1>7. CASE PanelAlone
  <2>1. UNCHANGED <<journalVars, cursor, saved, history, answer>> /\ sub' \in {sub, None}
    BY <1>7, AloneFrame
  <2>2. UNCHANGED written
    BY <2>1 DEF journalVars
  <2>3. JournalType' /\ BrokerType' /\ HistoryInv'
    BY <2>1, <2>2, TypesStay, SubscriptionEnds
  <2>4. PanelType'
    BY <1>7, <2>2, ConnectTypes, ReceiveTypes, SnapshotTypes, PollTypes DEF PanelAlone
  <2> QED BY <2>3, <2>4 DEF TypeInv
<1>8. CASE UNCHANGED vars
  <2>1. UNCHANGED <<journalVars, panelVars, written, cursor, saved, history, answer, sub>>
    BY <1>8 DEF vars, journalVars, brokerVars
  <2> QED BY <2>1, TypesStay DEF TypeInv
<1> QED
  BY <1>1, <1>2, <1>3, <1>4, <1>5, <1>6, <1>7, <1>8 DEF PanelNext, PanelAlone

-----------------------------------------------------------------------------
(* What is put on the bus *)

LEMMA FiredInit == PanelInit => FiredInv
<1> SUFFICES ASSUME PanelInit PROVE FiredInv
  OBVIOUS
<1>1. fired = [c \in 1..MaxEvents |-> 0] /\ receipt = 0 /\ phase = "idle"
  BY DEF PanelInit, BrokerInit
<1> QED BY <1>1 DEF FiredInv

LEMMA FiredStays ==
    ASSUME FiredInv, UNCHANGED <<cursor, answer, receipt, fired>>, phase' = "firing" => phase = "firing"
    PROVE  FiredInv'
BY DEF FiredInv, Fresh, Current

LEMMA FiredHome ==
    ASSUME TypeInv, FiredInv, HomeAssistant
    PROVE  FiredInv'
<1>1. CASE SaveReceipt
  <2>1. /\ Fresh # {} /\ Current > receipt /\ receipt' = Current /\ phase' = "firing"
        /\ UNCHANGED <<cursor, answer, fired>>
    BY <1>1 DEF SaveReceipt, IsTask
  <2>2. Current \in 1..MaxEvents /\ receipt \in Nat
    <3>1. Current \in 1..Len(written) /\ Len(written) \in Nat /\ Len(written) <= MaxEvents /\ MaxEvents \in Nat
      BY <2>1, FreshIs, JournalFacts, JournalAssumption DEF TypeInv, JournalType
    <3> QED BY <3>1 DEF FiredInv
  <2>3. Fresh' = Fresh /\ Current' = Current
    BY <2>1 DEF Fresh, Current
  <2>4. fired[Current] = 0
    BY <2>1, <2>2 DEF FiredInv
  <2>5. \A c \in 1..MaxEvents : c > receipt' => fired[c] = 0
    <3> SUFFICES ASSUME NEW c \in 1..MaxEvents, c > receipt' PROVE fired[c] = 0
      OBVIOUS
    <3>1. c > receipt
      BY <2>1, <2>2
    <3> QED BY <3>1 DEF FiredInv
  <2> QED BY <2>1, <2>2, <2>3, <2>4, <2>5 DEF FiredInv
<1>2. CASE Fire
  <2>1. /\ fired' = [fired EXCEPT ![Current] = @ + 1] /\ phase' = "consuming" /\ receipt' = receipt
        /\ Fresh # {} /\ receipt = Current /\ fired[Current] = 0
        /\ fired \in [1..MaxEvents -> {0, 1}] /\ receipt \in Nat
    BY <1>2 DEF Fire, FiredInv
  <2> DEFINE k == Current
  <2>2. fired' = [fired EXCEPT ![k] = fired[k] + 1] /\ receipt = k /\ fired[k] = 0
    BY <2>1
  <2> HIDE DEF k
  <2>3. fired' \in [1..MaxEvents -> {0, 1}] /\ \A c \in 1..MaxEvents : c # k => fired'[c] = fired[c]
    <3>1. fired[k] + 1 = 1
      BY <2>2
    <3>2. fired' = [fired EXCEPT ![k] = 1]
      BY <2>2, <3>1
    <3> QED BY <2>1, <3>2
  <2>4. \A c \in 1..MaxEvents : c > receipt' => fired'[c] = 0
    <3> SUFFICES ASSUME NEW c \in 1..MaxEvents, c > receipt' PROVE fired'[c] = 0
      OBVIOUS
    <3>1. c > receipt /\ c # k
      BY <2>1, <2>2
    <3> QED BY <2>3, <3>1 DEF FiredInv
  <2> QED BY <2>1, <2>3, <2>4 DEF FiredInv
<1>3. CASE Fetch \/ FetchNothing \/ FetchFails \/ FetchRefused \/ SkipGap \/ AnnounceGap
           \/ ListenerFails \/ ConsumeEvent \/ FinishPage
  <2>1. UNCHANGED <<receipt, fired>> /\ phase' # "firing"
    BY <1>3 DEF Fetch, FetchNothing, FetchFails, FetchRefused, SkipGap, AnnounceGap,
                ListenerFails, ConsumeEvent, FinishPage
  <2> QED BY <2>1 DEF FiredInv
<1> QED BY <1>1, <1>2, <1>3 DEF HomeAssistant

LEMMA FiredNext == TypeInv /\ FiredInv /\ [PanelNext]_vars => FiredInv'
<1> SUFFICES ASSUME TypeInv, FiredInv, [PanelNext]_vars PROVE FiredInv'
  OBVIOUS
<1>1. CASE HomeAssistant
  BY <1>1, FiredHome
<1>2. CASE RestartHomeAssistant
  <2>1. UNCHANGED <<receipt, fired>> /\ phase' = "idle"
    BY <1>2 DEF RestartHomeAssistant, Restart
  <2> QED BY <2>1 DEF FiredInv
<1>3. CASE UNCHANGED <<cursor, answer, receipt, fired, phase>>
  BY <1>3, FiredStays
<1>4. CASE \E s \in Scope : Write(s)
  BY <1>3, <1>4 DEF Write, brokerVars
<1>5. CASE \E s \in Chats \ Wanted : Purge(s)
  BY <1>3, <1>5 DEF Purge, brokerVars
<1>6. CASE OpenSubscription
  BY <1>3, <1>6 DEF OpenSubscription
<1>7. CASE Forward
  BY <1>3, <1>7 DEF Forward
<1>8. CASE PanelAlone
  BY <1>3, <1>8, AloneFrame
<1>9. CASE UNCHANGED vars
  BY <1>3, <1>9 DEF vars, brokerVars
<1> QED
  BY <1>1, <1>2, <1>4, <1>5, <1>6, <1>7, <1>8, <1>9 DEF PanelNext, PanelAlone

-----------------------------------------------------------------------------
(* The subscription *)

LEMMA LinkInit == PanelInit => LinkInv
<1> SUFFICES ASSUME PanelInit PROVE LinkInv
  OBVIOUS
<1>1. asked = 0 /\ sequence = 0 /\ sub = None /\ wire = <<>> /\ (request # None => request = 0)
  BY DEF PanelInit, BrokerInit
<1>2. request # None => link # "off"
  BY DEF PanelInit
<1> QED BY <1>1, <1>2 DEF LinkInv

LEMMA LinkNext == TypeInv /\ LinkInv /\ [PanelNext]_vars => LinkInv'
<1> SUFFICES ASSUME TypeInv, LinkInv, [PanelNext]_vars PROVE LinkInv'
  OBVIOUS
<1>0. sequence \in Nat /\ asked \in Nat
  BY JournalFacts DEF TypeInv, PanelType, Cursor
<1>1. ASSUME UNCHANGED <<link, asked, sequence, request, sub, wire, view>> PROVE LinkInv'
  BY <1>1 DEF LinkInv, Wanted
<1>2. ASSUME sub' = None, wire' = <<>>, request' = None, link' = "off" PROVE LinkInv'
  BY <1>2 DEF LinkInv
<1>3. ASSUME NEW after \in Nat, Start(after), sequence' = after PROVE LinkInv'
  BY <1>3 DEF LinkInv, Start
<1>4. CASE \E s \in Scope : Write(s)
  BY <1>1, <1>4 DEF Write, brokerVars, panelVars
<1>5. CASE \E s \in Chats \ Wanted : Purge(s)
  BY <1>1, <1>5 DEF Purge, brokerVars, panelVars
<1>6. CASE HomeAssistant
  <2>1. UNCHANGED panelVars /\ (~Live => sub' = sub)
        /\ (Live => sub' = sub \/ (sub'.after = sub.after /\ sub'.scopes = sub.scopes))
    BY <1>6, HomeAssistantIs
  <2>2. UNCHANGED <<link, asked, sequence, request, wire, view>>
    BY <2>1 DEF panelVars
  <2>3. CASE sub' = sub
    BY <1>1, <2>2, <2>3
  <2>4. CASE sub # None /\ sub'.after = sub.after /\ sub'.scopes = sub.scopes
    BY <2>2, <2>4 DEF LinkInv, Wanted
  <2> QED BY <2>1, <2>3, <2>4 DEF Live
<1>7. CASE RestartHomeAssistant
  <2>1. /\ sub' = None /\ wire' = <<>> /\ request' = (IF link = "off" THEN None ELSE asked)
        /\ UNCHANGED <<link, asked, sequence>>
    BY <1>7 DEF RestartHomeAssistant, Restart, LoseConnection
  <2> QED BY <2>1 DEF LinkInv
<1>8. CASE OpenSubscription
  <2>1. /\ request # None /\ sub' = WithHistory([after |-> request, scopes |-> Wanted,
                                                 open |-> TRUE, queue |-> <<>>])
        /\ request' = None /\ UNCHANGED <<link, asked, sequence, wire, view>>
    BY <1>8 DEF OpenSubscription, Subscribe
  <2>2. request \in Cursor(Len(written)) /\ Wanted \in {{Chat}, {System}}
    BY <2>1 DEF TypeInv, PanelType, Wanted
  <2>3. sub'.after = request /\ sub'.scopes = Wanted
    <3>1. JournalType /\ BrokerType /\ HistoryInv
      BY DEF TypeInv
    <3>2. PicksUp(sub', request, Wanted)
      BY <2>1, <2>2, <3>1, WithHistoryIs
    <3> QED BY <3>2 DEF PicksUp
  <2>4. Wanted' = Wanted
    BY <2>1 DEF Wanted
  <2> QED BY <2>1, <2>3, <2>4 DEF LinkInv
<1>9. CASE RefuseSubscription
  <2>1. request # None /\ link' = "off" /\ request' = None /\ UNCHANGED <<sub, wire>>
    BY <1>9 DEF RefuseSubscription
  <2> QED BY <1>2, <2>1 DEF LinkInv
<1>10. CASE Linked
  BY <1>10 DEF Linked, LinkInv, brokerVars, Wanted
<1>11. CASE Reconnect
  BY <1>0, <1>3, <1>11 DEF Reconnect
<1>12. CASE Forward
  <2>1. /\ sub # None /\ (sub' # None => sub'.after = sub.after /\ sub'.scopes = sub.scopes)
        /\ UNCHANGED <<link, asked, sequence, request, view>>
    BY <1>12, ForwardTypes
  <2>2. Wanted' = Wanted
    BY <2>1 DEF Wanted
  <2> QED BY <2>1, <2>2 DEF LinkInv
<1>13. CASE Disconnect
  <2>1. /\ sub' = None /\ wire' = <<>> /\ request' = (IF link = "off" THEN None ELSE asked)
        /\ UNCHANGED <<link, asked, sequence>>
    BY <1>13 DEF Disconnect, LoseConnection
  <2> QED BY <2>1 DEF LinkInv
<1>14. ASSUME wire # <<>>, wire' = Tail(wire), sequence' >= sequence, sequence' \in Nat,
              UNCHANGED <<link, asked, request, sub, view>>
       PROVE  LinkInv'
  <2>1. request = None
    BY <1>14 DEF LinkInv
  <2>2. Wanted' = Wanted
    BY <1>14 DEF Wanted
  <2> QED BY <1>0, <1>14, <2>1, <2>2 DEF LinkInv
<1>15. CASE ReceiveChat
  <2> DEFINE e == Head(wire)
  <2>1. e.at \in Nat /\ wire # <<>>
    <3>1. UNCHANGED written
      BY <1>15, AloneFrame DEF PanelAlone, journalVars
    <3> QED BY <1>15, <3>1, ReceiveTypes, JournalFacts DEF TypeInv, Cursor
  <2> HIDE DEF e
  <2>2. CASE AcceptEvent(e)
    <3>1. sequence' = e.at /\ e.at > sequence /\ wire' = Tail(wire)
          /\ UNCHANGED <<link, asked, request, sub, view>>
      BY <2>2 DEF AcceptEvent, IsNews, brokerVars
    <3> QED BY <1>0, <1>14, <2>1, <3>1
  <2>3. CASE AcceptControl(e)
    BY <1>2, <2>3 DEF AcceptControl, Stop
  <2>4. CASE Ignore(e)
    <3>1. wire' = Tail(wire) /\ UNCHANGED <<sequence, link, asked, request, sub, view>>
      BY <2>4 DEF Ignore, brokerVars
    <3> QED BY <1>0, <1>14, <2>1, <3>1
  <2> QED BY <1>15, <2>2, <2>3, <2>4 DEF ReceiveChat, e
<1>16. CASE ReceiveSystem
  <2> DEFINE e == Head(wire)
  <2>1. e.at \in Nat /\ wire # <<>>
    <3>1. UNCHANGED written
      BY <1>16, AloneFrame DEF PanelAlone, journalVars
    <3> QED BY <1>16, <3>1, ReceiveTypes, JournalFacts DEF TypeInv, Cursor
  <2>2. /\ sequence' = Larger(sequence, e.at) /\ UNCHANGED view
        /\ \/ sub' = None /\ wire' = <<>> /\ request' = None /\ link' = "off"
           \/ wire' = Tail(wire) /\ UNCHANGED <<sub, link, asked, request>>
    BY <1>16 DEF ReceiveSystem, Stop
  <2> HIDE DEF e
  <2>3. sequence' \in Nat /\ sequence' >= sequence
    BY <1>0, <2>1, <2>2 DEF Larger
  <2> QED BY <1>2, <1>14, <2>1, <2>2, <2>3
<1>17. CASE Select \/ TickSnapshot \/ ApplyGap
  <2>1. Stop(FALSE)
    BY <1>17 DEF Select, TickSnapshot, ApplyGap
  <2> QED BY <1>2, <2>1 DEF Stop
<1>18. CASE \/ UserRefresh \/ LoadPage \/ RefreshFails \/ TickEvents \/ TickLinked \/ PollFails
            \/ ReadSystem \/ ReadSystemFails
  <2>1. UNCHANGED <<link, asked, sequence, request, sub, wire, view>>
    BY <1>18 DEF UserRefresh, LoadPage, RefreshFails, TickEvents, TickLinked, PollFails,
                 ReadSystem, ReadSystemFails, brokerVars
  <2> QED BY <1>1, <2>1
<1>19. CASE Commit
  <2>1. Start(sequence') /\ sequence' \in Nat
    <3>1. sequence' \in Cursor(Len(written))
      BY <1>19, CommitIs
    <3> QED BY <1>19, <3>1, JournalFacts DEF Commit, TypeInv, Cursor
  <2> QED BY <1>3, <2>1
<1>20. CASE ApplyEvents
  <2>1. sequence' \in Nat /\ sequence' >= sequence
    <3>1. sequence' \in Cursor(Len(written)) /\ sequence' >= sequence
      BY <1>20, ApplyIs
    <3> QED BY <3>1, JournalFacts DEF TypeInv, Cursor
  <2>2. UNCHANGED <<link, asked, request, sub, wire, view>>
    BY <1>20 DEF ApplyEvents, brokerVars
  <2>3. Wanted' = Wanted
    BY <2>2 DEF Wanted
  <2> QED BY <1>0, <2>1, <2>2, <2>3 DEF LinkInv
<1>21. CASE UNCHANGED vars
  BY <1>1, <1>21 DEF vars, brokerVars, panelVars
<1> QED
  BY <1>4, <1>5, <1>6, <1>7, <1>8, <1>9, <1>10, <1>11, <1>12, <1>13, <1>15, <1>16, <1>17,
     <1>18, <1>19, <1>20, <1>21 DEF PanelNext, Poll

-----------------------------------------------------------------------------
(* Account and runtime *)

LEMMA SystemNext == TypeInv /\ SystemInv /\ [PanelNext]_vars => SystemInv'
<1> SUFFICES ASSUME TypeInv, SystemInv, [PanelNext]_vars, view' = "system"
             PROVE  refresh' # None \/ {c \in 1..sequence' : written'[c] = System} \subseteq shown'
  BY DEF SystemInv
<1>1. Len(written) \in Nat /\ sequence \in 0..Len(written) /\ DOMAIN written = 1..Len(written)
  BY JournalFacts DEF TypeInv, PanelType, Cursor
<1>2. ASSUME UNCHANGED <<view, shown, sequence, refresh, written>>
      PROVE  refresh' # None \/ {c \in 1..sequence' : written'[c] = System} \subseteq shown'
  BY <1>2 DEF SystemInv
<1>3. CASE \E s \in Scope : Write(s)
  <2>1. PICK s \in Scope : Write(s)
    BY <1>3
  <2>2. written' = Append(written, s) /\ UNCHANGED <<view, shown, sequence, refresh>>
    BY <2>1 DEF Write, WriteEvent, panelVars
  <2>3. \A c \in 1..sequence : written'[c] = written[c]
    <3> SUFFICES ASSUME NEW c \in 1..sequence PROVE written'[c] = written[c]
      OBVIOUS
    <3>1. c \in 1..Len(written) /\ written \in Seq(Scope)
      BY <1>1 DEF TypeInv, JournalType
    <3> QED BY <2>2, <3>1
  <2> QED BY <2>2, <2>3 DEF SystemInv
<1>4. CASE ReceiveSystem
  <2> DEFINE e == Head(wire)
             read == e.kind \in {"snapshot", "status"} \/ (e.kind = "event" /\ e.at > sequence)
  <2>1. /\ sequence' = Larger(sequence, e.at) /\ refresh' = IF read THEN Reading("system", 0) ELSE refresh
        /\ UNCHANGED <<view, shown, written>>
    BY <1>4 DEF ReceiveSystem, journalVars
  <2>2. e \in Envelope(Len(written))
    BY <1>4, <2>1, ReceiveTypes
  <2>3. e.kind \in Kinds /\ e.at \in Nat /\ (e.kind = "heartbeat" => e.at = 0)
    BY <1>1, <2>2 DEF Envelope, Cursor
  <2> HIDE DEF e
  <2>4. CASE read
    <3>1. Reading("system", 0) # None
      <4>1. 0 \in Cursor(Len(written))
        BY <1>1 DEF Cursor
      <4> QED BY <1>1, <4>1, ReadingIs
    <3> QED BY <2>1, <2>4, <3>1
  <2>5. CASE ~read
    <3>1. e.at <= sequence
      BY <1>1, <2>3, <2>5 DEF Kinds
    <3>2. sequence' = sequence
      BY <1>1, <2>1, <2>3, <3>1 DEF Larger
    <3> QED BY <1>2, <2>1, <2>5, <3>2
  <2> QED BY <2>4, <2>5
<1>5. CASE ReadSystem
  <2>1. shown' = 1..Len(written) /\ sequence' = sequence
    BY <1>1, <1>5 DEF ReadSystem
  <2> QED BY <1>1, <2>1
<1>12. CASE ReadSystemFails
  <2>1. refresh \in Reader(Len(written)) /\ refresh' = [refresh EXCEPT !.ready = TRUE]
        /\ UNCHANGED <<shown, sequence, written>>
    BY <1>12 DEF ReadSystemFails, TypeInv, PanelType, journalVars
  <2>2. refresh' # None
    <3>1. refresh # None
      BY <1>12 DEF ReadSystemFails
    <3>2. refresh' \in Reader(Len(written))
      BY <2>1, <3>1 DEF Reader
    <3>3. Reader(Len(written)) \subseteq [by : {"select", "event", "user", "poll", "system"},
                                        floor : Nat, at : Nat, got : SUBSET Nat, ready : BOOLEAN]
      BY <1>1 DEF Reader, Cursor
    <3> QED BY <3>2, <3>3, PanelAssumption
  <2> QED BY <1>1, <1>2, <2>1, <2>2
<1>6. CASE PanelAlone /\ ~ReceiveSystem /\ ~ReadSystem /\ ~ReadSystemFails
  <2>1. UNCHANGED <<view, written>> /\ view = "system" /\ poll = None
    BY <1>6, AloneFrame DEF TypeInv, PanelType, journalVars
  <2>2. RefuseSubscription \/ Linked \/ Reconnect \/ Disconnect
    BY <1>6, <2>1 DEF PanelAlone, ReceiveChat, Select, UserRefresh, LoadPage, Commit, RefreshFails,
                      Poll, TickSnapshot, TickEvents, TickLinked, MayTick, ApplyEvents, ApplyGap,
                      PollFails
  <2>3. UNCHANGED <<shown, sequence, refresh>>
    BY <2>2 DEF RefuseSubscription, Linked, Reconnect, Disconnect
  <2> QED BY <1>2, <2>1, <2>3
<1>7. CASE \E s \in Chats \ Wanted : Purge(s)
  BY <1>2, <1>7 DEF Purge, PurgeThread, panelVars
<1>8. CASE HomeAssistant
  BY <1>2, <1>8, HomeAssistantIs DEF journalVars, panelVars
<1>9. CASE RestartHomeAssistant
  <2>1. UNCHANGED <<view, shown, sequence, written>>
    BY <1>9 DEF RestartHomeAssistant, Restart, journalVars
  <2>2. refresh' = refresh
    BY <1>9, <2>1 DEF RestartHomeAssistant
  <2> QED BY <1>2, <2>1, <2>2
<1>10. CASE OpenSubscription \/ Forward
  BY <1>2, <1>10 DEF OpenSubscription, Forward, journalVars
<1>11. CASE UNCHANGED vars
  BY <1>2, <1>11 DEF vars, panelVars, journalVars
<1> QED
  BY <1>3, <1>4, <1>5, <1>6, <1>7, <1>8, <1>9, <1>10, <1>11, <1>12 DEF PanelNext, PanelAlone

-----------------------------------------------------------------------------
(* The snapshot being read *)

\* The chat was never trimmed.
Whole == view = "chat" /\ minimum[Chat] = 0

LEMMA WholeBefore ==
    ASSUME TypeInv, [PanelNext]_vars, Whole'
    PROVE  Whole
<1>1. /\ minimum \in [Scope -> 0..Len(written)] /\ Chat \in Scope /\ Len(written) \in Nat
      /\ \A s \in Scope : Retained(s) \subseteq 1..Len(written)
  BY JournalFacts DEF TypeInv, JournalType, Cursor
<1>2. ASSUME UNCHANGED <<view, minimum>> PROVE Whole
  BY <1>2 DEF Whole
<1>3. CASE \E s \in Scope : Write(s)
  <2>1. PICK s \in Scope : Write(s)
    BY <1>3
  <2> DEFINE full == Cardinality(Retained(s)) = MaxRetained
             oldest == Min(Retained(s))
  <2>2. view' = view /\ minimum' = IF full THEN [minimum EXCEPT ![s] = oldest] ELSE minimum
    BY <2>1 DEF Write, WriteEvent, panelVars
  <2>3. CASE ~full
    BY <1>2, <2>2, <2>3
  <2>4. CASE full
    <3>1. Retained(s) # {} /\ Retained(s) \subseteq Nat
      <4>1. MaxRetained # 0
        BY JournalAssumption
      <4>2. Retained(s) # {}
        BY <2>4, <4>1, FS_EmptySet
      <4> QED BY <1>1, <4>2
    <3>2. oldest \in 1..Len(written)
      BY <1>1, <3>1, LeastOf
    <3> HIDE DEF oldest
    <3>3. minimum'[Chat] = IF s = Chat THEN oldest ELSE minimum[Chat]
      BY <1>1, <2>2, <2>4
    <3> QED BY <1>1, <2>2, <3>2, <3>3 DEF Whole
  <2> QED BY <2>3, <2>4
<1>4. CASE \E s \in Chats \ Wanted : Purge(s)
  <2>1. PICK s \in Chats \ Wanted : Purge(s)
    BY <1>4
  <2>2. view' = view /\ minimum' = [minimum EXCEPT ![s] = Max(Retained(s))]
    BY <2>1 DEF Purge, PurgeThread, panelVars
  <2>3. s # Chat
    BY <2>1, <2>2 DEF Whole, Wanted
  <2>4. minimum'[Chat] = minimum[Chat]
    BY <1>1, <2>2, <2>3
  <2> QED BY <2>2, <2>4 DEF Whole
<1>5. CASE HomeAssistant
  BY <1>2, <1>5, HomeAssistantIs DEF journalVars, panelVars
<1>6. CASE RestartHomeAssistant \/ OpenSubscription \/ Forward
  BY <1>2, <1>6 DEF RestartHomeAssistant, Restart, OpenSubscription, Forward, journalVars
<1>7. CASE PanelAlone
  BY <1>2, <1>7, AloneFrame DEF journalVars
<1>8. CASE UNCHANGED vars
  BY <1>2, <1>8 DEF vars, journalVars, panelVars
<1> QED BY <1>3, <1>4, <1>5, <1>6, <1>7, <1>8 DEF PanelNext, PanelAlone

\* A snapshot that starts has nothing to show.
LEMMA ReadStarts ==
    ASSUME NEW n \in Nat, NEW floor \in Cursor(n), n = Len(written'),
           NEW by \in {"select", "event", "user", "poll", "system"},
           refresh' = None \/ refresh' = Reading(by, floor)
    PROVE  ReadInv'
BY DEF ReadInv, Reading

LEMMA ReadNext ==
    ASSUME TypeInv, Whole, ReadInv, [PanelNext]_vars
    PROVE  ReadInv'
<1> DEFINE n == Len(written)
<1>1. n \in Nat /\ written \in Seq(Scope) /\ sequence \in Cursor(n) /\ 0 \in Cursor(n)
  BY JournalFacts DEF TypeInv, JournalType, PanelType, Cursor
<1>2. ASSUME refresh' = None PROVE ReadInv'
  BY <1>2 DEF ReadInv
<1>3. ASSUME UNCHANGED <<refresh, written>> PROVE ReadInv'
  BY <1>3 DEF ReadInv
<1>4. CASE \E s \in Scope : Write(s)
  <2>1. PICK s \in Scope : Write(s)
    BY <1>4
  <2>2. written' = Append(written, s) /\ refresh' = refresh
    BY <2>1 DEF Write, WriteEvent, panelVars
  <2>3. \A c \in 1..n : written'[c] = written[c]
    BY <1>1, <2>2
  <2>4. Len(written') = n + 1
    BY <1>1, <2>2
  <2> SUFFICES ASSUME refresh # None PROVE ReadInv'
    BY <1>2, <2>2
  <2>5. refresh \in Reader(n)
    BY DEF TypeInv, PanelType
  <2>6. refresh.at \in 0..n /\ refresh.floor \in 0..n /\ refresh.got \subseteq 1..n
    BY <2>5 DEF Reader, Cursor
  <2> HIDE DEF n
  <2>7. CASE refresh.ready
    <3>1. ASSUME NEW c \in 1..(n + 1), written'[c] = Chat,
                 c <= refresh.floor \/ \E d \in refresh.got : c <= d
          PROVE  c \in 1..n
      BY <1>1, <2>6, <3>1
    <3> QED BY <2>2, <2>3, <2>4, <2>7, <3>1 DEF ReadInv, n
  <2>8. CASE ~refresh.ready
    <3>1. 1..refresh.at \subseteq 1..n
      BY <1>1, <2>6
    <3> QED BY <2>2, <2>3, <2>8, <3>1 DEF ReadInv
  <2> QED BY <2>7, <2>8
<1>5. CASE LoadPage
  <2> DEFINE at == refresh.at
             page == Replay(at, {Chat})
             found == (UNION {Retained(s) : s \in {Chat}}) \ 0..at
  <2>1. /\ refresh # None /\ ~refresh.ready /\ UNCHANGED written
        /\ refresh' = [refresh EXCEPT !.got = @ \cup page.events,
                                      !.at = page.next, !.ready = ~page.more]
    BY <1>5 DEF LoadPage, journalVars
  <2>2. refresh \in Reader(n)
    BY <2>1 DEF TypeInv, PanelType
  <2>3. at \in Cursor(n) /\ {Chat} \in SUBSET Scope
    BY <2>2, JournalFacts DEF TypeInv, Reader
  <2>4. /\ page \in Page(n) /\ page.kind \in {"page", "gone"}
        /\ page.kind = "gone" => at < Floor({Chat})
        /\ page.events \subseteq found
        /\ page.events # {} => page.next \in page.events
        /\ \A d \in page.events : d <= page.next /\ \A c \in found : c <= d => c \in page.events
        /\ page.kind = "page" => IF page.more THEN page.events # {} ELSE page.events = found
    <3> HIDE DEF at
    <3> QED BY <2>3, ReplayIs DEF TypeInv
  <2>5. page.kind = "page"
    <3>1. Floor({Chat}) = 0
      BY <2>3, FloorIs DEF TypeInv, Whole
    <3>2. at \in Nat
      BY <1>1, <2>3 DEF Cursor
    <3> HIDE DEF page, at
    <3> QED BY <2>4, <3>1, <3>2
  <2>6. found = {c \in 1..n : written[c] = Chat} \ 0..at
    <3>1. Retained(Chat) = {c \in 1..n : written[c] = Chat}
      BY JournalFacts DEF TypeInv, Whole
    <3> QED BY <3>1
  <2>7. /\ refresh.got \subseteq 1..at /\ \A c \in 1..at : written[c] = Chat => c \in refresh.got
    BY <2>1 DEF ReadInv
  <2>8. /\ refresh'.got = refresh.got \cup page.events /\ refresh'.at = page.next
        /\ refresh'.ready = ~page.more /\ refresh' # None
    <3>1. refresh' \in Reader(n)
      <4>1. page.events \in SUBSET (1..n) /\ page.next \in Cursor(n) /\ page.more \in BOOLEAN
        <5> HIDE DEF page
        <5> QED BY <2>4 DEF Page
      <4> HIDE DEF page
      <4> QED BY <2>1, <2>2, <4>1 DEF Reader
    <3>2. None \notin Reader(n)
      <4>1. Reader(n) \subseteq [by : {"select", "event", "user", "poll", "system"}, floor : Nat,
                                 at : Nat, got : SUBSET Nat, ready : BOOLEAN]
        BY <1>1 DEF Reader, Cursor
      <4> QED BY <4>1, PanelAssumption
    <3>3. refresh = [by |-> refresh.by, floor |-> refresh.floor, at |-> refresh.at,
                     got |-> refresh.got, ready |-> refresh.ready]
      BY <2>2 DEF Reader
    <3> HIDE DEF page
    <3> QED BY <2>1, <3>1, <3>2, <3>3
  <2> DEFINE next == page.next
             events == page.events
             more == page.more
  <2>9. /\ events \subseteq found /\ (events # {} => next \in events)
        /\ \A d \in events : d <= next /\ \A c \in found : c <= d => c \in events
        /\ IF more THEN events # {} ELSE events = found
        /\ more \in BOOLEAN /\ at \in Nat
    <3>1. page.more \in BOOLEAN /\ at \in Nat
      <4> HIDE DEF page, at
      <4> QED BY <1>1, <2>3, <2>4 DEF Page, Cursor
    <3> HIDE DEF page, at, found
    <3> QED BY <2>4, <2>5, <3>1
  <2> HIDE DEF page, at, found, next, events, more, n
  <2>10. CASE more
    <3>1. next \in events /\ next \in found /\ next \in 1..n /\ next > at
      <4>1. next \in events /\ next \in found
        BY <2>9, <2>10
      <4> QED BY <1>1, <2>6, <2>9, <4>1
    <3>2. refresh.got \cup events \subseteq 1..next
      <4>1. \A d \in events : d \in 1..n /\ d <= next
        BY <2>6, <2>9
      <4>2. next \in Nat /\ events \subseteq 1..next
        BY <1>1, <3>1, <4>1
      <4>3. 1..at \subseteq 1..next
        BY <2>9, <3>1, <4>2
      <4> QED BY <2>7, <4>2, <4>3
    <3>3. \A c \in 1..next : written[c] = Chat => c \in refresh.got \cup events
      <4> SUFFICES ASSUME NEW c \in 1..next, written[c] = Chat PROVE c \in refresh.got \cup events
        OBVIOUS
      <4>1. c \in 1..n /\ c <= next
        BY <1>1, <3>1
      <4>2. CASE c <= at
        BY <2>7, <2>9, <4>1, <4>2
      <4>3. CASE ~(c <= at)
        <5>1. c \in found
          BY <2>6, <2>9, <4>1, <4>3
        <5> QED BY <2>9, <3>1, <4>1, <5>1
      <4> QED BY <4>2, <4>3
    <3> QED BY <2>1, <2>8, <2>10, <3>2, <3>3 DEF ReadInv, next, events, more
  <2>11. CASE ~more
    <3>1. \A c \in 1..n : written[c] = Chat => c \in refresh.got \cup events
      <4> SUFFICES ASSUME NEW c \in 1..n, written[c] = Chat PROVE c \in refresh.got \cup events
        OBVIOUS
      <4>1. CASE c <= at
        BY <1>1, <2>7, <2>9, <4>1
      <4>2. CASE ~(c <= at)
        BY <1>1, <2>6, <2>9, <2>11, <4>2
      <4> QED BY <4>1, <4>2
    <3> QED BY <2>1, <2>8, <2>11, <3>1 DEF ReadInv, events, more, n
  <2> QED BY <2>9, <2>10, <2>11
<1>6. CASE PanelAlone /\ ~LoadPage
  <2>1. UNCHANGED <<written, view>> /\ view = "chat"
    BY <1>6, AloneFrame DEF journalVars, Whole
  <2>2. refresh' = refresh \/ refresh' = None
        \/ \E by \in {"select", "event", "user", "poll", "system"}, floor \in {0, sequence'} :
              refresh' = Reading(by, floor)
    BY <1>6, <2>1 DEF PanelAlone, RefuseSubscription, Linked, Reconnect, Disconnect, ReceiveChat,
       AcceptEvent, AcceptControl, Ignore, ReceiveSystem, ReadSystem, ReadSystemFails, Select,
       UserRefresh, Commit, RefreshFails, Poll, TickSnapshot, TickEvents, TickLinked, ApplyEvents, ApplyGap, PollFails,
       Settle, Read
  <2>3. sequence' \in Cursor(n)
    <3>1. UNCHANGED <<journalVars, cursor, saved, history, answer>> /\ sub' \in {sub, None}
      BY <1>6, AloneFrame
    <3>2. PanelType'
      BY <1>6, <2>1, ConnectTypes, ReceiveTypes, SnapshotTypes, PollTypes DEF PanelAlone
    <3> QED BY <2>1, <3>2 DEF PanelType
  <2>4. n = Len(written')
    BY <2>1
  <2> HIDE DEF n
  <2>5. CASE refresh' = refresh
    BY <1>3, <2>1, <2>5
  <2>6. CASE refresh' = None
    BY <1>2, <2>6
  <2>7. CASE \E by \in {"select", "event", "user", "poll", "system"}, floor \in {0, sequence'} :
               refresh' = Reading(by, floor)
    <3>1. PICK by \in {"select", "event", "user", "poll", "system"}, floor \in {0, sequence'} :
               refresh' = Reading(by, floor)
      BY <2>7
    <3>2. floor \in Cursor(n)
      BY <1>1, <2>3
    <3> QED BY <1>1, <2>4, <3>1, <3>2, ReadStarts
  <2> QED BY <2>2, <2>5, <2>6, <2>7
<1>7. CASE \E s \in Chats \ Wanted : Purge(s)
  BY <1>3, <1>7 DEF Purge, PurgeThread, panelVars
<1>8. CASE HomeAssistant
  BY <1>3, <1>8, HomeAssistantIs DEF journalVars, panelVars
<1>9. CASE RestartHomeAssistant
  <2>1. UNCHANGED written /\ refresh' \in {refresh, None}
    BY <1>9 DEF RestartHomeAssistant, Restart, journalVars, Settle
  <2> QED BY <1>2, <1>3, <2>1
<1>10. CASE OpenSubscription \/ Forward
  BY <1>3, <1>10 DEF OpenSubscription, Forward, journalVars
<1>11. CASE UNCHANGED vars
  BY <1>3, <1>11 DEF vars, panelVars, journalVars
<1> QED
  BY <1>4, <1>5, <1>6, <1>7, <1>8, <1>9, <1>10, <1>11 DEF PanelNext, PanelAlone

-----------------------------------------------------------------------------
(* The flow of events to the panel *)

\* Nothing of what the flow depends on changes, and less may be due.
LEMMA FlowStays ==
    ASSUME FlowInv, UNCHANGED <<written, cursor, phase, sub, wire, shown, sequence>>,
           poll' \in {poll, None}
    PROVE  FlowInv'
<1>1. \A c : Due(c)' = Due(c) /\ OnWire(c)' = OnWire(c)
  BY DEF Due, OnWire, Among
<1>2. ShownInv' /\ WireInv'
  BY <1>1 DEF FlowInv, ShownInv, WireInv, Among, Due
<1>3. QueueInv'
  BY <1>1 DEF FlowInv, QueueInv, Among, Due, OnWire
<1>4. LiveInv'
  BY <1>1 DEF FlowInv, LiveInv, Among, Due, OnWire
<1>5. PollInv'
  BY <1>1 DEF FlowInv, PollInv, Due
<1> QED BY <1>2, <1>3, <1>4, <1>5 DEF FlowInv

\* The subscription is given up: what is shown and what was polled remain.
LEMMA FlowCut ==
    ASSUME ShownInv', PollInv', sub' = None, wire' = <<>>
    PROVE  FlowInv'
BY DEF FlowInv, WireInv, QueueInv, LiveInv

LEMMA AmongGrows ==
    ASSUME NEW S, NEW q \in Seq(S), NEW e, NEW c, NEW n \in 0..Len(q), Among(c, q, n)
    PROVE  /\ \A m \in n..(Len(q) + 1) : Among(c, Append(q, e), m)
           /\ \A m \in n..Len(q) : Among(c, q, m)
<1>1. PICK i \in 1..n : q[i] = Event(c)
  BY DEF Among
<1>2. Len(q) \in Nat /\ i \in 1..Len(q)
  OBVIOUS
<1>3. Append(q, e)[i] = q[i]
  BY <1>2
<1>4. ASSUME NEW m \in n..(Len(q) + 1) PROVE i \in 1..m
  BY <1>2
<1>5. ASSUME NEW m \in n..Len(q) PROVE i \in 1..m
  BY <1>2
<1> QED BY <1>1, <1>3, <1>4, <1>5 DEF Among

LEMMA AmongTail ==
    ASSUME NEW S, NEW q \in Seq(S), q # <<>>, NEW c, NEW n \in 0..Len(q), Among(c, q, n),
           q[1] # Event(c)
    PROVE  Among(c, Tail(q), n - 1)
<1>1. PICK i \in 1..n : q[i] = Event(c)
  BY DEF Among
<1>2. i # 1 /\ i - 1 \in 1..(n - 1) /\ i - 1 \in 1..(Len(q) - 1)
  BY <1>1
<1>3. Tail(q)[i - 1] = q[i]
  BY <1>2
<1> QED BY <1>1, <1>2, <1>3 DEF Among

\* An event that is published after everything that is due before it.
LEMMA QueueGrows ==
    ASSUME TypeInv, FlowInv, UNCHANGED <<written, wire, sequence>>, Live,
           NEW e \in Envelope(Len(written)), sub'.queue = Append(sub.queue, e),
           e.kind = "event" => \A c \in 1..e.at : Due(c) =>
               c = e.at \/ OnWire(c) \/ Among(c, sub.queue, Len(sub.queue))
    PROVE  QueueInv'
<1> DEFINE q == sub.queue
<1>1. sub \in Subscription(Len(written)) /\ q \in Seq(Envelope(Len(written))) /\ Len(q) \in Nat
  <2>1. sub \in Subscription(Len(written))
    BY DEF Live, TypeInv, BrokerType
  <2>2. q \in Seq(Envelope(Len(written)))
    BY <2>1 DEF Subscription
  <2> QED BY <2>1, <2>2
<1>2. \A c : Due(c)' = Due(c) /\ OnWire(c)' = OnWire(c)
  BY DEF Due, OnWire, Among
<1>3. \A i \in 1..Len(q) : q[i].kind = "event" => \A c \in 1..q[i].at : Due(c) =>
         c = q[i].at \/ OnWire(c) \/ Among(c, q, i - 1)
  BY DEF FlowInv, QueueInv, Live
<1> HIDE DEF q
<1>4. sub'.queue = Append(q, e) /\ Len(sub'.queue) = Len(q) + 1
  BY <1>1 DEF q
<1>5. ASSUME NEW i \in 1..(Len(q) + 1), Append(q, e)[i].kind = "event",
             NEW c \in 1..Append(q, e)[i].at, Due(c)
      PROVE  c = Append(q, e)[i].at \/ OnWire(c) \/ Among(c, Append(q, e), i - 1)
  <2>1. CASE i = Len(q) + 1
    <3>1. Append(q, e)[i] = e
      BY <1>1, <2>1
    <3>2. c = e.at \/ OnWire(c) \/ Among(c, q, Len(q))
      BY <1>5, <3>1 DEF q
    <3>3. Among(c, q, Len(q)) => Among(c, Append(q, e), Len(q))
      <4>1. Len(q) \in 0..Len(q) /\ Len(q) \in Len(q)..(Len(q) + 1)
        BY <1>1
      <4> QED BY <1>1, <4>1, AmongGrows
    <3>4. i - 1 = Len(q)
      BY <1>1, <2>1
    <3> QED BY <3>1, <3>2, <3>3, <3>4
  <2>2. CASE i \in 1..Len(q)
    <3>1. Append(q, e)[i] = q[i]
      BY <1>1, <2>2
    <3>2. c = q[i].at \/ OnWire(c) \/ Among(c, q, i - 1)
      BY <1>3, <1>5, <2>2, <3>1
    <3>3. Among(c, q, i - 1) => Among(c, Append(q, e), i - 1)
      <4>1. i - 1 \in 0..Len(q) /\ i - 1 \in (i - 1)..(Len(q) + 1)
        BY <1>1, <2>2
      <4> QED BY <1>1, <4>1, AmongGrows
    <3> QED BY <3>1, <3>2, <3>3
  <2> QED BY <1>1, <1>5, <2>1, <2>2
<1> QED BY <1>2, <1>4, <1>5 DEF QueueInv

\* The last envelope of a subscription, which is not an event.
LEMMA QueueCloses ==
    ASSUME NEW e, e.kind # "event", sub'.queue = <<e>>
    PROVE  QueueInv'
<1>1. Len(sub'.queue) = 1 /\ sub'.queue[1] = e
  OBVIOUS
<1>2. ASSUME NEW i \in 1..Len(sub'.queue) PROVE sub'.queue[i].kind # "event"
  BY <1>1
<1> QED BY <1>2 DEF QueueInv

LEMMA FlowHome ==
    ASSUME TypeInv, LinkInv, FlowInv, view = "chat", HomeAssistant
    PROVE  FlowInv'
<1> DEFINE n == Len(written)
<1>1. BrokerMove /\ UNCHANGED <<journalVars, panelVars>>
  BY HomeAssistantIs
<1>2. UNCHANGED <<written, view, shown, sequence, wire, poll>>
  BY <1>1 DEF journalVars, panelVars
<1>3. \A c : Due(c)' = Due(c) /\ OnWire(c)' = OnWire(c)
  BY <1>2 DEF Due, OnWire, Among
<1>4. ShownInv' /\ WireInv' /\ PollInv'
  BY <1>2, <1>3 DEF FlowInv, ShownInv, WireInv, PollInv, Among, Due
<1>5. sub' = sub => QueueInv'
  BY <1>3 DEF FlowInv, QueueInv, Among, Due, OnWire
<1>6. n \in Nat /\ cursor \in Nat /\ sequence \in Nat
  BY JournalFacts DEF TypeInv, BrokerType, PanelType, Cursor
<1>7. Live => sub.queue \in Seq(Envelope(n)) /\ Len(sub.queue) \in Nat
  <2> SUFFICES ASSUME Live PROVE sub.queue \in Seq(Envelope(n)) /\ Len(sub.queue) \in Nat
    OBVIOUS
  <2>1. sub.queue \in Seq(Envelope(n))
    BY DEF Live, TypeInv, BrokerType, Subscription
  <2> QED BY <2>1
<1> HIDE DEF n
<1>8. CASE cursor' = cursor /\ sub' = sub /\ (phase = "gap" => phase' = "gap")
  <2>1. LiveInv'
    BY <1>3, <1>8 DEF FlowInv, LiveInv, Among, Due, OnWire
  <2> QED BY <1>4, <1>5, <1>8, <2>1 DEF FlowInv
<1>9. CASE phase' = "gap" /\ sub' = sub
  <2>1. LiveInv'
    BY <1>9 DEF LiveInv
  <2> QED BY <1>4, <1>5, <1>9, <2>1 DEF FlowInv
<1>10. CASE /\ cursor' = cursor
            /\ \E e \in Envelope(n) : e.kind # "event" /\ Told(e)
            /\ phase # "gap" \/ sub' = None \/ ~sub'.open
  <2>1. PICK e \in Envelope(n) : e.kind # "event" /\ Told(e)
    BY <1>10
  <2>2. CASE sub' = sub /\ ~Live
    <3>1. LiveInv'
      BY <2>2 DEF LiveInv, Live
    <3> QED BY <1>4, <1>5, <2>2, <3>1 DEF FlowInv
  <2>3. CASE Live /\ sub'.open /\ sub'.queue = Append(sub.queue, e)
    <3>1. QueueInv'
      BY <1>2, <2>1, <2>3, QueueGrows DEF n
    <3>2. LiveInv'
      <4> SUFFICES ASSUME sub' # None, NEW c \in 1..cursor', Due(c)'
                   PROVE  (OnWire(c) \/ Among(c, sub.queue, Len(sub.queue)))'
        BY DEF LiveInv
      <4>1. phase # "gap"
        BY <1>10, <2>3
      <4>2. OnWire(c) \/ Among(c, sub.queue, Len(sub.queue))
        BY <1>3, <1>10, <2>3, <4>1 DEF FlowInv, LiveInv, Live
      <4>3. Among(c, sub.queue, Len(sub.queue)) => Among(c, sub'.queue, Len(sub'.queue))
        <5>1. Len(sub'.queue) = Len(sub.queue) + 1 /\ Len(sub.queue) \in 0..Len(sub.queue)
              /\ Len(sub.queue) + 1 \in Len(sub.queue)..(Len(sub.queue) + 1)
          BY <1>7, <2>3
        <5> QED BY <1>7, <2>3, <5>1, AmongGrows
      <4> QED BY <1>3, <4>2, <4>3 DEF Among
    <3> QED BY <1>4, <3>1, <3>2 DEF FlowInv
  <2>4. CASE ~sub'.open /\ (sub'.queue = <<e>> \/ sub'.queue = <<SnapshotRequired(cursor')>>)
    <3>1. SnapshotRequired(cursor').kind # "event"
      BY DEF SnapshotRequired
    <3>2. QueueInv'
      BY <2>1, <2>4, <3>1, QueueCloses
    <3>3. LiveInv'
      BY <2>4 DEF LiveInv
    <3> QED BY <1>4, <3>2, <3>3 DEF FlowInv
  <2> QED BY <2>1, <2>2, <2>3, <2>4 DEF Told
<1>11. CASE /\ cursor' = cursor + 1 /\ phase # "gap"
            /\ IF Live /\ Matches(sub, cursor') THEN Told(Event(cursor')) ELSE sub' = sub
  <2> DEFINE e == Event(cursor')
  <2>1. e.kind = "event" /\ e.at = cursor + 1
    BY <1>11 DEF Event
  <2>2. Live => \A c \in 1..cursor : Due(c) => OnWire(c) \/ Among(c, sub.queue, Len(sub.queue))
    BY <1>11 DEF FlowInv, LiveInv, Live
  <2>3. CASE ~(Live /\ Matches(sub, cursor'))
    <3>1. sub' = sub
      BY <1>11, <2>3
    <3>2. Live => ~Due(cursor')
      <4> SUFFICES ASSUME Live, Due(cursor') PROVE FALSE
        OBVIOUS
      <4>1. sub.scopes = {Chat} /\ sub.after <= sequence /\ sub.after \in Nat
        <5>1. sub # None /\ sub.after = asked /\ sub.scopes = Wanted /\ asked <= sequence
          BY DEF LinkInv, Live
        <5>2. asked \in Nat
          BY <1>6 DEF TypeInv, PanelType, Cursor, n
        <5> QED BY <5>1, <5>2 DEF Wanted
      <4>2. cursor' > sub.after /\ written[cursor'] = Chat
        BY <1>6, <1>11, <4>1 DEF Due
      <4> QED BY <2>3, <4>1, <4>2 DEF Matches
    <3>3. LiveInv'
      <4> SUFFICES ASSUME Live, NEW c \in 1..cursor', Due(c)
                   PROVE  (OnWire(c) \/ Among(c, sub.queue, Len(sub.queue)))'
        BY <1>3, <3>1 DEF LiveInv, Live
      <4>1. c # cursor'
        BY <3>2
      <4>2. c \in 1..cursor
        BY <1>6, <1>11, <4>1
      <4> QED BY <1>3, <2>2, <3>1, <4>2 DEF Among
    <3> QED BY <1>4, <1>5, <3>1, <3>3 DEF FlowInv
  <2>4. CASE Live /\ Told(e)
    <3>0. e \in Envelope(n)
      <4>1. cursor' \in Cursor(n)
        BY <1>2, HomeAssistantIs DEF TypeInv, BrokerType, n
      <4> QED BY <1>6, <4>1, EnvelopesAre
    <3>1. CASE sub'.open /\ sub'.queue = Append(sub.queue, e)
      <4>1. ASSUME NEW c \in 1..(cursor + 1), Due(c)
            PROVE  c = cursor + 1 \/ OnWire(c) \/ Among(c, sub.queue, Len(sub.queue))
        <5>1. c = cursor + 1 \/ c \in 1..cursor
          BY <1>6
        <5> QED BY <2>2, <2>4, <4>1, <5>1
      <4>2. QueueInv'
        <5> HIDE DEF e
        <5> QED BY <1>2, <2>1, <2>4, <3>0, <3>1, <4>1, QueueGrows DEF n
      <4>3. LiveInv'
        <5> SUFFICES ASSUME NEW c \in 1..cursor', Due(c)
                     PROVE  (OnWire(c) \/ Among(c, sub.queue, Len(sub.queue)))'
          BY <1>3 DEF LiveInv
        <5>1. Len(sub'.queue) = Len(sub.queue) + 1 /\ Len(sub.queue) \in Nat
          BY <1>7, <2>4, <3>1
        <5>2. CASE c = cursor + 1
          <6>1. sub'.queue[Len(sub.queue) + 1] = Event(c)
            BY <1>7, <1>11, <2>4, <3>1, <5>2
          <6>2. Len(sub.queue) + 1 \in 1..Len(sub'.queue)
            BY <5>1
          <6> QED BY <6>1, <6>2 DEF Among
        <5>3. CASE OnWire(c)
          BY <1>3, <5>3
        <5>4. CASE Among(c, sub.queue, Len(sub.queue))
          <6>1. /\ Len(sub.queue) \in 0..Len(sub.queue)
                /\ Len(sub.queue) + 1 \in Len(sub.queue)..(Len(sub.queue) + 1)
            BY <5>1
          <6>2. Among(c, sub'.queue, Len(sub'.queue))
            BY <1>7, <2>4, <3>1, <5>1, <5>4, <6>1, AmongGrows
          <6> QED BY <6>2 DEF Among
        <5> QED BY <1>11, <4>1, <5>2, <5>3, <5>4
      <4> QED BY <1>4, <4>2, <4>3 DEF FlowInv
    <3>2. CASE ~sub'.open /\ sub'.queue = <<SnapshotRequired(cursor')>>
      <4>1. SnapshotRequired(cursor').kind # "event"
        BY DEF SnapshotRequired
      <4>2. QueueInv'
        BY <3>2, <4>1, QueueCloses
      <4>3. LiveInv'
        BY <3>2 DEF LiveInv
      <4> QED BY <1>4, <4>2, <4>3 DEF FlowInv
    <3>3. CASE sub' = sub /\ ~Live
      BY <2>4, <3>3
    <3> QED BY <2>1, <2>4, <3>1, <3>2, <3>3 DEF Told
  <2> QED BY <1>11, <2>3, <2>4
<1> QED BY <1>1, <1>8, <1>9, <1>10, <1>11 DEF BrokerMove, n

LEMMA FlowWrite ==
    ASSUME TypeInv, FlowInv, NEW s \in Scope, Write(s)
    PROVE  FlowInv'
<1> DEFINE n == Len(written)
<1>1. written' = Append(written, s) /\ UNCHANGED <<brokerVars, panelVars>>
  BY DEF Write, WriteEvent
<1>2. UNCHANGED <<cursor, phase, sub, wire, shown, sequence, poll>>
  BY <1>1 DEF brokerVars, panelVars
<1>3. n \in Nat /\ cursor \in 0..n /\ sequence \in 0..n /\ wire \in Seq(Envelope(n))
  BY JournalFacts DEF TypeInv, BrokerType, PanelType, Cursor
<1>4. \A c \in 1..n : written'[c] = written[c]
  <2>1. written \in Seq(Scope)
    BY DEF TypeInv, JournalType
  <2> QED BY <1>1, <2>1
<1>5. \A c \in 1..n : Due(c)' = Due(c)
  BY <1>2, <1>4 DEF Due
<1>6. \A c : OnWire(c)' = OnWire(c)
  BY <1>2 DEF OnWire, Among
<1> HIDE DEF n
<1>7. ShownInv'
  <2>1. \A c \in 1..sequence : c \in 1..n
    BY <1>3
  <2> QED BY <1>2, <1>4, <2>1 DEF FlowInv, ShownInv
<1>8. WireInv'
  <2> SUFFICES ASSUME NEW i \in 1..Len(wire), wire[i].kind = "event", NEW c \in 1..wire[i].at, Due(c)'
               PROVE  c = wire[i].at \/ Among(c, wire, i - 1)
    BY <1>2 DEF WireInv, Among
  <2>1. wire[i] \in Envelope(n)
    BY <1>3
  <2>2. wire[i].at \in 0..n
    BY <2>1 DEF Envelope, Cursor
  <2>3. c \in 1..n
    BY <1>3, <2>2
  <2> QED BY <1>5, <2>3 DEF FlowInv, WireInv
<1>9. QueueInv'
  <2> SUFFICES ASSUME sub # None, NEW i \in 1..Len(sub.queue), sub.queue[i].kind = "event",
                      NEW c \in 1..sub.queue[i].at, Due(c)'
               PROVE  c = sub.queue[i].at \/ OnWire(c) \/ Among(c, sub.queue, i - 1)
    BY <1>2, <1>6 DEF QueueInv, Among
  <2>1. sub.queue \in Seq(Envelope(n))
    BY DEF TypeInv, BrokerType, Subscription, n
  <2>2. sub.queue[i] \in Envelope(n)
    BY <2>1
  <2>3. sub.queue[i].at \in 0..n
    BY <2>2 DEF Envelope, Cursor
  <2>4. c \in 1..n
    BY <1>3, <2>3
  <2> QED BY <1>5, <2>4 DEF FlowInv, QueueInv
<1>10. LiveInv'
  <2>1. \A c \in 1..cursor : c \in 1..n
    BY <1>3
  <2> QED BY <1>2, <1>5, <1>6, <2>1 DEF FlowInv, LiveInv, Among
<1>11. PollInv'
  <2> SUFFICES ASSUME poll # None, NEW d \in poll.events, NEW c \in 1..d, Due(c)'
               PROVE  c \in poll.events
    BY <1>2 DEF FlowInv, PollInv
  <2>1. poll.events \subseteq 1..n
    BY DEF TypeInv, PanelType, Page, n
  <2>2. c \in 1..n
    BY <1>3, <2>1
  <2> QED BY <1>5, <2>2 DEF FlowInv, PollInv
<1> QED BY <1>7, <1>8, <1>9, <1>10, <1>11 DEF FlowInv

\* What the new subscription missed and what is due are the same thing, from
\* where the panel is now.
LEMMA FlowOpen ==
    ASSUME TypeInv, LinkInv, FlowInv, view = "chat", OpenSubscription
    PROVE  FlowInv'
<1>1. /\ request # None
      /\ sub' = WithHistory([after |-> request, scopes |-> Wanted, open |-> TRUE, queue |-> <<>>])
      /\ UNCHANGED <<written, cursor, phase, wire, shown, sequence, poll>>
  BY DEF OpenSubscription, Subscribe, journalVars
<1>2. request \in Cursor(Len(written)) /\ Wanted = {Chat} /\ request <= sequence
  BY <1>1 DEF TypeInv, PanelType, Wanted, LinkInv
<1>3. Len(written) \in Nat /\ cursor \in Nat /\ sequence \in Nat /\ request \in Nat
  BY <1>2, JournalFacts DEF TypeInv, BrokerType, PanelType, Cursor
<1> DEFINE q == sub'.queue
<1>4. \/ ~sub'.open /\ q = <<SnapshotRequired(cursor)>>
      \/ /\ sub'.open
         /\ \A c \in 1..cursor : Missed(c, request, {Chat}) => Among(c, q, Len(q))
         /\ \A i \in 1..Len(q) : q[i].at <= cursor /\
              \A c \in 1..q[i].at : Missed(c, request, {Chat}) => c = q[i].at \/ Among(c, q, i - 1)
  <2>1. JournalType /\ BrokerType /\ HistoryInv /\ Wanted \in {{Chat}, {System}}
    BY <1>2 DEF TypeInv
  <2>2. sub' = WithHistory([after |-> request, scopes |-> Wanted, open |-> TRUE, queue |-> <<>>])
    BY <1>1
  <2>3. PicksUp(sub', request, {Chat})
    BY <1>2, <2>1, <2>2, WithHistoryIs
  <2> QED BY <2>3 DEF PicksUp
<1>5. \A c : Due(c)' = Due(c) /\ OnWire(c)' = OnWire(c)
  BY <1>1 DEF Due, OnWire, Among
<1>6. \A c \in Nat : Due(c) => Missed(c, request, {Chat})
  BY <1>2, <1>3 DEF Due, Missed
<1>7. ShownInv' /\ WireInv' /\ PollInv'
  BY <1>1, <1>5 DEF FlowInv, ShownInv, WireInv, PollInv, Among, Due
<1>8. CASE ~sub'.open /\ q = <<SnapshotRequired(cursor)>>
  <2>1. SnapshotRequired(cursor).kind # "event"
    BY DEF SnapshotRequired
  <2>2. QueueInv'
    BY <1>8, <2>1, QueueCloses
  <2>3. LiveInv'
    BY <1>8 DEF LiveInv
  <2> QED BY <1>7, <2>2, <2>3 DEF FlowInv
<1>9. CASE /\ sub'.open
           /\ \A c \in 1..cursor : Missed(c, request, {Chat}) => Among(c, q, Len(q))
           /\ \A i \in 1..Len(q) : q[i].at <= cursor /\
                \A c \in 1..q[i].at : Missed(c, request, {Chat}) => c = q[i].at \/ Among(c, q, i - 1)
  <2>1. QueueInv'
    <3> SUFFICES ASSUME NEW i \in 1..Len(q), q[i].kind = "event", NEW c \in 1..q[i].at, Due(c)
                 PROVE  c = q[i].at \/ Among(c, q, i - 1)
      BY <1>5 DEF QueueInv, Among
    <3>1. c \in Nat
      OBVIOUS
    <3> HIDE DEF q
    <3> QED BY <1>6, <1>9, <3>1
  <2>2. LiveInv'
    <3> SUFFICES ASSUME NEW c \in 1..cursor, Due(c) PROVE Among(c, q, Len(q))
      BY <1>1, <1>5 DEF LiveInv, Among
    <3>1. c \in Nat
      BY <1>3
    <3> HIDE DEF q
    <3> QED BY <1>6, <1>9, <3>1
  <2> QED BY <1>7, <2>1, <2>2 DEF FlowInv
<1> QED BY <1>4, <1>8, <1>9

\* The oldest envelope goes from the queue to the wire: what was before the
\* others in one is before them in the other.
LEMMA FlowForward ==
    ASSUME TypeInv, FlowInv, Forward
    PROVE  FlowInv'
<1> DEFINE n == Len(written)
           q == sub.queue
           e == q[1]
<1>1. /\ sub # None /\ q \in Seq(Envelope(n)) /\ q # <<>> /\ wire \in Seq(Envelope(n))
      /\ UNCHANGED <<journalVars, cursor, phase, shown, sequence, poll>>
      /\ wire' = IF e = Heartbeat THEN wire ELSE Append(wire, e)
      /\ ~sub.open => sub' = None
      /\ sub.open => sub'.open /\ sub'.queue = Tail(q)
  <2>1. Head(q) = e
    BY ForwardTypes
  <2> QED BY <2>1, ForwardTypes
<1>2. UNCHANGED written
  BY <1>1 DEF journalVars
<1>3. e \in Envelope(n) /\ Len(q) \in Nat /\ Len(q) > 0 /\ Len(wire) \in Nat /\ n \in Nat
      /\ Len(Tail(q)) = Len(q) - 1 /\ 1 \in 1..Len(q)
  <2>1. Len(q) \in Nat /\ Len(q) > 0 /\ Len(wire) \in Nat /\ n \in Nat /\ Len(Tail(q)) = Len(q) - 1
    BY <1>1, JournalFacts DEF TypeInv
  <2>2. 1 \in 1..Len(q)
    BY <2>1
  <2> HIDE DEF n, q
  <2> QED BY <1>1, <2>1, <2>2
<1>4. \A c : Event(c) # Heartbeat
  BY DEF Event, Heartbeat
<1>5. \A c : Due(c)' = Due(c)
  BY <1>1, <1>2 DEF Due
<1>6. \A i \in 1..Len(q) : q[i].kind = "event" => \A c \in 1..q[i].at : Due(c) =>
         c = q[i].at \/ OnWire(c) \/ Among(c, q, i - 1)
  BY <1>1 DEF FlowInv, QueueInv
<1>7. \A i \in 1..Len(wire) : wire[i].kind = "event" => \A c \in 1..wire[i].at : Due(c) =>
         c = wire[i].at \/ Among(c, wire, i - 1)
  BY DEF FlowInv, WireInv
<1>8. sub.open /\ phase # "gap" => \A c \in 1..cursor : Due(c) => OnWire(c) \/ Among(c, q, Len(q))
  BY <1>1 DEF FlowInv, LiveInv
<1>9. ShownInv' /\ PollInv'
  BY <1>1, <1>2, <1>5 DEF FlowInv, ShownInv, PollInv
<1> HIDE DEF q, e, n
<1>10. \A c : OnWire(c) => OnWire(c)'
  <2> SUFFICES ASSUME NEW c, OnWire(c) PROVE Among(c, wire', Len(wire'))
    BY DEF OnWire, Among
  <2>1. CASE e = Heartbeat
    BY <1>1, <2>1 DEF OnWire, Among
  <2>2. CASE e # Heartbeat
    <3>1. wire' = Append(wire, e) /\ Len(wire') = Len(wire) + 1
      BY <1>1, <1>3, <2>2
    <3>2. Len(wire) \in 0..Len(wire) /\ Len(wire) + 1 \in Len(wire)..(Len(wire) + 1)
      BY <1>3
    <3> QED BY <1>1, <3>1, <3>2, AmongGrows DEF OnWire
  <2> QED BY <2>1, <2>2
<1>11. \A c : e = Event(c) => OnWire(c)'
  <2> SUFFICES ASSUME NEW c, e = Event(c) PROVE Among(c, wire', Len(wire'))
    BY DEF OnWire, Among
  <2>1. wire' = Append(wire, e) /\ Len(wire') = Len(wire) + 1
    BY <1>1, <1>3, <1>4
  <2>2. wire'[Len(wire) + 1] = e /\ Len(wire) + 1 \in 1..Len(wire')
    BY <1>1, <1>3, <2>1
  <2> QED BY <2>2 DEF Among
<1>12. WireInv'
  <2>1. CASE e = Heartbeat
    BY <1>1, <1>5, <1>7, <2>1 DEF WireInv, Among
  <2>2. CASE e # Heartbeat
    <3>1. wire' = Append(wire, e) /\ Len(wire') = Len(wire) + 1
      BY <1>1, <1>3, <2>2
    <3> SUFFICES ASSUME NEW i \in 1..(Len(wire) + 1), Append(wire, e)[i].kind = "event",
                        NEW c \in 1..Append(wire, e)[i].at, Due(c)
                 PROVE  c = Append(wire, e)[i].at \/ Among(c, Append(wire, e), i - 1)
      BY <1>5, <3>1 DEF WireInv, Among
    <3>2. CASE i = Len(wire) + 1
      <4>1. Append(wire, e)[i] = e
        BY <1>1, <1>3, <3>2
      <4>2. ~Among(c, q, 0)
        BY DEF Among
      <4>3. c = e.at \/ OnWire(c)
        <5>1. q[1] = e /\ 1 - 1 = 0
          BY DEF e
        <5> QED BY <1>3, <1>6, <4>1, <4>2, <5>1
      <4>4. OnWire(c) => Among(c, Append(wire, e), i - 1)
        <5>1. Len(wire) \in 0..Len(wire) /\ i - 1 = Len(wire) /\ Len(wire) \in Len(wire)..(Len(wire) + 1)
          BY <1>3, <3>2
        <5> QED BY <1>1, <5>1, AmongGrows DEF OnWire
      <4> QED BY <4>1, <4>3, <4>4
    <3>3. CASE i \in 1..Len(wire)
      <4>1. Append(wire, e)[i] = wire[i]
        BY <1>1, <1>3, <3>3
      <4>2. c = wire[i].at \/ Among(c, wire, i - 1)
        BY <1>7, <3>3, <4>1
      <4>3. Among(c, wire, i - 1) => Among(c, Append(wire, e), i - 1)
        <5>1. i - 1 \in 0..Len(wire) /\ i - 1 \in (i - 1)..(Len(wire) + 1)
          BY <1>3, <3>3
        <5> QED BY <1>1, <5>1, AmongGrows
      <4> QED BY <4>1, <4>2, <4>3
    <3> QED BY <1>3, <3>2, <3>3
  <2> QED BY <2>1, <2>2
<1>13. \A c, m : m \in 0..Len(q) /\ Among(c, q, m) => OnWire(c)' \/ Among(c, Tail(q), m - 1)
  <2> SUFFICES ASSUME NEW c, NEW m \in 0..Len(q), Among(c, q, m), ~OnWire(c)'
               PROVE  Among(c, Tail(q), m - 1)
    OBVIOUS
  <2>1. q[1] # Event(c)
    BY <1>11 DEF e
  <2> QED BY <1>1, <2>1, AmongTail
<1>14. QueueInv' /\ LiveInv'
  <2>1. CASE ~sub.open
    BY <1>1, <2>1 DEF QueueInv, LiveInv, q
  <2>2. CASE sub.open
    <3>1. sub'.queue = Tail(q) /\ sub'.open
      BY <1>1, <2>2
    <3>2. QueueInv'
      <4> SUFFICES ASSUME NEW i \in 1..Len(Tail(q)), Tail(q)[i].kind = "event",
                          NEW c \in 1..Tail(q)[i].at, Due(c), ~OnWire(c)'
                   PROVE  c = Tail(q)[i].at \/ Among(c, Tail(q), i - 1)
        BY <1>5, <3>1 DEF QueueInv, Among
      <4>1. i \in 1..(Len(q) - 1) /\ i + 1 \in 1..Len(q) /\ (i + 1) - 1 = i /\ i \in 0..Len(q)
        BY <1>3
      <4>2. Tail(q)[i] = q[i + 1]
        BY <1>1, <4>1
      <4>3. c = q[i + 1].at \/ OnWire(c) \/ Among(c, q, i)
        BY <1>6, <4>1, <4>2
      <4>4. Among(c, q, i) => Among(c, Tail(q), i - 1)
        BY <1>13, <4>1
      <4> QED BY <1>10, <4>2, <4>3, <4>4
    <3>3. LiveInv'
      <4> SUFFICES ASSUME phase # "gap", NEW c \in 1..cursor, Due(c), ~OnWire(c)'
                   PROVE  Among(c, Tail(q), Len(Tail(q)))
        BY <1>1, <1>5, <3>1 DEF LiveInv, Among
      <4>1. Among(c, q, Len(q))
        BY <1>8, <1>10, <2>2
      <4>2. Len(q) \in 0..Len(q)
        BY <1>3
      <4> QED BY <1>3, <1>13, <4>1, <4>2
    <3> QED BY <3>2, <3>3
  <2> QED BY <2>1, <2>2
<1> QED BY <1>9, <1>12, <1>14 DEF FlowInv

\* The panel takes the oldest envelope off the wire, and what is still due then
\* was not in it.
LEMMA FlowReceives ==
    ASSUME TypeInv, FlowInv, wire # <<>>, wire' = Tail(wire),
           UNCHANGED <<written, cursor, phase, sub>>, poll' \in {poll, None}, ShownInv',
           \A c \in Nat : Due(c)' => Due(c) /\ wire[1] # Event(c)
    PROVE  FlowInv'
<1> DEFINE n == Len(written)
<1>1. wire \in Seq(Envelope(n)) /\ Len(wire) \in Nat /\ Len(wire) > 0 /\ Len(Tail(wire)) = Len(wire) - 1
  <2>1. wire \in Seq(Envelope(n))
    BY DEF TypeInv, PanelType
  <2> QED BY <2>1
<1> HIDE DEF n
<1>2. \A c \in Nat, m \in 0..Len(wire) : Due(c)' /\ Among(c, wire, m) => Among(c, Tail(wire), m - 1)
  BY <1>1, AmongTail
<1>3. \A c \in Nat : Due(c)' /\ OnWire(c) => OnWire(c)'
  <2> SUFFICES ASSUME NEW c \in Nat, Due(c)', OnWire(c) PROVE Among(c, Tail(wire), Len(Tail(wire)))
    BY DEF OnWire, Among
  <2>1. Len(wire) \in 0..Len(wire)
    BY <1>1
  <2> QED BY <1>1, <1>2, <2>1 DEF OnWire
<1>4. WireInv'
  <2> SUFFICES ASSUME NEW i \in 1..Len(Tail(wire)), Tail(wire)[i].kind = "event",
                      NEW c \in 1..Tail(wire)[i].at, Due(c)'
               PROVE  c = Tail(wire)[i].at \/ Among(c, Tail(wire), i - 1)
    BY DEF WireInv, Among
  <2>1. i \in 1..(Len(wire) - 1) /\ i + 1 \in 1..Len(wire) /\ (i + 1) - 1 = i /\ i \in 0..Len(wire)
    BY <1>1
  <2>2. Tail(wire)[i] = wire[i + 1]
    BY <1>1, <2>1
  <2>3. c = wire[i + 1].at \/ Among(c, wire, i)
    BY <2>1, <2>2 DEF FlowInv, WireInv
  <2> QED BY <1>2, <2>1, <2>2, <2>3
<1>5. QueueInv'
  <2> SUFFICES ASSUME sub # None, NEW i \in 1..Len(sub.queue), sub.queue[i].kind = "event",
                      NEW c \in 1..sub.queue[i].at, Due(c)'
               PROVE  c = sub.queue[i].at \/ OnWire(c)' \/ Among(c, sub.queue, i - 1)
    BY DEF QueueInv, Among
  <2> QED BY <1>3 DEF FlowInv, QueueInv
<1>6. LiveInv'
  <2> SUFFICES ASSUME sub # None, sub.open, phase # "gap", NEW c \in 1..cursor, Due(c)'
               PROVE  OnWire(c)' \/ Among(c, sub.queue, Len(sub.queue))
    BY DEF LiveInv, Among
  <2> QED BY <1>3 DEF FlowInv, LiveInv
<1>7. PollInv'
  BY DEF FlowInv, PollInv
<1> QED BY <1>4, <1>5, <1>6, <1>7 DEF FlowInv

LEMMA FlowReceiveChat ==
    ASSUME TypeInv, needsSnapshot \/ FlowInv, ReceiveChat
    PROVE  needsSnapshot' \/ FlowInv'
<1> DEFINE e == Head(wire)
<1>0. UNCHANGED written /\ e = wire[1]
  BY AloneFrame DEF PanelAlone, journalVars
<1>1. wire # <<>> /\ e \in Envelope(Len(written)) /\ e.at \in Nat /\ sequence \in Nat
  <2>1. wire # <<>> /\ e \in Envelope(Len(written)) /\ e.at \in Cursor(Len(written))
    BY <1>0, ReceiveTypes
  <2> QED BY <2>1, JournalFacts DEF TypeInv, PanelType, Cursor
<1> HIDE DEF e
<1>2. CASE AcceptControl(e)
  BY <1>2 DEF AcceptControl
<1>3. CASE AcceptEvent(e)
  <2>1. /\ e.kind = "event" /\ e.at > sequence /\ ~needsSnapshot /\ FlowInv
        /\ shown' = shown \cup {e.at} /\ sequence' = e.at /\ wire' = Tail(wire)
        /\ poll' \in {poll, None} /\ UNCHANGED <<cursor, phase, sub>>
    BY <1>3 DEF AcceptEvent, IsNews, Settle, brokerVars
  <2>2. \A c \in 1..e.at : Due(c) => c = e.at
    <3>1. 1 \in 1..Len(wire) /\ 1 - 1 = 0
      <4>1. wire \in Seq(Envelope(Len(written)))
        BY DEF TypeInv, PanelType
      <4> QED BY <1>1, <4>1
    <3>2. \A c : ~Among(c, wire, 0)
      BY DEF Among
    <3> QED BY <1>0, <2>1, <3>1, <3>2 DEF FlowInv, WireInv
  <2>3. ShownInv'
    <3> SUFFICES ASSUME NEW c \in 1..e.at, written[c] = Chat PROVE c \in shown'
      BY <1>0, <2>1 DEF ShownInv
    <3>1. CASE c > sequence
      BY <2>1, <2>2, <3>1 DEF Due
    <3>2. CASE ~(c > sequence)
      <4>1. c \in 1..sequence
        BY <1>1, <3>2
      <4> QED BY <2>1, <4>1 DEF FlowInv, ShownInv
    <3> QED BY <3>1, <3>2
  <2>4. \A c \in Nat : Due(c)' => Due(c) /\ wire[1] # Event(c)
    <3> SUFFICES ASSUME NEW c \in Nat, Due(c)' PROVE Due(c) /\ e # Event(c)
      BY <1>0
    <3>1. written[c] = Chat /\ c > e.at
      BY <1>0, <2>1 DEF Due
    <3>2. e # Event(c)
      <4> SUFFICES ASSUME e = Event(c) PROVE FALSE
        OBVIOUS
      <4>1. e.at = c
        BY DEF Event
      <4> QED BY <1>1, <3>1, <4>1
    <3>3. c > sequence
      BY <1>1, <2>1, <3>1
    <3> QED BY <3>1, <3>2, <3>3 DEF Due
  <2> QED BY <1>0, <1>1, <2>1, <2>3, <2>4, FlowReceives
<1>4. CASE Ignore(e)
  <2>1. /\ ~IsNews(e) /\ wire' = Tail(wire)
        /\ UNCHANGED <<cursor, phase, sub, shown, sequence, poll, needsSnapshot>>
    BY <1>4 DEF Ignore, brokerVars
  <2> SUFFICES ASSUME FlowInv PROVE FlowInv'
    BY <2>1
  <2>2. ShownInv'
    BY <1>0, <2>1 DEF FlowInv, ShownInv
  <2>3. \A c \in Nat : Due(c)' => Due(c) /\ wire[1] # Event(c)
    <3> SUFFICES ASSUME NEW c \in Nat, Due(c)' PROVE Due(c) /\ e # Event(c)
      BY <1>0
    <3>1. Due(c)
      BY <1>0, <2>1 DEF Due
    <3>2. e # Event(c)
      BY <2>1, <3>1 DEF Event, IsNews, Due
    <3> QED BY <3>1, <3>2
  <2> QED BY <1>0, <1>1, <2>1, <2>2, <2>3, FlowReceives
<1> QED BY <1>2, <1>3, <1>4 DEF ReceiveChat, e

\* A snapshot that is complete up to its newest event is what is shown now.
LEMMA FlowCommit ==
    ASSUME TypeInv, ReadInv, Commit
    PROVE  FlowInv'
<1>1. /\ refresh # None /\ refresh.ready /\ shown' = refresh.got /\ poll' = None
      /\ sub' = None /\ wire' = <<>> /\ UNCHANGED written
  BY DEF Commit, Start, Settle, journalVars
<1>2. sequence' \in Cursor(Len(written)) /\ sequence' \in refresh.got \cup {refresh.floor}
  BY CommitIs
<1>3. ShownInv'
  <2> SUFFICES ASSUME NEW c \in 1..sequence', written[c] = Chat PROVE c \in refresh.got
    BY <1>1 DEF ShownInv
  <2>1. c \in 1..Len(written) /\ c <= sequence'
    <3>1. Len(written) \in Nat /\ sequence' \in 0..Len(written)
      BY <1>2, JournalFacts DEF TypeInv, Cursor
    <3> QED BY <3>1
  <2>2. c <= refresh.floor \/ \E d \in refresh.got : c <= d
    BY <1>2, <2>1
  <2> QED BY <1>1, <2>1, <2>2 DEF ReadInv
<1>4. PollInv'
  BY <1>1 DEF PollInv
<1> QED BY <1>1, <1>3, <1>4, FlowCut

\* A poll brings everything that is due, up to the last it brings.
LEMMA FlowTick ==
    ASSUME TypeInv, Whole, FlowInv, TickEvents
    PROVE  FlowInv'
<1> DEFINE page == Replay(sequence, {Chat})
           found == (UNION {Retained(s) : s \in {Chat}}) \ 0..sequence
           n == Len(written)
<1>1. /\ poll' = page
      /\ UNCHANGED <<written, cursor, phase, sub, wire, shown, sequence>>
  BY DEF TickEvents, brokerVars, journalVars
<1>2. n \in Nat /\ sequence \in Cursor(n) /\ sequence \in Nat /\ {Chat} \in SUBSET Scope
  BY JournalFacts DEF TypeInv, PanelType, Cursor
<1>3. /\ page \in Page(n) /\ page.kind \in {"page", "gone"}
      /\ page.kind = "gone" => sequence < Floor({Chat})
      /\ page.events \subseteq found
      /\ \A d \in page.events : \A c \in found : c <= d => c \in page.events
  BY <1>2, ReplayIs DEF TypeInv
<1>4. page.kind = "page"
  <2>1. Floor({Chat}) = 0
    BY <1>2, FloorIs DEF TypeInv, Whole
  <2> HIDE DEF page
  <2> QED BY <1>2, <1>3, <2>1
<1>5. found = {c \in 1..n : written[c] = Chat} \ 0..sequence
  <2>1. Retained(Chat) = {c \in 1..n : written[c] = Chat}
    BY JournalFacts DEF TypeInv, Whole
  <2> QED BY <2>1
<1> HIDE DEF page, found, n
<1>6. PollInv'
  <2> SUFFICES ASSUME NEW d \in page.events, NEW c \in 1..d, Due(c) PROVE c \in page.events
    BY <1>1, <1>4 DEF PollInv, Due
  <2>1. d \in 1..n
    BY <1>3, <1>5
  <2>2. c \in 1..n /\ c <= d /\ c > sequence /\ written[c] = Chat
    BY <1>2, <2>1 DEF Due
  <2>3. c \in found
    BY <1>2, <1>5, <2>2
  <2> QED BY <1>3, <2>2, <2>3
<1>7. poll' \in {poll, None} => FlowInv'
  BY <1>1, FlowStays
<1>8. ShownInv' /\ WireInv' /\ QueueInv' /\ LiveInv'
  BY <1>1 DEF FlowInv, ShownInv, WireInv, QueueInv, LiveInv, Due, OnWire, Among
<1> QED BY <1>6, <1>8 DEF FlowInv

LEMMA FlowApply ==
    ASSUME TypeInv, FlowInv, ApplyEvents
    PROVE  FlowInv'
<1>1. /\ poll # None /\ poll' = None /\ shown' = shown \cup (poll.events \ 0..sequence)
      /\ UNCHANGED <<written, cursor, phase, sub, wire>>
  BY DEF ApplyEvents, brokerVars, journalVars
<1>2. /\ sequence' \in Cursor(Len(written)) /\ sequence' >= sequence
      /\ sequence' \in poll.events \cup {sequence}
  BY ApplyIs
<1>3. Len(written) \in Nat /\ sequence \in Nat /\ sequence' \in Nat
  BY <1>2, JournalFacts DEF TypeInv, PanelType, Cursor
<1>4. \A c \in Nat : Due(c)' => Due(c)
  BY <1>1, <1>2, <1>3 DEF Due
<1>5. \A c : OnWire(c)' = OnWire(c)
  BY <1>1 DEF OnWire, Among
<1>6. ShownInv'
  <2> SUFFICES ASSUME NEW c \in 1..sequence', written[c] = Chat
               PROVE  c \in shown \cup (poll.events \ 0..sequence)
    BY <1>1 DEF ShownInv
  <2>1. CASE c <= sequence
    <3>1. c \in 1..sequence
      BY <1>3, <2>1
    <3> QED BY <3>1 DEF FlowInv, ShownInv
  <2>2. CASE ~(c <= sequence)
    <3>1. sequence' \in poll.events /\ c > sequence /\ c \in Nat /\ Due(c)
      <4>1. c > sequence /\ c \in Nat /\ c <= sequence'
        BY <1>3, <2>2
      <4>2. sequence' # sequence
        BY <1>3, <4>1
      <4> QED BY <1>2, <4>1, <4>2 DEF Due
    <3>2. c \in poll.events
      BY <1>1, <3>1 DEF FlowInv, PollInv
    <3> QED BY <1>3, <3>1, <3>2
  <2> QED BY <2>1, <2>2
<1>7. WireInv' /\ QueueInv' /\ LiveInv'
  <2>1. WireInv'
    <3> SUFFICES ASSUME NEW i \in 1..Len(wire), wire[i].kind = "event", NEW c \in 1..wire[i].at, Due(c)'
                 PROVE  c = wire[i].at \/ Among(c, wire, i - 1)
      BY <1>1 DEF WireInv, Among
    <3>1. c \in Nat
      OBVIOUS
    <3> QED BY <1>4, <3>1 DEF FlowInv, WireInv
  <2>2. QueueInv'
    <3> SUFFICES ASSUME sub # None, NEW i \in 1..Len(sub.queue), sub.queue[i].kind = "event",
                        NEW c \in 1..sub.queue[i].at, Due(c)'
                 PROVE  c = sub.queue[i].at \/ OnWire(c) \/ Among(c, sub.queue, i - 1)
      BY <1>1, <1>5 DEF QueueInv, Among
    <3>1. c \in Nat
      OBVIOUS
    <3> QED BY <1>4, <3>1 DEF FlowInv, QueueInv
  <2>3. LiveInv'
    <3> SUFFICES ASSUME sub # None, sub.open, phase # "gap", NEW c \in 1..cursor, Due(c)'
                 PROVE  OnWire(c) \/ Among(c, sub.queue, Len(sub.queue))
      BY <1>1, <1>5 DEF LiveInv, Among
    <3>1. c \in Nat
      OBVIOUS
    <3> QED BY <1>4, <3>1 DEF FlowInv, LiveInv
  <2> QED BY <2>1, <2>2, <2>3
<1>8. PollInv'
  BY <1>1 DEF PollInv
<1> QED BY <1>6, <1>7, <1>8 DEF FlowInv

\* A chat that is selected shows nothing, and nothing is what it has read.
LEMMA FlowSelect ==
    ASSUME Select
    PROVE  FlowInv'
<1>1. sub' = None /\ wire' = <<>> /\ poll' = None /\ sequence' = 0
  BY DEF Select, Stop
<1>2. ShownInv' /\ PollInv'
  BY <1>1 DEF ShownInv, PollInv
<1> QED BY <1>1, <1>2, FlowCut

-----------------------------------------------------------------------------
(* The invariant and what it is for *)

LEMMA FlowNext ==
    ASSUME TypeInv, LinkInv, Whole, ReadInv, needsSnapshot \/ FlowInv, [PanelNext]_vars
    PROVE  needsSnapshot' \/ FlowInv'
<1>1. view = "chat"
  BY DEF Whole
<1>2. ASSUME UNCHANGED <<written, cursor, phase, sub, wire, shown, sequence, needsSnapshot>>,
             poll' \in {poll, None}
      PROVE  needsSnapshot' \/ FlowInv'
  BY <1>2, FlowStays
<1>3. ASSUME UNCHANGED <<written, shown, sequence, needsSnapshot>>, poll' \in {poll, None},
             sub' = None, wire' = <<>>
      PROVE  needsSnapshot' \/ FlowInv'
  <2> SUFFICES ASSUME FlowInv PROVE FlowInv'
    BY <1>3
  <2>1. ShownInv' /\ PollInv'
    BY <1>3 DEF FlowInv, ShownInv, PollInv, Due
  <2> QED BY <1>3, <2>1, FlowCut
<1>4. CASE \E s \in Scope : Write(s)
  <2>1. PICK s \in Scope : Write(s)
    BY <1>4
  <2>2. needsSnapshot' = needsSnapshot
    BY <2>1 DEF Write, panelVars
  <2> QED BY <2>1, <2>2, FlowWrite
<1>5. CASE \E s \in Chats \ Wanted : Purge(s)
  BY <1>2, <1>5 DEF Purge, PurgeThread, brokerVars, panelVars
<1>6. CASE HomeAssistant
  <2>1. needsSnapshot' = needsSnapshot
    BY <1>6, HomeAssistantIs DEF panelVars
  <2> QED BY <1>1, <1>6, <2>1, FlowHome
<1>7. CASE RestartHomeAssistant
  BY <1>3, <1>7 DEF RestartHomeAssistant, Restart, LoseConnection, Settle, journalVars
<1>8. CASE OpenSubscription
  <2>1. needsSnapshot' = needsSnapshot
    BY <1>8 DEF OpenSubscription
  <2> QED BY <1>1, <1>8, <2>1, FlowOpen
<1>9. CASE RefuseSubscription \/ Linked \/ UserRefresh \/ LoadPage \/ RefreshFails \/ TickLinked
           \/ PollFails
  <2>1. /\ UNCHANGED <<sub, wire, shown, sequence, needsSnapshot>> /\ poll' \in {poll, None}
    BY <1>9 DEF RefuseSubscription, Linked, UserRefresh, LoadPage, RefreshFails, TickLinked,
                PollFails, Settle, Read, brokerVars
  <2>2. UNCHANGED <<written, cursor, phase>>
    BY <1>9, AloneFrame DEF PanelAlone, Poll, journalVars
  <2> QED BY <1>2, <2>1, <2>2
<1>10. CASE Reconnect \/ Disconnect
  <2>1. /\ UNCHANGED <<shown, sequence, needsSnapshot, poll>> /\ sub' = None /\ wire' = <<>>
    BY <1>10 DEF Reconnect, Disconnect, Start, LoseConnection
  <2>2. UNCHANGED written
    BY <1>10, AloneFrame DEF PanelAlone, journalVars
  <2> QED BY <1>3, <2>1, <2>2
<1>11. CASE Forward
  <2>1. needsSnapshot' = needsSnapshot
    BY <1>11 DEF Forward
  <2> QED BY <1>11, <2>1, FlowForward
<1>12. CASE ReceiveChat
  BY <1>12, FlowReceiveChat
<1>13. CASE ReceiveSystem \/ ReadSystem \/ ReadSystemFails
  BY <1>1, <1>13 DEF ReceiveSystem, ReadSystem, ReadSystemFails
<1>14. CASE Select
  BY <1>14, FlowSelect
<1>15. CASE Commit
  BY <1>15, FlowCommit
<1>16. CASE TickSnapshot \/ ApplyGap
  <2>1. ApplyGap => needsSnapshot'
    BY DEF ApplyGap
  <2>2. TickSnapshot => needsSnapshot /\ needsSnapshot' = needsSnapshot
    BY DEF TickSnapshot
  <2> QED BY <1>16, <2>1, <2>2
<1>17. CASE TickEvents
  BY <1>17, FlowTick DEF TickEvents
<1>18. CASE ApplyEvents
  <2>1. needsSnapshot' = needsSnapshot
    BY <1>18 DEF ApplyEvents
  <2> QED BY <1>18, <2>1, FlowApply
<1>19. CASE UNCHANGED vars
  BY <1>2, <1>19 DEF vars, journalVars, brokerVars, panelVars
<1> QED
  BY <1>4, <1>5, <1>6, <1>7, <1>8, <1>9, <1>10, <1>11, <1>12, <1>13, <1>14, <1>15, <1>16,
     <1>17, <1>18, <1>19 DEF PanelNext, Poll

LEMMA ChatInit == PanelInit => ChatInv /\ SystemInv
<1> SUFFICES ASSUME PanelInit PROVE ChatInv /\ SystemInv
  OBVIOUS
<1>1. /\ sequence = 0 /\ sub = None /\ wire = <<>> /\ poll = None /\ Len(written) = 0
      /\ refresh = Reading(IF view = "chat" THEN "select" ELSE "system", 0)
  BY DEF PanelInit, JournalInit, BrokerInit
<1>2. ReadInv
  BY <1>1 DEF ReadInv, Reading
<1>3. FlowInv
  BY <1>1 DEF FlowInv, ShownInv, WireInv, QueueInv, LiveInv, PollInv
<1>4. SystemInv
  BY <1>1 DEF SystemInv
<1> QED BY <1>2, <1>3, <1>4 DEF ChatInv

\* StreamInv is inductive.
StreamInv == TypeInv /\ FiredInv /\ LinkInv /\ ChatInv /\ SystemInv

\* StreamInv is an invariant: the broker's history has no hole, a receipt is
\* ahead of what was put on the bus, and what a panel has not been told of is
\* on its way to it in order, or in the snapshot it is reading
\* (EventBroker._consume, _replay_history, TaskEventForwarder._handle,
\* acceptEvent, _loadThreadEventHistory).
THEOREM StreamInvariant == PanelSpec => []StreamInv
<1>1. PanelInit => StreamInv
  BY TypeInit, FiredInit, LinkInit, ChatInit DEF StreamInv
<1>2. StreamInv /\ [PanelNext]_vars => StreamInv'
  <2> SUFFICES ASSUME StreamInv, [PanelNext]_vars PROVE StreamInv'
    OBVIOUS
  <2>1. TypeInv /\ FiredInv /\ LinkInv /\ ChatInv /\ SystemInv
    BY DEF StreamInv
  <2>2. TypeInv' /\ FiredInv' /\ LinkInv' /\ SystemInv'
    BY <2>1, TypeNext, FiredNext, LinkNext, SystemNext
  <2>3. ChatInv'
    <3> SUFFICES ASSUME Whole' PROVE ReadInv' /\ (needsSnapshot' \/ FlowInv')
      BY DEF ChatInv, Whole
    <3>1. Whole
      BY <2>1, WholeBefore
    <3>2. ReadInv /\ (needsSnapshot \/ FlowInv)
      BY <2>1, <3>1 DEF ChatInv, Whole
    <3> QED BY <2>1, <3>1, <3>2, ReadNext, FlowNext
  <2> QED BY <2>2, <2>3 DEF StreamInv
<1> QED BY <1>1, <1>2, PTL DEF PanelSpec

\* What the panel says it has read up to it shows, unless it knows that it
\* needs a snapshot or that a read is pending or has failed, or the journal has
\* deleted events of the chat (event-stream.js, codex-bridge-panel.js).
THEOREM StreamNoSilentGap == PanelSpec => []NoSilentGap
<1>1. StreamInv => NoSilentGap
  <2> SUFFICES ASSUME StreamInv PROVE NoSilentGap
    OBVIOUS
  <2>1. view \in {"chat", "system"} /\ minimum[Chat] \in Nat
    BY JournalFacts DEF StreamInv, TypeInv, PanelType
  <2>2. CASE view = "chat"
    <3> SUFFICES ASSUME ~needsSnapshot, ~Trimmed
                 PROVE  {c \in 1..sequence : written[c] \in Wanted} \subseteq shown
      BY <2>2 DEF NoSilentGap
    <3>1. minimum[Chat] = 0
      BY <2>1, <2>2 DEF Trimmed
    <3>2. ShownInv
      BY <2>2, <3>1 DEF StreamInv, ChatInv, FlowInv
    <3> QED BY <2>2, <3>2 DEF ShownInv, Wanted
  <2>3. CASE view = "system"
    BY <2>3 DEF StreamInv, SystemInv, NoSilentGap, Wanted
  <2> QED BY <2>1, <2>2, <2>3
<1> QED BY <1>1, StreamInvariant, PTL

\* An event of a task is put on the bus at most once, whatever is replayed
\* after a failing listener or a restart (TaskEventForwarder._handle).
THEOREM StreamFiredOnce == PanelSpec => []FiredOnce
<1>1. StreamInv => FiredOnce
  <2> SUFFICES ASSUME StreamInv, NEW c \in 1..MaxEvents PROVE fired[c] <= 1
    BY DEF FiredOnce
  <2>1. fired[c] \in {0, 1}
    BY DEF StreamInv, FiredInv
  <2> QED BY <2>1
<1> QED BY <1>1, StreamInvariant, PTL

=============================================================================

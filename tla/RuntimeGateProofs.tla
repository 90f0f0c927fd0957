------------------------- MODULE RuntimeGateProofs -------------------------
(***************************************************************************)
(* Proofs about RuntimeGate, for every set of leases and owners and every  *)
(* capacity and queue bound.  None of the gate's safety properties is      *)
(* inductive alone: the counter stays a natural number only because it is  *)
(* exact, it stays exact only because a queued lease means full capacity,  *)
(* and that holds only because a mutation excludes the queue.  IInv is     *)
(* their conjunction with three facts about the queue.                     *)
(***************************************************************************)
EXTENDS RuntimeGate, TLAPS, FiniteSetTheorems, SequenceTheorems

\* What the queue of a gate never holds: a lease that is not a prompt, or
\* anything after close.
QueueShape ==
    /\ IsFiniteSet(ActivePromptLeases)
    /\ \A l \in Lease : state[l] = "queued" => kind[l] = "prompt"
    /\ closed => queue = <<>>

\* The inductive invariant of the gate.
IInv ==
    /\ TypeOK
    /\ CapacityExact
    /\ QueueExact
    /\ MutationExclusive
    /\ WorkConserving
    /\ OwnerIndexExact
    /\ MutationIndexExact
    /\ QueueShape

-----------------------------------------------------------------------------
(* Sequences *)

\* deque.remove of a lease that occurs once: a sequence of the other entries.
LEMMA WithoutFacts ==
    ASSUME NEW S, NEW q \in Seq(S), NEW l \in S,
           \A i, j \in 1..Len(q) : q[i] = q[j] => i = j,
           \E i \in 1..Len(q) : q[i] = l
    PROVE  /\ Without(q, l) \in Seq(S)
           /\ Len(Without(q, l)) = Len(q) - 1
           /\ {Without(q, l)[i] : i \in 1..Len(Without(q, l))} = {q[i] : i \in 1..Len(q)} \ {l}
           /\ \A i, j \in 1..Len(Without(q, l)) :
                Without(q, l)[i] = Without(q, l)[j] => i = j
<1> DEFINE k == CHOOSE j \in 1..Len(q) : q[j] = l
           w == Without(q, l)
<1>1. k \in 1..Len(q) /\ q[k] = l
  OBVIOUS
<1>2. w = [j \in 1..(Len(q) - 1) |-> IF j < k THEN q[j] ELSE q[j + 1]]
  BY DEF Without
<1>3. Len(q) - 1 \in Nat
  BY <1>1
<1>. HIDE DEF k, w
<1>4. w \in Seq(S) /\ Len(w) = Len(q) - 1
  <2>1. \A j \in 1..(Len(q) - 1) : (IF j < k THEN q[j] ELSE q[j + 1]) \in S
    BY <1>1, <1>3
  <2>. QED  BY <2>1, <1>2, <1>3
<1>5. \A j \in 1..(Len(q) - 1) : w[j] = IF j < k THEN q[j] ELSE q[j + 1]
  BY <1>2
<1>6. {w[i] : i \in 1..Len(w)} \subseteq {q[i] : i \in 1..Len(q)} \ {l}
  BY <1>1, <1>3, <1>4, <1>5
<1>7. {q[i] : i \in 1..Len(q)} \ {l} \subseteq {w[i] : i \in 1..Len(w)}
  <2>. SUFFICES ASSUME NEW i \in 1..Len(q), q[i] # l
                PROVE  \E j \in 1..Len(w) : w[j] = q[i]
    OBVIOUS
  <2>1. CASE i < k
    BY <2>1, <1>1, <1>3, <1>4, <1>5
  <2>2. CASE i > k
    <3>1. i - 1 \in 1..Len(w) /\ ~(i - 1 < k) /\ (i - 1) + 1 = i
      BY <2>2, <1>1, <1>4
    <3>. QED  BY <3>1, <1>4, <1>5
  <2>. QED  BY <2>1, <2>2, <1>1
<1>8. \A i, j \in 1..Len(w) : w[i] = w[j] => i = j
  <2>. SUFFICES ASSUME NEW i \in 1..Len(w), NEW j \in 1..Len(w), w[i] = w[j]
                PROVE  i = j
    OBVIOUS
  <2>. DEFINE up(x) == IF x < k THEN x ELSE x + 1
  <2>1. up(i) \in 1..Len(q) /\ up(j) \in 1..Len(q) /\ w[i] = q[up(i)] /\ w[j] = q[up(j)]
    BY <1>1, <1>3, <1>4, <1>5
  <2>2. up(i) = up(j)
    BY <2>1
  <2>. QED  BY <2>2, <1>1, <1>3, <1>4
<1>. QED  BY <1>4, <1>6, <1>7, <1>8 DEF w

\* popleft: length and entries of what is left of a nonempty queue.
LEMMA PopShape ==
    ASSUME NEW S, NEW q \in Seq(S), q # <<>>
    PROVE  LET w == SubSeq(q, 2, Len(q))
           IN  /\ w \in Seq(S)
               /\ Len(q) \in Nat /\ Len(q) >= 1
               /\ Len(w) = Len(q) - 1
               /\ \A i \in 1..Len(w) : w[i] = q[i + 1]
<1>1. Len(q) \in Nat /\ Len(q) >= 1
  OBVIOUS
<1>2. \A i \in 2..Len(q) : q[i] \in S
  BY <1>1
<1>3. /\ SubSeq(q, 2, Len(q)) \in Seq(S)
      /\ Len(SubSeq(q, 2, Len(q))) = IF 2 <= Len(q) THEN Len(q) - 2 + 1 ELSE 0
      /\ \A i \in 1..(Len(q) - 2 + 1) : SubSeq(q, 2, Len(q))[i] = q[2 + i - 1]
  BY <1>1, <1>2, SubSeqProperties
<1>4. Len(SubSeq(q, 2, Len(q))) = Len(q) - 1
  <2>1. \A n \in Nat : n >= 1 => (IF 2 <= n THEN n - 2 + 1 ELSE 0) = n - 1
    OBVIOUS
  <2>. QED  BY <1>1, <1>3, <2>1, Zenon
<1>5. ASSUME NEW i \in 1..(Len(q) - 1) PROVE SubSeq(q, 2, Len(q))[i] = q[i + 1]
  <2>1. i \in 1..(Len(q) - 2 + 1) /\ 2 + i - 1 = i + 1
    BY <1>1
  <2>. QED  BY <1>3, <2>1
<1>. QED  BY <1>1, <1>3, <1>4, <1>5

\* popleft: what is left of a nonempty queue of distinct entries.
LEMMA PopFacts ==
    ASSUME NEW S, NEW q \in Seq(S), q # <<>>,
           \A i, j \in 1..Len(q) : q[i] = q[j] => i = j
    PROVE  /\ SubSeq(q, 2, Len(q)) \in Seq(S)
           /\ Len(SubSeq(q, 2, Len(q))) = Len(q) - 1
           /\ {SubSeq(q, 2, Len(q))[i] : i \in 1..Len(SubSeq(q, 2, Len(q)))}
                = {q[i] : i \in 1..Len(q)} \ {q[1]}
           /\ \A i, j \in 1..Len(SubSeq(q, 2, Len(q))) :
                SubSeq(q, 2, Len(q))[i] = SubSeq(q, 2, Len(q))[j] => i = j
<1> DEFINE w == SubSeq(q, 2, Len(q))
<1>1. Len(q) \in Nat /\ Len(q) >= 1
  BY PopShape
<1>2. w \in Seq(S) /\ Len(w) = Len(q) - 1 /\ \A i \in 1..Len(w) : w[i] = q[i + 1]
  BY PopShape
<1>. HIDE DEF w
<1>3. {w[i] : i \in 1..Len(w)} \subseteq {q[i] : i \in 1..Len(q)} \ {q[1]}
  BY <1>1, <1>2
<1>4. {q[i] : i \in 1..Len(q)} \ {q[1]} \subseteq {w[i] : i \in 1..Len(w)}
  <2>. SUFFICES ASSUME NEW i \in 1..Len(q), q[i] # q[1]
                PROVE  \E j \in 1..Len(w) : w[j] = q[i]
    OBVIOUS
  <2>1. i - 1 \in 1..Len(w) /\ (i - 1) + 1 = i
    BY <1>1, <1>2
  <2>. QED  BY <2>1, <1>2
<1>5. \A i, j \in 1..Len(w) : w[i] = w[j] => i = j
  BY <1>1, <1>2
<1>. QED  BY <1>2, <1>3, <1>4, <1>5 DEF w

-----------------------------------------------------------------------------
(* What finishing a prompt lease amounts to *)

\* Under the invariant the loop of _promote_locked runs at most once, and only
\* when an active lease finishes with others queued behind it.
LEMMA FinishPromptCases ==
    ASSUME IInv, NEW l \in Lease, NEW terminal, FinishPrompt(l, terminal)
    PROVE  \/ /\ state[l] = "active" /\ queue = <<>>
              /\ state' = [state EXCEPT ![l] = terminal]
              /\ activePrompts' = activePrompts - 1
              /\ queue' = queue
           \/ /\ state[l] = "active" /\ queue # <<>>
              /\ queue[1] # l
              /\ state' = [state EXCEPT ![l] = terminal, ![queue[1]] = "active"]
              /\ activePrompts' = activePrompts
              /\ queue' = SubSeq(queue, 2, Len(queue))
           \/ /\ state[l] = "queued" /\ queue # <<>>
              /\ state' = [state EXCEPT ![l] = terminal]
              /\ activePrompts' = activePrompts
              /\ queue' = Without(queue, l)
<1>. USE GateAssumption
<1>0. /\ queue \in Seq(Lease) /\ state \in [Lease -> LeaseStates] /\ activePrompts \in Nat
      /\ Len(queue) \in Nat
  BY DEF IInv, TypeOK
<1>. DEFINE wasActive == state[l] = "active"
            active == IF wasActive THEN activePrompts - 1 ELSE activePrompts
            rest == IF wasActive THEN queue ELSE Without(queue, l)
            n == PromoteCount(rest, active)
<1>1. /\ kind[l] = "prompt" /\ state[l] \in LiveStates
      /\ state' = [m \in Lease |-> IF m = l THEN terminal
                                   ELSE IF m \in {rest[i] : i \in 1..n} THEN "active"
                                   ELSE state[m]]
      /\ activePrompts' = active + n
      /\ queue' = SubSeq(rest, n + 1, Len(rest))
  BY DEF FinishPrompt
<1>2. CASE state[l] = "active" /\ queue = <<>>
  <2>1. rest = <<>> /\ active = activePrompts - 1 /\ n = 0
    BY <1>2, <1>0 DEF PromoteCount
  <2>. HIDE DEF rest, active, n
  <2>2. SubSeq(rest, n + 1, Len(rest)) = <<>>
    BY <2>1, SubSeqEmpty
  <2>3. {rest[i] : i \in 1..n} = {}
    BY <2>1
  <2>4. state' = [state EXCEPT ![l] = terminal]
    BY <1>0, <1>1, <2>3
  <2>5. activePrompts' = activePrompts - 1 /\ queue' = queue
    BY <1>0, <1>1, <1>2, <2>1, <2>2
  <2>. QED  BY <1>2, <2>4, <2>5
<1>3. CASE state[l] = "active" /\ queue # <<>>
  <2>1. /\ Len(queue) >= 1 /\ queue[1] \in Lease
        /\ activePrompts = MaxActiveTurns
        /\ ~closed /\ authLease = NoLease /\ configLease = NoLease
    BY <1>0, <1>3 DEF IInv, WorkConserving, QueueShape, MutationExclusive
  <2>2. rest = queue /\ active = MaxActiveTurns - 1
    BY <1>3, <2>1
  <2>3. n = 1
    <3>1. MaxActiveTurns - (MaxActiveTurns - 1) = 1 /\ ~(MaxActiveTurns - 1 >= MaxActiveTurns)
      OBVIOUS
    <3>2. PromoteCount(queue, MaxActiveTurns - 1) = IF Len(queue) <= 1 THEN Len(queue) ELSE 1
      BY <2>1, <3>1 DEF PromoteCount
    <3>. QED  BY <1>0, <2>1, <2>2, <3>2
  <2>. HIDE DEF rest, active, n
  <2>4. state[queue[1]] = "queued"
    BY <2>1, <1>0 DEF IInv, QueueExact, QueuedLeases
  <2>5. {rest[i] : i \in 1..n} = {queue[1]}
    BY <2>2, <2>3
  <2>6. state' = [state EXCEPT ![l] = terminal, ![queue[1]] = "active"]
    BY <1>0, <1>1, <1>3, <2>1, <2>4, <2>5
  <2>7. activePrompts' = activePrompts /\ queue' = SubSeq(queue, 2, Len(queue))
    BY <1>0, <1>1, <2>1, <2>2, <2>3
  <2>8. queue[1] # l
    BY <1>3, <2>4
  <2>. QED  BY <1>3, <2>6, <2>7, <2>8
<1>4. CASE state[l] = "queued"
  <2>1. \E i \in 1..Len(queue) : queue[i] = l
    BY <1>4 DEF IInv, QueueExact, QueuedLeases
  <2>2. queue # <<>> /\ activePrompts = MaxActiveTurns
    BY <2>1, <1>0 DEF IInv, WorkConserving
  <2>3. rest = Without(queue, l) /\ active = MaxActiveTurns
    BY <1>4, <2>2
  <2>4. Without(queue, l) \in Seq(Lease)
    BY <1>0, <2>1, WithoutFacts DEF IInv, QueueExact
  <2>5. n = 0
    BY <1>0, <2>2, <2>3 DEF PromoteCount
  <2>. HIDE DEF rest, active, n
  <2>6. SubSeq(rest, n + 1, Len(rest)) = Without(queue, l)
    BY <2>3, <2>4, <2>5, SubSeqFull
  <2>7. {rest[i] : i \in 1..n} = {}
    BY <2>5
  <2>8. state' = [state EXCEPT ![l] = terminal]
    BY <1>0, <1>1, <2>7
  <2>9. activePrompts' = activePrompts /\ queue' = Without(queue, l)
    BY <1>0, <1>1, <2>2, <2>3, <2>5, <2>6
  <2>. QED  BY <1>4, <2>2, <2>8, <2>9
<1>. QED  BY <1>1, <1>2, <1>3, <1>4 DEF LiveStates

-----------------------------------------------------------------------------
(* Every step preserves the invariant *)

\* The threads' own variables do not occur in the other conjuncts.
LEMMA InitIInv == Init => IInv
<1>. SUFFICES ASSUME Init PROVE IInv
  OBVIOUS
<1>. USE GateAssumption
<1>1. ActivePromptLeases = {} /\ QueuedLeases = {}
  BY DEF Init, ActivePromptLeases, QueuedLeases
<1>2. TypeOK
  <2>0. queue \in Seq(Lease)
    BY EmptySeq DEF Init
  <2>1. activePrompts \in Nat /\ closed \in BOOLEAN
    BY DEF Init
  <2>2. /\ kind \in [Lease -> Kinds] /\ owner \in [Lease -> Owner \cup {NoLease}]
        /\ state \in [Lease -> LeaseStates] /\ promptLeases \in [Owner -> Lease \cup {NoLease}]
    BY DEF Init, Kinds, LeaseStates
  <2>3. waiter \in [Lease -> WaiterStates] /\ canceller \in [Lease -> CancellerStates]
    BY DEF Init, WaiterStates, CancellerStates
  <2>4. authLease \in Lease \cup {NoLease} /\ configLease \in Lease \cup {NoLease}
    BY DEF Init
  <2>. QED  BY <2>0, <2>1, <2>2, <2>3, <2>4 DEF TypeOK
<1>3. CapacityExact
  BY <1>1, FS_EmptySet DEF Init, CapacityExact
<1>4. QueueExact
  <2>1. Len(queue) = 0
    BY DEF Init
  <2>. QED  BY <1>1, <2>1 DEF QueueExact
<1>5. MutationExclusive /\ WorkConserving
  BY DEF Init, MutationExclusive, WorkConserving
<1>6. OwnerIndexExact /\ MutationIndexExact
  BY DEF Init, OwnerIndexExact, MutationIndexExact, LiveStates
<1>7. QueueShape
  BY <1>1, FS_EmptySet DEF Init, QueueShape
<1>. QED  BY <1>2, <1>3, <1>4, <1>5, <1>6, <1>7 DEF IInv

\* notify_all keeps the waiters' type.
LEMMA NotifyAllType ==
    ASSUME waiter \in [Lease -> WaiterStates]
    PROVE  NotifyAll(waiter) \in [Lease -> WaiterStates]
BY DEF NotifyAll, WaiterStates

\* A step of a waiting or cancelling thread that leaves the gate alone.
LEMMA ThreadStepInv ==
    ASSUME IInv, UNCHANGED gateVars,
           waiter' \in [Lease -> WaiterStates], canceller' \in [Lease -> CancellerStates]
    PROVE  IInv'
<1>1. TypeOK'
  BY DEF IInv, TypeOK, gateVars
<1>2. ActivePromptLeases' = ActivePromptLeases /\ QueuedLeases' = QueuedLeases
  BY DEF gateVars, ActivePromptLeases, QueuedLeases
<1>3. CapacityExact' /\ QueueExact' /\ QueueShape'
  BY <1>2 DEF IInv, gateVars, CapacityExact, QueueExact, QueueShape
<1>4. MutationExclusive' /\ WorkConserving' /\ OwnerIndexExact' /\ MutationIndexExact'
  BY DEF IInv, gateVars, MutationExclusive, WorkConserving, OwnerIndexExact, MutationIndexExact
<1>. QED  BY <1>1, <1>3, <1>4 DEF IInv

\* Granting a prompt lease.
LEMMA ReservePromptInv ==
    ASSUME IInv, NEW o \in Owner, ReservePrompt(o)
    PROVE  IInv'
<1>. USE GateAssumption
<1>1. PICK l \in Lease :
        /\ state[l] = "unborn"
        /\ kind' = [kind EXCEPT ![l] = "prompt"]
        /\ owner' = [owner EXCEPT ![l] = o]
        /\ promptLeases' = [promptLeases EXCEPT ![o] = l]
        /\ \/ /\ activePrompts < MaxActiveTurns
              /\ state' = [state EXCEPT ![l] = "active"]
              /\ activePrompts' = activePrompts + 1
              /\ queue' = queue
           \/ /\ activePrompts >= MaxActiveTurns
              /\ Len(queue) < MaxQueuedPrompts
              /\ state' = [state EXCEPT ![l] = "queued"]
              /\ activePrompts' = activePrompts
              /\ queue' = Append(queue, l)
  BY DEF ReservePrompt
<1>2. /\ ~closed /\ authLease = NoLease /\ configLease = NoLease /\ promptLeases[o] = NoLease
      /\ UNCHANGED <<authLease, configLease, closed, waiter, canceller>>
  BY DEF ReservePrompt
<1>3. TypeOK /\ Len(queue) \in Nat
  BY DEF IInv, TypeOK
<1>4. TypeOK'
  <2>1. kind' \in [Lease -> Kinds] /\ owner' \in [Lease -> Owner \cup {NoLease}]
    BY <1>1, <1>3 DEF TypeOK, Kinds
  <2>2. state' \in [Lease -> LeaseStates]
    BY <1>1, <1>3 DEF TypeOK, LeaseStates, LiveStates
  <2>3. activePrompts' \in Nat
    BY <1>1, <1>3 DEF TypeOK
  <2>5. queue' \in Seq(Lease)
    BY <1>1, <1>3, AppendProperties DEF TypeOK
  <2>4. promptLeases' \in [Owner -> Lease \cup {NoLease}]
    BY <1>1, <1>3 DEF TypeOK
  <2>. QED  BY <1>2, <1>3, <2>1, <2>2, <2>3, <2>4, <2>5 DEF TypeOK
<1>5. MutationExclusive' /\ MutationIndexExact'
  BY <1>1, <1>2, <1>3 DEF IInv, TypeOK, MutationExclusive, MutationIndexExact, LiveStates
<1>6. OwnerIndexExact'
  <2>1. OwnerIndexExact
    BY DEF IInv
  <2>. QED  BY <1>1, <1>2, <1>3, <2>1 DEF TypeOK, OwnerIndexExact, LiveStates
<1>7. CASE activePrompts < MaxActiveTurns
  <2>1. /\ state' = [state EXCEPT ![l] = "active"] /\ activePrompts' = activePrompts + 1
        /\ queue' = queue /\ kind' = [kind EXCEPT ![l] = "prompt"]
    BY <1>1, <1>3, <1>7 DEF TypeOK
  <2>2. ActivePromptLeases' = ActivePromptLeases \cup {l} /\ l \notin ActivePromptLeases
    BY <1>1, <1>3, <2>1 DEF TypeOK, ActivePromptLeases
  <2>3. QueuedLeases' = QueuedLeases
    BY <1>1, <1>3, <2>1 DEF TypeOK, QueuedLeases
  <2>4. IsFiniteSet(ActivePromptLeases') /\ Cardinality(ActivePromptLeases') = activePrompts + 1
    BY <2>2, FS_AddElement DEF IInv, CapacityExact, QueueShape
  <2>5. CapacityExact'
    BY <1>3, <1>7, <2>1, <2>4 DEF TypeOK, CapacityExact
  <2>6. QueueExact'
    BY <2>1, <2>3 DEF IInv, QueueExact
  <2>7. queue = <<>>
    BY <1>3, <1>7 DEF IInv, TypeOK, WorkConserving
  <2>8. WorkConserving'
    BY <2>1, <2>7 DEF WorkConserving
  <2>9. QueueShape'
    BY <1>1, <1>2, <1>3, <2>1, <2>4, <2>7 DEF IInv, TypeOK, QueueShape
  <2>. QED  BY <1>4, <1>5, <1>6, <2>5, <2>6, <2>8, <2>9 DEF IInv
<1>8. CASE activePrompts >= MaxActiveTurns
  <2>1. /\ state' = [state EXCEPT ![l] = "queued"] /\ activePrompts' = activePrompts
        /\ queue' = Append(queue, l) /\ kind' = [kind EXCEPT ![l] = "prompt"]
        /\ Len(queue) < MaxQueuedPrompts
    BY <1>1, <1>3, <1>8 DEF TypeOK
  <2>2. ActivePromptLeases' = ActivePromptLeases
    BY <1>1, <1>3, <2>1 DEF TypeOK, ActivePromptLeases
  <2>3. QueuedLeases' = QueuedLeases \cup {l} /\ l \notin QueuedLeases
    BY <1>1, <1>3, <2>1 DEF TypeOK, QueuedLeases
  <2>4. CapacityExact'
    BY <2>1, <2>2 DEF IInv, CapacityExact
  <2>5. QueueExact'
    <3>1. /\ Len(queue') = Len(queue) + 1 /\ queue'[Len(queue) + 1] = l
          /\ \A i \in 1..Len(queue) : queue'[i] = queue[i]
      BY <1>3, <2>1 DEF TypeOK
    <3>2. {queue'[i] : i \in 1..Len(queue')} = {queue[i] : i \in 1..Len(queue)} \cup {l}
      BY <1>3, <3>1
    <3>3. \A i \in 1..Len(queue) : queue[i] # l
      BY <2>3 DEF IInv, QueueExact
    <3>4. \A i, j \in 1..Len(queue') : queue'[i] = queue'[j] => i = j
      BY <1>3, <3>1, <3>3 DEF IInv, QueueExact
    <3>5. Len(queue') <= MaxQueuedPrompts
      BY <1>3, <2>1, <3>1
    <3>. QED  BY <2>3, <3>2, <3>4, <3>5 DEF IInv, QueueExact
  <2>6. WorkConserving'
    BY <1>3, <1>8, <2>1 DEF IInv, TypeOK, CapacityExact, WorkConserving
  <2>7. QueueShape'
    BY <1>1, <1>2, <1>3, <2>1, <2>2 DEF IInv, TypeOK, QueueShape
  <2>. QED  BY <1>4, <1>5, <1>6, <2>4, <2>5, <2>6, <2>7 DEF IInv
<1>. QED  BY <1>3, <1>7, <1>8 DEF TypeOK

\* Granting an account or configuration lease: no prompt exists to disturb.
LEMMA AcquireInv ==
    ASSUME IInv, AcquireAuthMutation \/ AcquireConfigMutation
    PROVE  IInv'
<1>. USE GateAssumption
<1>1. PICK l \in Lease, k \in {"auth", "config"} :
        /\ state[l] = "unborn"
        /\ kind' = [kind EXCEPT ![l] = k]
        /\ state' = [state EXCEPT ![l] = "active"]
        /\ authLease' = IF k = "auth" THEN l ELSE authLease
        /\ configLease' = IF k = "config" THEN l ELSE configLease
  BY DEF AcquireAuthMutation, AcquireConfigMutation
<1>2. /\ ~closed /\ authLease = NoLease /\ configLease = NoLease
      /\ activePrompts = 0 /\ queue = <<>>
      /\ UNCHANGED <<owner, activePrompts, queue, promptLeases, closed, waiter, canceller>>
  BY DEF AcquireAuthMutation, AcquireConfigMutation, MutationAllowed
<1>3. TypeOK
  BY DEF IInv
<1>4. TypeOK'
  <2>1. kind' \in [Lease -> Kinds] /\ state' \in [Lease -> LeaseStates]
    BY <1>1, <1>3 DEF TypeOK, Kinds, LeaseStates, LiveStates
  <2>. QED  BY <1>1, <1>2, <1>3, <2>1 DEF TypeOK
<1>5. ActivePromptLeases' = ActivePromptLeases /\ QueuedLeases' = QueuedLeases
  BY <1>1, <1>3 DEF TypeOK, ActivePromptLeases, QueuedLeases
<1>6. CapacityExact' /\ QueueExact' /\ WorkConserving'
  <2>1. CapacityExact' /\ WorkConserving'
    BY <1>2, <1>5 DEF IInv, CapacityExact, WorkConserving
  <2>2. QueueExact'
    <3>1. queue' = queue
      BY <1>2
    <3>. QED  BY <1>5, <3>1 DEF IInv, QueueExact
  <2>. QED  BY <2>1, <2>2
<1>7. MutationExclusive'
  BY <1>1, <1>2 DEF MutationExclusive
<1>8. OwnerIndexExact'
  BY <1>1, <1>2, <1>3 DEF IInv, TypeOK, OwnerIndexExact, LiveStates
<1>9. MutationIndexExact'
  BY <1>1, <1>2, <1>3 DEF IInv, TypeOK, MutationIndexExact, LiveStates
<1>10. QueueShape'
  BY <1>1, <1>2, <1>3, <1>5 DEF IInv, TypeOK, QueueShape
<1>. QED  BY <1>4, <1>6, <1>7, <1>8, <1>9, <1>10 DEF IInv

\* Finishing an account or configuration lease.
LEMMA FinishMutationInv ==
    ASSUME IInv, NEW l \in Lease, NEW terminal \in Terminal, FinishMutation(l, terminal),
           waiter' \in [Lease -> WaiterStates], canceller' \in [Lease -> CancellerStates]
    PROVE  IInv'
<1>. USE GateAssumption
<1>1. /\ kind[l] \in {"auth", "config"}
      /\ state' = [state EXCEPT ![l] = terminal]
      /\ authLease' = IF authLease = l THEN NoLease ELSE authLease
      /\ configLease' = IF configLease = l THEN NoLease ELSE configLease
      /\ UNCHANGED <<kind, owner, activePrompts, queue, promptLeases, closed>>
  BY DEF FinishMutation
<1>2. TypeOK
  BY DEF IInv
<1>3. TypeOK'
  <2>1. state' \in [Lease -> LeaseStates]
    BY <1>1, <1>2 DEF TypeOK, LeaseStates
  <2>. QED  BY <1>1, <1>2, <2>1 DEF TypeOK
<1>4. state[l] # "queued"
  BY <1>1 DEF IInv, QueueShape
<1>5. ActivePromptLeases' = ActivePromptLeases /\ QueuedLeases' = QueuedLeases
  BY <1>1, <1>2, <1>4 DEF TypeOK, Terminal, ActivePromptLeases, QueuedLeases
<1>6. CapacityExact' /\ QueueExact' /\ WorkConserving' /\ QueueShape'
  BY <1>1, <1>2, <1>5 DEF IInv, TypeOK, CapacityExact, QueueExact, WorkConserving, QueueShape, Terminal
<1>7. MutationExclusive'
  BY <1>1 DEF IInv, MutationExclusive
<1>8. OwnerIndexExact'
  BY <1>1, <1>2 DEF IInv, TypeOK, OwnerIndexExact, Terminal, LiveStates
<1>9. MutationIndexExact'
  BY <1>1, <1>2 DEF IInv, TypeOK, MutationIndexExact, Terminal, LiveStates
<1>. QED  BY <1>3, <1>6, <1>7, <1>8, <1>9 DEF IInv

\* Finishing a prompt lease, with the promotion of the next in line.
LEMMA FinishPromptInv ==
    ASSUME IInv, NEW l \in Lease, NEW terminal \in Terminal, FinishPrompt(l, terminal),
           waiter' \in [Lease -> WaiterStates], canceller' \in [Lease -> CancellerStates]
    PROVE  IInv'
<1>. USE GateAssumption
<1>1. /\ kind[l] = "prompt" /\ state[l] \in LiveStates
      /\ promptLeases' = [promptLeases EXCEPT ![owner[l]] = NoLease]
      /\ UNCHANGED <<kind, owner, authLease, configLease, closed>>
  BY DEF FinishPrompt
<1>2. TypeOK /\ Len(queue) \in Nat /\ owner[l] \in Owner /\ promptLeases[owner[l]] = l
  BY <1>1 DEF IInv, TypeOK, OwnerIndexExact
<1>3. promptLeases' \in [Owner -> Lease \cup {NoLease}]
  BY <1>1, <1>2 DEF TypeOK
<1>4. CASE /\ state[l] = "active" /\ queue = <<>>
           /\ state' = [state EXCEPT ![l] = terminal]
           /\ activePrompts' = activePrompts - 1 /\ queue' = queue
  <2>1. ActivePromptLeases' = ActivePromptLeases \ {l} /\ l \in ActivePromptLeases
    BY <1>1, <1>2, <1>4 DEF TypeOK, ActivePromptLeases, Terminal
  <2>2. QueuedLeases' = QueuedLeases
    BY <1>2, <1>4 DEF TypeOK, QueuedLeases, Terminal
  <2>3. /\ IsFiniteSet(ActivePromptLeases')
        /\ Cardinality(ActivePromptLeases') = activePrompts - 1
        /\ activePrompts # 0
    BY <2>1, FS_RemoveElement, FS_EmptySet DEF IInv, CapacityExact, QueueShape
  <2>4. TypeOK'
    <3>1. state' \in [Lease -> LeaseStates]
      BY <1>2, <1>4 DEF TypeOK, LeaseStates
    <3>2. activePrompts' \in Nat
      BY <1>2, <1>4, <2>3 DEF TypeOK
    <3>. QED  BY <1>1, <1>2, <1>3, <1>4, <3>1, <3>2 DEF TypeOK
  <2>5. CapacityExact'
    BY <1>2, <1>4, <2>3 DEF IInv, TypeOK, CapacityExact
  <2>6. QueueExact' /\ WorkConserving'
    BY <1>4, <2>2 DEF IInv, QueueExact, WorkConserving
  <2>7. MutationExclusive'
    BY <1>1, <1>2, <1>4, <2>3 DEF IInv, MutationExclusive
  <2>8. OwnerIndexExact' /\ MutationIndexExact'
    BY <1>1, <1>2, <1>4 DEF IInv, TypeOK, OwnerIndexExact, MutationIndexExact, Terminal, LiveStates
  <2>9. QueueShape'
    BY <1>1, <1>2, <1>4, <2>3 DEF IInv, TypeOK, QueueShape, Terminal
  <2>. QED  BY <2>4, <2>5, <2>6, <2>7, <2>8, <2>9 DEF IInv
<1>5. CASE /\ state[l] = "active" /\ queue # <<>>
           /\ queue[1] # l
           /\ state' = [state EXCEPT ![l] = terminal, ![queue[1]] = "active"]
           /\ activePrompts' = activePrompts
           /\ queue' = SubSeq(queue, 2, Len(queue))
  <2>. DEFINE h == queue[1]
  <2>0. h \in Lease /\ state[h] = "queued" /\ kind[h] = "prompt"
    <3>1. Len(queue) >= 1
      BY <1>2, <1>5 DEF TypeOK
    <3>. QED  BY <1>2, <1>5, <3>1 DEF IInv, TypeOK, QueueExact, QueuedLeases, QueueShape
  <2>00. h # l /\ state' = [state EXCEPT ![l] = terminal, ![h] = "active"]
    BY <1>5
  <2>. HIDE DEF h
  <2>1. ActivePromptLeases' = (ActivePromptLeases \ {l}) \cup {h}
    BY <1>1, <1>2, <2>0, <2>00 DEF TypeOK, ActivePromptLeases, Terminal
  <2>2. l \in ActivePromptLeases /\ h \notin ActivePromptLeases \ {l}
    BY <1>1, <1>5, <2>0 DEF ActivePromptLeases
  <2>3. QueuedLeases' = QueuedLeases \ {h}
    BY <1>2, <1>5, <2>0, <2>00 DEF TypeOK, QueuedLeases, Terminal
  <2>4. /\ IsFiniteSet(ActivePromptLeases \ {l})
        /\ Cardinality(ActivePromptLeases \ {l}) = activePrompts - 1
    BY <2>2, FS_RemoveElement DEF IInv, CapacityExact, QueueShape
  <2>5. IsFiniteSet(ActivePromptLeases') /\ Cardinality(ActivePromptLeases') = activePrompts - 1 + 1
    BY <2>1, <2>2, <2>4, FS_AddElement
  <2>6. CapacityExact'
    BY <1>2, <1>5, <2>5 DEF IInv, TypeOK, CapacityExact
  <2>7. /\ queue' \in Seq(Lease)
        /\ Len(queue') = Len(queue) - 1
        /\ {queue'[i] : i \in 1..Len(queue')} = {queue[i] : i \in 1..Len(queue)} \ {h}
        /\ \A i, j \in 1..Len(queue') : queue'[i] = queue'[j] => i = j
    <3>1. queue \in Seq(Lease) /\ \A i, j \in 1..Len(queue) : queue[i] = queue[j] => i = j
      BY <1>2 DEF IInv, TypeOK, QueueExact
    <3>2. LET w == SubSeq(queue, 2, Len(queue))
          IN  /\ w \in Seq(Lease)
              /\ Len(w) = Len(queue) - 1
              /\ {w[i] : i \in 1..Len(w)} = {queue[i] : i \in 1..Len(queue)} \ {queue[1]}
              /\ \A i, j \in 1..Len(w) : w[i] = w[j] => i = j
      BY <3>1, <1>5, PopFacts
    <3>. QED  BY <1>5, <3>2, ZenonT(40) DEF h
  <2>8. QueueExact'
    <3>1. Len(queue) <= MaxQueuedPrompts /\ Len(queue) - 1 <= MaxQueuedPrompts
      BY <1>2 DEF IInv, QueueExact
    <3>2. {queue'[i] : i \in 1..Len(queue')} = QueuedLeases'
      BY <2>3, <2>7 DEF IInv, QueueExact
    <3>. QED  BY <2>7, <3>1, <3>2 DEF QueueExact
  <2>9. TypeOK'
    <3>1. state' \in [Lease -> LeaseStates]
      BY <1>2, <2>00 DEF TypeOK, LeaseStates, LiveStates
    <3>. QED  BY <1>1, <1>2, <1>3, <1>5, <2>7, <3>1 DEF TypeOK
  <2>10. WorkConserving'
    BY <1>5 DEF IInv, WorkConserving
  <2>11. MutationExclusive'
    BY <1>1, <1>5 DEF IInv, MutationExclusive
  <2>12. OwnerIndexExact'
    BY <1>1, <1>2, <2>0, <2>00 DEF IInv, TypeOK, OwnerIndexExact, Terminal, LiveStates
  <2>13. MutationIndexExact'
    BY <1>1, <1>2, <2>0, <2>00 DEF IInv, TypeOK, MutationIndexExact, Terminal, LiveStates
  <2>14. QueueShape'
    BY <1>1, <1>2, <1>5, <2>0, <2>00, <2>5 DEF IInv, TypeOK, QueueShape, MutationExclusive, Terminal
  <2>. QED  BY <2>6, <2>8, <2>9, <2>10, <2>11, <2>12, <2>13, <2>14 DEF IInv
<1>6. CASE /\ state[l] = "queued" /\ queue # <<>>
           /\ state' = [state EXCEPT ![l] = terminal]
           /\ activePrompts' = activePrompts
           /\ queue' = Without(queue, l)
  <2>1. ActivePromptLeases' = ActivePromptLeases
    BY <1>1, <1>2, <1>6 DEF TypeOK, ActivePromptLeases, Terminal
  <2>2. QueuedLeases' = QueuedLeases \ {l}
    BY <1>2, <1>6 DEF TypeOK, QueuedLeases, Terminal
  <2>3. \E i \in 1..Len(queue) : queue[i] = l
    BY <1>6 DEF IInv, QueueExact, QueuedLeases
  <2>4. /\ queue' \in Seq(Lease)
        /\ Len(queue') = Len(queue) - 1
        /\ {queue'[i] : i \in 1..Len(queue')} = {queue[i] : i \in 1..Len(queue)} \ {l}
        /\ \A i, j \in 1..Len(queue') : queue'[i] = queue'[j] => i = j
    <3>1. queue \in Seq(Lease) /\ \A i, j \in 1..Len(queue) : queue[i] = queue[j] => i = j
      BY <1>2 DEF IInv, TypeOK, QueueExact
    <3>2. LET w == Without(queue, l)
          IN  /\ w \in Seq(Lease)
              /\ Len(w) = Len(queue) - 1
              /\ {w[i] : i \in 1..Len(w)} = {queue[i] : i \in 1..Len(queue)} \ {l}
              /\ \A i, j \in 1..Len(w) : w[i] = w[j] => i = j
      BY <3>1, <1>6, <2>3, WithoutFacts
    <3>. QED  BY <1>6, <3>2, Zenon
  <2>5. QueueExact'
    <3>1. Len(queue) <= MaxQueuedPrompts /\ Len(queue) - 1 <= MaxQueuedPrompts
      BY <1>2 DEF IInv, QueueExact
    <3>2. {queue'[i] : i \in 1..Len(queue')} = QueuedLeases'
      BY <2>2, <2>4 DEF IInv, QueueExact
    <3>. QED  BY <2>4, <3>1, <3>2 DEF QueueExact
  <2>6. TypeOK'
    <3>1. state' \in [Lease -> LeaseStates]
      BY <1>2, <1>6 DEF TypeOK, LeaseStates
    <3>. QED  BY <1>1, <1>2, <1>3, <1>6, <2>4, <3>1 DEF TypeOK
  <2>7. CapacityExact' /\ WorkConserving'
    BY <1>6, <2>1 DEF IInv, CapacityExact, WorkConserving
  <2>8. MutationExclusive'
    BY <1>1, <1>6 DEF IInv, MutationExclusive
  <2>9. OwnerIndexExact' /\ MutationIndexExact'
    BY <1>1, <1>2, <1>6 DEF IInv, TypeOK, OwnerIndexExact, MutationIndexExact, Terminal, LiveStates
  <2>10. QueueShape'
    BY <1>1, <1>2, <1>6, <2>1 DEF IInv, TypeOK, QueueShape, MutationExclusive, Terminal
  <2>. QED  BY <2>5, <2>6, <2>7, <2>8, <2>9, <2>10 DEF IInv
<1>. QED  BY <1>4, <1>5, <1>6, FinishPromptCases

\* Close: the queued leases, and only they, are finished.
LEMMA CloseInv ==
    ASSUME IInv, Close
    PROVE  IInv'
<1>. USE GateAssumption
<1>1. TypeOK /\ Len(queue) \in Nat
  BY DEF IInv, TypeOK
<1>2. \A x : (\E i \in 1..Len(queue) : queue[i] = x) <=> x \in QueuedLeases
  BY DEF IInv, QueueExact
<1>3. /\ state' = [l \in Lease |-> IF l \in QueuedLeases THEN "closed" ELSE state[l]]
      /\ promptLeases' = [o \in Owner |-> IF promptLeases[o] \in QueuedLeases
                                          THEN NoLease ELSE promptLeases[o]]
  BY <1>2 DEF Close
<1>4. /\ closed' = TRUE /\ queue' = <<>> /\ waiter' = NotifyAll(waiter)
      /\ UNCHANGED <<kind, owner, activePrompts, authLease, configLease, canceller>>
  BY DEF Close
<1>5. TypeOK'
  <2>1. state' \in [Lease -> LeaseStates]
    BY <1>1, <1>3 DEF TypeOK, LeaseStates, Terminal
  <2>2. promptLeases' \in [Owner -> Lease \cup {NoLease}]
    BY <1>1, <1>3 DEF TypeOK
  <2>3. waiter' \in [Lease -> WaiterStates]
    BY <1>1, <1>4, NotifyAllType DEF TypeOK
  <2>4. queue' \in Seq(Lease)
    BY <1>4, EmptySeq
  <2>. QED  BY <1>1, <1>4, <2>1, <2>2, <2>3, <2>4 DEF TypeOK
<1>6. ActivePromptLeases' = ActivePromptLeases
  BY <1>1, <1>3, <1>4 DEF TypeOK, ActivePromptLeases, QueuedLeases
<1>7. QueuedLeases' = {}
  BY <1>1, <1>3 DEF TypeOK, QueuedLeases
<1>8. CapacityExact' /\ WorkConserving'
  BY <1>4, <1>6 DEF IInv, CapacityExact, WorkConserving
<1>9. QueueExact'
  <2>1. Len(queue') = 0
    BY <1>4, EmptySeq
  <2>. QED  BY <1>7, <2>1 DEF QueueExact
<1>10. MutationExclusive'
  BY <1>4 DEF IInv, MutationExclusive
<1>11. OwnerIndexExact'
  BY <1>1, <1>3, <1>4 DEF IInv, TypeOK, OwnerIndexExact, QueuedLeases, LiveStates
<1>12. MutationIndexExact'
  BY <1>1, <1>3, <1>4 DEF IInv, TypeOK, MutationIndexExact, QueuedLeases, LiveStates
<1>13. QueueShape'
  BY <1>1, <1>3, <1>4, <1>6 DEF IInv, TypeOK, QueueShape, QueuedLeases
<1>. QED  BY <1>5, <1>8, <1>9, <1>10, <1>11, <1>12, <1>13 DEF IInv

\* Dropping a finished lease.
LEMMA CollectInv ==
    ASSUME IInv, NEW l \in Lease, Collect(l)
    PROVE  IInv'
<1>. USE GateAssumption
<1>1. /\ state[l] \in Terminal
      /\ kind' = [kind EXCEPT ![l] = "none"]
      /\ owner' = [owner EXCEPT ![l] = NoLease]
      /\ state' = [state EXCEPT ![l] = "unborn"]
      /\ waiter' = [waiter EXCEPT ![l] = "idle"]
      /\ UNCHANGED <<activePrompts, queue, promptLeases, authLease, configLease, closed, canceller>>
  BY DEF Collect
<1>2. TypeOK
  BY DEF IInv
<1>3. TypeOK'
  <2>1. kind' \in [Lease -> Kinds] /\ state' \in [Lease -> LeaseStates]
    BY <1>1, <1>2 DEF TypeOK, Kinds, LeaseStates
  <2>2. owner' \in [Lease -> Owner \cup {NoLease}] /\ waiter' \in [Lease -> WaiterStates]
    BY <1>1, <1>2 DEF TypeOK, WaiterStates
  <2>. QED  BY <1>1, <1>2, <2>1, <2>2 DEF TypeOK
<1>4. ActivePromptLeases' = ActivePromptLeases /\ QueuedLeases' = QueuedLeases
  BY <1>1, <1>2 DEF TypeOK, ActivePromptLeases, QueuedLeases, Terminal
<1>5. CapacityExact' /\ QueueExact' /\ WorkConserving' /\ MutationExclusive'
  BY <1>1, <1>4 DEF IInv, CapacityExact, QueueExact, WorkConserving, MutationExclusive
<1>6. OwnerIndexExact' /\ MutationIndexExact'
  BY <1>1, <1>2 DEF IInv, TypeOK, OwnerIndexExact, MutationIndexExact, Terminal, LiveStates
<1>7. QueueShape'
  BY <1>1, <1>2, <1>4 DEF IInv, TypeOK, QueueShape
<1>. QED  BY <1>3, <1>5, <1>6, <1>7 DEF IInv

\* Finishing a lease of any kind.
LEMMA FinishInv ==
    ASSUME IInv, NEW l \in Lease, NEW terminal \in Terminal, FinishLocked(l, terminal),
           waiter' \in [Lease -> WaiterStates], canceller' \in [Lease -> CancellerStates]
    PROVE  IInv'
BY FinishMutationInv, FinishPromptInv DEF FinishLocked

LEMMA NextIInv == IInv /\ [Next]_vars => IInv'
<1>. SUFFICES ASSUME IInv, [Next]_vars PROVE IInv'
  OBVIOUS
<1>1. waiter \in [Lease -> WaiterStates] /\ canceller \in [Lease -> CancellerStates]
  BY DEF IInv, TypeOK
<1>2. NotifyAll(waiter) \in [Lease -> WaiterStates]
  BY <1>1, NotifyAllType
<1>3. {"released", "cancelled", "timed_out"} \subseteq Terminal
  BY DEF Terminal
<1>4. CASE \E o \in Owner : ReservePrompt(o)
  BY <1>4, ReservePromptInv
<1>5. CASE AcquireAuthMutation \/ AcquireConfigMutation
  BY <1>5, AcquireInv
<1>6. CASE Close
  BY <1>6, CloseInv
<1>7. ASSUME NEW l \in Lease, Release(l) PROVE IInv'
  <2>1. FinishLocked(l, "released") /\ waiter' = NotifyAll(waiter) /\ canceller' = canceller
    BY <1>7 DEF Release
  <2>. QED  BY <1>1, <1>2, <1>3, <2>1, FinishInv
<1>8. ASSUME NEW l \in Lease, CancelCheck(l) PROVE IInv'
  <2>1. /\ UNCHANGED gateVars /\ waiter' = waiter
        /\ canceller' = [canceller EXCEPT ![l] = "committed"]
    BY <1>8 DEF CancelCheck
  <2>2. canceller' \in [Lease -> CancellerStates]
    BY <1>1, <2>1 DEF CancellerStates
  <2>. QED  BY <1>1, <2>1, <2>2, ThreadStepInv
<1>9. ASSUME NEW l \in Lease, CancelFinish(l) PROVE IInv'
  <2>1. canceller' \in [Lease -> CancellerStates]
    BY <1>1, <1>9 DEF CancelFinish, CancellerStates
  <2>2. CASE FinishLocked(l, "cancelled") /\ waiter' = NotifyAll(waiter)
    BY <1>2, <1>3, <2>1, <2>2, FinishInv
  <2>3. CASE UNCHANGED <<gateVars, waiter>>
    BY <1>1, <2>1, <2>3, ThreadStepInv
  <2>. QED  BY <1>9, <2>2, <2>3 DEF CancelFinish
<1>10. ASSUME NEW l \in Lease, WaitEnter(l) \/ WaitCheck(l) \/ WaitBlock(l) \/ WaitDeadline(l)
       PROVE  IInv'
  <2>1. UNCHANGED gateVars /\ canceller' = canceller
    BY <1>10 DEF WaitEnter, WaitCheck, WaitBlock, WaitDeadline
  <2>2. waiter' \in [Lease -> WaiterStates]
    BY <1>1, <1>10 DEF WaitEnter, WaitCheck, WaitBlock, WaitDeadline, WaiterStates
  <2>. QED  BY <1>1, <2>1, <2>2, ThreadStepInv
<1>11. ASSUME NEW l \in Lease, WaitTimeout(l) PROVE IInv'
  <2>1. /\ FinishLocked(l, "timed_out") /\ canceller' = canceller
        /\ waiter' = [NotifyAll(waiter) EXCEPT ![l] = "raised"]
    BY <1>11 DEF WaitTimeout
  <2>2. waiter' \in [Lease -> WaiterStates]
    BY <1>2, <2>1 DEF WaiterStates
  <2>. QED  BY <1>1, <1>3, <2>1, <2>2, FinishInv
<1>12. ASSUME NEW l \in Lease, Collect(l) PROVE IInv'
  BY <1>12, CollectInv
<1>13. CASE UNCHANGED vars
  <2>1. UNCHANGED gateVars /\ waiter' = waiter /\ canceller' = canceller
    BY <1>13 DEF vars, gateVars
  <2>. QED  BY <1>1, <2>1, ThreadStepInv
<1>. QED  BY <1>4, <1>5, <1>6, <1>7, <1>8, <1>9, <1>10, <1>11, <1>12, <1>13 DEF Next

-----------------------------------------------------------------------------
(* Theorems *)

\* The inductive invariant holds of every reachable state of runtime_gate.py.
THEOREM GateInvariant == Spec => []IInv
<1>. QED  BY InitIInv, NextIInv, PTL DEF Spec

\* The gate's counters, queue and indexes keep their types; in particular
\* _active_prompts never goes below zero.
THEOREM GateTypeCorrect == Spec => []TypeOK
<1>1. IInv => TypeOK
  BY DEF IInv
<1>. QED  BY <1>1, GateInvariant, PTL

\* Whatever the capacity and the queue bound, _active_prompts counts the
\* active prompts and never passes max_active_turns, and _queue holds each
\* queued lease once and never more than max_queued_prompts of them.
THEOREM GateAccountingExact == Spec => []AccountingExact
<1>1. IInv => AccountingExact
  BY DEF IInv, AccountingExact
<1>. QED  BY <1>1, GateInvariant, PTL

\* No account or configuration mutation overlaps a prompt, or the other one.
THEOREM GateSafety == Spec => []MutationExclusive
<1>1. IInv => MutationExclusive
  BY DEF IInv
<1>. QED  BY <1>1, GateInvariant, PTL

\* No prompt waits behind a free slot: every path that frees one promotes the
\* head of the queue in the same section (_promote_locked).
THEOREM GateWorkConserving == Spec => []WorkConserving
<1>1. IInv => WorkConserving
  BY DEF IInv
<1>. QED  BY <1>1, GateInvariant, PTL

\* _prompt_leases, _auth_lease and _config_lease name exactly the live leases.
THEOREM GateIndexes == Spec => []IndexesExact
<1>1. IInv => IndexesExact
  BY DEF IInv, IndexesExact
<1>. QED  BY <1>1, GateInvariant, PTL

\* No deadline and no shutdown takes an active lease from its worker, for any
\* number of leases: close() finishes only leases the queue holds, and a
\* waiter past its deadline finishes only the lease it waits on, still queued.
THEOREM GateActiveNeverExpires == Spec => ActiveNeverExpires
<1>1. IInv /\ [Next]_vars =>
        [\A l \in Lease : state[l] = "active" => state'[l] \notin {"timed_out", "closed"}]_vars
  <2>. SUFFICES ASSUME IInv, Next, NEW l \in Lease, state[l] = "active"
                PROVE  state'[l] \notin {"timed_out", "closed"}
    BY DEF vars
  <2>1. state \in [Lease -> LeaseStates]
    BY DEF IInv, TypeOK
  <2>2. CASE \E o \in Owner : ReservePrompt(o)
    BY <2>1, <2>2 DEF ReservePrompt
  <2>3. CASE AcquireAuthMutation \/ AcquireConfigMutation
    BY <2>1, <2>3 DEF AcquireAuthMutation, AcquireConfigMutation
  <2>4. CASE Close
    <3>1. ~ \E i \in 1..Len(queue) : queue[i] = l
      BY DEF IInv, QueueExact, QueuedLeases
    <3>. QED  BY <2>1, <2>4, <3>1 DEF Close
  <2>5. ASSUME NEW m \in Lease, NEW t \in {"released", "cancelled", "timed_out"},
               FinishLocked(m, t), m = l => t # "timed_out"
        PROVE  state'[l] \notin {"timed_out", "closed"}
    <3>1. CASE FinishMutation(m, t)
      BY <2>1, <2>5, <3>1 DEF FinishMutation
    <3>2. CASE FinishPrompt(m, t)
      BY <2>1, <2>5, <3>2 DEF FinishPrompt
    <3>. QED  BY <2>5, <3>1, <3>2 DEF FinishLocked
  <2>6. ASSUME NEW m \in Lease, Release(m) \/ WaitTimeout(m) \/ CancelFinish(m)
        PROVE  state'[l] \notin {"timed_out", "closed"}
    <3>1. CASE Release(m)
      BY <2>5, <3>1 DEF Release
    <3>2. CASE WaitTimeout(m)
      BY <2>5, <3>2 DEF WaitTimeout
    <3>3. CASE CancelFinish(m)
      BY <2>5, <3>3 DEF CancelFinish, gateVars
    <3>. QED  BY <2>6, <3>1, <3>2, <3>3
  <2>7. ASSUME NEW m \in Lease,
               \/ CancelCheck(m) \/ WaitEnter(m) \/ WaitCheck(m)
               \/ WaitBlock(m) \/ WaitDeadline(m)
        PROVE  state'[l] \notin {"timed_out", "closed"}
    <3>1. state' = state
      BY <2>7 DEF CancelCheck, WaitEnter, WaitCheck, WaitBlock, WaitDeadline, gateVars
    <3>. QED  BY <3>1
  <2>8. ASSUME NEW m \in Lease, Collect(m) PROVE state'[l] \notin {"timed_out", "closed"}
    BY <2>1, <2>8 DEF Collect
  <2>. QED  BY <2>2, <2>3, <2>4, <2>6, <2>7, <2>8 DEF Next
<1>. QED  BY <1>1, GateInvariant, PTL DEF Spec, ActiveNeverExpires

-----------------------------------------------------------------------------
(* Wake-ups.  They need nothing of the counters: a step either wakes every *)
(* sleeper or leaves the state of every lease that has one alone.          *)

LEMMA NextNoLostWakeup == TypeOK /\ NoLostWakeup /\ [Next]_vars => NoLostWakeup'
<1>. SUFFICES ASSUME TypeOK, NoLostWakeup, [Next]_vars, NEW m \in Lease, waiter'[m] = "blocked"
              PROVE  state'[m] = "queued"
  BY DEF NoLostWakeup
<1>1. waiter \in [Lease -> WaiterStates] /\ state \in [Lease -> LeaseStates]
  BY DEF TypeOK
<1>2. waiter[m] = "blocked" => state[m] = "queued"
  BY DEF NoLostWakeup
<1>3. NotifyAll(waiter)[m] # "blocked"
  BY <1>1 DEF NotifyAll
<1>4. CASE \E o \in Owner : ReservePrompt(o)
  BY <1>1, <1>2, <1>4 DEF ReservePrompt
<1>5. CASE AcquireAuthMutation \/ AcquireConfigMutation
  BY <1>1, <1>2, <1>5 DEF AcquireAuthMutation, AcquireConfigMutation
<1>6. CASE Close
  BY <1>3, <1>6 DEF Close
<1>7. ASSUME NEW l \in Lease, Release(l) PROVE state'[m] = "queued"
  BY <1>3, <1>7 DEF Release
<1>8. ASSUME NEW l \in Lease, CancelCheck(l) PROVE state'[m] = "queued"
  BY <1>2, <1>8 DEF CancelCheck, gateVars
<1>9. ASSUME NEW l \in Lease, CancelFinish(l) PROVE state'[m] = "queued"
  BY <1>2, <1>3, <1>9 DEF CancelFinish, gateVars
<1>10. ASSUME NEW l \in Lease, WaitEnter(l) \/ WaitCheck(l) \/ WaitDeadline(l)
       PROVE  state'[m] = "queued"
  BY <1>1, <1>2, <1>10 DEF WaitEnter, WaitCheck, WaitDeadline, gateVars
<1>11. ASSUME NEW l \in Lease, WaitBlock(l) PROVE state'[m] = "queued"
  BY <1>1, <1>2, <1>11 DEF WaitBlock, gateVars
<1>12. ASSUME NEW l \in Lease, WaitTimeout(l) PROVE state'[m] = "queued"
  <2>1. NotifyAll(waiter) \in [Lease -> WaiterStates]
    BY <1>1, NotifyAllType
  <2>. QED  BY <1>3, <1>12, <2>1 DEF WaitTimeout
<1>13. ASSUME NEW l \in Lease, Collect(l) PROVE state'[m] = "queued"
  BY <1>1, <1>2, <1>13 DEF Collect, Terminal
<1>14. CASE UNCHANGED vars
  BY <1>2, <1>14 DEF vars
<1>. QED  BY <1>4, <1>5, <1>6, <1>7, <1>8, <1>9, <1>10, <1>11, <1>12, <1>13, <1>14 DEF Next

\* However many threads wait in wait_until_active, none of them sleeps on a
\* lease that has been promoted, cancelled or closed.
THEOREM GateNoLostWakeup == Spec => []NoLostWakeup
<1>1. Init => NoLostWakeup
  BY DEF Init, NoLostWakeup
<1>. QED  BY <1>1, NextNoLostWakeup, GateTypeCorrect, PTL DEF Spec

=============================================================================

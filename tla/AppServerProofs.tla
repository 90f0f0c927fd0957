--------------------------- MODULE AppServerProofs ---------------------------
(***************************************************************************)
(* For any calls, request ids, limits and number of failures:              *)
(* CodexAppServer implements AppServerGenerations, and no callback runs    *)
(* for a generation that has failed (CoreInv); nobody is left waiting      *)
(* (CallInv); server requests are answered once (TokenInv); and the        *)
(* process has the configuration of the activation state (MaskInv).  Each  *)
(* invariant is about a few variables; most steps leave those alone, and   *)
(* the steps that fail a generation are alike.                             *)
(***************************************************************************)
EXTENDS CodexAppServer, FiniteSetTheorems, TLAPS

Starting == {"initializing", "initialized", "verifying", "opening", "setting"}

\* Server requests of the current generation, read or not.
Current == {k \in tokens \cup offered : k[1] = gen}

CoreType ==
    /\ gen \in Nat /\ ready \in BOOLEAN /\ stdin \in BOOLEAN
    /\ supervisor \in SupervisorPoints
    /\ failures \subseteq 0..gen /\ dispatch \in {0, gen}
    /\ tokens \cup offered \subseteq (1..gen) \X Token

\* A failure closes the input, so a start that failed gets no further than to
\* the verification; and requests come after the start.
CoreInv ==
    /\ CoreType
    /\ Failed => ~stdin
    /\ ready => supervisor \in {"activating", "watching", "cleaning"}
    /\ supervisor \in {"spawning", "launching", "gone"} \/ gen > 0
    /\ supervisor \in {"spawning", "launching"} => dispatch = 0
    /\ supervisor \in Starting => Current = {}
    /\ Failed /\ gen > 0 /\ dispatch = gen =>
         supervisor \in {"verifying", "cleaning", "stopping"} /\ Current = {}

coreVars == <<gen, ready, stdin, supervisor, failures, dispatch, tokens, offered>>

\* What a step may do to the phase.
Moves == Generations!Next \/ UNCHANGED <<gen, Phase>>

LEMMA CoreInit == Init => CoreInv /\ Generations!Init
<1> SUFFICES ASSUME Init PROVE CoreInv /\ Generations!Init
  OBVIOUS
<1>1. CoreType
  BY DEF Init, CoreType, SupervisorPoints
<1>2. Current = {} /\ ~Failed /\ dispatch = 0 /\ ~ready
  BY DEF Init, Current, Failed
<1>3. CoreInv
  BY <1>1, <1>2 DEF CoreInv, Init
<1>4. Generations!Init
  BY DEF Init, Generations!Init, Phase
<1> QED BY <1>3, <1>4

-----------------------------------------------------------------------------

LEMMA QuietStep ==
  ASSUME CoreInv, UNCHANGED coreVars
  PROVE  CoreInv' /\ Moves
<1>1. CoreType'
  BY DEF coreVars, CoreInv, CoreType
<1>2. Current' = Current /\ Failed' = Failed
  BY DEF coreVars, Current, Failed
<1>3. CoreInv'
  BY <1>1, <1>2 DEF coreVars, CoreInv
<1>4. UNCHANGED <<gen, Phase>>
  BY DEF coreVars, Phase
<1> QED BY <1>3, <1>4 DEF Moves

\* _mark_generation_failed, and aborts, which also discard the tokens.
LEMMA FailingStep ==
  ASSUME CoreInv, MarkFailed, UNCHANGED <<gen, supervisor, offered>>, tokens' \subseteq tokens
  PROVE  CoreInv' /\ Moves
<1> USE DEF CoreInv, MarkFailed
<1>1. CoreType'
  <2>1. failures' \subseteq 0..gen
    BY DEF CoreType
  <2>2. tokens' \cup offered' \subseteq (1..gen) \X Token
    BY DEF CoreType
  <2> QED BY <2>1, <2>2 DEF CoreType
<1>2. CoreInv'
  BY <1>1 DEF CoreType, Failed, Current
<1>3. Moves
  <2>1. CASE ready
    BY <2>1 DEF Moves, Generations!Next, Generations!Lose, Phase
  <2>2. CASE ~ready
    BY <2>2 DEF Moves, Phase, CoreType
  <2> QED BY <2>1, <2>2
<1> QED BY <1>2, <1>3

\* The tokens and the offers of the current generation only become fewer.
LEMMA DiscardingStep ==
  ASSUME CoreInv, UNCHANGED <<gen, ready, stdin, supervisor, failures, dispatch>>,
         tokens' \cup offered' \subseteq tokens \cup offered
  PROVE  CoreInv' /\ Moves
<1>1. CoreInv'
  BY DEF CoreInv, CoreType, Failed, Current
<1>2. UNCHANGED <<gen, Phase>>
  BY DEF Phase
<1> QED BY <1>1, <1>2 DEF Moves

-----------------------------------------------------------------------------
(* The supervisor *)

LEMMA SpawnsStep == ASSUME CoreInv, Spawns PROVE CoreInv' /\ Moves
<1> USE DEF Spawns, Supervise, statusVars, tokenVars
<1>1. ~ready /\ ~ready' /\ dispatch = 0
  BY DEF CoreInv
<1>2. CoreType'
  BY DEF CoreInv, CoreType, SupervisorPoints
<1>3. CoreInv'
  BY <1>1, <1>2 DEF CoreInv, Starting, Failed
<1>4. UNCHANGED <<gen, Phase>>
  BY <1>1 DEF Phase
<1> QED BY <1>3, <1>4 DEF Moves

LEMMA LaunchesStep == ASSUME CoreInv, Launches PROVE CoreInv' /\ Moves
<1> USE DEF Launches, Supervise, statusVars, tokenVars
<1>1. ~ready /\ ~ready' /\ dispatch = 0
  BY DEF CoreInv
<1>2. CoreType' /\ ~Failed' /\ gen' > 0
  BY <1>1 DEF CoreInv, CoreType, SupervisorPoints, Failed
<1>3. Current' = {}
  BY DEF CoreInv, CoreType, Current
<1>4. CoreInv'
  BY <1>1, <1>2, <1>3 DEF CoreInv, Starting
<1>5. Generations!Begin
  BY <1>1 DEF Generations!Begin, Phase
<1> QED BY <1>4, <1>5 DEF Moves, Generations!Next

\* From initialize to the point where the generation is current.
LEMMA StartingStep ==
  ASSUME CoreInv, InitializeAnswered \/ Dispatches \/ Verifies \/ Opens
  PROVE  CoreInv' /\ Moves
<1> USE DEF statusVars, tokenVars, Supervise
<1>1. /\ ~ready /\ UNCHANGED ready /\ Current = {}
      /\ supervisor \in Starting /\ supervisor' \in Starting
      /\ UNCHANGED <<gen, stdin, failures, tokens, offered>> /\ dispatch' \in {0, gen}
  BY DEF InitializeAnswered, Dispatches, Verifies, Opens, CoreInv, CoreType, Starting
<1>2. CoreType'
  <2>1. supervisor' \in SupervisorPoints
    BY <1>1 DEF Starting, SupervisorPoints
  <2> QED BY <1>1, <2>1 DEF CoreInv, CoreType
<1>3. Current' = {} /\ Failed' = Failed
  BY <1>1 DEF Current, Failed
<1>4. Failed /\ gen > 0 /\ dispatch' = gen => supervisor' = "verifying"
  BY DEF InitializeAnswered, Dispatches, Verifies, Opens, CoreInv, CoreType, Starting
<1>5. CoreInv'
  BY <1>1, <1>2, <1>3, <1>4 DEF CoreInv, Starting
<1>6. UNCHANGED <<gen, Phase>>
  BY <1>1 DEF Phase, Starting
<1> QED BY <1>5, <1>6 DEF Moves

LEMMA SetsReadyStep == ASSUME CoreInv, SetsReady PROVE CoreInv' /\ Moves
<1> USE DEF SetsReady, Supervise, tokenVars
<1>1. /\ ~ready /\ ready' /\ supervisor' = "activating"
      /\ UNCHANGED <<gen, stdin, failures, dispatch, tokens, offered>>
      /\ ~(Failed /\ gen > 0 /\ dispatch = gen)
  BY DEF CoreInv
<1>2. CoreType'
  BY <1>1 DEF CoreInv, CoreType, SupervisorPoints
<1>3. CoreInv'
  BY <1>1, <1>2 DEF CoreInv, Failed, Starting
<1>4. Generations!Open
  BY <1>1 DEF Generations!Open, Phase
<1> QED BY <1>3, <1>4 DEF Moves, Generations!Next

LEMMA ActivatesStep == ASSUME CoreInv, Activates PROVE CoreInv' /\ Moves
<1> USE DEF Activates, Supervise, statusVars, tokenVars
<1>1. /\ supervisor = "activating" /\ supervisor' = "watching"
      /\ UNCHANGED <<gen, ready, stdin, failures, dispatch, tokens, offered>>
      /\ ~(Failed /\ gen > 0 /\ dispatch = gen)
  BY DEF CoreInv
<1>2. CoreType'
  BY <1>1 DEF CoreInv, CoreType, SupervisorPoints
<1>3. CoreInv'
  BY <1>1, <1>2 DEF CoreInv, Failed, Starting
<1>4. UNCHANGED <<gen, Phase>>
  BY <1>1 DEF Phase
<1> QED BY <1>3, <1>4 DEF Moves

\* A start that fails, and the end of the reader.
LEMMA GivesUpStep == ASSUME CoreInv, StartFails \/ Watches PROVE CoreInv' /\ Moves
<1> USE DEF Supervise, statusVars, tokenVars
<1>1. /\ supervisor \in Starting \cup {"watching"} /\ supervisor' = "cleaning"
      /\ UNCHANGED <<gen, ready, stdin, failures, dispatch, tokens, offered>>
  BY DEF StartFails, Watches, Starting
<1>2. CoreType'
  BY <1>1 DEF CoreInv, CoreType, SupervisorPoints
<1>3. Current' = Current /\ Failed' = Failed
  BY <1>1 DEF Current, Failed
<1>4. CoreInv'
  BY <1>1, <1>2, <1>3 DEF CoreInv, Starting
<1>5. Moves
  <2>1. CASE supervisor \in Starting
    <3>1. Generations!Lose
      BY <1>1, <2>1 DEF Generations!Lose, Phase, CoreInv, Starting
    <3> QED BY <3>1 DEF Moves, Generations!Next
  <2>2. CASE supervisor = "watching"
    BY <1>1, <2>2 DEF Moves, Phase
  <2> QED BY <1>1, <2>1, <2>2
<1> QED BY <1>4, <1>5

LEMMA CleansStep == ASSUME CoreInv, Cleans PROVE CoreInv' /\ Moves
<1> USE DEF Cleans, Supervise
<1>1. /\ supervisor = "cleaning" /\ supervisor' = "stopping" /\ ~ready' /\ tokens' \subseteq tokens
      /\ UNCHANGED <<gen, stdin, failures, dispatch, offered>>
  BY DEF CoreInv
<1>2. CoreType'
  BY <1>1 DEF CoreInv, CoreType, SupervisorPoints
<1>3. Current' \subseteq Current /\ Failed' = Failed
  BY <1>1 DEF Current, Failed
<1>4. CoreInv'
  BY <1>1, <1>2, <1>3 DEF CoreInv, Starting
<1>5. Moves
  <2>1. CASE ready
    <3>1. Generations!Lose
      BY <1>1, <2>1 DEF Generations!Lose, Phase
    <3> QED BY <3>1 DEF Moves, Generations!Next
  <2>2. CASE ~ready
    BY <1>1, <2>2 DEF Moves, Phase
  <2> QED BY <2>1, <2>2
<1> QED BY <1>4, <1>5

LEMMA StopsStep == ASSUME CoreInv, Stops PROVE CoreInv' /\ Moves
<1> USE DEF Stops, Supervise
<1>1. /\ supervisor = "stopping" /\ supervisor' \in {"gone", "spawning"} /\ ~ready /\ ~ready'
      /\ dispatch' = 0 /\ ~stdin' /\ offered' = {} /\ failures' \subseteq failures
      /\ UNCHANGED <<gen, tokens>> /\ ~Failed'
  BY DEF CoreInv, Failed
<1>2. CoreType'
  BY <1>1 DEF CoreInv, CoreType, SupervisorPoints
<1>3. CoreInv'
  BY <1>1, <1>2 DEF CoreInv, Starting
<1>4. UNCHANGED <<gen, Phase>>
  BY <1>1 DEF Phase
<1> QED BY <1>3, <1>4 DEF Moves

-----------------------------------------------------------------------------
(* Calls, the reader, server requests, activations and close *)

LEMMA CallerStep ==
  ASSUME CoreInv, NEW c \in Call, CallChooses(c) \/ Caller(c) \/ ProcessReplies(c)
  PROVE  CoreInv' /\ Moves
<1>1. CASE CallWriteFails(c) /\ MarkFailed
  <2>1. UNCHANGED <<gen, supervisor, offered, tokens>>
    BY <1>1 DEF CallWriteFails, tokenVars
  <2> QED BY <1>1, <2>1, FailingStep
<1>2. CASE CallWriteFails(c) /\ ~MarkFailed
  <2>1. UNCHANGED coreVars
    BY <1>2 DEF CallWriteFails, tokenVars, statusVars, coreVars
  <2> QED BY <2>1, QuietStep
<1>3. CASE ~CallWriteFails(c)
  <2>1. UNCHANGED coreVars
    BY <1>3 DEF CallChooses, Caller, ProcessReplies, CallRegisters, CallWrites, CallReturns,
       CallTimesOut, CallExpires, processVars, tokenVars, statusVars, coreVars
  <2> QED BY <2>1, QuietStep
<1> QED BY <1>1, <1>2, <1>3

LEMMA ReaderStep == ASSUME CoreInv, Reader PROVE CoreInv' /\ Moves
<1>1. CASE ReaderFails
  <2>1. MarkFailed /\ UNCHANGED <<gen, supervisor, offered, tokens>>
    BY <1>1 DEF ReaderFails, tokenVars
  <2> QED BY <2>1, FailingStep
<1>2. CASE SetsFuture \/ \E c \in Call : ReadsReply(c)
  <2>1. UNCHANGED coreVars
    BY <1>2 DEF SetsFuture, ReadsReply, tokenVars, statusVars, coreVars
  <2> QED BY <2>1, QuietStep
<1>3. CASE ReaderCloses
  <2> USE <1>3 DEF ReaderCloses, statusVars, tokenVars
  <2>1. CoreType' /\ Current' = Current /\ Failed' = Failed
    BY DEF CoreInv, CoreType, Current, Failed
  <2>2. CoreInv'
    BY <2>1 DEF CoreInv
  <2>3. UNCHANGED <<gen, Phase>>
    BY DEF Phase
  <2> QED BY <2>2, <2>3 DEF Moves
<1>4. CASE \E k \in offered : ReadsRequest(k)
  <2>1. /\ UNCHANGED <<gen, ready, stdin, supervisor, failures, dispatch>>
        /\ tokens' \cup offered' \subseteq tokens \cup offered
    BY <1>4 DEF ReadsRequest, statusVars
  <2> QED BY <2>1, DiscardingStep
<1> QED BY <1>1, <1>2, <1>3, <1>4 DEF Reader

\* The process asks once calls are let through, so not while a start fails.
LEMMA AsksStep ==
  ASSUME CoreInv, NEW t \in Token, ProcessAsks(t)
  PROVE  CoreInv' /\ Moves
<1> USE DEF ProcessAsks, processVars, statusVars
<1>1. /\ supervisor \in {"activating", "watching"}
      /\ ~(Failed /\ gen > 0 /\ dispatch = gen)
      /\ UNCHANGED <<gen, ready, stdin, supervisor, failures, dispatch, tokens>>
  BY DEF CoreInv
<1>2. CoreType'
  <2>1. gen \in 1..gen
    BY <1>1 DEF CoreInv, CoreType
  <2> QED BY <1>1, <2>1 DEF CoreInv, CoreType
<1>3. CoreInv'
  BY <1>1, <1>2 DEF CoreInv, Failed, Starting
<1>4. UNCHANGED <<gen, Phase>>
  BY <1>1 DEF Phase
<1> QED BY <1>3, <1>4 DEF Moves

LEMMA AnsweringStep == ASSUME CoreInv, Answering PROVE CoreInv' /\ Moves
<1>1. CASE CallbackRuns \/ \E k \in held : Decides(k) \/ Discards(k)
  <2>1. /\ UNCHANGED <<gen, ready, stdin, supervisor, failures, dispatch>>
        /\ tokens' \cup offered' \subseteq tokens \cup offered
    BY <1>1 DEF CallbackRuns, Decides, Discards, Claim, processVars, statusVars
  <2> QED BY <2>1, DiscardingStep
<1>2. CASE HandlerFails
  <2>1. MarkFailed /\ UNCHANGED <<gen, supervisor, offered, tokens>>
    BY <1>2 DEF HandlerFails, tokenVars
  <2> QED BY <2>1, FailingStep
<1>3. CASE \E w \in writing : AnswerWritten(w[1], w[2])
  <2>1. UNCHANGED <<gen, supervisor, offered, tokens>> /\ (MarkFailed \/ UNCHANGED coreVars)
    BY <1>3 DEF AnswerWritten, statusVars, coreVars
  <2> QED BY <2>1, FailingStep, QuietStep
<1> QED BY <1>1, <1>2, <1>3 DEF Answering

LEMMA AbortStep ==
  ASSUME CoreInv, NEW g \in Nat, AbortGeneration(g), UNCHANGED <<gen, supervisor, offered>>
  PROVE  CoreInv' /\ Moves
<1>1. MarkFailed /\ tokens' \subseteq tokens
  BY DEF AbortGeneration
<1> QED BY <1>1, FailingStep

LEMMA ActivationStep == ASSUME CoreInv, Abort \/ Activation PROVE CoreInv' /\ Moves
<1>1. CASE Abort
  <2>1. gen \in Nat
    BY DEF CoreInv, CoreType
  <2> QED BY <1>1, <2>1, AbortStep DEF Abort
<1>2. CASE (ActivationAborts \/ ActivationGivesUp) /\ ~UNCHANGED coreVars
  <2>1. MarkFailed /\ tokens' \subseteq tokens /\ UNCHANGED <<gen, supervisor, offered>>
    BY <1>2 DEF ActivationAborts, ActivationGivesUp, AbortGeneration, statusVars, coreVars
  <2> QED BY <2>1, FailingStep
<1>3. CASE UNCHANGED coreVars
  BY <1>3, QuietStep
<1>4. CASE ActivationBegins \/ ActivationEnds \/ ActivationTimesOut \/ ActivationMasks
  <2>1. UNCHANGED coreVars
    BY <1>4 DEF ActivationBegins, ActivationEnds, ActivationTimesOut, ActivationMasks,
                processVars, statusVars, tokenVars, coreVars
  <2> QED BY <2>1, QuietStep
<1> QED BY <1>1, <1>2, <1>3, <1>4 DEF Activation

LEMMA CloseStep == ASSUME CoreInv, Close \/ ProcessExits PROVE CoreInv' /\ Moves
<1>1. CASE CloseBegins \/ CloseEnds \/ ProcessExits
  <2>1. UNCHANGED coreVars
    BY <1>1 DEF CloseBegins, CloseEnds, ProcessExits, processVars, statusVars, tokenVars, coreVars
  <2> QED BY <2>1, QuietStep
<1>2. CASE CloseClears
  <2> USE <1>2 DEF CloseClears, tokenVars
  <2>1. CoreType' /\ Current' = Current /\ Failed' = Failed
    BY DEF CoreInv, CoreType, Current, Failed
  <2>2. CoreInv'
    BY <2>1 DEF CoreInv
  <2>3. CASE ready
    <3>1. Generations!Lose
      BY <2>3 DEF Generations!Lose, Phase, CoreInv
    <3> QED BY <2>2, <3>1 DEF Moves, Generations!Next
  <2>4. CASE ~ready
    <3>1. UNCHANGED <<gen, Phase>>
      BY <2>4 DEF Phase, CoreInv, CoreType
    <3> QED BY <2>2, <3>1 DEF Moves
  <2> QED BY <2>3, <2>4
<1> QED BY <1>1, <1>2 DEF Close

LEMMA CoreNext == CoreInv /\ [Next]_vars => CoreInv' /\ Moves
<1> SUFFICES ASSUME CoreInv, [Next]_vars PROVE CoreInv' /\ Moves
  OBVIOUS
<1>1. CASE Supervisor
  BY <1>1, SpawnsStep, LaunchesStep, StartingStep, SetsReadyStep, ActivatesStep, GivesUpStep,
     CleansStep, StopsStep DEF Supervisor
<1>2. CASE Reader \/ Answering \/ Activation \/ Close \/ Abort \/ ProcessExits
  BY <1>2, ReaderStep, AnsweringStep, ActivationStep, CloseStep
<1>3. CASE \E c \in Call : CallChooses(c) \/ Caller(c) \/ ProcessReplies(c)
  BY <1>3, CallerStep
<1>4. CASE \E t \in Token : ProcessAsks(t)
  BY <1>4, AsksStep
<1>5. CASE UNCHANGED vars
  BY <1>5, QuietStep DEF vars, processVars, statusVars, tokenVars, coreVars
<1> QED BY <1>1, <1>2, <1>3, <1>4, <1>5 DEF Next

\* The client keeps the contract its callers rely on: a generation is ready for
\* one interval at most, and the next one is newer (_spawn_generation, _ready).
THEOREM ServerGenerations == Spec => GenerationContract
<1>1. CoreInv /\ CoreInv' /\ [Next]_vars => [Generations!Next]_(Generations!genVars)
  BY CoreNext DEF Moves, Generations!genVars
<1> QED BY CoreInit, CoreNext, <1>1, PTL DEF Spec, GenerationContract, Generations!Spec

\* A handler that was queued before its generation failed is not run after: the
\* token is still there and the generation dispatches (_dispatch_server_request).
THEOREM ServerCallbackFenced == Spec => CallbackFenced
<1> DEFINE Step == \A k \in used : (k \in held' \ held \/ <<k, "callback">> \in writing' \ writing)
                                      => k[1] = gen /\ ~Failed
<1>1. ASSUME CoreInv, CallbackRuns PROVE Step
  <2>1. CASE UNCHANGED <<held, writing>>
    BY <2>1
  <2>2. CASE ~UNCHANGED <<held, writing>>
    <3>1. /\ Fenced(Head(callbacks))
          /\ \A k \in used : (k \in held' \ held \/ <<k, "callback">> \in writing' \ writing)
                              => k = Head(callbacks)
      BY <1>1, <2>2 DEF CallbackRuns
    <3>2. \A k \in tokens : dispatch = k[1] => k[1] = gen /\ ~Failed
      BY <1>1 DEF CoreInv, CoreType, Current
    <3> QED BY <3>1, <3>2 DEF Fenced
  <2> QED BY <2>1, <2>2
<1>2. ASSUME CoreInv, [Next]_vars, ~CallbackRuns PROVE Step
  <2>1. CASE UNCHANGED <<held, writing>>
    BY <2>1
  <2>2. CASE held' \subseteq held /\ \A w \in writing' \ writing : w[2] = "decision"
    BY <2>2
  <2>3. CASE \E k \in held : Decides(k) \/ Discards(k)
    BY <2>3, <2>2 DEF Decides, Discards
  <2>4. CASE \E w \in writing : AnswerWritten(w[1], w[2])
    BY <2>4, <2>2 DEF AnswerWritten
  <2>5. CASE /\ ~ \E k \in held : Decides(k) \/ Discards(k)
             /\ ~ \E w \in writing : AnswerWritten(w[1], w[2])
    <3>1. UNCHANGED <<held, writing>>
      <4>1. CASE Supervisor \/ Close \/ Abort \/ ProcessExits \/ UNCHANGED vars
        BY <4>1 DEF Supervisor, Spawns, Launches, InitializeAnswered, Dispatches, Verifies, Opens,
           SetsReady, Activates, StartFails, Watches, Cleans, Stops, Close, CloseBegins,
           CloseClears, CloseEnds, Abort, ProcessExits, tokenVars, vars
      <4>2. CASE Reader \/ Activation \/ HandlerFails
        BY <4>2 DEF Reader, ReadsReply, ReadsRequest, SetsFuture, ReaderFails, ReaderCloses,
           HandlerFails, Activation, ActivationBegins, ActivationAborts, ActivationEnds,
           ActivationTimesOut, ActivationMasks, ActivationGivesUp, tokenVars
      <4>3. CASE \/ \E c \in Call : CallChooses(c) \/ Caller(c) \/ ProcessReplies(c)
                 \/ \E t \in Token : ProcessAsks(t)
        BY <4>3 DEF CallChooses, Caller, CallRegisters, CallWrites, CallWriteFails, CallReturns,
           CallTimesOut, CallExpires, ProcessReplies, ProcessAsks, tokenVars
      <4> QED BY <1>2, <2>5, <4>1, <4>2, <4>3 DEF Next, Answering
    <3> QED BY <2>1, <3>1
  <2> QED BY <2>3, <2>4, <2>5
<1>3. CoreInv /\ [Next]_vars => [Step]_vars
  BY <1>1, <1>2
<1> QED BY CoreInit, CoreNext, <1>3, PTL DEF Spec, CallbackFenced

-----------------------------------------------------------------------------
(* What the client keeps of calls.  It is the process that the invariant of *)
(* the calls rests on: they are only pending while a process serves them.   *)

NoProcess == {"spawning", "launching", "gone"}

ProcessInv ==
    /\ proc = "none" <=> supervisor \in NoProcess
    /\ reader = "none" <=> supervisor \in NoProcess
    /\ routing # None <=> reader = "routing"
    /\ failures \subseteq {gen}
    /\ supervisor \in NoProcess => failures = {} /\ dispatch = 0 /\ asked = {} /\ replies = {}
    /\ pending # {} => supervisor \in {"activating", "watching", "cleaning"}
    /\ closer = "closed" => supervisor = "gone"

\* The process has nothing of this call, and the reader has no response.
Unsent(c) == c \notin asked \cup replies /\ routing # c

\* Where a call can be found, by where its caller is; a process has only calls
\* that are pending or retired, so it cannot answer with an unknown id.
CallOK(c) ==
    /\ caller[c] \in {"idle", "chosen"} => Unsent(c) /\ c \notin pending /\ future[c] = "unset"
    /\ caller[c] = "registered" =>
         /\ Unsent(c) /\ (future[c] = "unset" => c \in pending)
         /\ callGen[c] = gen /\ proc # "none" => c \in pending \cup retired
    /\ caller[c] = "waiting" /\ future[c] = "unset" => c \in pending \/ routing = c
    /\ c \in pending => /\ callGen[c] = gen /\ future[c] = "unset" /\ routing # c
                        /\ caller[c] \in {"registered", "waiting", "expired"}
    /\ c \in asked \cup replies => c \in pending \cup retired
    /\ c \notin asked \cap replies

CallType ==
    /\ caller \in [Call -> CallerPoints] /\ callGen \in [Call -> 0..gen]
    /\ pending \subseteq Call /\ IsFiniteSet(pending) /\ Cardinality(pending) <= MaxPending
    /\ retired \subseteq Call /\ future \in [Call -> {"unset", "result", "error"}]
    /\ routing \in Call \cup {None} /\ asked \subseteq Call /\ replies \subseteq Call
    /\ reader \in {"none", "reading", "routing", "failing", "done"}

CallInv == CoreInv /\ ProcessInv /\ CallType /\ \A c \in Call : CallOK(c)

LEMMA CallInit == Init => CallInv
<1> SUFFICES ASSUME Init PROVE CallInv
  OBVIOUS
<1>1. CallType
  BY FS_EmptySet, ServerAssumption DEF Init, CallType, CallerPoints
<1>2. ProcessInv /\ \A c \in Call : CallOK(c)
  BY ServerAssumption DEF Init, ProcessInv, CallOK, Unsent, NoProcess
<1> QED BY <1>1, <1>2, CoreInit DEF CallInv

\* What the calls are told of, apart from the faults, the tokens and the mask.
lifeVars == <<gen, proc, stdin, reader, supervisor, statusVars, closer, callVars>>

LEMMA CallQuietStep == ASSUME CallInv, CoreInv', UNCHANGED lifeVars PROVE CallInv'
<1>1. ProcessInv' /\ CallType' /\ \A c \in Call : CallOK(c)'
  BY DEF CallInv, ProcessInv, CallType, CallOK, Unsent, lifeVars, statusVars, callVars
<1> QED BY <1>1 DEF CallInv

\* A smaller table is within its limit.
LEMMA FewerPending ==
  ASSUME CallType, pending' \subseteq pending
  PROVE  pending' \subseteq Call /\ IsFiniteSet(pending') /\ Cardinality(pending') <= MaxPending
<1>1. IsFiniteSet(pending') /\ Cardinality(pending') <= Cardinality(pending)
  BY FS_Subset DEF CallType
<1>2. Cardinality(pending) \in Nat /\ Cardinality(pending') \in Nat
  BY <1>1, FS_CardinalityType DEF CallType
<1> QED BY <1>1, <1>2, ServerAssumption DEF CallType

\* _mark_generation_failed: the calls of the generation are answered with an error.
LEMMA CallFailingStep ==
  ASSUME CallInv, CoreInv', MarkFailed, supervisor \notin NoProcess, reader' \in {reader, "done"},
         reader' = reader \/ reader # "routing",
         UNCHANGED <<gen, proc, supervisor, closer, caller, callGen, routing, asked, replies>>
  PROVE  CallInv'
<1> USE DEF CallInv, MarkFailed, FailPending
<1>1. ProcessInv'
  BY DEF ProcessInv, NoProcess
<1>2. pending' = {}
  BY DEF CallOK, CallsOf, CallType
<1>3. CallType'
  BY FewerPending DEF CallType, CallsOf
<1>4. ASSUME NEW c \in Call PROVE CallOK(c)'
  BY <1>2, CallOK(c) DEF CallOK, Unsent, CallsOf, CallType
<1> QED BY <1>1, <1>3, <1>4

\* A step of the supervisor that leaves the calls and the process as they are.
LEMMA CallSupervisorStep ==
  ASSUME CallInv, CoreInv', UNCHANGED <<gen, proc, reader, failures, closer, callVars>>,
         \/ /\ supervisor \in Starting \cup {"activating", "watching"} /\ dispatch' \in {0, gen}
            /\ supervisor' \in Starting \cup {"activating", "watching", "cleaning"}
            /\ pending # {} => supervisor' \in {"activating", "watching", "cleaning"}
         \/ supervisor = "spawning" /\ supervisor' \in NoProcess /\ UNCHANGED dispatch
  PROVE  CallInv'
<1> USE DEF CallInv, callVars
<1>1. ProcessInv'
  BY DEF ProcessInv, NoProcess, Starting
<1>2. CallType' /\ \A c \in Call : CallOK(c)'
  BY DEF CallType, CallOK, Unsent
<1> QED BY <1>1, <1>2

LEMMA CallLaunchesStep == ASSUME CallInv, CoreInv', Launches PROVE CallInv'
<1> USE DEF CallInv, Launches, Supervise, statusVars, closeVars, callVars
<1>1. pending = {} /\ asked = {} /\ replies = {} /\ routing = None /\ proc = "none"
  BY DEF ProcessInv, NoProcess
<1>2. gen \in Nat
  BY DEF CoreInv, CoreType
<1>3. ProcessInv'
  BY <1>1 DEF ProcessInv, NoProcess
<1>4. CallType'
  <2>1. \A c \in Call : callGen[c] \in 0..(gen + 1) /\ callGen[c] # gen + 1
    BY <1>2 DEF CallType
  <2> QED BY <1>2, <2>1 DEF CallType
<1>5. ASSUME NEW c \in Call PROVE CallOK(c)'
  <2>1. callGen[c] # gen + 1
    BY <1>2 DEF CallType
  <2> QED BY <1>1, <2>1, CallOK(c) DEF CallOK, Unsent
<1> QED BY <1>3, <1>4, <1>5

LEMMA CallCleansStep == ASSUME CallInv, CoreInv', Cleans PROVE CallInv'
<1> USE DEF CallInv, Cleans, Supervise, FailPending, closeVars
<1>1. CallsOf(gen) = pending
  BY DEF CallOK, CallsOf, CallType
<1>2. ProcessInv' /\ pending' = {}
  BY <1>1 DEF ProcessInv, NoProcess
<1>3. CallType'
  BY <1>1, FewerPending DEF CallType
<1>4. ASSUME NEW c \in Call PROVE CallOK(c)'
  BY <1>1, <1>2, CallOK(c) DEF CallOK, Unsent, CallType
<1> QED BY <1>2, <1>3, <1>4

LEMMA CallStopsStep == ASSUME CallInv, CoreInv', Stops PROVE CallInv'
<1> USE DEF CallInv, Stops, Supervise, closeVars
<1>1. pending = {} /\ routing = None
  BY DEF ProcessInv
<1>2. ProcessInv'
  <2>1. failures' = {}
    BY DEF ProcessInv
  <2> QED BY <1>1, <2>1 DEF ProcessInv, NoProcess
<1>3. CallType'
  BY <1>1 DEF CallType
<1>4. ASSUME NEW c \in Call PROVE CallOK(c)'
  BY <1>1, CallOK(c) DEF CallOK, Unsent
<1> QED BY <1>2, <1>3, <1>4

LEMMA CallOfSupervisor == ASSUME CallInv, CoreInv', Supervisor PROVE CallInv'
<1> USE DEF Supervise, Starting, NoProcess, statusVars, closeVars, callVars
<1>1. CASE Spawns
  BY <1>1, CallSupervisorStep DEF Spawns
<1>2. CASE StartFails \/ Watches \/ Activates
  <2>1. /\ UNCHANGED <<gen, proc, reader, failures, closer, callVars, dispatch>>
        /\ supervisor \in Starting \cup {"activating", "watching"}
        /\ supervisor' \in {"watching", "cleaning"}
    BY <1>2 DEF StartFails, Watches, Activates
  <2>2. dispatch' \in {0, gen}
    BY <2>1 DEF CallInv, CoreInv, CoreType
  <2> QED BY <2>1, <2>2, CallSupervisorStep
<1>3. CASE InitializeAnswered \/ Dispatches \/ Verifies \/ Opens \/ SetsReady
  <2>1. /\ UNCHANGED <<gen, proc, reader, failures, closer, callVars>>
        /\ supervisor \in Starting /\ supervisor' \in Starting \cup {"activating"}
        /\ dispatch' \in {dispatch, gen}
    BY <1>3 DEF InitializeAnswered, Dispatches, Verifies, Opens, SetsReady
  <2>2. dispatch' \in {0, gen} /\ pending = {}
    BY <2>1 DEF CallInv, CoreInv, CoreType, ProcessInv
  <2> QED BY <2>1, <2>2, CallSupervisorStep
<1> QED
  BY <1>1, <1>2, <1>3, CallLaunchesStep, CallCleansStep, CallStopsStep DEF Supervisor

\* Steps of one call leave the process alone.  What is left to show is where the
\* call is found, and that the others are where they were.
LEMMA CallOfCaller ==
  ASSUME CallInv, CoreInv', NEW c \in Call, CallChooses(c) \/ Caller(c) \/ ProcessReplies(c)
  PROVE  CallInv'
<1> USE DEF CallInv, At, processVars, statusVars, closeVars
<1>1. CASE CallWriteFails(c) /\ MarkFailed
  <2> USE <1>1 DEF CallWriteFails, MarkFailed, FailPending
  <2>1. pending' = {}
    BY DEF CallOK, CallsOf, CallType
  <2>2. ProcessInv'
    <3>1. Running \/ UNCHANGED statusVars
      OBVIOUS
    <3> QED BY <2>1, <3>1 DEF ProcessInv, NoProcess, Running
  <2>3. CallType'
    BY FewerPending DEF CallType, CallsOf, CallerPoints
  <2>4. ASSUME NEW d \in Call PROVE CallOK(d)'
    BY <2>1, CallOK(c), CallOK(d) DEF CallOK, Unsent, CallsOf, CallType
  <2> QED BY <2>2, <2>3, <2>4
<1>2. CASE CallWriteFails(c) /\ ~MarkFailed
  <2> USE <1>2 DEF CallWriteFails
  <2>1. ProcessInv'
    BY DEF ProcessInv
  <2>2. CallType'
    BY FewerPending DEF CallType, CallerPoints
  <2>3. ASSUME NEW d \in Call PROVE CallOK(d)'
    BY CallOK(c), CallOK(d) DEF CallOK, Unsent, CallType
  <2> QED BY <2>1, <2>2, <2>3
<1>3. CASE CallChooses(c)
  <2> USE <1>3 DEF CallChooses
  <2>1. ProcessInv' /\ CallType'
    BY DEF ProcessInv, CallType, CallerPoints, CoreInv, CoreType
  <2>2. ASSUME NEW d \in Call PROVE CallOK(d)'
    BY CallOK(c), CallOK(d) DEF CallOK, Unsent, CallType
  <2> QED BY <2>1, <2>2
<1>4. CASE CallRegisters(c)
  <2> USE <1>4 DEF CallRegisters
  <2>1. ProcessInv'
    BY DEF ProcessInv, CoreInv
  <2>2. CallType'
    <3>1. CASE pending' = pending
      BY <3>1 DEF CallType, CallerPoints
    <3>2. CASE pending' = pending \cup {c} /\ Cardinality(pending) < MaxPending
      <4>1. IsFiniteSet(pending') /\ Cardinality(pending') \in {Cardinality(pending), Cardinality(pending) + 1}
        BY <3>2, FS_AddElement DEF CallType
      <4>2. Cardinality(pending) \in Nat
        BY FS_CardinalityType DEF CallType
      <4>3. Cardinality(pending') <= MaxPending
        BY <3>2, <4>1, <4>2, ServerAssumption
      <4> QED BY <3>2, <4>1, <4>3 DEF CallType, CallerPoints
    <3> QED BY <3>1, <3>2
  <2>3. ASSUME NEW d \in Call PROVE CallOK(d)'
    BY CallOK(c), CallOK(d) DEF CallOK, Unsent, CallType
  <2> QED BY <2>1, <2>2, <2>3
<1>5. CASE CallWrites(c)
  <2> USE <1>5 DEF CallWrites
  <2>1. ProcessInv'
    BY DEF ProcessInv, Running, NoProcess
  <2>2. CallType'
    BY DEF CallType, CallerPoints
  <2>3. ASSUME NEW d \in Call PROVE CallOK(d)'
    BY CallOK(c), CallOK(d) DEF CallOK, Unsent, CallType, Running
  <2> QED BY <2>1, <2>2, <2>3
<1>6. CASE CallReturns(c) \/ CallTimesOut(c)
  <2> USE <1>6 DEF CallReturns, CallTimesOut
  <2>1. ProcessInv' /\ CallType'
    BY DEF ProcessInv, CallType, CallerPoints
  <2>2. ASSUME NEW d \in Call PROVE CallOK(d)'
    BY CallOK(c), CallOK(d) DEF CallOK, Unsent, CallType
  <2> QED BY <2>1, <2>2
<1>7. CASE CallExpires(c)
  <2> USE <1>7 DEF CallExpires
  <2>1. ProcessInv'
    BY DEF ProcessInv
  <2>2. CallType'
    BY FewerPending DEF CallType, CallerPoints
  <2>3. ASSUME NEW d \in Call PROVE CallOK(d)'
    BY CallOK(c), CallOK(d) DEF CallOK, Unsent, CallType
  <2> QED BY <2>1, <2>2, <2>3
<1>8. CASE ProcessReplies(c)
  <2> USE <1>8 DEF ProcessReplies
  <2>1. ProcessInv' /\ CallType'
    BY DEF ProcessInv, CallType, Running, NoProcess
  <2>2. ASSUME NEW d \in Call PROVE CallOK(d)'
    BY CallOK(c), CallOK(d) DEF CallOK, Unsent
  <2> QED BY <2>1, <2>2
<1> QED BY <1>1, <1>2, <1>3, <1>4, <1>5, <1>6, <1>7, <1>8 DEF Caller

LEMMA CallOfReader == ASSUME CallInv, CoreInv', Reader PROVE CallInv'
<1> USE DEF CallInv, statusVars, closeVars
<1>1. ASSUME NEW c \in Call, ReadsReply(c) PROVE CallInv'
  <2> USE <1>1 DEF ReadsReply
  <2>1. c \in pending \cup retired
    BY CallOK(c) DEF CallOK
  <2>2. ProcessInv'
    BY <2>1, ServerAssumption DEF ProcessInv, NoProcess
  <2>3. CallType'
    BY <2>1, FewerPending DEF CallType
  <2>4. ASSUME NEW d \in Call PROVE CallOK(d)'
    BY <2>1, CallOK(c), CallOK(d), ServerAssumption DEF CallOK, Unsent, CallType, ProcessInv
  <2> QED BY <2>2, <2>3, <2>4
<1>2. CASE SetsFuture
  <2> USE <1>2 DEF SetsFuture
  <2>1. routing \in Call
    BY DEF ProcessInv, CallType
  <2>2. ProcessInv' /\ CallType'
    BY <2>1, ServerAssumption DEF ProcessInv, CallType, NoProcess
  <2>3. ASSUME NEW d \in Call PROVE CallOK(d)'
    BY <2>1, ServerAssumption, CallOK(d) DEF CallOK, Unsent, CallType
  <2> QED BY <2>2, <2>3
<1>3. CASE ReaderFails
  <2>1. supervisor \notin NoProcess
    BY <1>3 DEF ReaderFails, ProcessInv, NoProcess
  <2> QED BY <1>3, <2>1, CallFailingStep DEF ReaderFails
<1>4. CASE ReaderCloses \/ \E k \in offered : ReadsRequest(k)
  <2> USE <1>4 DEF ReaderCloses, ReadsRequest, callVars
  <2>1. ProcessInv' /\ CallType'
    BY DEF ProcessInv, CallType, NoProcess
  <2>2. ASSUME NEW d \in Call PROVE CallOK(d)'
    BY CallOK(d) DEF CallOK, Unsent
  <2> QED BY <2>1, <2>2
<1> QED BY <1>1, <1>2, <1>3, <1>4 DEF Reader

\* Whoever fails the current generation outside the reader.
LEMMA CallAbortStep ==
  ASSUME CallInv, CoreInv', MarkFailed, Running \/ (dispatch = gen /\ gen > 0),
         UNCHANGED <<gen, proc, reader, supervisor, closer, caller, callGen, routing, asked,
                     replies>>
  PROVE  CallInv'
<1>1. supervisor \notin NoProcess
  BY DEF CallInv, CoreInv, CoreType, ProcessInv, NoProcess, Running
<1> QED BY <1>1, CallFailingStep

LEMMA CallOfRest ==
  ASSUME CallInv, CoreInv', Answering \/ Activation \/ Abort \/ ProcessExits
  PROVE  CallInv'
<1> USE DEF processVars, statusVars, closeVars, callVars
<1>1. CASE UNCHANGED lifeVars
  BY <1>1, CallQuietStep
<1>2. CASE \/ CallbackRuns \/ \E k \in held : Decides(k) \/ Discards(k)
           \/ ActivationBegins \/ ActivationEnds \/ ActivationTimesOut \/ ActivationMasks
  BY <1>2, CallQuietStep DEF CallbackRuns, Decides, Discards, ActivationBegins, ActivationEnds,
     ActivationTimesOut, ActivationMasks, lifeVars
<1>3. CASE HandlerFails
  BY <1>3, CallAbortStep DEF HandlerFails
<1>4. CASE Abort
  BY <1>4, CallAbortStep DEF Abort, AbortGeneration, Abortable
<1>5. CASE \E w \in writing : AnswerWritten(w[1], w[2])
  <2>1. UNCHANGED lifeVars \/ (MarkFailed /\ Running)
    BY <1>5 DEF AnswerWritten, lifeVars
  <2> QED BY <1>1, <1>5, <2>1, CallAbortStep DEF AnswerWritten
<1>6. CASE ActivationAborts \/ ActivationGivesUp
  <2>1. UNCHANGED lifeVars \/ AbortGeneration(seen)
    BY <1>6 DEF ActivationAborts, ActivationGivesUp, lifeVars
  <2> QED BY <1>1, <1>6, <2>1, CallAbortStep DEF ActivationAborts, ActivationGivesUp,
             AbortGeneration, Abortable
<1>7. CASE ProcessExits
  <2> USE <1>7 DEF ProcessExits, CallInv, Running
  <2>1. ProcessInv' /\ CallType'
    BY DEF ProcessInv, CallType
  <2>2. ASSUME NEW d \in Call PROVE CallOK(d)'
    BY CallOK(d) DEF CallOK, Unsent
  <2> QED BY <2>1, <2>2
<1> QED BY <1>2, <1>3, <1>4, <1>5, <1>6, <1>7 DEF Answering, Activation

LEMMA CallOfClose == ASSUME CallInv, CoreInv', Close PROVE CallInv'
<1> USE DEF CallInv, processVars, statusVars, closeVars
<1>1. CASE CloseBegins \/ CloseClears
  <2> USE <1>1 DEF CloseBegins, CloseClears, callVars
  <2>1. ProcessInv' /\ CallType'
    BY DEF ProcessInv, CallType
  <2>2. ASSUME NEW d \in Call PROVE CallOK(d)'
    BY CallOK(d) DEF CallOK, Unsent
  <2> QED BY <2>1, <2>2
<1>2. CASE CloseEnds
  <2> USE <1>2 DEF CloseEnds
  <2>1. pending = {} /\ routing = None /\ proc = "none"
    BY DEF ProcessInv, NoProcess
  <2>2. ProcessInv' /\ CallType'
    BY <2>1 DEF ProcessInv, CallType
  <2>3. ASSUME NEW d \in Call PROVE CallOK(d)'
    BY <2>1, CallOK(d) DEF CallOK, Unsent, CallType
  <2> QED BY <2>2, <2>3
<1> QED BY <1>1, <1>2 DEF Close

LEMMA CallNext == CallInv /\ [Next]_vars => CallInv'
<1> SUFFICES ASSUME CallInv, [Next]_vars PROVE CallInv'
  OBVIOUS
<1>1. CoreInv'
  BY CoreNext DEF CallInv
<1>2. ASSUME NEW t \in Token, ProcessAsks(t) PROVE CallInv'
  BY <1>1, <1>2, CallQuietStep DEF ProcessAsks, lifeVars, processVars, closeVars
<1>3. CASE UNCHANGED vars
  BY <1>1, <1>3, CallQuietStep DEF vars, lifeVars, processVars, closeVars
<1> QED BY <1>1, <1>2, <1>3, CallOfSupervisor, CallOfReader, CallOfRest, CallOfClose, CallOfCaller
        DEF Next

THEOREM ServerCalls == Spec => []CallInv
<1> QED BY CallInit, CallNext, PTL DEF Spec

\* No caller is left waiting for good and no call is left in the table of a
\* process that is gone, whatever fails when (_fail_generation_pending, close);
\* a late response is never taken for one nobody asked for (_retired_id_set).
THEOREM ServerNothingLeftBehind == Spec => []NothingLeftBehind
<1>1. CallInv => NothingLeftBehind
  <2> SUFFICES ASSUME CallInv PROVE NothingLeftBehind
    OBVIOUS
  <2>1. \A c \in Call : caller[c] = "waiting" /\ future[c] = "unset" => c \in pending \/ routing = c
    BY DEF CallInv, CallOK
  <2>2. \A c \in pending : callGen[c] = gen /\ proc # "none"
    BY DEF CallInv, CallOK, CallType, ProcessInv, NoProcess
  <2>3. reader # "mismatch"
    BY DEF CallInv, CallType
  <2>4. closer = "closed" => proc = "none" /\ ~ready /\ pending = {} /\ routing = None
    BY DEF CallInv, ProcessInv, CoreInv, NoProcess
  <2>5. \A c \in Call : c # None
    BY ServerAssumption
  <2> QED BY <2>1, <2>2, <2>3, <2>4, <2>5 DEF NothingLeftBehind
<1> QED BY <1>1, ServerCalls, PTL

-----------------------------------------------------------------------------
(* Server requests.  Each is at one place at a time: written, known by its  *)
(* token, being answered, or answered; and it is never at an earlier one    *)
(* again, as no process uses an id twice.                                   *)

TokenType ==
    /\ gen \in Nat /\ offered \subseteq used /\ used \subseteq (1..gen) \X Token
    /\ tokens \subseteq used /\ IsFiniteSet(tokens) /\ Cardinality(tokens) <= MaxPending
    /\ callbacks \in Seq(used) /\ Len(callbacks) <= MaxCallbacks
    /\ held \subseteq used /\ writing \subseteq used \X {"callback", "decision"}
    /\ answers \subseteq used \X {"callback", "decision", "reader"} \X (1..gen)

OnePlace ==
    /\ \A k \in offered : k \notin tokens
    /\ \A w \in writing : w[1] \notin offered \cup tokens
    /\ \A v, w \in writing : v[1] = w[1] => v = w
    /\ \A x \in answers : /\ x[1] \notin offered \cup tokens
                          /\ \A w \in writing : w[1] # x[1]

TokenInv == TokenType /\ OnePlace /\ AnswersExact

LEMMA TokenInit == Init => TokenInv
<1> SUFFICES ASSUME Init PROVE TokenInv
  OBVIOUS
<1>1. TokenType
  BY FS_EmptySet, ServerAssumption DEF Init, TokenType
<1>2. OnePlace /\ AnswersExact
  BY DEF Init, OnePlace, AnswersExact
<1> QED BY <1>1, <1>2 DEF TokenInv

LEMMA FewerTokens ==
  ASSUME TokenType, tokens' \subseteq tokens
  PROVE  IsFiniteSet(tokens') /\ Cardinality(tokens') <= MaxPending
<1>1. IsFiniteSet(tokens') /\ Cardinality(tokens') <= Cardinality(tokens)
  BY FS_Subset DEF TokenType
<1>2. Cardinality(tokens) \in Nat /\ Cardinality(tokens') \in Nat
  BY <1>1, FS_CardinalityType DEF TokenType
<1> QED BY <1>1, <1>2, ServerAssumption DEF TokenType

\* Requests are only forgotten, and generations begin.
LEMMA TokenQuietStep ==
  ASSUME TokenInv, gen' \in {gen, gen + 1}, UNCHANGED <<used, held, writing, answers>>,
         tokens' \subseteq tokens, offered' \subseteq offered, callbacks' \in {callbacks, <<>>}
  PROVE  TokenInv'
<1> USE DEF TokenInv
<1>1. gen' \in Nat /\ 1..gen \subseteq 1..gen'
  BY DEF TokenType
<1>2. used' \subseteq (1..gen') \X Token
      /\ answers' \subseteq used' \X {"callback", "decision", "reader"} \X (1..gen')
  BY <1>1 DEF TokenType
<1>3. callbacks' \in Seq(used') /\ Len(callbacks') <= MaxCallbacks
  <2>1. <<>> \in Seq(used) /\ Len(<<>>) = 0 /\ 0 <= MaxCallbacks
    BY ServerAssumption
  <2> QED BY <2>1 DEF TokenType
<1>4. TokenType'
  BY <1>1, <1>2, <1>3, FewerTokens DEF TokenType
<1>5. OnePlace' /\ AnswersExact'
  BY DEF OnePlace, AnswersExact
<1> QED BY <1>4, <1>5

LEMMA AsksTokenStep == ASSUME TokenInv, NEW t \in Token, ProcessAsks(t), gen > 0 PROVE TokenInv'
<1> USE DEF TokenInv, ProcessAsks, processVars
<1> DEFINE k == <<gen, t>>
<1>1. k \notin used /\ k \in (1..gen) \X Token /\ gen' = gen
  BY DEF TokenType
<1>2. TokenType'
  <2>1. callbacks' \in Seq(used') /\ Len(callbacks') <= MaxCallbacks
    BY DEF TokenType
  <2> QED BY <1>1, <2>1 DEF TokenType
<1>3. OnePlace'
  BY <1>1 DEF OnePlace, TokenType
<1>4. AnswersExact'
  BY DEF AnswersExact
<1> QED BY <1>2, <1>3, <1>4

LEMMA ReadsRequestTokenStep ==
  ASSUME TokenInv, NEW k \in offered, ReadsRequest(k) PROVE TokenInv'
<1> USE DEF TokenInv, ReadsRequest
<1>1. k \in used /\ k \notin tokens /\ (\A w \in writing : w[1] # k) /\ (\A x \in answers : x[1] # k)
  BY DEF TokenType, OnePlace
<1>2. CASE tokens' = tokens \cup {k} /\ callbacks' = Append(callbacks, k)
           /\ Cardinality(tokens) < MaxPending /\ Len(callbacks) < MaxCallbacks /\ UNCHANGED answers
  <2>1. IsFiniteSet(tokens') /\ Cardinality(tokens') <= MaxPending
    <3>1. IsFiniteSet(tokens') /\ Cardinality(tokens') \in {Cardinality(tokens), Cardinality(tokens) + 1}
      BY <1>2, FS_AddElement DEF TokenType
    <3>2. Cardinality(tokens) \in Nat
      BY FS_CardinalityType DEF TokenType
    <3> QED BY <1>2, <3>1, <3>2, ServerAssumption
  <2>2. callbacks' \in Seq(used') /\ Len(callbacks') <= MaxCallbacks
    BY <1>1, <1>2, ServerAssumption DEF TokenType
  <2>3. TokenType'
    BY <1>1, <1>2, <2>1, <2>2 DEF TokenType
  <2>4. OnePlace' /\ AnswersExact'
    BY <1>1, <1>2 DEF OnePlace, AnswersExact
  <2> QED BY <2>3, <2>4
<1>3. CASE WritesTo(k) /\ answers' = answers \cup {<<k, "reader", gen>>} /\ UNCHANGED <<tokens, callbacks>>
  <2>1. k[1] = gen /\ gen \in 1..gen
    BY <1>1, <1>3 DEF TokenType, WritesTo
  <2>2. TokenType'
    BY <1>1, <1>3, <2>1 DEF TokenType
  <2>3. OnePlace' /\ AnswersExact'
    BY <1>1, <1>3, <2>1 DEF OnePlace, AnswersExact
  <2> QED BY <2>2, <2>3
<1>4. CASE UNCHANGED <<tokens, callbacks, answers>>
  BY <1>4, TokenQuietStep DEF TokenType
<1>5. Cardinality(tokens) \in Nat /\ Len(callbacks) \in Nat /\ Len(callbacks) <= MaxCallbacks
  BY FS_CardinalityType DEF TokenType
<1> QED BY <1>2, <1>3, <1>4, <1>5, ServerAssumption

\* A claim: the token becomes an answer to be written.
LEMMA ClaimTokenStep ==
  ASSUME TokenInv, NEW k \in used, NEW who \in {"callback", "decision"},
         Claim(k), writing' = writing \cup {<<k, who>>}, held' \subseteq used,
         callbacks' \in Seq(used), Len(callbacks') <= MaxCallbacks,
         UNCHANGED <<gen, offered, used, answers>>
  PROVE  TokenInv'
<1> USE DEF TokenInv, Claim
<1>1. TokenType'
  BY FewerTokens DEF TokenType
<1>2. OnePlace' /\ AnswersExact'
  BY DEF OnePlace, AnswersExact
<1> QED BY <1>1, <1>2

LEMMA CallbackTokenStep == ASSUME TokenInv, CallbackRuns PROVE TokenInv'
<1> USE DEF CallbackRuns, processVars
<1> DEFINE k == Head(callbacks)
<1>1. k \in used /\ callbacks' \in Seq(used) /\ Len(callbacks') <= MaxCallbacks
  BY ServerAssumption DEF TokenInv, TokenType
<1>2. held' \subseteq used
  BY <1>1 DEF TokenInv, TokenType
<1>3. CASE UNCHANGED <<tokens, writing>>
  <2>1. TokenType'
    BY <1>1, <1>2, <1>3 DEF TokenInv, TokenType
  <2>2. OnePlace' /\ AnswersExact'
    BY <1>3 DEF TokenInv, OnePlace, AnswersExact
  <2> QED BY <2>1, <2>2 DEF TokenInv
<1>4. CASE Claim(k) /\ writing' = writing \cup {<<k, "callback">>}
  BY <1>1, <1>2, <1>4, ClaimTokenStep
<1> QED BY <1>3, <1>4

LEMMA DecisionTokenStep ==
  ASSUME TokenInv, NEW k \in held, Decides(k) \/ Discards(k) PROVE TokenInv'
<1> USE DEF Decides, Discards, processVars
<1>1. k \in used /\ held' \subseteq used /\ UNCHANGED <<gen, offered, used, callbacks, answers>>
      /\ callbacks' \in Seq(used) /\ Len(callbacks') <= MaxCallbacks
  BY DEF TokenInv, TokenType
<1>2. CASE Claim(k) /\ writing' = writing \cup {<<k, "decision">>}
  BY <1>1, <1>2, ClaimTokenStep
<1>3. CASE tokens' \subseteq tokens /\ UNCHANGED writing
  <2>1. TokenType'
    BY <1>1, <1>3, FewerTokens DEF TokenInv, TokenType
  <2>2. OnePlace' /\ AnswersExact'
    BY <1>1, <1>3 DEF TokenInv, OnePlace, AnswersExact
  <2> QED BY <2>1, <2>2 DEF TokenInv
<1> QED BY <1>2, <1>3

LEMMA WrittenTokenStep ==
  ASSUME TokenInv, NEW w \in writing, AnswerWritten(w[1], w[2]) PROVE TokenInv'
<1> USE DEF TokenInv, AnswerWritten
<1>1. w = <<w[1], w[2]>> /\ w[1] \in used /\ w[2] \in {"callback", "decision"} /\ writing' = writing \ {w}
  <2>1. w \in used \X {"callback", "decision"}
    BY DEF TokenType
  <2>2. w = <<w[1], w[2]>> /\ w[1] \in used /\ w[2] \in {"callback", "decision"}
    BY <2>1
  <2> QED BY <2>2
<1>2. CASE UNCHANGED answers
  <2>1. TokenType'
    BY <1>2 DEF TokenType
  <2>2. OnePlace' /\ AnswersExact'
    BY <1>2 DEF OnePlace, AnswersExact
  <2> QED BY <2>1, <2>2
<1>3. CASE WritesTo(w[1]) /\ answers' = answers \cup {<<w[1], w[2], gen>>}
  <2>1. w[1][1] = gen /\ gen \in 1..gen
    BY <1>1, <1>3 DEF TokenType, WritesTo
  <2>2. TokenType'
    BY <1>1, <1>3, <2>1 DEF TokenType
  <2>3. (\A v \in writing' : v[1] # w[1]) /\ w[1] \notin offered \cup tokens /\ (\A x \in answers : x[1] # w[1])
    BY <1>1 DEF OnePlace
  <2>4. OnePlace' /\ AnswersExact'
    BY <1>1, <1>3, <2>1, <2>3 DEF OnePlace, AnswersExact
  <2> QED BY <2>2, <2>4
<1> QED BY <1>2, <1>3

LEMMA TokenNext == CoreInv /\ TokenInv /\ [Next]_vars => TokenInv'
<1> SUFFICES ASSUME CoreInv, TokenInv, [Next]_vars PROVE TokenInv'
  OBVIOUS
<1> USE DEF processVars, tokenVars
<1>1. CASE Supervisor \/ UNCHANGED vars
  BY <1>1, TokenQuietStep DEF Supervisor, Spawns, Launches, InitializeAnswered, Dispatches,
     Verifies, Opens, SetsReady, Activates, StartFails, Watches, Cleans, Stops, vars
<1>2. CASE Activation \/ Abort \/ ProcessExits \/ Close \/ HandlerFails
  BY <1>2, TokenQuietStep DEF Activation, ActivationBegins, ActivationAborts, ActivationEnds,
     ActivationTimesOut, ActivationMasks, ActivationGivesUp, Abort, AbortGeneration,
     ProcessExits, Close, CloseBegins, CloseClears, CloseEnds, HandlerFails
<1>3. CASE Reader /\ ~ \E k \in offered : ReadsRequest(k)
  BY <1>3, TokenQuietStep DEF Reader, ReadsReply, SetsFuture, ReaderFails, ReaderCloses
<1>4. CASE \E c \in Call : CallChooses(c) \/ Caller(c) \/ ProcessReplies(c)
  BY <1>4, TokenQuietStep DEF CallChooses, Caller, CallRegisters, CallWrites, CallWriteFails,
     CallReturns, CallTimesOut, CallExpires, ProcessReplies
<1>5. ASSUME NEW t \in Token, ProcessAsks(t) PROVE TokenInv'
  <2>1. gen > 0
    BY <1>5 DEF CoreInv, ProcessAsks
  <2> QED BY <1>5, <2>1, AsksTokenStep
<1> QED BY <1>1, <1>2, <1>3, <1>4, <1>5, ReadsRequestTokenStep, CallbackTokenStep,
           DecisionTokenStep, WrittenTokenStep DEF Next, Reader, Answering

THEOREM ServerTokens == Spec => []TokenInv
<1>1. CoreInv /\ TokenInv /\ [Next]_vars => CoreInv' /\ TokenInv'
  BY CoreNext, TokenNext
<1> QED BY CoreInit, TokenInit, <1>1, PTL DEF Spec

\* A server request gets one answer at most, from the handler, a decision or the
\* reader, and it goes to the process that asked (respond, _write_message).
THEOREM ServerAnswersExact == Spec => []AnswersExact
<1>1. TokenInv => AnswersExact
  BY DEF TokenInv
<1> QED BY <1>1, ServerTokens, PTL

-----------------------------------------------------------------------------
(* The mask of the MCP servers, and the rest of the types. *)

RestType ==
    /\ proc \in {"none", "alive", "dead"} /\ masked \in BOOLEAN /\ everReady \in BOOLEAN
    /\ closing \in BOOLEAN /\ closer \in {"none", "closing", "joining", "closed"}
    /\ faults \in 0..MaxFaults
    /\ mcp \in {"masked", "activating", "active"} /\ mcpGen \in Nat
    /\ seen \in 0..gen
    /\ activator \in {"idle", "aborting", "waiting", "late", "masking", "ended", "failed"}
    /\ mcpDone \in BOOLEAN

\* An activation names the generation after the one that was running, and ends
\* with it: that generation is started without the mask.
MaskInv ==
    /\ activator = "idle" => mcp = "masked" /\ masked
    /\ mcp = "active" => ~masked
    /\ mcp = "activating" =>
         \/ mcpGen = gen + 1 /\ (supervisor = "launching" => ~masked)
         \/ mcpGen = gen /\ ~masked /\ supervisor \in Starting \cup {"activating"}

LEMMA MaskInit == Init => RestType /\ MaskInv
<1>1. Init => mcpDone \in BOOLEAN /\ MaskInv
  BY DEF Init, MaskInv
<1>2. Init => faults \in 0..MaxFaults /\ mcpGen \in Nat /\ seen \in 0..gen
  BY ServerAssumption DEF Init
<1>3. Init => masked \in BOOLEAN /\ everReady \in BOOLEAN /\ closing \in BOOLEAN
  BY DEF Init
<1> QED BY <1>1, <1>2, <1>3 DEF Init, RestType

LEMMA MaskQuietStep ==
  ASSUME RestType, MaskInv, UNCHANGED <<gen, masked, supervisor, everReady, closeVars, mcpVars>>,
         proc' \in {proc, "dead"}, faults' = faults \/ Fault
  PROVE  RestType' /\ MaskInv'
<1>1. faults' \in 0..MaxFaults
  BY ServerAssumption DEF RestType, Fault
<1> QED BY <1>1 DEF RestType, MaskInv, closeVars, mcpVars

LEMMA MaskOfSupervisor ==
  ASSUME CoreInv, RestType, MaskInv, Supervisor PROVE RestType' /\ MaskInv'
<1> USE DEF Supervise, closeVars, mcpVars
<1>1. gen \in Nat
  BY DEF CoreInv, CoreType
<1>2. CASE Spawns
  <2> USE <1>2 DEF Spawns
  <2>1. RestType'
    <3>1. masked' \in BOOLEAN
      BY DEF RestType, SpawnMask
    <3>2. faults' \in 0..MaxFaults
      BY ServerAssumption DEF RestType, Fault
    <3> QED BY <3>1, <3>2 DEF RestType
  <2>2. MaskInv'
    BY <1>1 DEF MaskInv, RestType, SpawnMask, Starting
  <2> QED BY <2>1, <2>2
<1>3. CASE Launches
  <2> USE <1>3 DEF Launches
  <2>1. RestType'
    BY <1>1 DEF RestType
  <2>2. MaskInv'
    BY <1>1 DEF MaskInv, RestType, Starting
  <2> QED BY <2>1, <2>2
<1>4. CASE InitializeAnswered \/ Dispatches \/ Verifies \/ Opens \/ SetsReady \/ Watches
  <2> USE <1>4 DEF InitializeAnswered, Dispatches, Verifies, Opens, SetsReady, Watches
  <2>1. RestType'
    BY DEF RestType
  <2>2. MaskInv'
    BY <1>1 DEF MaskInv, Starting
  <2> QED BY <2>1, <2>2
<1>5. CASE Activates
  <2> USE <1>5 DEF Activates
  <2>1. RestType'
    <3>1. mcpDone' \in BOOLEAN
      BY DEF RestType
    <3>2. mcp' \in {"masked", "activating", "active"} /\ mcpGen' \in Nat
      BY DEF RestType
    <3> QED BY <3>1, <3>2 DEF RestType
  <2>2. MaskInv'
    BY <1>1 DEF MaskInv, RestType, Starting
  <2> QED BY <2>1, <2>2
<1>6. CASE StartFails
  <2> USE <1>6 DEF StartFails, Restore
  <2>1. RestType'
    <3>1. mcpDone' \in BOOLEAN
      BY DEF RestType
    <3>2. mcp' \in {"masked", "activating", "active"} /\ mcpGen' \in Nat
      BY DEF RestType
    <3>3. faults' \in 0..MaxFaults
      BY ServerAssumption DEF RestType, Fault
    <3> QED BY <3>1, <3>2, <3>3 DEF RestType
  <2>2. MaskInv'
    BY <1>1 DEF MaskInv, RestType, Starting
  <2> QED BY <2>1, <2>2
<1>7. CASE Cleans \/ Stops
  <2> USE <1>7 DEF Cleans, Stops
  <2>1. RestType'
    BY DEF RestType
  <2>2. MaskInv'
    BY <1>1 DEF MaskInv, Starting
  <2> QED BY <2>1, <2>2
<1> QED BY <1>2, <1>3, <1>4, <1>5, <1>6, <1>7 DEF Supervisor

LEMMA MaskOfActivation ==
  ASSUME CoreInv, RestType, MaskInv, Activation PROVE RestType' /\ MaskInv'
<1> USE DEF processVars, closeVars, mcpVars
<1>1. gen \in Nat
  BY DEF CoreInv, CoreType
<1>2. RestType'
  <2> USE DEF Activation, ActivationBegins, ActivationAborts, ActivationEnds, ActivationTimesOut,
     ActivationMasks, ActivationGivesUp, Restore, RestType
  <2>1. mcpDone' \in BOOLEAN
    OBVIOUS
  <2>2. mcp' \in {"masked", "activating", "active"} /\ mcpGen' \in Nat
    BY <1>1
  <2>3. /\ activator' \in {"idle", "aborting", "waiting", "late", "masking", "ended", "failed"}
        /\ seen' \in 0..gen /\ UNCHANGED <<gen, proc, masked, everReady, closing, closer, faults>>
    BY <1>1
  <2> QED BY <2>1, <2>2, <2>3
<1>3. CASE ActivationBegins
  <2>1. supervisor # "launching"
    BY <1>3 DEF ActivationBegins, CoreInv
  <2> QED BY <1>2, <1>3, <2>1 DEF ActivationBegins, MaskInv
<1>4. CASE ~ActivationBegins
  BY <1>2, <1>4 DEF Activation, ActivationAborts, ActivationEnds, ActivationTimesOut,
     ActivationMasks, ActivationGivesUp, Restore, MaskInv, RestType
<1> QED BY <1>2, <1>3, <1>4

LEMMA MaskOfClose == ASSUME RestType, MaskInv, Close PROVE RestType' /\ MaskInv'
<1> USE DEF processVars, closeVars, mcpVars, Close, CloseBegins, CloseClears, CloseEnds
<1>1. RestType'
  <2>1. mcpDone' \in BOOLEAN /\ closing' \in BOOLEAN
    BY DEF RestType
  <2>2. mcp' \in {"masked", "activating", "active"} /\ mcpGen' \in Nat
    BY DEF RestType
  <2> QED BY <2>1, <2>2 DEF RestType
<1>2. MaskInv'
  BY DEF MaskInv, RestType
<1> QED BY <1>1, <1>2

LEMMA MaskNext == CoreInv /\ RestType /\ MaskInv /\ [Next]_vars => RestType' /\ MaskInv'
<1> SUFFICES ASSUME CoreInv, RestType, MaskInv, [Next]_vars PROVE RestType' /\ MaskInv'
  OBVIOUS
<1> USE DEF processVars
<1>1. CASE Answering \/ Abort \/ ProcessExits \/ UNCHANGED vars
  BY <1>1, MaskQuietStep DEF Answering, CallbackRuns, HandlerFails, Decides, Discards,
     AnswerWritten, Abort, ProcessExits, vars
<1>2. CASE Reader
  BY <1>2, MaskQuietStep DEF Reader, ReadsReply, ReadsRequest, SetsFuture, ReaderFails, ReaderCloses
<1>3. CASE \/ \E c \in Call : CallChooses(c) \/ Caller(c) \/ ProcessReplies(c)
           \/ \E t \in Token : ProcessAsks(t)
  BY <1>3, MaskQuietStep DEF CallChooses, Caller, CallRegisters, CallWrites, CallWriteFails,
     CallReturns, CallTimesOut, CallExpires, ProcessReplies, ProcessAsks
<1> QED BY <1>1, <1>2, <1>3, MaskOfSupervisor, MaskOfActivation, MaskOfClose DEF Next

THEOREM ServerMask == Spec => [](RestType /\ MaskInv)
<1>1. CoreInv /\ RestType /\ MaskInv /\ [Next]_vars => CoreInv' /\ RestType' /\ MaskInv'
  BY CoreNext, MaskNext
<1> QED BY CoreInit, MaskInit, <1>1, PTL DEF Spec

\* Every client variable stays in its domain, and the tables within their limits.
THEOREM ServerTypeCorrect == Spec => []TypeOK
<1>1. CallInv /\ TokenInv /\ RestType => TypeOK
  BY DEF CallInv, CoreInv, CoreType, ProcessInv, CallType, TokenInv, TokenType, RestType, TypeOK
<1> QED BY <1>1, ServerCalls, ServerTokens, ServerMask, PTL

\* However the activation raced with crashes, aborts, its timeout and close, a
\* process runs with the MCP servers that _mcp_startup_state says: with none
\* before the manager has asked, and with all of them once they count as active.
THEOREM ServerMaskExact == Spec => []MaskExact
<1>1. CallInv /\ RestType /\ MaskInv => MaskExact
  BY DEF MaskInv, MaskExact
<1> QED BY <1>1, ServerCalls, ServerMask, PTL

=============================================================================

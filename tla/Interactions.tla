---------------------------- MODULE Interactions ----------------------------
(***************************************************************************)
(* Approvals and questions: Codex asks in the middle of a turn, the        *)
(* runtime broker keeps the question as an interaction, and a panel        *)
(* answers it (_submitInteractionResponse).  An answer is claimed under    *)
(* the broker's lock, written to Codex without it, and settled under it    *)
(* again; meanwhile the question may fall due, Codex may resolve it, the   *)
(* turn may be cancelled or end, the app-server may go away, and a save of *)
(* the private state may fail, which closes the broker for good.           *)
(*                                                                         *)
(* The questions of one attended turn are followed; those of an MCP        *)
(* server (respond_mcp) pass through the same states.  A question that     *)
(* comes before its turn is known is left to CodexAppServer.               *)
(***************************************************************************)
EXTENDS Naturals, Sequences, FiniteSets

CONSTANTS
    Question,  \* the server requests of a turn that become interactions
    Optional,  \* those of kind user_input with isBlocking false
    Panel,     \* the panels that show the chat
    Answer,    \* what a user may choose
    Cancels,   \* the choices that are the decision "cancel"
    MaxPosts,  \* bound: client request ids
    MaxUpsets  \* bound: lost answers, failed writes and saves, reselections, crashes

ASSUME InteractionAssumption ==
    /\ IsFiniteSet(Question) /\ Optional \subseteq Question
    /\ Cancels \subseteq Answer
    /\ MaxPosts \in Nat /\ MaxUpsets \in Nat

VARIABLES
    turn,     \* running, cancelling or over
    asking,   \* per question, the status and who has claimed it
    stored,   \* what the private state on disk says of it
    claimable, \* RuntimeBroker._server_requests
    tokens,   \* CodexAppServerClient._server_requests
    fatal,    \* _fatal_error
    gone,     \* the generation that asked is no longer the current one
    due,      \* questions past expires_at
    heard,    \* history: what has been written to Codex, per question
    resolved, \* questions Codex has announced as resolved
    threads,  \* request threads of the App that answer a question
    posts,    \* calls of panels on their way
    choice,   \* per panel and question, its entry in _interactionMutations
    listed,   \* _pendingInteractions of every panel
    told,     \* history: answers whose success was reported
    ids, upsets

codexVars == <<tokens, gone, heard, resolved>>
runtimeVars == <<turn, asking, stored, claimable, fatal, due, threads>>
clientVars == <<posts, choice, listed, told, ids>>
interactionVars == <<codexVars, runtimeVars, clientVars, upsets>>

NoClaim == [id |-> 0, answer |-> "none"]
NoChoice == [id |-> 0, answer |-> "none", state |-> "none"]
Nothing == "empty" \* _empty_answers

InteractionInit ==
    /\ turn = "running" /\ claimable = {} /\ tokens = {}
    /\ asking = [q \in Question |-> [status |-> "absent", claim |-> NoClaim]]
    /\ stored = asking
    /\ fatal = FALSE /\ gone = FALSE /\ due = {}
    /\ heard = [q \in Question |-> <<>>] /\ resolved = {} /\ threads = {} /\ posts = {}
    /\ choice = [p \in Panel |-> [q \in Question |-> NoChoice]]
    /\ listed = [p \in Panel |-> {}] /\ told = {} /\ ids = 0 /\ upsets = 0

Upset == upsets < MaxUpsets /\ upsets' = upsets + 1

StatusOf(q) == asking[q].status
Open == {q \in Question : StatusOf(q) \in {"pending", "responding"}}

\* What a question becomes that is given up.
GivenUp(status) ==
    CASE status = "pending" -> "expired"
      [] status = "responding" -> "outcome_unknown"
      [] OTHER -> status

Close(questions, table) ==
    [q \in Question |->
        IF q \in questions THEN [table[q] EXCEPT !.status = GivenUp(@)] ELSE table[q]]

\* _persist_locked writes the whole state; once it has failed it may fail again.
Save(table) == stored' = table \/ (fatal /\ UNCHANGED stored)

\* _expire_run_interactions_locked, _expire_all_interactions_locked and the loop
\* of _terminalize_locked, on a table in which some questions have just changed
WithdrawAll(table) ==
    /\ asking' = Close(Question, table)
    /\ tokens' = tokens \ claimable
    /\ claimable' = {}

-----------------------------------------------------------------------------
(* Codex *)

\* _on_server_request
Ask(q) ==
    /\ StatusOf(q) = "absent" /\ turn = "running" /\ ~gone
    /\ asking' = [asking EXCEPT ![q].status = "pending"]
    /\ Save(asking')
    /\ claimable' = claimable \cup {q} /\ tokens' = tokens \cup {q}
    /\ UNCHANGED <<turn, fatal, gone, due, heard, resolved, threads, clientVars, upsets>>

\* _on_server_request_resolved, after an answer or without one
Resolve(q) ==
    /\ StatusOf(q) # "absent" /\ q \notin resolved /\ ~gone
    /\ resolved' = resolved \cup {q}
    /\ IF q \in Open
       THEN /\ asking' = Close({q}, asking) /\ Save(asking')
            /\ claimable' = claimable \ {q} /\ tokens' = tokens \ {q}
       ELSE UNCHANGED <<asking, stored, claimable, tokens>>
    /\ UNCHANGED <<turn, fatal, gone, due, heard, threads, clientVars, upsets>>

\* The turn is completed, or the user cancels it (cancel_run).
EndTurn ==
    /\ turn # "over"
    /\ \/ turn' = "over"
       \/ turn = "running" /\ turn' = "cancelling"
    /\ WithdrawAll(asking) /\ Save(asking')
    /\ UNCHANGED <<fatal, gone, due, heard, resolved, threads, clientVars, upsets>>

\* The app-server process ends; the broker notices later.
LoseGeneration ==
    /\ ~gone /\ Upset
    /\ gone' = TRUE /\ tokens' = {}
    /\ UNCHANGED <<heard, resolved, runtimeVars, clientVars>>

\* _reconcile_generation_locked
Reconcile ==
    /\ gone /\ turn # "over"
    /\ turn' = "over"
    /\ WithdrawAll(asking) /\ Save(asking')
    /\ UNCHANGED <<fatal, gone, due, heard, resolved, threads, clientVars, upsets>>

-----------------------------------------------------------------------------
(* The time limit of a question *)

FallDue(q) ==
    /\ q \in Open \ due
    /\ due' = due \cup {q}
    /\ UNCHANGED <<turn, asking, stored, claimable, fatal, threads, codexVars, clientVars,
                   upsets>>

Late == due \cap Open

\* _expire_due_interactions_locked.  An optional question nobody is answering
\* gets empty answers, if Codex can be reached; any other ends the app-server and
\* the turn.
ExpireDue ==
    LET lapsed == {q \in Late \cap Optional \cap claimable \cap tokens : StatusOf(q) = "pending"}
    IN  /\ Late # {}
        /\ \E reached \in {lapsed, {}} :
             heard' = [q \in Question |-> IF q \in reached THEN Append(heard[q], Nothing)
                                         ELSE heard[q]]
        /\ IF Late \subseteq Optional
           THEN /\ asking' = Close(Late, asking)
                /\ claimable' = claimable \ Late
                /\ tokens' = tokens \ (Late \cap claimable)
                /\ UNCHANGED <<turn, gone>>
           ELSE /\ asking' = Close(Question, asking)
                /\ claimable' = {} /\ tokens' = {}
                /\ turn' = "over" /\ gone' = TRUE
        /\ Save(asking')
        /\ UNCHANGED <<fatal, due, resolved, threads, clientVars, upsets>>

-----------------------------------------------------------------------------
(* An answer *)

\* What a panel makes of the outcome of its call: success, an error of
\* INTERACTION_ERROR_CODES, or none of the two.
Reply(p, q, id, state) ==
    choice' = IF choice[p][q].id = id /\ choice[p][q].state = "sending"
              THEN [choice EXCEPT ![p][q].state = state] ELSE choice

ReplySuccess(c) ==
    /\ Reply(c.panel, c.q, c.id, "reconciling")
    /\ told' = told \cup {[q |-> c.q, answer |-> c.answer]}

\* _enter_fatal_state_locked
EnterFatal(table) ==
    /\ fatal' = TRUE /\ UNCHANGED stored
    /\ asking' = Close(Question, table)
    /\ claimable' = {} /\ tokens' = {} /\ gone' = TRUE

\* As if the second answer to a question were confirmed like the first.
ClaimLeniently(c) ==
    LET claim == asking[c.q].claim
        mine  == [id |-> c.id, answer |-> c.answer]
        free  == claim = NoClaim /\ turn = "running" /\ StatusOf(c.q) = "pending"
                 /\ ~gone /\ c.q \in claimable
    IN  /\ c \in posts /\ posts' = posts \ {c}
        /\ claim = NoClaim /\ turn = "running" => Late = {}
        /\ \/ /\ free
              /\ asking' = [asking EXCEPT ![c.q] = [status |-> "responding", claim |-> mine]]
              /\ Save(asking')
              /\ threads' = threads \cup {[call |-> c, at |-> "respond"]}
              /\ UNCHANGED <<claimable, fatal, codexVars, choice, told, upsets>>
           \/ /\ free /\ ~fatal /\ Upset
              /\ EnterFatal([asking EXCEPT ![c.q] = [status |-> "responding", claim |-> mine]])
              /\ Reply(c.panel, c.q, c.id, "lost")
              /\ UNCHANGED <<threads, heard, resolved, told>>
           \/ /\ ~free
              /\ IF StatusOf(c.q) = "settled" THEN ReplySuccess(c)
                 ELSE Reply(c.panel, c.q, c.id, "reconciling") /\ UNCHANGED told
              /\ UNCHANGED <<asking, stored, threads, claimable, fatal, codexVars, upsets>>
    /\ UNCHANGED <<turn, due, listed, ids>>

\* _claim_interaction_locked.  Before a question is claimed for the first time
\* those past their limit have been closed.
Claim(c) ==
    LET claim == asking[c.q].claim
        mine  == [id |-> c.id, answer |-> c.answer]
        free  == claim = NoClaim /\ turn = "running" /\ StatusOf(c.q) = "pending"
                 /\ ~gone /\ c.q \in claimable
    IN  /\ c \in posts /\ posts' = posts \ {c}
        /\ claim = NoClaim /\ turn = "running" => Late = {}
        /\ \/ /\ free
              /\ asking' = [asking EXCEPT ![c.q] = [status |-> "responding", claim |-> mine]]
              /\ Save(asking')
              /\ threads' = threads \cup {[call |-> c, at |-> "respond"]}
              /\ UNCHANGED <<claimable, fatal, codexVars, choice, told, upsets>>
           \/ /\ free /\ ~fatal /\ Upset
              /\ EnterFatal([asking EXCEPT ![c.q] = [status |-> "responding", claim |-> mine]])
              /\ Reply(c.panel, c.q, c.id, "lost")
              /\ UNCHANGED <<threads, heard, resolved, told>>
           \/ /\ ~free
              /\ IF claim = mine /\ StatusOf(c.q) = "settled" THEN ReplySuccess(c)
                 ELSE Reply(c.panel, c.q, c.id, "reconciling") /\ UNCHANGED told
              /\ UNCHANGED <<asking, stored, threads, claimable, fatal, codexVars, upsets>>
    /\ UNCHANGED <<turn, due, listed, ids>>

At(step) == {w \in threads : w.at = step}
Goes(w, step) == threads' = (threads \ {w}) \cup {[w EXCEPT !.at = step]}

\* CodexAppServerClient.respond: the token is used up first ...
TakeToken ==
    \E w \in At("respond") :
      /\ Goes(w, IF w.call.q \in tokens THEN "write" ELSE "unknown")
      /\ tokens' = tokens \ {w.call.q}
      /\ UNCHANGED <<turn, asking, stored, claimable, fatal, due, gone, heard, resolved,
                     clientVars, upsets>>

\* ... and then the answer is written, to a process that may be gone, or whose
\* pipe breaks in the middle.
WriteAnswer ==
    \E w \in At("write") :
      /\ \/ /\ ~gone /\ Goes(w, "settle")
            /\ heard' = [heard EXCEPT ![w.call.q] = Append(@, w.call.answer)]
            /\ UNCHANGED upsets
         \/ /\ gone /\ Goes(w, "unknown")
            /\ UNCHANGED <<heard, upsets>>
         \/ /\ Upset /\ Goes(w, "unknown")
            /\ \/ UNCHANGED heard
               \/ heard' = [heard EXCEPT ![w.call.q] = Append(@, w.call.answer)]
      /\ UNCHANGED <<turn, asking, stored, claimable, fatal, due, tokens, gone, resolved,
                     clientVars>>

\* The decision "cancel" also stops the turn (_mark_run_cancelling_for_interaction).
Concluded(w, table) ==
    IF w.call.answer \in Cancels /\ turn # "over"
    THEN turn' = "cancelling" /\ WithdrawAll(table)
    ELSE /\ asking' = table /\ claimable' = claimable \ {w.call.q}
         /\ UNCHANGED <<turn, tokens>>

\* The answer has been written.  Whether the question is still being answered
\* decides what is said about it.
SettleAnswer ==
    \E w \in At("settle") :
      LET q == w.call.q
          settled == [asking EXCEPT ![q].status = "settled"]
      IN
      /\ threads' = threads \ {w}
      /\ \/ /\ StatusOf(q) = "responding"
            /\ Concluded(w, settled) /\ Save(asking')
            /\ ReplySuccess(w.call) /\ UNCHANGED <<fatal, gone, upsets>>
         \/ /\ StatusOf(q) = "responding" /\ ~fatal /\ Upset
            /\ EnterFatal(settled)
            /\ IF w.call.answer \in Cancels /\ turn # "over"
               THEN turn' = "cancelling" /\ Reply(w.call.panel, q, w.call.id, "lost")
               ELSE UNCHANGED turn /\ Reply(w.call.panel, q, w.call.id, "reconciling")
            /\ UNCHANGED told
         \/ /\ StatusOf(q) # "responding"
            /\ Concluded(w, [asking EXCEPT ![q].status = "outcome_unknown"])
            /\ Save(asking')
            /\ \/ Reply(w.call.panel, q, w.call.id, "reconciling")
               \/ /\ fatal
                  /\ Reply(w.call.panel, q, w.call.id, "lost")
            /\ UNCHANGED <<told, fatal, gone, upsets>>
      /\ UNCHANGED <<due, heard, resolved, posts, listed, ids>>

\* _mark_interaction_outcome_unknown_locked, when respond has failed
MarkUnknown ==
    \E w \in At("unknown") :
      /\ threads' = threads \ {w}
      /\ Concluded(w, [asking EXCEPT ![w.call.q].status = "outcome_unknown"])
      /\ Save(asking')
      /\ Reply(w.call.panel, w.call.q, w.call.id, "reconciling")
      /\ UNCHANGED <<fatal, due, gone, heard, resolved, posts, listed, told, ids, upsets>>

-----------------------------------------------------------------------------
(* The panel *)

Post(p, q, id, answer) ==
    /\ posts' = posts \cup {[panel |-> p, q |-> q, id |-> id, answer |-> answer]}
    /\ choice' = [choice EXCEPT ![p][q] = [id |-> id, answer |-> answer, state |-> "sending"]]

\* _submitInteractionResponse: a new choice has a request id of its own ...
Submit(p, q) ==
    /\ q \in listed[p] /\ choice[p][q] = NoChoice /\ ids < MaxPosts
    /\ ids' = ids + 1
    /\ \E answer \in Answer : Post(p, q, ids', answer)
    /\ UNCHANGED <<codexVars, runtimeVars, listed, told, upsets>>

\* ... and is repeated under it.
SubmitAgain(p, q) ==
    /\ choice[p][q].state = "retryable"
    /\ Post(p, q, choice[p][q].id, choice[p][q].answer)
    /\ UNCHANGED <<codexVars, runtimeVars, listed, told, ids, upsets>>

\* The call fails on its way, or its answer does.
ReplyLost(p, q) ==
    /\ choice[p][q].state = "sending" /\ Upset
    /\ choice' = [choice EXCEPT ![p][q].state = "lost"]
    /\ \/ UNCHANGED posts
       \/ posts' = {c \in posts : c.panel # p \/ c.id # choice[p][q].id}
    /\ UNCHANGED <<codexVars, runtimeVars, listed, told, ids>>

\* list_pending_interactions and _replacePendingInteractions: what is not pending
\* any more is forgotten; a call that was interrupted may be repeated.
Refresh(p) ==
    LET pending == {q \in Question : StatusOf(q) = "pending"} IN
    /\ Late = {}
    /\ listed' = [listed EXCEPT ![p] = pending]
    /\ choice' = [choice EXCEPT ![p] = [q \in Question |->
           IF q \notin pending /\ q \in listed[p] THEN NoChoice
           ELSE IF @[q].state = "lost" THEN [@[q] EXCEPT !.state = "retryable"]
           ELSE @[q]]]
    /\ UNCHANGED <<codexVars, runtimeVars, posts, told, ids, upsets>>

\* The chat is left and selected again.
Reselect(p) ==
    /\ Upset
    /\ listed' = [listed EXCEPT ![p] = {}]
    /\ choice' = [choice EXCEPT ![p] = [q \in Question |-> NoChoice]]
    /\ UNCHANGED <<codexVars, runtimeVars, posts, told, ids>>

-----------------------------------------------------------------------------
\* As if the questions of the last session were taken up again.
ForgetfulStop ==
    /\ Upset
    /\ asking' = stored /\ UNCHANGED stored
    /\ turn' = "over" /\ claimable' = {} /\ tokens' = {} /\ gone' = TRUE /\ fatal' = FALSE
    /\ threads' = {} /\ posts' = {}
    /\ choice' = [p \in Panel |-> [q \in Question |->
           IF choice[p][q].state = "sending" THEN [choice[p][q] EXCEPT !.state = "lost"]
           ELSE choice[p][q]]]
    /\ UNCHANGED <<due, heard, resolved, listed, told, ids>>

\* The App stops and starts: _reconcile_generation_locked closes what the stored
\* state has open.
StopApp ==
    /\ Upset
    /\ asking' = Close(Question, stored) /\ stored' = asking'
    /\ turn' = "over" /\ claimable' = {} /\ tokens' = {} /\ gone' = TRUE /\ fatal' = FALSE
    /\ threads' = {} /\ posts' = {}
    /\ choice' = [p \in Panel |-> [q \in Question |->
           IF choice[p][q].state = "sending" THEN [choice[p][q] EXCEPT !.state = "lost"]
           ELSE choice[p][q]]]
    /\ UNCHANGED <<due, heard, resolved, listed, told, ids>>

Respond == TakeToken \/ WriteAnswer \/ SettleAnswer \/ MarkUnknown

InteractionNext ==
    \/ \E q \in Question : Ask(q) \/ Resolve(q) \/ FallDue(q)
    \/ EndTurn \/ LoseGeneration \/ Reconcile \/ ExpireDue
    \/ \E c \in posts : Claim(c)
    \/ Respond
    \/ \E p \in Panel : Refresh(p) \/ Reselect(p)
    \/ \E p \in Panel, q \in Question : Submit(p, q) \/ SubmitAgain(p, q) \/ ReplyLost(p, q)
    \/ StopApp

InteractionSpec == InteractionInit /\ [][InteractionNext]_interactionVars

\* Time passes, and the watchdog of the turn looks for questions that are due;
\* request threads run; a panel refreshes its list.  Codex and users owe nothing.
Watch == (\E q \in Question : FallDue(q)) \/ (turn # "over" /\ ExpireDue) \/ Reconcile
Handle == (\E c \in posts : Claim(c)) \/ Respond

InteractionFairness ==
    /\ WF_interactionVars(Watch) /\ WF_interactionVars(Handle)
    /\ \A p \in Panel : WF_interactionVars(Refresh(p))

-----------------------------------------------------------------------------
\* What the App says of a question is what happened to it: settled with an
\* answer that reached Codex, and no other; expired without a user's answer; and
\* whatever the order of claim, expiry, resolution and failure, Codex hears at
\* most one answer.  Everything else is said to be unknown.  A panel that is told
\* its answer was taken gave the answer that Codex heard: of two panels with
\* different answers one is told so at most.
OutcomeHonest ==
    /\ \A q \in Question :
          CASE StatusOf(q) = "settled" -> heard[q] = <<asking[q].claim.answer>>
            [] StatusOf(q) = "expired" -> heard[q] \in {<<>>, <<Nothing>>}
            [] StatusOf(q) \in {"absent", "pending"} -> heard[q] = <<>>
            [] OTHER -> Len(heard[q]) <= 1
    /\ \A t \in told : heard[t.q] = <<t.answer>>

\* Whatever the panels, the time limit and failures do, no question stays open,
\* and no panel goes on showing it.
EveryQuestionCloses ==
    <>[](Open = {} /\ \A p \in Panel : listed[p] = {})

=============================================================================

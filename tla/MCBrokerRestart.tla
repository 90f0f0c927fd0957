-------------------------- MODULE MCBrokerRestart --------------------------
(***************************************************************************)
(* RuntimeBroker with two prompts of one chat: accounts that change,       *)
(* prompts that are cancelled and a stop of the Bridge, or budget stops.   *)
(***************************************************************************)
EXTENDS MCRuntimeBroker

VARIABLE focus

MCInit == Init /\ focus \in {"accounts", "budgets"}

\* A prompt behind a budget stop is not removed, and survives no stop of the Bridge:
\* the README says what happens then.
Slice ==
    IF focus = "accounts" THEN \A r \in Req : run'[r].stop = "no"
    ELSE /\ account' = account /\ stops' = 0
         /\ \A r \in Req : ~CancelQueuedPrompt(r) /\ ~CancelRun(r)

MCNext == Next /\ Slice /\ UNCHANGED focus

MCSpec == MCInit /\ [][MCNext]_<<vars, focus>>

=============================================================================

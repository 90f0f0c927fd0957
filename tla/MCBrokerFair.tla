---------------------------- MODULE MCBrokerFair ----------------------------
(***************************************************************************)
(* RuntimeBroker under fairness: one prompt and everything that can happen *)
(* to it, or two prompts of different chats and a budget stop.             *)
(***************************************************************************)
EXTENDS MCRuntimeBroker

VARIABLE focus

MCInit == Init /\ focus \in {"one prompt", "two chats"}

\* Users follow up the first prompt and cancel the second.
Slice ==
    IF focus = "one prompt" THEN run'[r2] = NoRun /\ admissions' \subseteq {r1}
    ELSE /\ gen' = 1 /\ stops' = 0 /\ steerer' = {} /\ canceller'[r1] = "none"
         /\ \A r \in Req : run'[r].status # "none" => run'[r].mode = "queue"

MCNext == Next /\ Slice /\ UNCHANGED focus

MCSpec == MCInit /\ [][MCNext]_<<vars, focus>> /\ Fairness

=============================================================================

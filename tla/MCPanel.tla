------------------------------- MODULE MCPanel -------------------------------
(***************************************************************************)
(* What a panel shares with the App, part by part: the event stream        *)
(* (PanelStream), the composer and its drafts (PromptComposer), an upload  *)
(* (UploadSession), and the questions of a turn (Interactions).  The parts *)
(* share no state.  A behaviour of this module is one of a single part,    *)
(* under one set of bounds, and the other parts sleep.                     *)
(***************************************************************************)
EXTENDS PanelStream, PromptComposer, UploadSession, Interactions

CONSTANTS thread, account, thisTab, otherTab, chat1, chat2, approval, optional,
          panel1, panel2

VARIABLE part

streamVars == <<journalVars, brokerVars, panelVars>>
allVars == <<streamVars, draftVars, uploadVars, interactionVars, part>>

\* A panel that has nothing to do.
StreamSleeps ==
    /\ JournalInit /\ BrokerInit
    /\ view = "chat" /\ shown = {} /\ sequence = 0 /\ needsSnapshot = FALSE
    /\ link = "off" /\ asked = 0 /\ request = None /\ wire = <<>> /\ timer = FALSE
    /\ refresh = None /\ polling = FALSE /\ poll = None /\ selects = 0

\* Failures, user actions and long journals are looked at one by one.
StreamParts == {"failures", "selections", "retention"}

MCInit ==
    /\ part \in StreamParts \cup {"composer", "upload", "rivals", "questions"}
    /\ IF part \in StreamParts THEN PanelInit ELSE StreamSleeps
    /\ view = "system" => part = "failures"
    /\ ComposerInit /\ UploadInit /\ InteractionInit

Slice ==
    /\ part # "failures" => faults' = 0
    /\ part # "selections" => selects' = 0
    /\ part # "retention" => Len(written') < MaxEvents

Stream ==
    /\ part \in StreamParts /\ PanelNext /\ Slice
    /\ UNCHANGED <<draftVars, uploadVars, interactionVars, part>>

Composer ==
    /\ part = "composer" /\ ComposerNext
    /\ mishaps' + horizon' <= 1
    /\ mishaps' + horizon' + Cardinality(issued'[otherTab]) <= 2
    /\ UNCHANGED <<streamVars, uploadVars, interactionVars, part>>

Upload ==
    /\ part = "upload" /\ UploadNext
    /\ UNCHANGED <<streamVars, draftVars, interactionVars, part>>

\* Two panels and one question, which panel1 answers first, or two questions and
\* one answer.  A panel that is kept from refreshing makes no behaviour unfair: a
\* question that stays open falls due, and nothing refreshes before it is closed.
Questions ==
    /\ part \in {"rivals", "questions"} /\ InteractionNext
    /\ part = "rivals" => asking'[optional].status = "absent" /\ choice'[panel2][approval].id # 1
    /\ part = "questions" => ids' <= 1 /\ listed'[panel2] = {}
    /\ UNCHANGED <<streamVars, draftVars, uploadVars, part>>

MCNext == Stream \/ Composer \/ Upload \/ Questions

\* PanelFairness and InteractionFairness, of the part that is awake.
Streaming == part \in StreamParts
Asking == part \in {"rivals", "questions"}

MCFairness ==
    /\ WF_streamVars(Streaming /\ Broker)
    /\ WF_streamVars(Streaming /\ Connect)
    /\ WF_streamVars(Streaming /\ Forward)
    /\ WF_streamVars(Streaming /\ Receive)
    /\ WF_streamVars(Streaming /\ Show)
    /\ WF_streamVars(Streaming /\ Poll)
    /\ WF_interactionVars(Asking /\ Watch)
    /\ WF_interactionVars(Asking /\ Handle)
    /\ \A p \in Panel : WF_interactionVars(Asking /\ Refresh(p))

MCSpec == MCInit /\ [][MCNext]_allVars /\ MCFairness

=============================================================================

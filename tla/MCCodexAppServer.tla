-------------------------- MODULE MCCodexAppServer --------------------------
(***************************************************************************)
(* Small instances of CodexAppServer.  Calls, server requests and the MCP  *)
(* activation meet only in the life of the process, so a behaviour has     *)
(* some of one kind.                                                       *)
(***************************************************************************)
EXTENDS CodexAppServer

CONSTANTS c1, c2, q1, q2

VARIABLE focus

MCInit == Init /\ focus \in {"calls", "requests", "activation"}

\* Two calls, and two request ids, are interchangeable: the first is first.  The
\* second process asks once, with an id of the first one.
Slice ==
    /\ IF focus = "calls" THEN caller'[c1] = "idle" => caller'[c2] = "idle"
       ELSE callGen' = callGen
    /\ IF focus = "requests"
       THEN /\ faults' <= 1
            /\ \A k \in used' : k[2] = q2 => k[1] = 1 /\ <<1, q1>> \in used'
       ELSE used' = {}
    /\ focus # "activation" => activator' = "idle"

MCNext == Next /\ Slice /\ UNCHANGED focus

MCSpec == MCInit /\ [][MCNext]_<<vars, focus>> /\ Fairness

=============================================================================

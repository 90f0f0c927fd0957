--------------------------- MODULE MCAutomations ---------------------------
(***************************************************************************)
(* Small instances of Automations: two or three occurrences, run-now       *)
(* requests and two handlers.  The statuses a turn ends with are treated   *)
(* alike by the store; one stands for all.                                 *)
(***************************************************************************)
EXTENDS Automations, TLC

CONSTANTS m1, h1, h2

Handlers == Permutations({h1, h2})

=============================================================================

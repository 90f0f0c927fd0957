------------------------ MODULE AppServerGenerations ------------------------
(***************************************************************************)
(* What the broker and the other callers of CodexAppServerClient rely on:  *)
(* the process comes in generations, of which one at a time is ready, once. *)
(* A thread that finds a generation newer than the one it used knows that  *)
(* whatever it started there is over.                                      *)
(***************************************************************************)
EXTENDS Naturals

VARIABLES
    gen,    \* the generation callers see
    phase   \* whether it is "down", "starting" or "ready"

genVars == <<gen, phase>>

Init == gen = 0 /\ phase = "down"

Begin == phase = "down" /\ phase' = "starting" /\ gen' = gen + 1
Open == phase = "starting" /\ phase' = "ready" /\ gen' = gen
Lose == phase \in {"starting", "ready"} /\ phase' = "down" /\ gen' = gen

Next == Begin \/ Open \/ Lose

Spec == Init /\ [][Next]_genVars

=============================================================================

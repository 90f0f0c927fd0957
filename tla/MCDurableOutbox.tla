-------------------------- MODULE MCDurableOutbox --------------------------
(***************************************************************************)
(* Small instances of DurableOutbox: four operations on two documents, two *)
(* of which write both, and one save past the outbox.                      *)
(***************************************************************************)
EXTENDS DurableOutbox, TLC

CONSTANTS u1, u2, u3, u4, s1, d1, d2

Five == {u1, u2, u3, u4, s1}
FiveTouch == (u1 :> {d1, d2}) @@ (u2 :> {d1}) @@ (u3 :> {d2}) @@ (u4 :> {d1, d2}) @@ (s1 :> {d1})

=============================================================================

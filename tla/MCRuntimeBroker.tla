-------------------------- MODULE MCRuntimeBroker --------------------------
(***************************************************************************)
(* Small instances of RuntimeBroker.                                       *)
(***************************************************************************)
EXTENDS RuntimeBroker, TLC

CONSTANTS r1, r2, t1, t2, a, b

Solo == r1 :> t1
TwoChats == r1 :> t1 @@ r2 :> t2
OneChat == r1 :> t1 @@ r2 :> t1

\* Requests of one chat are interchangeable, and so are accounts.
Swap == Permutations({r1, r2}) \cup Permutations({a, b})

=============================================================================

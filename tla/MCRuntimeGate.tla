--------------------------- MODULE MCRuntimeGate ---------------------------
(* TLC instances of RuntimeGate. *)
EXTENDS RuntimeGate, TLC

\* Leases and owners are interchangeable.
Symmetry == Permutations(Lease) \cup Permutations(Owner)

=============================================================================

----------------------------- MODULE MCRegistry -----------------------------
(* Instances of Registry for TLC. *)
EXTENDS Registry, TLC
CONSTANTS c1, c2, c3

Orderly == {}
Anything == {"closeInFlight", "many"}
Others == Permutations(Providers)
=============================================================================

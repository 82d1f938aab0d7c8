--------------------------- MODULE MCSessionStore ---------------------------
(* Instances of SessionStore for TLC. *)
EXTENDS SessionStore, TLC
CONSTANTS s1, s2, s3, k1, k2, u1

\* The third session reuses the API key of the first.
ReusedKey == (s1 :> k1) @@ (s2 :> k2) @@ (s3 :> k1)
OneKey == (s1 :> k1) @@ (s2 :> k1)
TwoKeys == (s1 :> k1) @@ (s2 :> k2)
SameUser == [s \in Sessions |-> u1]

Separate == {}
Overlapping == {"deleteInFlight", "wipeInFlight"}
DeleteInFlight == {"deleteInFlight"}

\* Sessions that share their key and their user are alike.
Alike == Permutations({s1, s3}) \cup Permutations(Workers) \cup Permutations(Conns)
=============================================================================

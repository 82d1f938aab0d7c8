------------------------------- MODULE MCMutex -------------------------------
(* Instances of Mutex for TLC. *)
EXTENDS Mutex, TLC
CONSTANTS o1, o2, o3, c1, c2, c3, c4

\* Two clients share connection o1, the others have their own.
SharedConn == (c1 :> o1) @@ (c2 :> o1) @@ (c3 :> o2) @@ (c4 :> o3)
\* The same with two connections only.
PairAndOne == (c1 :> o1) @@ (c2 :> o1) @@ (c3 :> o2)
\* Every client has a connection of its own.
OwnConn == (c1 :> o1) @@ (c2 :> o2) @@ (c3 :> o3)

HeapAndIds == Permutations(Lockers) \cup Permutations(Ids)

Disciplined == {}
DropInFlight == {"dropInFlight"}
Share == {"share"}
Anything == {"dropInFlight", "share", "stray"}
=============================================================================

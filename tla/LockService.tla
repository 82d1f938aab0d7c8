----------------------------- MODULE LockService -----------------------------
(***************************************************************************)
(* What the lock service of blank-sr promises its clients, whatever the    *)
(* channels and maps of sync/mutex.go look like inside: an id has at most  *)
(* one holder, only a client that is through with an id (or whose          *)
(* connection is lost) has it taken back, and an id that is taken back     *)
(* goes to nobody or straight to one of the clients that wait for it.      *)
(* Mutex.tla is shown to implement this specification.                     *)
(***************************************************************************)
CONSTANTS Clients,   \* callers of sync.lock
          Ids,       \* names that are locked
          NoClient,  \* the holder of an id nobody holds
          NoId       \* what a client that is not using the service wants

VARIABLES holder,    \* who holds each id
          phase,     \* where each client is in its use of the service
          want       \* the id each client waits for, holds or is through with

vars == <<holder, phase, want>>

TypeOK ==
    /\ holder \in [Ids -> Clients \cup {NoClient}]
    /\ phase \in [Clients -> {"idle", "waiting", "holding", "done"}]
    /\ want \in [Clients -> Ids \cup {NoId}]

Init ==
    /\ holder = [id \in Ids |-> NoClient]
    /\ phase = [c \in Clients |-> "idle"]
    /\ want = [c \in Clients |-> NoId]

Request(c, id) ==
    /\ phase[c] = "idle"
    /\ phase' = [phase EXCEPT ![c] = "waiting"]
    /\ want' = [want EXCEPT ![c] = id]
    /\ UNCHANGED holder

Grant(c) ==
    /\ phase[c] = "waiting"
    /\ holder[want[c]] = NoClient
    /\ holder' = [holder EXCEPT ![want[c]] = c]
    /\ phase' = [phase EXCEPT ![c] = "holding"]
    /\ UNCHANGED want

\* Holders ask to unlock (one client), or are lost with their connection (all of
\* the clients behind it in one step).
Finish(C) ==
    /\ \A c \in C : phase[c] = "holding"
    /\ phase' = [c \in Clients |-> IF c \in C THEN "done" ELSE phase[c]]
    /\ UNCHANGED <<holder, want>>

TakeBack(c) ==
    /\ phase[c] = "done"
    /\ holder[want[c]] = c
    /\ want' = [want EXCEPT ![c] = NoId]
    /\ \/ /\ holder' = [holder EXCEPT ![want[c]] = NoClient]
          /\ phase' = [phase EXCEPT ![c] = "idle"]
       \/ \E d \in Clients :
            /\ phase[d] = "waiting" /\ want[d] = want[c]
            /\ holder' = [holder EXCEPT ![want[c]] = d]
            /\ phase' = [phase EXCEPT ![c] = "idle", ![d] = "holding"]

Next ==
    \/ \E c \in Clients : Grant(c) \/ TakeBack(c)
    \/ \E c \in Clients, id \in Ids : Request(c, id)
    \/ \E C \in SUBSET Clients : Finish(C)

Spec == Init /\ [][Next]_vars
=============================================================================

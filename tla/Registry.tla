------------------------------ MODULE Registry ------------------------------
(***************************************************************************)
(* The service registry of blank-sr (src/registry/registry.go), as main.go *)
(* wires it to WAMP connections, to the subscribers of the "registry"      *)
(* topic, and to the session store.                                        *)
(*                                                                         *)
(* A connection registers services; losing it unregisters what it          *)
(* registered.  After each change a handler reads the whole registry and   *)
(* publishes it, outside of the lock under which the change was made: the  *)
(* create handler in the goroutine of the call, the delete handler in a    *)
(* goroutine of its own.  So changes, reads and messages interleave.       *)
(*                                                                         *)
(* What is published is a copy of the registry; here it is its version,    *)
(* the number of changes that have been made to the registry so far.       *)
(***************************************************************************)
EXTENDS Integers, FiniteSets

CONSTANTS Conns,        \* connections; a lost one never comes back
          Watchers,     \* those that subscribe to "registry"
          Providers,    \* those that register services
          Types,        \* types of services
          TaskQueue,    \* the type of the router
          MaxRegister,  \* bound: services of one type a connection registers
          Environment,  \* what connections may do, below
          Free

(***************************************************************************)
(* With Environment = {} a connection registers one service, and is lost   *)
(* only when no call of its own is in flight.                              *)
(*   "closeInFlight"  a connection may be lost with a register in flight   *)
(*   "many"           a connection may register MaxRegister of each type   *)
(***************************************************************************)
ASSUME ConstantsAssumption ==
    /\ IsFiniteSet(Conns) /\ IsFiniteSet(Types)
    /\ Watchers \subseteq Conns /\ Providers \subseteq Conns
    /\ TaskQueue \in Types
    /\ MaxRegister \in Nat
    /\ Environment \subseteq {"closeInFlight", "many"}
    /\ Free \notin Conns

VARIABLES
    services,       \* map type -> []Service, as the number of each connection's entries
    conn,           \* state of each connection
    subscribers,    \* wango's subscribers of "registry"
    subLocker,      \* wango's subscribersLocker: the connection subscribing, or Free
    call,           \* the type a register call in flight is about to append, or Free
    handler,        \* control state of the create and delete handlers
    copy,           \* the version a handler, or a subscribe, has read
    routed,         \* routers whose clients' connections the session store lists
    version,        \* number of changes made to services
    made,           \* how often each connection has registered each type
    sent            \* the newest version ever sent to each connection

netVars == <<subscribers, subLocker, sent>>
regVars == <<services, version, made>>
vars == <<regVars, netVars, conn, call, handler, copy, routed>>

Handlers == {"create", "delete"} \X Conns
Readers == Handlers \cup {<<"subscribe", c>> : c \in Conns}

Registered(c, t) == services[t][c] > 0
NewerOf(a, b) == IF a > b THEN a ELSE b

TypeOK ==
    /\ services \in [Types -> [Conns -> Nat]]
    /\ conn \in [Conns -> {"new", "open", "closing", "closed"}]
    /\ subscribers \subseteq Watchers
    /\ subLocker \in Watchers \cup {Free}
    /\ call \in [Conns -> Types \cup {Free}]
    /\ handler \in [Handlers -> {"none", "wipe", "read", "publish"}]
    /\ copy \in [Readers -> Nat]
    /\ routed \subseteq Conns
    /\ version \in Nat
    /\ made \in [Conns -> [Types -> Nat]]
    /\ sent \in [Conns -> Nat]

Init ==
    /\ services = [t \in Types |-> [c \in Conns |-> 0]]
    /\ conn = [c \in Conns |-> "new"]
    /\ subscribers = {}
    /\ subLocker = Free
    /\ call = [c \in Conns |-> Free]
    /\ handler = [h \in Handlers |-> "none"]
    /\ copy = [r \in Readers |-> 0]
    /\ routed = {}
    /\ version = 0
    /\ made = [c \in Conns |-> [t \in Types |-> 0]]
    /\ sent = [c \in Conns |-> 0]
-----------------------------------------------------------------------------
(* Connections and subscriptions *)

Open(c) ==
    /\ conn[c] = "new"
    /\ conn' = [conn EXCEPT ![c] = "open"]
    /\ UNCHANGED <<regVars, netVars, call, handler, copy, routed>>

\* handleSubscribe holds subscribersLocker while registryHandler reads the registry ...
Subscribe(c) ==
    /\ c \in Watchers
    /\ conn[c] = "open" /\ subLocker = Free
    /\ subLocker' = c
    /\ copy' = [copy EXCEPT ![<<"subscribe", c>>] = version]
    /\ UNCHANGED <<regVars, subscribers, sent, conn, call, handler, routed>>

\* ... and until the subscriber is in the map; its copy is sent in a goroutine.
Subscribed(c) ==
    /\ subLocker = c
    /\ subscribers' = subscribers \cup {c}
    /\ sent' = [sent EXCEPT ![c] = NewerOf(@, copy[<<"subscribe", c>>])]
    /\ subLocker' = Free
    /\ copy' = [copy EXCEPT ![<<"subscribe", c>>] = 0]
    /\ UNCHANGED <<regVars, conn, call, handler, routed>>

Idle(c) == call[c] = Free /\ handler[<<"create", c>>] = "none"

\* wango's deleteConnection, up to the close callback.
Close(c) ==
    /\ conn[c] = "open" /\ subLocker = Free
    /\ "closeInFlight" \in Environment \/ Idle(c)
    /\ conn' = [conn EXCEPT ![c] = "closing"]
    /\ subscribers' = subscribers \ {c}
    /\ UNCHANGED <<regVars, subLocker, sent, call, handler, copy, routed>>
-----------------------------------------------------------------------------
(* Register and its handler *)

CallRegister(c, t) ==
    /\ c \in Providers
    /\ conn[c] = "open" /\ Idle(c)
    /\ made[c][t] < MaxRegister
    /\ "many" \in Environment \/ \A u \in Types : made[c][u] = 0
    /\ call' = [call EXCEPT ![c] = t]
    /\ UNCHANGED <<regVars, netVars, conn, handler, copy, routed>>

Register_Reads(c) ==
    /\ call[c] # Free
    /\ services' = [services EXCEPT ![call[c]][c] = @ + 1]
    /\ made' = [made EXCEPT ![c][call[c]] = @ + 1]
    /\ version' = version + 1
    /\ handler' = [handler EXCEPT ![<<"create", c>>] = "publish"]
    /\ copy' = [copy EXCEPT ![<<"create", c>>] = version]
    /\ call' = [call EXCEPT ![c] = Free]
    /\ UNCHANGED <<netVars, conn, routed>>

\* register() under the lock; the create handler follows in the same goroutine.
Register(c) ==
    /\ call[c] # Free
    /\ services' = [services EXCEPT ![call[c]][c] = @ + 1]
    /\ made' = [made EXCEPT ![c][call[c]] = @ + 1]
    /\ version' = version + 1
    /\ handler' = [handler EXCEPT ![<<"create", c>>] = "read"]
    /\ call' = [call EXCEPT ![c] = Free]
    /\ UNCHANGED <<netVars, conn, copy, routed>>

\* A handler reads the registry ...
ReadAll(h) ==
    /\ handler[h] = "read"
    /\ copy' = [copy EXCEPT ![h] = version]
    /\ handler' = [handler EXCEPT ![h] = "publish"]
    /\ UNCHANGED <<regVars, netVars, conn, call, routed>>

Publish_GivesUp(h) ==
    /\ handler[h] = "publish"
    /\ LET receivers == IF subLocker = Free THEN subscribers ELSE {} IN
         sent' = [s \in Conns |-> IF s \in receivers THEN NewerOf(sent[s], copy[h])
                                 ELSE sent[s]]
    /\ handler' = [handler EXCEPT ![h] = "none"]
    /\ copy' = [copy EXCEPT ![h] = 0]
    /\ UNCHANGED <<regVars, subscribers, subLocker, conn, call, routed>>

\* ... and publishes what it read to the subscribers of that moment.
Publish(h) ==
    /\ handler[h] = "publish" /\ subLocker = Free
    /\ sent' = [s \in Conns |-> IF s \in subscribers THEN NewerOf(sent[s], copy[h])
                                ELSE sent[s]]
    /\ handler' = [handler EXCEPT ![h] = "none"]
    /\ copy' = [copy EXCEPT ![h] = 0]
    /\ UNCHANGED <<regVars, subscribers, subLocker, conn, call, routed>>
-----------------------------------------------------------------------------
(* Unregister and its handler *)

Removed(c, t, d) ==
    /\ services' = [services EXCEPT ![t][d] = @ - 1]
    /\ version' = version + 1
    /\ handler' = [handler EXCEPT ![<<"delete", c>>] = IF t = TaskQueue THEN "wipe" ELSE "read"]
    /\ UNCHANGED made

Unregister_FirstOfType(c) ==
    /\ conn[c] = "closing"
    /\ conn' = [conn EXCEPT ![c] = "closed"]
    /\ \/ (\A t \in Types : ~Registered(c, t)) /\ UNCHANGED <<regVars, handler>>
       \/ \E t \in Types, d \in Conns :
            Registered(c, t) /\ Registered(d, t) /\ Removed(c, t, d)
    /\ UNCHANGED <<netVars, call, copy, routed>>

Unregister_OneType(c) ==
    /\ conn[c] = "closing"
    /\ conn' = [conn EXCEPT ![c] = "closed"]
    /\ \E t \in Types : IF Registered(c, t) THEN Removed(c, t, c)
                        ELSE UNCHANGED <<regVars, handler>>
    /\ UNCHANGED <<netVars, call, copy, routed>>

Unregister_Unchecked(c) ==
    /\ conn[c] = "closing"
    /\ conn' = [conn EXCEPT ![c] = "closed"]
    /\ \E t \in Types : Removed(c, t, c)
    /\ UNCHANGED <<netVars, call, copy, routed>>

\* unregister() returns at the first entry it finds, in the order of a map range.
Unregister(c) ==
    /\ conn[c] = "closing"
    /\ conn' = [conn EXCEPT ![c] = "closed"]
    /\ \/ (\A t \in Types : ~Registered(c, t)) /\ UNCHANGED <<regVars, handler>>
       \/ \E t \in Types : Registered(c, t) /\ Removed(c, t, c)
    /\ UNCHANGED <<netVars, call, copy, routed>>

Wipe_Skipped(c) ==
    /\ handler[<<"delete", c>>] = "wipe"
    /\ handler' = [handler EXCEPT ![<<"delete", c>>] = "read"]
    /\ UNCHANGED <<regVars, netVars, conn, call, copy, routed>>

\* "router restarted?": sessionstore.DeleteAllConnections().
Wipe(c) ==
    /\ handler[<<"delete", c>>] = "wipe"
    /\ routed' = {}
    /\ handler' = [handler EXCEPT ![<<"delete", c>>] = "read"]
    /\ UNCHANGED <<regVars, netVars, conn, call, copy>>

\* A registered router reports a client's subscription (session.subscribed).
Route(c) ==
    /\ conn[c] = "open" /\ Registered(c, TaskQueue)
    /\ routed' = routed \cup {c}
    /\ UNCHANGED <<regVars, netVars, conn, call, handler, copy>>
-----------------------------------------------------------------------------
Next ==
    \/ \E c \in Conns :
         \/ Open(c) \/ Subscribe(c) \/ Subscribed(c) \/ Close(c)
         \/ Register(c) \/ Unregister(c) \/ Wipe(c) \/ Route(c)
         \/ \E t \in Types : CallRegister(c, t)
    \/ \E h \in Handlers : ReadAll(h) \/ Publish(h)

Spec == Init /\ [][Next]_vars

(***************************************************************************)
(* Goroutines of the service run; subscribersLocker is acquired in turn    *)
(* (its holders release it).  Connections need neither come nor go.        *)
(***************************************************************************)
Fairness ==
    /\ \A c \in Conns :
         WF_vars(Register(c)) /\ WF_vars(Unregister(c)) /\ WF_vars(Wipe(c))
         /\ WF_vars(Subscribed(c))
    /\ \A h \in Handlers : WF_vars(ReadAll(h)) /\ SF_vars(Publish(h))

FairSpec == Spec /\ Fairness
-----------------------------------------------------------------------------
(* What holds whatever the connections do. *)

\* An open connection's services are all in the registry, however other connections'
\* unregister calls and the map's order interleave with it.
OpenKept ==
    \A c \in Conns, t \in Types : conn[c] = "open" => services[t][c] = made[c][t]

\* No update is lost between a change, the reads that follow it and a subscriber that
\* is just subscribing: either the current registry has been sent to a subscriber, or a
\* handler is still to read it, or has read it and is still to publish it.
NoLostUpdate ==
    \A s \in subscribers :
        \/ sent[s] = version
        \/ \E h \in Handlers :
             \/ handler[h] \in {"wipe", "read"}
             \/ handler[h] = "publish" /\ copy[h] = version

MaxVersion == 2 * MaxRegister * Cardinality(Types) * Cardinality(Providers)

\* A subscriber is sent every change, or a later copy, or is lost: no handler is stuck
\* behind subscribersLocker, and no change is left to a handler that has already read.
UpdateReaches ==
    \A s \in Watchers : \A v \in 1 .. MaxVersion :
        (s \in subscribers /\ version = v) ~> (sent[s] >= v \/ s \notin subscribers)
-----------------------------------------------------------------------------
(* What holds for well-behaved connections, Environment = {}. *)

\* Once Unregister has returned for a lost connection, no service of it is listed:
\* "Unregister removes service from registry" (registry.go:120).
NoGhost == \A c \in Conns, t \in Types : conn[c] = "closed" => ~Registered(c, t)

\* What a lost router left in the session store is eventually wiped.
LostRouterWiped ==
    \A c \in Conns : (conn[c] = "closed" /\ c \in routed) ~> c \notin routed
=============================================================================

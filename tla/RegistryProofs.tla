--------------------------- MODULE RegistryProofs ---------------------------
(***************************************************************************)
(* Proofs about module Registry: an open connection keeps its services and *)
(* no update is lost, whatever the connections do; a lost connection keeps *)
(* none, if it registers one and is lost with no call in flight.           *)
(***************************************************************************)
EXTENDS Registry, TLAPS

LEMMA TypesInit == Init => TypeOK
<1> SUFFICES ASSUME Init PROVE TypeOK
    OBVIOUS
<1>1. /\ services \in [Types -> [Conns -> Nat]] /\ made \in [Conns -> [Types -> Nat]]
      /\ copy \in [Readers -> Nat] /\ sent \in [Conns -> Nat] /\ version \in Nat
    BY DEF Init
<1>2. /\ conn \in [Conns -> {"new", "open", "closing", "closed"}]
      /\ call \in [Conns -> Types \cup {Free}]
      /\ handler \in [Handlers -> {"none", "wipe", "read", "publish"}]
    BY DEF Init
<1> QED BY <1>1, <1>2 DEF Init, TypeOK

\* The step of unregister that takes one service away.
LEMMA RemovedTypes ==
    ASSUME TypeOK, NEW c \in Conns, NEW t \in Types, Registered(c, t), Removed(c, t, c)
    PROVE  /\ services' \in [Types -> [Conns -> Nat]]
           /\ handler' \in [Handlers -> {"none", "wipe", "read", "publish"}]
           /\ version' \in Nat /\ made' = made
           /\ services'[t][c] = services[t][c] - 1
           /\ \A u \in Types, d \in Conns : d # c => services'[u][d] = services[u][d]
           /\ \A u \in Types : u # t => services'[u] = services[u]
<1> USE DEF TypeOK, Removed, Registered
<1>1. services[t] \in [Conns -> Nat] /\ services[t][c] - 1 \in Nat
    OBVIOUS
<1>2. services' = [services EXCEPT ![t] = [services[t] EXCEPT ![c] = services[t][c] - 1]]
    OBVIOUS
<1>3. services'[t] = [services[t] EXCEPT ![c] = services[t][c] - 1]
    BY <1>2
<1>4. \A u \in Types : u # t => services'[u] = services[u]
    BY <1>2
<1>5. services' \in [Types -> [Conns -> Nat]]
    BY <1>1, <1>2
<1>6. \A u \in Types, d \in Conns : d # c => services'[u][d] = services[u][d]
    BY <1>1, <1>3, <1>4
<1>7. handler' \in [Handlers -> {"none", "wipe", "read", "publish"}]
    OBVIOUS
<1> QED BY <1>1, <1>3, <1>4, <1>5, <1>6, <1>7

\* The step of register that adds one.
LEMMA RegisterTypes ==
    ASSUME TypeOK, NEW c \in Conns, Register(c)
    PROVE  /\ call[c] \in Types
           /\ services' \in [Types -> [Conns -> Nat]]
           /\ made' \in [Conns -> [Types -> Nat]]
           /\ services'[call[c]][c] = services[call[c]][c] + 1
           /\ made'[c][call[c]] = made[c][call[c]] + 1
           /\ \A u \in Types, d \in Conns :
                u # call[c] \/ d # c => /\ services'[u][d] = services[u][d]
                                        /\ made'[d][u] = made[d][u]
<1> DEFINE t == call[c]
<1>1. t \in Types
    BY DEF TypeOK, Register
<1>2. services[t] \in [Conns -> Nat] /\ services[t][c] + 1 \in Nat
    BY <1>1 DEF TypeOK
<1>3. services' = [services EXCEPT ![t] = [services[t] EXCEPT ![c] = services[t][c] + 1]]
    BY DEF Register
<1>4. made[c] \in [Types -> Nat] /\ made[c][t] + 1 \in Nat
    BY <1>1 DEF TypeOK
<1>5. made' = [made EXCEPT ![c] = [made[c] EXCEPT ![t] = made[c][t] + 1]]
    BY DEF Register
<1>6. services \in [Types -> [Conns -> Nat]] /\ made \in [Conns -> [Types -> Nat]]
    BY DEF TypeOK
<1> HIDE DEF t
<1>7. /\ services'[t] = [services[t] EXCEPT ![c] = services[t][c] + 1]
      /\ \A u \in Types : u # t => services'[u] = services[u]
      /\ services' \in [Types -> [Conns -> Nat]]
    BY <1>1, <1>2, <1>3, <1>6
<1>8. /\ made'[c] = [made[c] EXCEPT ![t] = made[c][t] + 1]
      /\ \A d \in Conns : d # c => made'[d] = made[d]
      /\ made' \in [Conns -> [Types -> Nat]]
    BY <1>1, <1>4, <1>5, <1>6
<1>9. services'[t][c] = services[t][c] + 1 /\ made'[c][t] = made[c][t] + 1
    BY <1>1, <1>2, <1>4, <1>7, <1>8
<1>10. ASSUME NEW u \in Types, NEW d \in Conns, u # t \/ d # c
       PROVE  services'[u][d] = services[u][d] /\ made'[d][u] = made[d][u]
    BY <1>1, <1>2, <1>4, <1>7, <1>8, <1>10
<1> QED BY <1>1, <1>7, <1>8, <1>9, <1>10 DEF t

LEMMA TypesNext == TypeOK /\ [Next]_vars => TypeOK'
<1> SUFFICES ASSUME TypeOK, [Next]_vars PROVE TypeOK'
    OBVIOUS
<1> USE ConstantsAssumption DEF TypeOK, regVars, netVars
<1>1. ASSUME NEW c \in Conns, Open(c) \/ Close(c) PROVE TypeOK'
    BY <1>1 DEF Open, Close
<1>2. ASSUME NEW c \in Conns, Subscribe(c) PROVE TypeOK'
    BY <1>2 DEF Subscribe
<1>3. ASSUME NEW c \in Conns, Subscribed(c) PROVE TypeOK'
    <2>1. c \in Watchers /\ <<"subscribe", c>> \in Readers
        BY <1>3 DEF Subscribed, Readers
    <2>2. NewerOf(sent[c], copy[<<"subscribe", c>>]) \in Nat
        BY <2>1 DEF NewerOf
    <2> QED BY <1>3, <2>1, <2>2 DEF Subscribed
<1>4. ASSUME NEW c \in Conns, NEW t \in Types, CallRegister(c, t) PROVE TypeOK'
    BY <1>4 DEF CallRegister
<1>5. ASSUME NEW c \in Conns, Register(c) PROVE TypeOK'
    <2>0. call' \in [Conns -> Types \cup {Free}] /\ version' \in Nat
        BY <1>5 DEF Register
    <2>1. handler' \in [Handlers -> {"none", "wipe", "read", "publish"}]
        BY <1>5 DEF Register
    <2>2. services' \in [Types -> [Conns -> Nat]] /\ made' \in [Conns -> [Types -> Nat]]
        BY <1>5, RegisterTypes
    <2> QED BY <1>5, <2>0, <2>1, <2>2 DEF Register
<1>6. ASSUME NEW h \in Handlers, ReadAll(h) PROVE TypeOK'
    BY <1>6 DEF ReadAll
<1>7. ASSUME NEW h \in Handlers, Publish(h) PROVE TypeOK'
    <2>1. h \in Readers /\ \A s \in Conns : NewerOf(sent[s], copy[h]) \in Nat
        BY DEF Readers, NewerOf
    <2> QED BY <1>7, <2>1 DEF Publish
<1>8. ASSUME NEW c \in Conns, Unregister(c) PROVE TypeOK'
    <2>1. CASE UNCHANGED <<regVars, handler>>
        BY <1>8, <2>1 DEF Unregister
    <2>2. ASSUME NEW t \in Types, Registered(c, t), Removed(c, t, c) PROVE TypeOK'
        BY <1>8, <2>2, RemovedTypes DEF Unregister
    <2> QED BY <1>8, <2>1, <2>2 DEF Unregister
<1>9. ASSUME NEW c \in Conns, Wipe(c) \/ Route(c) PROVE TypeOK'
    BY <1>9 DEF Wipe, Route
<1>10. CASE UNCHANGED vars
    BY <1>10 DEF vars
<1> QED BY <1>1, <1>2, <1>3, <1>4, <1>5, <1>6, <1>7, <1>8, <1>9, <1>10 DEF Next

\* registry.go, in any environment: the registry and all that goes with it have their types; above
\* all, no type ever has fewer than no entries of a connection.
THEOREM RegistryTypes == Spec => []TypeOK
BY TypesInit, TypesNext, PTL DEF Spec
-----------------------------------------------------------------------------
(* Open connections keep their services *)

\* Every service a connection has registered is there until its close callback has returned.
KeptUntilClosed ==
    \A c \in Conns, t \in Types : conn[c] # "closed" => services[t][c] = made[c][t]

LEMMA KeptNext == TypeOK /\ KeptUntilClosed /\ [Next]_vars => KeptUntilClosed'
<1> SUFFICES ASSUME TypeOK, KeptUntilClosed, [Next]_vars PROVE KeptUntilClosed'
    OBVIOUS
<1> USE DEF KeptUntilClosed, regVars, netVars
<1>1. ASSUME NEW c \in Conns, Open(c) \/ Close(c) PROVE KeptUntilClosed'
    BY <1>1 DEF TypeOK, Open, Close
<1>2. ASSUME NEW c \in Conns, Register(c) PROVE KeptUntilClosed'
    <2>1. conn' = conn
        BY <1>2 DEF Register
    <2>2. PICK t \in Types : t = call[c]
        BY <1>2, RegisterTypes
    <2>3. /\ services'[t][c] = services[t][c] + 1 /\ made'[c][t] = made[c][t] + 1
          /\ \A u \in Types, d \in Conns :
                u # t \/ d # c => /\ services'[u][d] = services[u][d]
                                  /\ made'[d][u] = made[d][u]
        BY <1>2, <2>2, RegisterTypes
    <2> QED BY <2>1, <2>3
<1>3. ASSUME NEW c \in Conns, Unregister(c) PROVE KeptUntilClosed'
    <2>1. conn'[c] = "closed" /\ \A d \in Conns : d # c => conn'[d] = conn[d]
        BY <1>3 DEF TypeOK, Unregister
    <2>2. CASE UNCHANGED <<regVars, handler>>
        BY <2>1, <2>2
    <2>3. ASSUME NEW t \in Types, Registered(c, t), Removed(c, t, c) PROVE KeptUntilClosed'
        BY <2>1, <2>3, RemovedTypes
    <2> QED BY <1>3, <2>2, <2>3 DEF Unregister
<1>4. ASSUME NEW c \in Conns,
             \/ Subscribe(c) \/ Subscribed(c) \/ Wipe(c) \/ Route(c)
             \/ \E t \in Types : CallRegister(c, t)
      PROVE  KeptUntilClosed'
    BY <1>4 DEF Subscribe, Subscribed, Wipe, Route, CallRegister
<1>5. ASSUME NEW h \in Handlers, ReadAll(h) \/ Publish(h) PROVE KeptUntilClosed'
    BY <1>5 DEF ReadAll, Publish
<1>6. CASE UNCHANGED vars
    BY <1>6 DEF vars
<1> QED BY <1>1, <1>2, <1>3, <1>4, <1>5, <1>6 DEF Next

\* registry.go 40-57, 120-149: no unregister of another connection takes a service of an open one,
\* for any connections and types, in any environment.
THEOREM OpenIsKept == Spec => []OpenKept
<1>1. Init => KeptUntilClosed
    BY DEF Init, KeptUntilClosed
<1>2. KeptUntilClosed => OpenKept
    BY DEF KeptUntilClosed, OpenKept
<1> QED BY <1>1, <1>2, KeptNext, RegistryTypes, PTL DEF Spec
-----------------------------------------------------------------------------
(* No update is lost *)

\* A handler that will still publish the current registry.
Coming ==
    \E h \in Handlers :
        handler[h] \in {"wipe", "read"} \/ (handler[h] = "publish" /\ copy[h] = version)

\* Nothing newer than the registry has been read or sent.
NoneNewer ==
    (\A c \in Conns : sent[c] <= version) /\ (\A r \in Readers : copy[r] <= version)

\* What a connection in handleSubscribe has read is as good as if it had been sent it.
SubscribingUpToDate ==
    subLocker # Free => copy[<<"subscribe", subLocker>>] = version \/ Coming

UpdateInv == NoneNewer /\ SubscribingUpToDate /\ NoLostUpdate

\* A change of the registry is followed by its handler.
LEMMA ChangeIsComing ==
    ASSUME TypeOK, NoneNewer, version' = version + 1, NEW h \in Handlers,
           handler'[h] \in {"wipe", "read"}, UNCHANGED <<sent, copy>>
    PROVE  UpdateInv'
<1>1. NoneNewer'
    <2>1. \A c \in Conns : sent'[c] <= version'
        BY DEF TypeOK, NoneNewer
    <2>2. \A r \in Readers : copy'[r] <= version'
        BY DEF TypeOK, NoneNewer
    <2> QED BY <2>1, <2>2 DEF NoneNewer
<1>2. Coming'
    BY DEF Coming
<1>3. NoLostUpdate'
    BY DEF NoLostUpdate
<1> QED BY <1>1, <1>2, <1>3 DEF UpdateInv, SubscribingUpToDate

\* A step that leaves alone what was read and sent, and every handler that has work to do.
LEMMA NothingMissed ==
    ASSUME TypeOK, UpdateInv, UNCHANGED <<version, sent, copy, subLocker>>,
           subscribers' \subseteq subscribers,
           \A h \in Handlers : \/ handler'[h] = handler[h]
                               \/ handler'[h] \in {"wipe", "read"}
    PROVE  UpdateInv'
<1>1. Coming => Coming'
    BY DEF Coming
<1>2. NoLostUpdate'
    BY DEF UpdateInv, NoLostUpdate
<1> QED BY <1>1, <1>2 DEF UpdateInv, NoneNewer, SubscribingUpToDate

LEMMA UpdateInvNext == TypeOK /\ UpdateInv /\ [Next]_vars => UpdateInv'
<1> SUFFICES ASSUME TypeOK, UpdateInv, [Next]_vars PROVE UpdateInv'
    OBVIOUS
<1> USE ConstantsAssumption DEF regVars, netVars
<1>0. /\ \A h \in Handlers : h \in Readers
      /\ \A c \in Conns : <<"subscribe", c>> \in Readers /\ <<"subscribe", c>> \notin Handlers
    BY DEF Readers, Handlers
<1>1. ASSUME NEW c \in Conns,
             \/ Open(c) \/ Close(c) \/ Route(c)
             \/ \E t \in Types : CallRegister(c, t)
      PROVE  UpdateInv'
    BY <1>1, NothingMissed DEF Open, Close, Route, CallRegister
<1>2. ASSUME NEW c \in Conns, Wipe(c) PROVE UpdateInv'
    BY <1>2, NothingMissed DEF TypeOK, Wipe
<1>3. ASSUME NEW c \in Conns, Register(c) PROVE UpdateInv'
    <2>1. <<"create", c>> \in Handlers /\ handler'[<<"create", c>>] = "read"
        BY <1>3 DEF TypeOK, Handlers, Register
    <2> QED BY <1>3, <2>1, ChangeIsComing DEF UpdateInv, Register
<1>4. ASSUME NEW c \in Conns, Unregister(c) PROVE UpdateInv'
    <2>1. CASE UNCHANGED <<regVars, handler>>
        BY <1>4, <2>1, NothingMissed DEF Unregister
    <2>2. ASSUME NEW t \in Types, Registered(c, t), Removed(c, t, c) PROVE UpdateInv'
        <3>1. <<"delete", c>> \in Handlers /\ handler'[<<"delete", c>>] \in {"wipe", "read"}
            BY <2>2 DEF TypeOK, Handlers, Removed
        <3> QED BY <1>4, <2>2, <3>1, ChangeIsComing DEF UpdateInv, Unregister, Removed
    <2> QED BY <1>4, <2>1, <2>2 DEF Unregister
<1>5. ASSUME NEW c \in Conns, Subscribe(c) PROVE UpdateInv'
    <2>1. /\ copy'[<<"subscribe", c>>] = version
          /\ \A r \in Readers : copy'[r] = copy[r] \/ copy'[r] = version
          /\ \A h \in Handlers : copy'[h] = copy[h]
        BY <1>0, <1>5 DEF TypeOK, Subscribe
    <2>2. NoneNewer'
        BY <1>5, <2>1 DEF TypeOK, UpdateInv, NoneNewer, Subscribe
    <2>3. NoLostUpdate'
        BY <1>5, <2>1 DEF UpdateInv, NoLostUpdate, Subscribe
    <2> QED BY <1>5, <2>1, <2>2, <2>3 DEF UpdateInv, SubscribingUpToDate, Subscribe
<1>6. ASSUME NEW c \in Conns, Subscribed(c) PROVE UpdateInv'
    <2>1. c = subLocker /\ c # Free
        BY <1>6 DEF Subscribed
    <2>2. copy[<<"subscribe", c>>] = version \/ Coming
        BY <2>1 DEF UpdateInv, SubscribingUpToDate
    <2>3. sent[c] \in Nat /\ copy[<<"subscribe", c>>] \in Nat /\ version \in Nat
        BY <1>0 DEF TypeOK
    <2>4. sent[c] <= version /\ copy[<<"subscribe", c>>] <= version
        BY <1>0 DEF UpdateInv, NoneNewer
    <2>5. /\ sent'[c] <= version
          /\ copy[<<"subscribe", c>>] = version \/ sent[c] = version => sent'[c] = version
          /\ \A s \in Conns : s # c => sent'[s] = sent[s]
        <3>1. sent'[c] = NewerOf(sent[c], copy[<<"subscribe", c>>])
            BY <1>6 DEF TypeOK, Subscribed
        <3>2. \A s \in Conns : s # c => sent'[s] = sent[s]
            BY <1>6 DEF TypeOK, Subscribed
        <3> QED BY <2>3, <2>4, <3>1, <3>2 DEF NewerOf
    <2>6. /\ \A h \in Handlers : copy'[h] = copy[h]
          /\ \A r \in Readers : copy'[r] = copy[r] \/ copy'[r] = 0
        BY <1>0, <1>6 DEF TypeOK, Subscribed
    <2>7. NoneNewer'
        BY <1>6, <2>3, <2>5, <2>6 DEF UpdateInv, NoneNewer, Subscribed
    <2>8. Coming => Coming'
        BY <1>6, <2>6 DEF Coming, Subscribed
    <2>9. ASSUME NEW s \in subscribers' PROVE sent'[s] = version' \/ Coming'
        <3>1. CASE s = c
            BY <1>6, <2>2, <2>5, <2>8, <3>1 DEF Subscribed
        <3>2. CASE s # c
            <4>1. s \in subscribers /\ s \in Conns
                BY <1>6, <2>9, <3>2 DEF TypeOK, Subscribed
            <4>2. sent[s] = version \/ Coming
                BY <4>1 DEF UpdateInv, NoLostUpdate, Coming
            <4> QED BY <1>6, <2>5, <2>8, <3>2, <4>1, <4>2 DEF Subscribed
        <3> QED BY <3>1, <3>2
    <2>10. NoLostUpdate'
        BY <2>9 DEF NoLostUpdate, Coming
    <2> QED BY <1>6, <2>7, <2>10 DEF UpdateInv, SubscribingUpToDate, Subscribed
<1>7. ASSUME NEW h \in Handlers, ReadAll(h) PROVE UpdateInv'
    <2>1. copy'[h] = version /\ handler'[h] = "publish"
        BY <1>0, <1>7 DEF TypeOK, ReadAll
    <2>2. Coming'
        BY <1>7, <2>1 DEF Coming, ReadAll
    <2>3. NoneNewer'
        BY <1>0, <1>7 DEF TypeOK, UpdateInv, NoneNewer, ReadAll
    <2>4. NoLostUpdate'
        BY <2>2 DEF NoLostUpdate, Coming
    <2> QED BY <2>2, <2>3, <2>4 DEF UpdateInv, SubscribingUpToDate
<1>8. ASSUME NEW h \in Handlers, Publish(h) PROVE UpdateInv'
    <2>1. copy[h] \in Nat /\ version \in Nat /\ copy[h] <= version
        BY <1>0 DEF TypeOK, UpdateInv, NoneNewer
    <2>2. ASSUME NEW s \in Conns PROVE sent[s] \in Nat /\ sent[s] <= version
        BY DEF TypeOK, UpdateInv, NoneNewer
    <2>3. ASSUME NEW s \in Conns
          PROVE  /\ sent'[s] <= version
                 /\ sent[s] = version => sent'[s] = version
                 /\ s \in subscribers /\ copy[h] = version => sent'[s] = version
        BY <1>8, <2>1, <2>2 DEF Publish, NewerOf
    <2>4. /\ \A g \in Handlers : g # h => handler'[g] = handler[g] /\ copy'[g] = copy[g]
          /\ \A r \in Readers : copy'[r] = copy[r] \/ copy'[r] = 0
        BY <1>0, <1>8 DEF TypeOK, Publish
    <2>5. NoneNewer'
        BY <1>8, <2>1, <2>3, <2>4 DEF UpdateInv, NoneNewer, Publish
    <2>6. ASSUME NEW s \in subscribers' PROVE sent'[s] = version' \/ Coming'
        <3>1. s \in subscribers /\ s \in Conns
            BY <1>8, <2>6 DEF TypeOK, Publish
        <3>2. \/ sent[s] = version
              \/ copy[h] = version
              \/ \E g \in Handlers : /\ g # h
                                     /\ \/ handler[g] \in {"wipe", "read"}
                                        \/ handler[g] = "publish" /\ copy[g] = version
            BY <1>8, <3>1 DEF UpdateInv, NoLostUpdate, Publish
        <3> QED BY <1>8, <2>3, <2>4, <3>1, <3>2 DEF Publish, Coming
    <2>7. NoLostUpdate'
        BY <2>6 DEF NoLostUpdate, Coming
    <2> QED BY <1>8, <2>5, <2>7 DEF UpdateInv, SubscribingUpToDate, Publish
<1>9. CASE UNCHANGED vars
    BY <1>9, NothingMissed DEF vars
<1> QED BY <1>1, <1>2, <1>3, <1>4, <1>5, <1>6, <1>7, <1>8, <1>9 DEF Next

\* main.go 122-138: however changes, reads and messages interleave with each other and with
\* connections that subscribe, every subscriber has the current registry or is about to get it.
THEOREM NoUpdateLost == Spec => []NoLostUpdate
<1>1. Init => UpdateInv
    BY DEF Init, UpdateInv, NoneNewer, SubscribingUpToDate, NoLostUpdate
<1>2. UpdateInv => NoLostUpdate
    BY DEF UpdateInv
<1> QED BY <1>1, <1>2, UpdateInvNext, RegistryTypes, PTL DEF Spec
-----------------------------------------------------------------------------
(* Lost connections lose their services *)

\* What connections do when Environment = {}: one service each, and no loss during a call.
OneEach ==
    \A c \in Conns :
        /\ call[c] # Free => conn[c] = "open" /\ \A t \in Types : made[c][t] = 0
        /\ \A t \in Types : made[c][t] > 0 =>
            made[c][t] = 1 /\ \A u \in Types \ {t} : made[c][u] = 0

GhostInv == KeptUntilClosed /\ OneEach /\ NoGhost

LEMMA GhostInvNext ==
    ASSUME Environment = {}
    PROVE  TypeOK /\ GhostInv /\ [Next]_vars => GhostInv'
<1> SUFFICES ASSUME TypeOK, GhostInv, [Next]_vars PROVE OneEach' /\ NoGhost'
    BY KeptNext DEF GhostInv
<1> USE ConstantsAssumption DEF regVars, netVars, GhostInv
<1>1. ASSUME NEW c \in Conns, Open(c) \/ Close(c) PROVE OneEach' /\ NoGhost'
    <2>1. \A d \in Conns : call[d] # Free => conn'[d] = conn[d]
        BY <1>1 DEF TypeOK, OneEach, Open, Close, Idle
    <2>2. OneEach'
        BY <1>1, <2>1 DEF OneEach, Open, Close
    <2>3. NoGhost'
        BY <1>1 DEF TypeOK, NoGhost, Registered, Open, Close
    <2> QED BY <2>2, <2>3
<1>2. ASSUME NEW c \in Conns, NEW t \in Types, CallRegister(c, t) PROVE OneEach' /\ NoGhost'
    <2>1. conn[c] = "open" /\ \A u \in Types : made[c][u] = 0
        BY <1>2 DEF CallRegister
    <2>2. \A d \in Conns : d # c => call'[d] = call[d]
        BY <1>2 DEF TypeOK, CallRegister
    <2>3. OneEach'
        BY <1>2, <2>1, <2>2 DEF OneEach, CallRegister
    <2> QED BY <1>2, <2>3 DEF NoGhost, Registered, CallRegister
<1>3. ASSUME NEW c \in Conns, Register(c) PROVE OneEach' /\ NoGhost'
    <2>1. PICK t \in Types : t = call[c]
        BY <1>3, RegisterTypes
    <2>2. conn[c] = "open" /\ \A u \in Types : made[c][u] = 0
        BY <1>3 DEF OneEach, Register
    <2>3. /\ made'[c][t] = 1 /\ \A u \in Types \ {t} : made'[c][u] = 0
          /\ \A d \in Conns \ {c}, u \in Types : made'[d][u] = made[d][u]
          /\ \A d \in Conns \ {c}, u \in Types : services'[u][d] = services[u][d]
        <3>1. made'[c][t] = made[c][t] + 1
            BY <1>3, <2>1, RegisterTypes
        <3>2. \A u \in Types, d \in Conns :
                u # t \/ d # c => /\ services'[u][d] = services[u][d]
                                  /\ made'[d][u] = made[d][u]
            BY <1>3, <2>1, RegisterTypes
        <3>3. made[c][t] = 0 /\ \A u \in Types \ {t} : made[c][u] = 0
            BY <2>2
        <3> QED BY <3>1, <3>2, <3>3
    <2>4. call'[c] = Free /\ \A d \in Conns \ {c} : call'[d] = call[d]
        BY <1>3 DEF TypeOK, Register
    <2>5. conn' = conn
        BY <1>3 DEF Register
    <2>6. OneEach'
        BY <2>3, <2>4, <2>5 DEF OneEach
    <2>7. NoGhost'
        BY <2>2, <2>3, <2>5 DEF NoGhost, Registered
    <2> QED BY <2>6, <2>7
<1>4. ASSUME NEW c \in Conns, Unregister(c) PROVE OneEach' /\ NoGhost'
    <2>1. /\ conn[c] = "closing" /\ conn'[c] = "closed"
          /\ \A d \in Conns \ {c} : conn'[d] = conn[d]
          /\ call' = call /\ made' = made
        BY <1>4 DEF TypeOK, Unregister, Removed
    <2>2. OneEach'
        BY <2>1 DEF OneEach
    <2>3. ASSUME \A t \in Types : ~Registered(c, t), UNCHANGED <<regVars, handler>>
          PROVE  NoGhost'
        BY <2>1, <2>3 DEF NoGhost, Registered
    <2>4. ASSUME NEW t \in Types, Registered(c, t), Removed(c, t, c) PROVE NoGhost'
        <3>1. \A u \in Types : services[u][c] = made[c][u]
            BY <2>1 DEF KeptUntilClosed
        <3>2. services[t][c] = 1 /\ \A u \in Types \ {t} : services[u][c] = 0
            BY <2>4, <3>1 DEF OneEach, Registered
        <3>3. \A u \in Types : services'[u][c] = 0
            BY <2>4, <3>2, RemovedTypes
        <3>4. \A u \in Types, d \in Conns : d # c => services'[u][d] = services[u][d]
            BY <2>4, RemovedTypes
        <3> QED BY <2>1, <3>3, <3>4 DEF NoGhost, Registered
    <2> QED BY <1>4, <2>2, <2>3, <2>4 DEF Unregister
<1>5. ASSUME NEW c \in Conns, Subscribe(c) \/ Subscribed(c) \/ Wipe(c) \/ Route(c)
      PROVE  OneEach' /\ NoGhost'
    BY <1>5 DEF OneEach, NoGhost, Registered, Subscribe, Subscribed, Wipe, Route
<1>6. ASSUME NEW h \in Handlers, ReadAll(h) \/ Publish(h) PROVE OneEach' /\ NoGhost'
    BY <1>6 DEF OneEach, NoGhost, Registered, ReadAll, Publish
<1>7. CASE UNCHANGED vars
    BY <1>7 DEF vars, OneEach, NoGhost, Registered
<1> QED BY <1>1, <1>2, <1>3, <1>4, <1>5, <1>6, <1>7 DEF Next

\* registry.go:120: a connection that registers one service, and is lost with no call in flight,
\* leaves none behind once its close callback has returned.
THEOREM NoGhostLeft ==
    ASSUME Environment = {}
    PROVE  Spec => []NoGhost
<1>1. Init => GhostInv
    BY DEF Init, GhostInv, KeptUntilClosed, OneEach, NoGhost, Registered
<1>2. GhostInv => NoGhost
    BY DEF GhostInv
<1> QED BY <1>1, <1>2, GhostInvNext, RegistryTypes, PTL DEF Spec
=============================================================================

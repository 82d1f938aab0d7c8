------------------------- MODULE SessionStoreProofs -------------------------
(***************************************************************************)
(* Proofs about module SessionStore: no session is lost while New does not *)
(* reuse a key in use; and while the calls on a session do not overlap,    *)
(* deletion is final, nothing panics, a wipe is complete, and map and      *)
(* database agree.                                                         *)
(***************************************************************************)
EXTENDS SessionStore, FiniteSetTheorems, TLAPS

\* A worker that is at work has an argument, and no session is deleted more often at a
\* time than the bound allows.
Working == \A w \in Workers : pc[w] # "idle" => arg[w] \in Conns
DeletesBounded == \A s \in Sessions : dbDeletes[s] + mapDeletes[s] <= MaxDeletes

Shape == TypeOK /\ Working /\ DeletesBounded

LEMMA ShapeInit == Init => Shape
<1> SUFFICES ASSUME Init PROVE Shape
    OBVIOUS
<1> USE ConstantsAssumption DEF Init
<1>1. /\ sessions \in [APIKeys -> Sessions \cup {None}]
      /\ connections \in [Sessions -> SUBSET Conns]
      /\ db \in [APIKeys -> Records \cup {None}]
      /\ locks \in [Sessions -> Workers \cup {Free}]
    OBVIOUS
<1>2. /\ pc \in [Workers -> {"idle", "fetched", "change", "save", "copy", "write", "event"}]
      /\ cur \in [Workers -> Sessions \cup {None}]
      /\ \A w \in Workers : pc[w] # "idle" => cur[w] \in Sessions
      /\ op \in [Workers -> {"add", "remove", "unsubscribe", "none"}]
      /\ arg \in [Workers -> Conns \cup {None}]
      /\ seen \in [Workers -> SUBSET Conns]
    OBVIOUS
<1>3. dbDeletes \in [Sessions -> 0..MaxDeletes] /\ mapDeletes \in [Sessions -> 0..MaxDeletes]
    OBVIOUS
<1>4. up \in BOOLEAN /\ panicked \in BOOLEAN /\ crashes \in 0..MaxCrashes
    <2>1. up \in BOOLEAN /\ panicked \in BOOLEAN
        OBVIOUS
    <2>2. crashes \in 0..MaxCrashes
        OBVIOUS
    <2> QED BY <2>1, <2>2
<1>5. /\ wiping \subseteq Sessions /\ wiped \in Sessions \cup {None}
      /\ wipePc \in {"length", "copy", "write"} /\ wipeSeen \subseteq Conns
      /\ expired \subseteq Sessions /\ made \subseteq Sessions
      /\ dismissed \subseteq Sessions /\ deleted \subseteq Sessions
      /\ stale \subseteq Sessions \X Conns
    OBVIOUS
<1>6. Working /\ DeletesBounded
    BY DEF Working, DeletesBounded
<1> HIDE DEF Init
<1>7. TypeOK
    BY <1>1, <1>2, <1>3, <1>4, <1>5, Zenon DEF TypeOK
<1> QED BY <1>6, <1>7 DEF Shape

LEMMA ReturnShape ==
    ASSUME Shape, NEW w \in Workers, Return(w), UNCHANGED <<wiping, wiped, wipePc, wipeSeen>>,
           UNCHANGED <<up, sessions, connections, stale, deleting, histVars>>,
           db' \in [APIKeys -> Records \cup {None}], cur[w] \in Sessions
    PROVE  Shape'
<1> USE ConstantsAssumption DEF Shape, TypeOK, Return, deleting, histVars
<1>1. /\ locks' \in [Sessions -> Workers \cup {Free}]
      /\ pc' \in [Workers -> {"idle", "fetched", "change", "save", "copy", "write", "event"}]
      /\ cur' \in [Workers -> Sessions \cup {None}]
      /\ \A v \in Workers : pc'[v] # "idle" => v # w /\ cur'[v] \in Sessions
    OBVIOUS
<1>2. /\ op' \in [Workers -> {"add", "remove", "unsubscribe", "none"}]
      /\ arg' \in [Workers -> Conns \cup {None}]
      /\ seen' \in [Workers -> SUBSET Conns]
    OBVIOUS
<1>3. TypeOK'
    BY <1>1, <1>2
<1>4. Working' /\ DeletesBounded'
    BY <1>1 DEF Working, DeletesBounded
<1> QED BY <1>3, <1>4

\* What an update writes to the database has the form of a record.
LEMMA DbShape ==
    ASSUME Shape, NEW s \in Sessions, NEW C \in SUBSET Conns
    PROVE  [db EXCEPT ![Key[s]] = [session |-> s, conns |-> C]] \in [APIKeys -> Records \cup {None}]
BY DEF Shape, TypeOK, Records

LEMMA UpdateShape == ASSUME Shape, NEW w \in Workers, Update(w) PROVE Shape'
<1> USE ConstantsAssumption DEF Shape, TypeOK, memVars, wipeVars, deleting, histVars
<1>1. CASE LockSession(w)
    BY <1>1 DEF LockSession, Working, DeletesBounded
<1>2. CASE NotSubscribed(w)
    BY <1>2, ReturnShape DEF NotSubscribed
<1>3. CASE Change(w)
    <2>1. arg[w] \in Conns /\ cur[w] \in Sessions /\ seen[w] \in SUBSET Conns
        BY <1>3 DEF Change, Working
    <2>2. connections' \in [Sessions -> SUBSET Conns]
        <3>1. PICK list \in {seen[w], connections[cur[w]]} : connections' =
                [connections EXCEPT ![cur[w]] =
                   CASE op[w] = "add" /\ arg[w] \notin seen[w] -> list \cup {arg[w]}
                     [] op[w] = "remove" /\ arg[w] \in seen[w] -> seen[w] \ {arg[w]}
                     [] OTHER -> @]
            BY <1>3 DEF Change
        <3> QED BY <2>1, <3>1
    <2>3. stale' \subseteq stale
        BY <1>3 DEF Change
    <2> QED BY <1>3, <2>2, <2>3 DEF Change, Working, DeletesBounded
<1>4. CASE Measure(w)
    BY <1>4 DEF Measure, Working, DeletesBounded
<1>5. CASE Copy(w)
    <2>1. cur[w] \in Sessions
        BY <1>5 DEF Copy
    <2>2. seen' \in [Workers -> SUBSET Conns]
        BY <1>5, <2>1 DEF Copy, Copies
    <2> QED BY <1>5, <2>2 DEF Copy, Working, DeletesBounded
<1>6. CASE Write(w)
    <2>1. cur[w] \in Sessions /\ seen[w] \in SUBSET Conns
        BY <1>6 DEF Write
    <2>2. db' \in [APIKeys -> Records \cup {None}]
        BY <1>6, <2>1, DbShape DEF Write
    <2> QED BY <1>6, <2>1, <2>2 DEF Write, Working, DeletesBounded
<1>7. CASE CopyEvent(w)
    BY <1>7, ReturnShape DEF CopyEvent
<1> QED BY <1>1, <1>2, <1>3, <1>4, <1>5, <1>6, <1>7 DEF Update

LEMMA DeleteShape ==
    ASSUME Shape,
           \/ \E S \in SUBSET Sessions : StartDelete(S)
           \/ \E s \in Sessions : Delete(s)
    PROVE  Shape'
<1> USE ConstantsAssumption DEF Shape, TypeOK, memVars, wipeVars, callVars, histVars
<1>1. ASSUME NEW S \in SUBSET Sessions, StartDelete(S) PROVE Shape'
    <2>1. \A s \in Sessions : /\ dbDeletes'[s] = IF s \in S THEN dbDeletes[s] + 1 ELSE dbDeletes[s]
                              /\ s \in S => dbDeletes[s] + mapDeletes[s] < MaxDeletes
        BY <1>1 DEF StartDelete
    <2>2. mapDeletes' = mapDeletes
        BY <1>1 DEF StartDelete
    <2>3. \A s \in Sessions : dbDeletes'[s] \in 0..MaxDeletes
        BY <2>1
    <2>4. dbDeletes' \in [Sessions -> 0..MaxDeletes]
        BY <1>1, <2>1, <2>3 DEF StartDelete
    <2>5. DeletesBounded'
        BY <2>1, <2>2 DEF DeletesBounded
    <2>6. dismissed' \subseteq Sessions
        BY <1>1 DEF StartDelete
    <2> QED BY <1>1, <2>2, <2>4, <2>5, <2>6 DEF StartDelete, Working
<1>2. ASSUME NEW s \in Sessions, DeleteFromDb(s) PROVE Shape'
    <2>1. db' \in [APIKeys -> Records \cup {None}]
        BY <1>2 DEF DeleteFromDb
    <2>2. /\ dbDeletes[s] > 0 /\ dbDeletes[s] + mapDeletes[s] <= MaxDeletes
          /\ dbDeletes' = [dbDeletes EXCEPT ![s] = dbDeletes[s] - 1]
          /\ mapDeletes' = [mapDeletes EXCEPT ![s] = mapDeletes[s] + 1]
        BY <1>2 DEF DeleteFromDb, DeletesBounded
    <2>3. dbDeletes[s] - 1 \in 0..MaxDeletes /\ mapDeletes[s] + 1 \in 0..MaxDeletes
        BY <2>2
    <2>4. dbDeletes' \in [Sessions -> 0..MaxDeletes] /\ mapDeletes' \in [Sessions -> 0..MaxDeletes]
        BY <2>2, <2>3
    <2>5. DeletesBounded'
        BY <2>2 DEF DeletesBounded
    <2> QED BY <1>2, <2>1, <2>4, <2>5 DEF DeleteFromDb, Working
<1>3. ASSUME NEW s \in Sessions, DeleteFromMap(s) PROVE Shape'
    <2>1. sessions' \in [APIKeys -> Sessions \cup {None}]
        BY <1>3 DEF DeleteFromMap
    <2>2. mapDeletes[s] > 0 /\ mapDeletes' = [mapDeletes EXCEPT ![s] = mapDeletes[s] - 1]
        BY <1>3 DEF DeleteFromMap
    <2>3. mapDeletes' \in [Sessions -> 0..MaxDeletes]
        BY <2>2
    <2>4. DeletesBounded'
        BY <1>3, <2>2 DEF DeletesBounded, DeleteFromMap
    <2> QED BY <1>3, <2>1, <2>3, <2>4 DEF DeleteFromMap, Working
<1> QED BY <1>1, <1>2, <1>3 DEF Delete

LEMMA LiveFacts ==
    ASSUME TypeOK
    PROVE  /\ Live \subseteq Sessions
           /\ \A s \in Live : \E k \in APIKeys : sessions[k] = s
           /\ \A k \in APIKeys : sessions[k] # None => sessions[k] \in Live
BY ConstantsAssumption DEF TypeOK, Live

LEMMA WipeShape == ASSUME Shape, StartWipe \/ DeleteAllConnections PROVE Shape'
<1> USE ConstantsAssumption DEF Shape, TypeOK, memVars, callVars, deleting, histVars
<1>1. CASE StartWipe
    <2>1. wiping' \subseteq Sessions /\ stale' \subseteq Sessions \X Conns
        BY <1>1, LiveFacts DEF StartWipe
    <2> QED BY <1>1, <2>1 DEF StartWipe, Working, DeletesBounded
<1>2. ASSUME NEW s \in Sessions, WipeClear(s) PROVE Shape'
    BY <1>2 DEF WipeClear, Working, DeletesBounded
<1>3. ASSUME NEW s \in Sessions, WipeMeasure(s) PROVE Shape'
    BY <1>3 DEF WipeMeasure, Working, DeletesBounded
<1>4. ASSUME NEW s \in Sessions, WipeCopy(s) PROVE Shape'
    <2>1. wipeSeen' \subseteq Conns
        BY <1>4 DEF WipeCopy, Copies
    <2> QED BY <1>4, <2>1 DEF WipeCopy, Working, DeletesBounded
<1>5. ASSUME NEW s \in Sessions, WipeWrite(s) PROVE Shape'
    <2>1. db' \in [APIKeys -> Records \cup {None}]
        BY <1>5, DbShape DEF WipeWrite
    <2> QED BY <1>5, <2>1 DEF WipeWrite, Working, DeletesBounded
<1> QED BY <1>1, <1>2, <1>3, <1>4, <1>5 DEF DeleteAllConnections

\* What a restart finds of the process that was there before.
LEMMA DieShape ==
    ASSUME Shape, Die, panicked' \in BOOLEAN, crashes' \in 0..MaxCrashes
    PROVE  Shape'
<1> USE ConstantsAssumption DEF Die
<1>1. /\ sessions' \in [APIKeys -> Sessions \cup {None}]
      /\ connections' \in [Sessions -> SUBSET Conns]
      /\ locks' \in [Sessions -> Workers \cup {Free}]
    OBVIOUS
<1>2. /\ pc' \in [Workers -> {"idle", "fetched", "change", "save", "copy", "write", "event"}]
      /\ cur' \in [Workers -> Sessions \cup {None}]
      /\ \A w \in Workers : pc'[w] = "idle"
      /\ op' \in [Workers -> {"add", "remove", "unsubscribe", "none"}]
      /\ arg' \in [Workers -> Conns \cup {None}]
      /\ seen' \in [Workers -> SUBSET Conns]
    OBVIOUS
<1>3. /\ dbDeletes' \in [Sessions -> 0..MaxDeletes] /\ mapDeletes' \in [Sessions -> 0..MaxDeletes]
      /\ DeletesBounded'
    BY DEF DeletesBounded
<1>4. TypeOK'
    BY <1>1, <1>2, <1>3 DEF Shape, TypeOK
<1> QED BY <1>2, <1>3, <1>4 DEF Shape, Working

LEMMA ProcessShape ==
    ASSUME Shape,
           \/ \E s \in Sessions : New(s) \/ Expire(s)
           \/ ClearRotten \/ Crash \/ Panic \/ Start
    PROVE  Shape'
<1> USE ConstantsAssumption DEF memVars, wipeVars, callVars, deleting, histVars
<1>1. ASSUME NEW s \in Sessions, New(s) PROVE Shape'
    <2>1. db' \in [APIKeys -> Records \cup {None}]
        BY <1>1, DbShape DEF New
    <2>2. /\ sessions' \in [APIKeys -> Sessions \cup {None}]
          /\ connections' \in [Sessions -> SUBSET Conns]
          /\ made' \subseteq Sessions /\ dismissed' \subseteq Sessions
        BY <1>1 DEF New, Shape, TypeOK
    <2> QED BY <1>1, <2>1, <2>2 DEF New, Shape, TypeOK, Working, DeletesBounded
<1>2. ASSUME NEW s \in Sessions, Expire(s) PROVE Shape'
    BY <1>2 DEF Expire, Shape, TypeOK, Working, DeletesBounded
<1>3. CASE ClearRotten
    <2>1. /\ sessions' \in [APIKeys -> Sessions \cup {None}]
          /\ db' \in [APIKeys -> Records \cup {None}]
        BY <1>3 DEF ClearRotten, Shape, TypeOK
    <2> QED BY <1>3, <2>1 DEF ClearRotten, Shape, TypeOK, Working, DeletesBounded
<1>4. CASE Crash
    BY <1>4, DieShape DEF Crash, Shape, TypeOK
<1>5. CASE Panic
    BY <1>5, DieShape DEF Panic, Shape, TypeOK
<1>6. CASE Start
    <2>1. sessions' \in [APIKeys -> Sessions \cup {None}]
        BY <1>6 DEF Start, Shape, TypeOK, Records
    <2>2. \A k \in APIKeys : db[k] # None => [db[k] EXCEPT !.conns = {}] \in Records
        BY DEF Shape, TypeOK, Records
    <2>3. db' \in [APIKeys -> Records \cup {None}]
        BY <1>6, <2>2 DEF Start
    <2> QED BY <1>6, <2>1, <2>3 DEF Start, Shape, TypeOK, Working, DeletesBounded
<1> QED BY <1>1, <1>2, <1>3, <1>4, <1>5, <1>6

LEMMA FetchShape ==
    ASSUME Shape, NEW w \in Workers, NEW k \in APIKeys,
           NEW o \in {"add", "remove", "unsubscribe"}, NEW c \in Conns, Fetch(w, k, o, c)
    PROVE  Shape'
BY ConstantsAssumption
DEF Fetch, Shape, TypeOK, Working, DeletesBounded, memVars, wipeVars, deleting, histVars

\* What DeleteByKey and DeleteAllForUser delete are sessions of the map.
LEMMA DeletesLive ==
    ASSUME TypeOK,
           \/ \E k \in APIKeys : DeleteByKey(k)
           \/ \E u \in {User[s] : s \in Sessions} : DeleteAllForUser(u)
    PROVE  \E S \in SUBSET Live : StartDelete(S)
<1>1. ASSUME NEW k \in APIKeys, DeleteByKey(k) PROVE \E S \in SUBSET Live : StartDelete(S)
    <2>1. {sessions[k]} \in SUBSET Live
        BY <1>1, LiveFacts DEF DeleteByKey
    <2> QED BY <1>1, <2>1 DEF DeleteByKey
<1>2. ASSUME NEW u, DeleteAllForUser(u) PROVE \E S \in SUBSET Live : StartDelete(S)
    <2>1. {s \in Live : User[s] = u} \in SUBSET Live
        OBVIOUS
    <2> QED BY <1>2, <2>1 DEF DeleteAllForUser
<1> QED BY <1>1, <1>2

\* The steps of the specification, as the proofs below take them.
LEMMA Steps ==
    ASSUME TypeOK, [Next]_vars
    PROVE  \/ \E w \in Workers : Update(w)
           \/ \E w \in Workers, k \in APIKeys, o \in {"add", "remove", "unsubscribe"}, c \in Conns :
                Fetch(w, k, o, c)
           \/ \E S \in SUBSET Live : StartDelete(S)
           \/ \E s \in Sessions : Delete(s)
           \/ StartWipe \/ DeleteAllConnections
           \/ \E s \in Sessions : New(s) \/ Expire(s)
           \/ ClearRotten \/ Crash \/ Panic \/ Start
           \/ UNCHANGED vars
<1>1. (\E k \in APIKeys : DeleteByKey(k)) \/ (\E u \in {User[s] : s \in Sessions} : DeleteAllForUser(u))
      => \E S \in SUBSET Live : StartDelete(S)
    BY DeletesLive
<1> QED BY <1>1, Zenon DEF Next

LEMMA ShapeNext == Shape /\ [Next]_vars => Shape'
<1> SUFFICES ASSUME Shape, [Next]_vars PROVE Shape'
    OBVIOUS
<1>1. TypeOK /\ Live \subseteq Sessions
    BY LiveFacts DEF Shape
<1>2. ASSUME UNCHANGED vars PROVE Shape'
    BY <1>2
    DEF vars, memVars, wipeVars, callVars, deleting, histVars, Shape, TypeOK, Working, DeletesBounded
<1>3. ASSUME NEW S \in SUBSET Live, StartDelete(S) PROVE Shape'
    BY <1>1, <1>3, DeleteShape
<1> QED BY <1>1, <1>2, <1>3, Steps, UpdateShape, FetchShape, DeleteShape, WipeShape, ProcessShape

\* sessionstore.go, in any environment: all that the map, the database, the calls and the wipe
\* refer to has its type.
THEOREM SessionTypes == Spec => []TypeOK
<1>1. Shape => TypeOK
    BY DEF Shape
<1> QED BY <1>1, ShapeInit, ShapeNext, PTL DEF Spec
-----------------------------------------------------------------------------
(* What each step does to the map, to the database and to who works on a session *)

Saved(s) == \E C \in SUBSET Conns : db' = [db EXCEPT ![Key[s]] = [session |-> s, conns |-> C]]

LEMMA SavedEffect ==
    ASSUME TypeOK, NEW s \in Sessions, Saved(s)
    PROVE  /\ db'[Key[s]] # None /\ db'[Key[s]].session = s
           /\ \A k \in APIKeys : k # Key[s] => db'[k] = db[k]
<1>1. PICK C \in SUBSET Conns : db' = [db EXCEPT ![Key[s]] = [session |-> s, conns |-> C]]
    BY DEF Saved
<1>2. [session |-> s, conns |-> C] # None
    BY ConstantsAssumption
<1> QED BY <1>1, <1>2, ConstantsAssumption DEF TypeOK

LEMMA UpdateEffect ==
    ASSUME TypeOK, NEW w \in Workers, Update(w)
    PROVE  /\ cur[w] \in Sessions /\ Busy(cur[w])
           /\ \A s \in Sessions : Busy(s)' => Busy(s)
           /\ UNCHANGED <<up, sessions, wiping, wiped, deleting, histVars>>
           /\ db' = db \/ Saved(cur[w])
<1> USE DEF TypeOK, Busy, memVars, wipeVars, histVars
<1>1. pc[w] # "idle" /\ cur[w] \in Sessions
    BY DEF Update, LockSession, NotSubscribed, Change, Measure, Copy, Write, CopyEvent
<1>2. \A v \in Workers : pc'[v] # "idle" => pc[v] # "idle" /\ cur'[v] = cur[v]
    BY <1>1 DEF Update, LockSession, NotSubscribed, Change, Measure, Copy, Write, CopyEvent, Return
<1>3. UNCHANGED <<up, sessions, wiping, wiped, deleting, histVars>>
    BY DEF Update, LockSession, NotSubscribed, Change, Measure, Copy, Write, CopyEvent
<1>4. db' = db \/ Saved(cur[w])
    BY DEF Update, LockSession, NotSubscribed, Change, Measure, Copy, Write, CopyEvent, Saved
<1> QED BY <1>1, <1>2, <1>3, <1>4

LEMMA FetchEffect ==
    ASSUME TypeOK, NEW w \in Workers, NEW k \in APIKeys, NEW o, NEW c, Fetch(w, k, o, c)
    PROVE  /\ up /\ sessions[k] # None
           /\ "deleteInFlight" \in Environment \/ ~Deleting(sessions[k])
           /\ \A s \in Sessions : Busy(s)' => Busy(s) \/ s = sessions[k]
           /\ UNCHANGED <<up, memVars, db, wipeVars, deleting, histVars>>
BY DEF Fetch, TypeOK, Busy

LEMMA StartDeleteEffect ==
    ASSUME TypeOK, NEW S \in SUBSET Live, StartDelete(S)
    PROVE  /\ up /\ lockerFree
           /\ "deleteInFlight" \in Environment \/ \A s \in S : ~Busy(s)
           /\ \A s \in Sessions : Deleting(s)' => Deleting(s) \/ s \in S
           /\ \A s \in Sessions : Busy(s)' <=> Busy(s)
           /\ dismissed' = dismissed \cup S
           /\ UNCHANGED <<up, memVars, db, wipeVars, mapDeletes, expired, made, deleted>>
<1>1. \A s \in Sessions : s \notin S => dbDeletes'[s] = dbDeletes[s]
    BY DEF StartDelete, TypeOK
<1>2. \A s \in Sessions : Deleting(s)' => Deleting(s) \/ s \in S
    BY <1>1 DEF StartDelete, Deleting
<1>3. \A s \in Sessions : Busy(s)' <=> Busy(s)
    BY DEF StartDelete, Busy, callVars
<1> QED BY <1>2, <1>3 DEF StartDelete

LEMMA DeleteEffect ==
    ASSUME Shape, NEW s \in Sessions, Delete(s)
    PROVE  /\ Deleting(s)
           /\ \A t \in Sessions : Deleting(t)' => Deleting(t)
           /\ \A t \in Sessions : Busy(t)' <=> Busy(t)
           /\ UNCHANGED <<up, connections, wipeVars, expired, made, dismissed>>
           /\ \/ /\ DeleteFromDb(s) /\ db' = [db EXCEPT ![Key[s]] = None]
                 /\ \A t \in Sessions \ {s} : mapDeletes'[t] = mapDeletes[t]
                 /\ UNCHANGED <<sessions, deleted>>
              \/ /\ DeleteFromMap(s) /\ sessions' = [sessions EXCEPT ![Key[s]] = None]
                 /\ mapDeletes[s] > 0 /\ deleted' = deleted \cup {s}
                 /\ \A t \in Sessions : mapDeletes'[t] <= mapDeletes[t]
                 /\ UNCHANGED db
<1> USE DEF Shape, TypeOK
<1>1. \A t \in Sessions : Busy(t)' <=> Busy(t)
    BY DEF Delete, DeleteFromDb, DeleteFromMap, Busy, callVars
<1>2. CASE DeleteFromDb(s)
    <2>1. /\ dbDeletes[s] > 0
          /\ dbDeletes' = [dbDeletes EXCEPT ![s] = dbDeletes[s] - 1]
          /\ mapDeletes' = [mapDeletes EXCEPT ![s] = mapDeletes[s] + 1]
        BY <1>2 DEF DeleteFromDb
    <2>2. Deleting(s) /\ \A t \in Sessions : Deleting(t)' => Deleting(t)
        BY <2>1 DEF Deleting
    <2>3. \A t \in Sessions \ {s} : mapDeletes'[t] = mapDeletes[t]
        BY <2>1
    <2>4. /\ UNCHANGED <<up, connections, wipeVars, expired, made, dismissed>>
          /\ UNCHANGED <<sessions, deleted>> /\ db' = [db EXCEPT ![Key[s]] = None]
        BY <1>2 DEF DeleteFromDb, memVars, histVars
    <2> QED BY <1>1, <1>2, <2>2, <2>3, <2>4
<1>3. CASE DeleteFromMap(s)
    <2>1. mapDeletes[s] > 0 /\ mapDeletes' = [mapDeletes EXCEPT ![s] = mapDeletes[s] - 1]
        BY <1>3 DEF DeleteFromMap
    <2>2. \A t \in Sessions : mapDeletes'[t] <= mapDeletes[t] /\ mapDeletes'[t] \in Int
        BY <2>1
    <2>3. Deleting(s) /\ \A t \in Sessions : Deleting(t)' => Deleting(t)
        BY <1>3, <2>1, <2>2 DEF Deleting, DeleteFromMap
    <2>4. /\ UNCHANGED <<up, connections, wipeVars, expired, made, dismissed, db>>
          /\ sessions' = [sessions EXCEPT ![Key[s]] = None] /\ deleted' = deleted \cup {s}
        BY <1>3 DEF DeleteFromMap
    <2> QED BY <1>1, <1>3, <2>1, <2>2, <2>3, <2>4
<1> QED BY <1>2, <1>3 DEF Delete

LEMMA StartWipeEffect ==
    ASSUME StartWipe
    PROVE  /\ up /\ lockerFree /\ wiping' = Live
           /\ "wipeInFlight" \in Environment \/ \A s \in Sessions : ~Busy(s) /\ ~Deleting(s)
           /\ \A s \in Sessions : Busy(s)' <=> Busy(s)
           /\ UNCHANGED <<up, memVars, db, wiped, deleting, histVars>>
BY DEF StartWipe, Busy, callVars

LEMMA WipeEffect ==
    ASSUME TypeOK, DeleteAllConnections
    PROVE  /\ wiping' \subseteq wiping /\ (wiped' = None \/ wiped' = wiped \/ wiped' \in wiping)
           /\ \A s \in Sessions : Busy(s)' <=> Busy(s)
           /\ UNCHANGED <<up, sessions, deleting, histVars>>
           /\ db' = db \/ (wiped \in Sessions /\ Saved(wiped))
<1>1. PICK s \in Sessions : WipeClear(s) \/ WipeMeasure(s) \/ WipeCopy(s) \/ WipeWrite(s)
    BY DEF DeleteAllConnections
<1>2. \A t \in Sessions : Busy(t)' <=> Busy(t)
    BY <1>1 DEF WipeClear, WipeMeasure, WipeCopy, WipeWrite, Busy, callVars
<1>3. UNCHANGED <<up, sessions, deleting, histVars>>
    BY <1>1 DEF WipeClear, WipeMeasure, WipeCopy, WipeWrite, memVars
<1>4. /\ wiping' \subseteq wiping /\ (wiped' = None \/ wiped' = wiped \/ wiped' \in wiping)
      /\ db' = db \/ (wiped \in Sessions /\ Saved(wiped))
    BY <1>1 DEF WipeClear, WipeMeasure, WipeCopy, WipeWrite, Saved, TypeOK
<1> QED BY <1>2, <1>3, <1>4

LEMMA DieEffect ==
    ASSUME Die
    PROVE  /\ ~up' /\ wiping' = {} /\ wiped' = None
           /\ \A k \in APIKeys : sessions'[k] = None
           /\ \A s \in Sessions : ~Busy(s)' /\ ~Deleting(s)' /\ mapDeletes'[s] = 0
           /\ UNCHANGED <<db, expired, made, dismissed, deleted>>
BY DEF Die, Busy, Deleting

LEMMA NewEffect ==
    ASSUME TypeOK, NEW s \in Sessions, New(s)
    PROVE  /\ up' /\ s \notin made /\ wiping' = {} /\ wiped' = None
           /\ \/ "newInFlight" \in Environment
              \/ \A t \in Sessions : Key[t] = Key[s] => ~Busy(t) /\ ~Deleting(t)
           /\ sessions' = [sessions EXCEPT ![Key[s]] = s]
           /\ Saved(s)
           /\ made' = made \cup {s}
           /\ dismissed' = dismissed \cup {t \in made : Key[t] = Key[s]}
           /\ \A t \in Sessions : Busy(t)' <=> Busy(t)
           /\ UNCHANGED <<wiping, wiped, deleting, expired, deleted>>
<1>1. Saved(s)
    BY DEF New, Saved
<1>2. \A t \in Sessions : Busy(t)' <=> Busy(t)
    BY DEF New, Busy, callVars
<1> QED BY <1>1, <1>2 DEF New, lockerFree, wipeVars, TypeOK

LEMMA ExpireEffect ==
    ASSUME NEW s \in Sessions, Expire(s)
    PROVE  /\ expired' = expired \cup {s}
           /\ \A t \in Sessions : Busy(t)' <=> Busy(t)
           /\ UNCHANGED <<up, memVars, db, wipeVars, deleting, made, dismissed, deleted>>
BY DEF Expire, Busy, callVars

LEMMA ClearRottenEffect ==
    ASSUME TypeOK, ClearRotten
    PROVE  /\ \A k \in APIKeys :
                \/ sessions'[k] = sessions[k] /\ db'[k] = db[k]
                \/ sessions'[k] = None /\ db'[k] = None /\ sessions[k] \in expired
           /\ \A t \in Sessions : Busy(t)' <=> Busy(t)
           /\ UNCHANGED <<up, wipeVars, deleting, histVars>>
<1>1. \A t \in Sessions : Busy(t)' <=> Busy(t)
    BY DEF ClearRotten, Busy, callVars
<1> QED BY <1>1 DEF ClearRotten

LEMMA StartEffect ==
    ASSUME TypeOK, Start
    PROVE  /\ ~up /\ up'
           /\ \A k \in APIKeys :
                IF db[k] # None /\ db[k].session \notin expired
                THEN /\ sessions'[k] = db[k].session
                     /\ db'[k] # None /\ db'[k].session = db[k].session
                ELSE sessions'[k] = None /\ db'[k] = None
           /\ \A t \in Sessions : Busy(t)' <=> Busy(t)
           /\ UNCHANGED <<wipeVars, deleting, histVars>>
<1>1. \A t \in Sessions : Busy(t)' <=> Busy(t)
    BY DEF Start, Busy, callVars
<1>2. \A k \in APIKeys : db[k] # None => /\ db[k] \in Records /\ db[k] # None
                                         /\ [db[k] EXCEPT !.conns = {}] \in Records
                                         /\ [db[k] EXCEPT !.conns = {}].session = db[k].session
    BY DEF TypeOK, Records
<1>3. None \notin Records
    BY ConstantsAssumption DEF Records
<1>4. \A k \in APIKeys :
        IF db[k] # None /\ db[k].session \notin expired
        THEN /\ sessions'[k] = db[k].session
             /\ db'[k] # None /\ db'[k].session = db[k].session
        ELSE sessions'[k] = None /\ db'[k] = None
    BY <1>2, <1>3 DEF Start
<1> QED BY <1>1, <1>4 DEF Start
-----------------------------------------------------------------------------
(* Every session is where its key says, in any environment *)

MapFiled == \A k \in APIKeys : sessions[k] # None => Key[sessions[k]] = k /\ sessions[k] \in made
DbFiled == \A k \in APIKeys : db[k] # None => Key[db[k].session] = k /\ db[k].session \in made
WorkFiled ==
    /\ \A s \in Sessions : Busy(s) \/ Deleting(s) => s \in made
    /\ wiping \subseteq made
    /\ wiped # None => wiped \in made
    /\ dismissed \subseteq made /\ deleted \subseteq made

Filed == MapFiled /\ DbFiled /\ WorkFiled

LEMMA FiledInit == Init => Filed
<1> SUFFICES ASSUME Init PROVE Filed
    OBVIOUS
<1>1. MapFiled /\ DbFiled
    BY DEF Init, MapFiled, DbFiled
<1>2. \A s \in Sessions : ~Busy(s) /\ ~Deleting(s)
    BY DEF Init, Busy, Deleting
<1>3. WorkFiled
    BY <1>2 DEF Init, WorkFiled
<1> QED BY <1>1, <1>3 DEF Filed

LEMMA SavedFiled ==
    ASSUME TypeOK, DbFiled, NEW s \in Sessions, Saved(s), s \in made', made \subseteq made'
    PROVE  DbFiled'
<1>1. db'[Key[s]] # None /\ db'[Key[s]].session = s /\ \A k \in APIKeys : k # Key[s] => db'[k] = db[k]
    BY SavedEffect
<1>2. ASSUME NEW k \in APIKeys, db'[k] # None PROVE Key[db'[k].session] = k /\ db'[k].session \in made'
    <2>1. CASE k = Key[s]
        BY <1>1, <2>1
    <2>2. CASE k # Key[s]
        <3>1. db'[k] = db[k] /\ db[k] # None
            BY <1>1, <1>2, <2>2
        <3>2. Key[db[k].session] = k /\ db[k].session \in made
            BY <3>1 DEF DbFiled
        <3> QED BY <3>1, <3>2
    <2> QED BY <2>1, <2>2
<1> QED BY <1>2 DEF DbFiled

LEMMA FiledNext == Shape /\ Filed /\ [Next]_vars => Filed'
<1> SUFFICES ASSUME Shape, Filed, [Next]_vars PROVE Filed'
    OBVIOUS
<1> USE DEF Filed
<1>0. TypeOK /\ Live \subseteq Sessions
    BY LiveFacts DEF Shape
<1>1. Live \subseteq made
    BY DEF Live, MapFiled
<1>2. ASSUME NEW w \in Workers, Update(w) PROVE Filed'
    <2>1. /\ cur[w] \in Sessions /\ Busy(cur[w]) /\ \A s \in Sessions : Busy(s)' => Busy(s)
          /\ UNCHANGED <<up, sessions, wiping, wiped, deleting, histVars>>
          /\ db' = db \/ Saved(cur[w])
        BY <1>0, <1>2, UpdateEffect
    <2>2. cur[w] \in made
        BY <2>1 DEF WorkFiled
    <2>3. DbFiled'
        BY <1>0, <2>1, <2>2, SavedFiled DEF DbFiled, histVars
    <2> QED BY <2>1, <2>3 DEF MapFiled, WorkFiled, Deleting, deleting, histVars
<1>3. ASSUME NEW w \in Workers, NEW k \in APIKeys, NEW o, NEW c, Fetch(w, k, o, c) PROVE Filed'
    BY <1>0, <1>3, FetchEffect
    DEF MapFiled, DbFiled, WorkFiled, Deleting, memVars, wipeVars, deleting, histVars
<1>4. ASSUME NEW S \in SUBSET Live, StartDelete(S) PROVE Filed'
    BY <1>0, <1>1, <1>4, StartDeleteEffect DEF MapFiled, DbFiled, WorkFiled, memVars, wipeVars
<1>5. ASSUME NEW s \in Sessions, Delete(s) PROVE Filed'
    <2> USE DEF Shape, TypeOK
    <2>1. /\ Deleting(s) /\ \A t \in Sessions : Deleting(t)' => Deleting(t)
          /\ \A t \in Sessions : Busy(t)' <=> Busy(t)
          /\ UNCHANGED <<up, connections, wipeVars, expired, made, dismissed>>
          /\ deleted' \subseteq deleted \cup {s}
          /\ db' = [db EXCEPT ![Key[s]] = None] \/ UNCHANGED db
          /\ sessions' = [sessions EXCEPT ![Key[s]] = None] \/ UNCHANGED sessions
        BY <1>5, DeleteEffect
    <2>2. \A k \in APIKeys : /\ db'[k] = db[k] \/ db'[k] = None
                             /\ sessions'[k] = sessions[k] \/ sessions'[k] = None
        BY <2>1
    <2>3. s \in made
        BY <2>1 DEF WorkFiled
    <2> QED BY <2>1, <2>2, <2>3 DEF MapFiled, DbFiled, WorkFiled, wipeVars
<1>6. CASE StartWipe
    BY <1>0, <1>1, <1>6, StartWipeEffect
    DEF MapFiled, DbFiled, WorkFiled, memVars, Deleting, deleting, histVars
<1>7. CASE DeleteAllConnections
    <2>1. /\ wiping' \subseteq wiping /\ (wiped' = None \/ wiped' = wiped \/ wiped' \in wiping)
          /\ \A s \in Sessions : Busy(s)' <=> Busy(s)
          /\ UNCHANGED <<up, sessions, deleting, histVars>>
          /\ db' = db \/ (wiped \in Sessions /\ Saved(wiped))
        BY <1>0, <1>7, WipeEffect
    <2>2. wiped \in Sessions => wiped \in made
        BY ConstantsAssumption DEF WorkFiled
    <2>3. DbFiled'
        BY <1>0, <2>1, <2>2, SavedFiled DEF DbFiled, histVars
    <2> QED BY <2>1, <2>3 DEF MapFiled, WorkFiled, Deleting, deleting, histVars
<1>8. ASSUME NEW s \in Sessions, New(s) PROVE Filed'
    <2>1. /\ wiping' = {} /\ wiped' = None /\ sessions' = [sessions EXCEPT ![Key[s]] = s]
          /\ Saved(s) /\ made' = made \cup {s}
          /\ dismissed' = dismissed \cup {t \in made : Key[t] = Key[s]}
          /\ \A t \in Sessions : Busy(t)' <=> Busy(t)
          /\ UNCHANGED <<wiping, wiped, deleting, expired, deleted>>
        BY <1>0, <1>8, NewEffect
    <2>2. DbFiled'
        BY <1>0, <2>1, SavedFiled
    <2>3. \A k \in APIKeys : sessions'[k] = IF k = Key[s] THEN s ELSE sessions[k]
        BY <1>0, <2>1 DEF TypeOK
    <2>4. MapFiled'
        BY <2>1, <2>3 DEF MapFiled
    <2>5. WorkFiled'
        BY <2>1 DEF WorkFiled, Deleting, deleting
    <2> QED BY <2>2, <2>4, <2>5
<1>9. ASSUME NEW s \in Sessions, Expire(s) PROVE Filed'
    BY <1>9, ExpireEffect DEF MapFiled, DbFiled, WorkFiled, Deleting, memVars, wipeVars, deleting
<1>10. CASE ClearRotten
    BY <1>0, <1>10, ClearRottenEffect
    DEF MapFiled, DbFiled, WorkFiled, Deleting, wipeVars, deleting, histVars
<1>11. CASE Die
    BY <1>11, DieEffect DEF MapFiled, DbFiled, WorkFiled
<1>12. CASE Start
    <2>1. /\ \A k \in APIKeys :
                IF db[k] # None /\ db[k].session \notin expired
                THEN /\ sessions'[k] = db[k].session
                     /\ db'[k] # None /\ db'[k].session = db[k].session
                ELSE sessions'[k] = None /\ db'[k] = None
          /\ \A t \in Sessions : Busy(t)' <=> Busy(t)
          /\ UNCHANGED <<wipeVars, deleting, histVars>>
        BY <1>0, <1>12, StartEffect
    <2>2. MapFiled' /\ DbFiled'
        BY <2>1 DEF DbFiled, MapFiled, histVars
    <2> QED BY <2>1, <2>2 DEF WorkFiled, Deleting, wipeVars, deleting, histVars
<1>13. CASE UNCHANGED vars
    BY <1>13
    DEF vars, memVars, wipeVars, callVars, deleting, histVars, MapFiled, DbFiled, WorkFiled, Busy, Deleting
<1> QED BY <1>0, <1>2, <1>3, <1>4, <1>5, <1>6, <1>7, <1>8, <1>9, <1>10, <1>11, <1>12, <1>13, Steps
        DEF Crash, Panic
-----------------------------------------------------------------------------
(* No session is lost *)

Current == made \ (expired \cup dismissed)

\* Of all sessions that have, or had, the key of a current one, only that one is worked on,
\* and nobody deletes it.
SoleUser ==
    \A s \in Current, t \in Sessions : Key[t] = Key[s] =>
        ~Deleting(t) /\ (Busy(t) \/ t \in wiping \/ t = wiped => t = s)

Kept == Shape /\ Filed /\ SoleUser /\ Durable

LEMMA KeptInit == Init => Kept
<1> SUFFICES ASSUME Init PROVE Kept
    OBVIOUS
<1>1. SoleUser /\ Durable
    BY DEF Init, SoleUser, Durable, Current
<1> QED BY <1>1, ShapeInit, FiledInit DEF Kept

\* A write for t leaves the record of a session with another key, and of t itself, in place.
LEMMA SavedDurable ==
    ASSUME TypeOK, Durable, NEW t \in Sessions, Saved(t), NEW s \in Current, Key[t] = Key[s] => t = s
    PROVE  db'[Key[s]] # None /\ db'[Key[s]].session = s
<1>1. s \in Sessions /\ Key[s] \in APIKeys
    BY ConstantsAssumption DEF TypeOK, Current
<1>2. /\ db'[Key[t]] # None /\ db'[Key[t]].session = t
      /\ \A k \in APIKeys : k # Key[t] => db'[k] = db[k]
    BY SavedEffect
<1>3. db[Key[s]] # None /\ db[Key[s]].session = s
    BY DEF Durable, Current
<1> QED BY <1>1, <1>2, <1>3

LEMMA KeptNext ==
    ASSUME "newInFlight" \notin Environment
    PROVE  Kept /\ [Next]_vars => Kept'
<1> SUFFICES ASSUME Kept, [Next]_vars PROVE SoleUser' /\ Durable'
    BY ShapeNext, FiledNext DEF Kept
<1> USE DEF Kept, Filed
<1>0. TypeOK /\ Live \subseteq Sessions /\ made \subseteq Sessions
    BY LiveFacts DEF Shape, TypeOK
<1>1. Current \subseteq Sessions /\ \A s \in Current : Key[s] \in APIKeys
    BY <1>0, ConstantsAssumption DEF Current
<1>2. up => \A s \in Current, t \in Live : Key[t] = Key[s] => t = s
    BY <1>1 DEF Live, MapFiled, Durable, Current
<1>3. ASSUME NEW w \in Workers, Update(w) PROVE SoleUser' /\ Durable'
    <2>1. /\ cur[w] \in Sessions /\ Busy(cur[w]) /\ \A s \in Sessions : Busy(s)' => Busy(s)
          /\ UNCHANGED <<up, sessions, wiping, wiped, deleting, histVars>>
          /\ db' = db \/ Saved(cur[w])
        BY <1>0, <1>3, UpdateEffect
    <2>2. \A s \in Current : Key[cur[w]] = Key[s] => cur[w] = s
        BY <2>1 DEF SoleUser
    <2>3. \A s \in Current : db'[Key[s]] # None /\ db'[Key[s]].session = s
        BY <1>0, <2>1, <2>2, SavedDurable DEF Durable, Current
    <2> QED BY <2>1, <2>3 DEF SoleUser, Durable, Current, Deleting, deleting, histVars
<1>4. ASSUME NEW w \in Workers, NEW k \in APIKeys, NEW o, NEW c, Fetch(w, k, o, c)
      PROVE  SoleUser' /\ Durable'
    <2>1. /\ up /\ sessions[k] # None
          /\ \A s \in Sessions : Busy(s)' => Busy(s) \/ s = sessions[k]
          /\ UNCHANGED <<up, memVars, db, wipeVars, deleting, histVars>>
        BY <1>0, <1>4, FetchEffect
    <2>2. sessions[k] \in Live
        BY <1>0, <2>1, LiveFacts
    <2>3. SoleUser'
        BY <1>2, <2>1, <2>2 DEF SoleUser, Current, Deleting, memVars, wipeVars, deleting, histVars
    <2> QED BY <2>1, <2>3 DEF Durable, memVars, histVars
<1>5. ASSUME NEW S \in SUBSET Live, StartDelete(S) PROVE SoleUser' /\ Durable'
    <2>1. /\ up /\ \A s \in Sessions : Deleting(s)' => Deleting(s) \/ s \in S
          /\ \A s \in Sessions : Busy(s)' <=> Busy(s)
          /\ dismissed' = dismissed \cup S
          /\ UNCHANGED <<up, memVars, db, wipeVars, mapDeletes, expired, made, deleted>>
        BY <1>0, <1>5, StartDeleteEffect
    <2>2. Current' = Current \ S
        BY <2>1 DEF Current
    <2>3. SoleUser'
        BY <1>2, <2>1, <2>2 DEF SoleUser, memVars, wipeVars
    <2> QED BY <2>1, <2>3 DEF Durable, memVars
<1>6. ASSUME NEW s \in Sessions, Delete(s) PROVE SoleUser' /\ Durable'
    <2> USE DEF Shape, TypeOK
    <2>1. /\ Deleting(s) /\ \A t \in Sessions : Deleting(t)' => Deleting(t)
          /\ \A t \in Sessions : Busy(t)' <=> Busy(t)
          /\ UNCHANGED <<up, connections, wipeVars, expired, made, dismissed>>
          /\ db' = [db EXCEPT ![Key[s]] = None] \/ UNCHANGED db
          /\ sessions' = [sessions EXCEPT ![Key[s]] = None] \/ UNCHANGED sessions
        BY <1>6, DeleteEffect
    <2>2. \A k \in APIKeys : k # Key[s] => db'[k] = db[k] /\ sessions'[k] = sessions[k]
        BY <2>1
    <2>3. \A t \in Current : Key[t] # Key[s]
        BY <2>1 DEF SoleUser
    <2>4. Durable'
        BY <1>1, <2>1, <2>2, <2>3 DEF Durable, Current
    <2> QED BY <2>1, <2>4 DEF SoleUser, Current, wipeVars
<1>7. CASE StartWipe
    <2>1. /\ up /\ wiping' = Live /\ lockerFree
          /\ \A s \in Sessions : Busy(s)' <=> Busy(s)
          /\ UNCHANGED <<up, memVars, db, wiped, deleting, histVars>>
        BY <1>7, StartWipeEffect
    <2>2. SoleUser'
        BY <1>2, <2>1 DEF SoleUser, Current, Deleting, deleting, histVars
    <2> QED BY <2>1, <2>2 DEF Durable, memVars, histVars
<1>8. CASE DeleteAllConnections
    <2>1. /\ wiping' \subseteq wiping /\ (wiped' = None \/ wiped' = wiped \/ wiped' \in wiping)
          /\ \A s \in Sessions : Busy(s)' <=> Busy(s)
          /\ UNCHANGED <<up, sessions, deleting, histVars>>
          /\ db' = db \/ (wiped \in Sessions /\ Saved(wiped))
        BY <1>0, <1>8, WipeEffect
    <2>2. \A s \in Current : wiped \in Sessions /\ Key[wiped] = Key[s] => wiped = s
        BY DEF SoleUser
    <2>3. \A s \in Current : db'[Key[s]] # None /\ db'[Key[s]].session = s
        BY <1>0, <2>1, <2>2, SavedDurable DEF Durable, Current
    <2>4. None \notin Sessions
        BY ConstantsAssumption
    <2> QED BY <2>1, <2>3, <2>4 DEF SoleUser, Durable, Current, Deleting, deleting, histVars
<1>9. ASSUME NEW s \in Sessions, New(s) PROVE SoleUser' /\ Durable'
    <2>1. /\ s \notin made /\ wiping' = {} /\ wiped' = None
          /\ \A t \in Sessions : Key[t] = Key[s] => ~Busy(t) /\ ~Deleting(t)
          /\ sessions' = [sessions EXCEPT ![Key[s]] = s]
          /\ Saved(s) /\ made' = made \cup {s}
          /\ dismissed' = dismissed \cup {t \in made : Key[t] = Key[s]}
          /\ \A t \in Sessions : Busy(t)' <=> Busy(t)
          /\ UNCHANGED <<wiping, wiped, deleting, expired, deleted>>
        BY <1>0, <1>9, NewEffect
    <2>2. up /\ up'
        BY <1>9 DEF New
    <2>3. \A t \in Current' : t = s \/ (t \in Current /\ Key[t] # Key[s])
        BY <2>1 DEF Current
    <2>4. \A t \in Sessions : Deleting(t)' <=> Deleting(t)
        BY <2>1 DEF Deleting, deleting
    <2>5. None \notin Sessions
        BY ConstantsAssumption
    <2>6. SoleUser'
        BY <1>0, <2>1, <2>3, <2>4, <2>5 DEF SoleUser
    <2>7. \A k \in APIKeys : sessions'[k] = IF k = Key[s] THEN s ELSE sessions[k]
        BY <1>0, <2>1 DEF TypeOK
    <2>8. /\ db'[Key[s]] # None /\ db'[Key[s]].session = s /\ Key[s] \in APIKeys
          /\ \A k \in APIKeys : k # Key[s] => db'[k] = db[k]
        BY <1>0, <2>1, SavedEffect, ConstantsAssumption
    <2>9. \A t \in Current' : /\ db'[Key[t]] # None /\ db'[Key[t]].session = t
                              /\ sessions'[Key[t]] = t
        BY <1>1, <2>2, <2>3, <2>7, <2>8 DEF Durable, Current
    <2> QED BY <2>6, <2>9 DEF Durable, Current
<1>10. ASSUME NEW s \in Sessions, Expire(s) PROVE SoleUser' /\ Durable'
    BY <1>10, ExpireEffect DEF SoleUser, Durable, Current, Deleting, memVars, wipeVars, deleting
<1>11. CASE ClearRotten
    <2>1. /\ \A k \in APIKeys :
                \/ sessions'[k] = sessions[k] /\ db'[k] = db[k]
                \/ sessions'[k] = None /\ db'[k] = None /\ sessions[k] \in expired
          /\ \A t \in Sessions : Busy(t)' <=> Busy(t)
          /\ UNCHANGED <<up, wipeVars, deleting, histVars>>
        BY <1>0, <1>11, ClearRottenEffect
    <2>2. up
        BY <1>11 DEF ClearRotten
    <2>3. Durable'
        BY <1>1, <2>1, <2>2 DEF Durable, Current, histVars
    <2> QED BY <2>1, <2>3 DEF SoleUser, Current, Deleting, wipeVars, deleting, histVars
<1>12. CASE Die
    <2>1. None \notin Sessions
        BY ConstantsAssumption
    <2> QED BY <1>12, <2>1, DieEffect DEF SoleUser, Durable, Current
<1>13. CASE Start
    <2>1. /\ \A k \in APIKeys :
                IF db[k] # None /\ db[k].session \notin expired
                THEN /\ sessions'[k] = db[k].session
                     /\ db'[k] # None /\ db'[k].session = db[k].session
                ELSE sessions'[k] = None /\ db'[k] = None
          /\ \A t \in Sessions : Busy(t)' <=> Busy(t)
          /\ UNCHANGED <<wipeVars, deleting, histVars>>
        BY <1>0, <1>13, StartEffect
    <2>2. Durable'
        BY <1>1, <2>1 DEF Durable, Current, histVars
    <2> QED BY <2>1, <2>2 DEF SoleUser, Current, Deleting, wipeVars, deleting, histVars
<1>14. CASE UNCHANGED vars
    BY <1>14
    DEF vars, memVars, wipeVars, callVars, deleting, histVars, SoleUser, Durable, Current, Busy, Deleting
<1> QED BY <1>0, <1>3, <1>4, <1>5, <1>6, <1>7, <1>8, <1>9, <1>10, <1>11, <1>12, <1>13, <1>14, Steps
        DEF Crash, Panic

\* sessionstore.go: a session New has returned is neither lost from the database nor from the
\* map, through crashes, panics, wipes and overlapping updates and deletions of other sessions,
\* as long as New does not reuse the key of a session somebody works on.
THEOREM NoSessionLost ==
    ASSUME "newInFlight" \notin Environment
    PROVE  Spec => []Durable
<1>1. Kept => Durable
    BY DEF Kept
<1>2. Kept /\ [Next]_vars => Kept'
    BY KeptNext
<1> QED BY <1>1, <1>2, KeptInit, PTL DEF Spec
-----------------------------------------------------------------------------
(* A deletion is final *)

NotInDb(s) == \A k \in APIKeys : db[k] # None => db[k].session # s

\* Nobody works on a session that is being deleted; its record is gone before the map's entry.
Apart ==
    \A s \in Sessions : Deleting(s) =>
        /\ ~Busy(s) /\ s \notin wiping /\ wiped # s
        /\ mapDeletes[s] > 0 => NotInDb(s)

\* Nobody works on a deleted session, so nobody can bring it back.
GoneForGood ==
    \A s \in deleted : ~Busy(s) /\ s \notin wiping /\ wiped # s /\ s \notin Live /\ NotInDb(s)

Final == Shape /\ Filed /\ Apart /\ GoneForGood

LEMMA FinalInit == Init => Final
<1> SUFFICES ASSUME Init PROVE Final
    OBVIOUS
<1>1. \A s \in Sessions : ~Deleting(s)
    BY DEF Init, Deleting
<1>2. Apart /\ GoneForGood
    BY <1>1 DEF Init, Apart, GoneForGood
<1> QED BY <1>2, ShapeInit, FiledInit DEF Final

LEMMA SavedKeeps ==
    ASSUME TypeOK, NEW s \in Sessions, Saved(s), NEW t, t # s, NotInDb(t)
    PROVE  NotInDb(t)'
BY SavedEffect DEF NotInDb

LEMMA FinalNext ==
    ASSUME Environment = {}
    PROVE  Final /\ [Next]_vars => Final'
<1> SUFFICES ASSUME Final, [Next]_vars PROVE Apart' /\ GoneForGood'
    BY ShapeNext, FiledNext DEF Final
<1> USE DEF Final, Filed
<1>0. TypeOK /\ Live \subseteq Sessions /\ deleted \subseteq Sessions
    BY LiveFacts DEF Shape, TypeOK
<1>1. \A s \in deleted : \A k \in APIKeys : sessions[k] # s
    BY <1>0, ConstantsAssumption DEF GoneForGood, Live
<1>2. ASSUME NEW w \in Workers, Update(w) PROVE Apart' /\ GoneForGood'
    <2>1. /\ cur[w] \in Sessions /\ Busy(cur[w]) /\ \A s \in Sessions : Busy(s)' => Busy(s)
          /\ UNCHANGED <<up, sessions, wiping, wiped, deleting, histVars>>
          /\ db' = db \/ Saved(cur[w])
        BY <1>0, <1>2, UpdateEffect
    <2>2. \A s \in Sessions : s # cur[w] /\ NotInDb(s) => NotInDb(s)'
        BY <1>0, <2>1, SavedKeeps DEF NotInDb
    <2> QED BY <1>0, <2>1, <2>2 DEF Apart, GoneForGood, Deleting, Live, deleting, histVars
<1>3. ASSUME NEW w \in Workers, NEW k \in APIKeys, NEW o, NEW c, Fetch(w, k, o, c)
      PROVE  Apart' /\ GoneForGood'
    <2>1. /\ sessions[k] # None /\ ~Deleting(sessions[k])
          /\ \A s \in Sessions : Busy(s)' => Busy(s) \/ s = sessions[k]
          /\ UNCHANGED <<up, memVars, db, wipeVars, deleting, histVars>>
        BY <1>0, <1>3, FetchEffect
    <2>2. sessions[k] \notin deleted
        BY <1>1
    <2> QED BY <1>0, <2>1, <2>2
        DEF Apart, GoneForGood, Deleting, Live, NotInDb, memVars, wipeVars, deleting, histVars
<1>4. ASSUME NEW S \in SUBSET Live, StartDelete(S) PROVE Apart' /\ GoneForGood'
    <2>1. /\ up /\ lockerFree /\ \A s \in S : ~Busy(s)
          /\ \A s \in Sessions : Deleting(s)' => Deleting(s) \/ s \in S
          /\ \A s \in Sessions : Busy(s)' <=> Busy(s)
          /\ UNCHANGED <<up, memVars, db, wipeVars, mapDeletes, expired, made, deleted>>
        BY <1>0, <1>4, StartDeleteEffect
    <2>2. \A s \in Sessions : mapDeletes[s] > 0 => Deleting(s)
        BY <1>0 DEF TypeOK, Deleting
    <2>3. None \notin Sessions
        BY ConstantsAssumption
    <2>4. Apart'
        BY <2>1, <2>2, <2>3 DEF Apart, NotInDb, lockerFree, memVars, wipeVars
    <2> QED BY <1>0, <2>1, <2>4 DEF GoneForGood, Live, NotInDb, memVars, wipeVars
<1>5. ASSUME NEW s \in Sessions, Delete(s) PROVE Apart' /\ GoneForGood'
    <2>1. /\ Deleting(s) /\ \A t \in Sessions : Deleting(t)' => Deleting(t)
          /\ \A t \in Sessions : Busy(t)' <=> Busy(t)
          /\ UNCHANGED <<up, connections, wipeVars, expired, made, dismissed>>
        BY <1>5, DeleteEffect
    <2>2. CASE /\ DeleteFromDb(s) /\ db' = [db EXCEPT ![Key[s]] = None]
               /\ \A t \in Sessions \ {s} : mapDeletes'[t] = mapDeletes[t]
               /\ UNCHANGED <<sessions, deleted>>
        <3>1. \A k \in APIKeys : db'[k] = IF k = Key[s] THEN None ELSE db[k]
            BY <1>0, <2>2 DEF TypeOK
        <3>2. NotInDb(s)' /\ \A t \in Sessions : NotInDb(t) => NotInDb(t)'
            BY <3>1 DEF NotInDb, DbFiled
        <3>3. Apart'
            BY <2>1, <2>2, <3>2 DEF Apart, wipeVars
        <3> QED BY <1>0, <2>1, <2>2, <3>2, <3>3 DEF GoneForGood, Live, wipeVars
    <2>3. CASE /\ DeleteFromMap(s) /\ sessions' = [sessions EXCEPT ![Key[s]] = None]
               /\ mapDeletes[s] > 0 /\ deleted' = deleted \cup {s}
               /\ \A t \in Sessions : mapDeletes'[t] <= mapDeletes[t]
               /\ UNCHANGED db
        <3>1. \A k \in APIKeys : sessions'[k] = IF k = Key[s] THEN None ELSE sessions[k]
            BY <1>0, <2>3 DEF TypeOK
        <3>2. Live' \subseteq Live \ {s}
            BY <3>1 DEF Live, MapFiled
        <3>3. \A t \in Sessions : mapDeletes'[t] > 0 => mapDeletes[t] > 0
            <4>1. \A t \in Sessions : mapDeletes[t] \in Int /\ mapDeletes'[t] \in Int
                BY <1>0, ShapeNext DEF Shape, TypeOK
            <4> QED BY <2>3, <4>1
        <3>4. \A t : NotInDb(t)' <=> NotInDb(t)
            BY <2>3 DEF NotInDb
        <3>5. Apart'
            BY <2>1, <3>3, <3>4 DEF Apart, wipeVars
        <3>6. ~Busy(s) /\ s \notin wiping /\ wiped # s /\ NotInDb(s)
            BY <2>1, <2>3 DEF Apart
        <3> QED BY <1>0, <2>1, <2>3, <3>2, <3>4, <3>5, <3>6 DEF GoneForGood, wipeVars
    <2> QED BY <1>5, <2>2, <2>3, DeleteEffect
<1>6. CASE StartWipe
    <2>1. /\ wiping' = Live /\ \A s \in Sessions : ~Busy(s) /\ ~Deleting(s)
          /\ \A s \in Sessions : Busy(s)' <=> Busy(s)
          /\ UNCHANGED <<up, memVars, db, wiped, deleting, histVars>>
        BY <1>6, StartWipeEffect
    <2> QED BY <1>0, <2>1 DEF Apart, GoneForGood, Deleting, Live, NotInDb, memVars, deleting, histVars
<1>7. CASE DeleteAllConnections
    <2>1. /\ wiping' \subseteq wiping /\ (wiped' = None \/ wiped' = wiped \/ wiped' \in wiping)
          /\ \A s \in Sessions : Busy(s)' <=> Busy(s)
          /\ UNCHANGED <<up, sessions, deleting, histVars>>
          /\ db' = db \/ (wiped \in Sessions /\ Saved(wiped))
        BY <1>0, <1>7, WipeEffect
    <2>2. \A s \in Sessions : s # wiped /\ NotInDb(s) => NotInDb(s)'
        BY <1>0, <2>1, SavedKeeps DEF NotInDb
    <2>3. None \notin Sessions
        BY ConstantsAssumption
    <2> QED BY <1>0, <2>1, <2>2, <2>3 DEF Apart, GoneForGood, Deleting, Live, deleting, histVars
<1>8. ASSUME NEW s \in Sessions, New(s) PROVE Apart' /\ GoneForGood'
    <2>1. /\ s \notin made /\ wiping' = {} /\ wiped' = None
          /\ sessions' = [sessions EXCEPT ![Key[s]] = s] /\ Saved(s)
          /\ \A t \in Sessions : Busy(t)' <=> Busy(t)
          /\ UNCHANGED <<wiping, wiped, deleting, expired, deleted>>
        BY <1>0, <1>8, NewEffect
    <2>2. s \notin deleted /\ ~Deleting(s)
        BY <2>1 DEF WorkFiled
    <2>3. \A t \in Sessions : t # s /\ NotInDb(t) => NotInDb(t)'
        BY <1>0, <2>1, SavedKeeps
    <2>4. \A k \in APIKeys : sessions'[k] = IF k = Key[s] THEN s ELSE sessions[k]
        BY <1>0, <2>1 DEF TypeOK
    <2>5. Live' \subseteq Live \cup {s}
        BY <2>4 DEF Live
    <2> QED BY <1>0, <2>1, <2>2, <2>3, <2>5 DEF Apart, GoneForGood, Deleting, deleting
<1>9. ASSUME NEW s \in Sessions, Expire(s) PROVE Apart' /\ GoneForGood'
    BY <1>0, <1>9, ExpireEffect
    DEF Apart, GoneForGood, Deleting, Live, NotInDb, memVars, wipeVars, deleting
<1>10. CASE ClearRotten
    <2>1. /\ \A k \in APIKeys :
                \/ sessions'[k] = sessions[k] /\ db'[k] = db[k]
                \/ sessions'[k] = None /\ db'[k] = None /\ sessions[k] \in expired
          /\ \A t \in Sessions : Busy(t)' <=> Busy(t)
          /\ UNCHANGED <<up, wipeVars, deleting, histVars>>
        BY <1>0, <1>10, ClearRottenEffect
    <2>2. Live' \subseteq Live /\ \A t : NotInDb(t) => NotInDb(t)'
        BY <2>1 DEF Live, NotInDb
    <2> QED BY <1>0, <2>1, <2>2 DEF Apart, GoneForGood, Deleting, wipeVars, deleting, histVars
<1>11. CASE Die
    <2>1. Live' = {}
        BY <1>11, DieEffect DEF Live
    <2>2. None \notin Sessions
        BY ConstantsAssumption
    <2> QED BY <1>0, <1>11, <2>1, <2>2, DieEffect DEF Apart, GoneForGood, NotInDb
<1>12. CASE Start
    <2>1. /\ \A k \in APIKeys :
                IF db[k] # None /\ db[k].session \notin expired
                THEN /\ sessions'[k] = db[k].session
                     /\ db'[k] # None /\ db'[k].session = db[k].session
                ELSE sessions'[k] = None /\ db'[k] = None
          /\ \A t \in Sessions : Busy(t)' <=> Busy(t)
          /\ UNCHANGED <<wipeVars, deleting, histVars>>
        BY <1>0, <1>12, StartEffect
    <2>2. \A t : NotInDb(t) => NotInDb(t)' /\ t \notin Live'
        BY <2>1 DEF Live, NotInDb
    <2> QED BY <1>0, <2>1, <2>2 DEF Apart, GoneForGood, Deleting, wipeVars, deleting, histVars
<1>13. CASE UNCHANGED vars
    BY <1>13
    DEF vars, memVars, wipeVars, callVars, deleting, histVars, Apart, GoneForGood, Busy, Deleting,
        Live, NotInDb
<1> QED BY <1>0, <1>2, <1>3, <1>4, <1>5, <1>6, <1>7, <1>8, <1>9, <1>10, <1>11, <1>12, <1>13, Steps
        DEF Crash, Panic

\* "Delete removes Session from store" (sessionstore.go:251): when calls on one session do not
\* overlap, a deleted session is never in the map or the database again, after restarts either.
THEOREM DeletionIsFinal ==
    ASSUME Environment = {}
    PROVE  Spec => []DeletedStaysDeleted
<1>1. Final => DeletedStaysDeleted
    BY DEF Final, GoneForGood, DeletedStaysDeleted, NotInDb
<1>2. Final /\ [Next]_vars => Final'
    BY FinalNext
<1> QED BY <1>1, <1>2, FinalInit, PTL DEF Spec
-----------------------------------------------------------------------------
(* Nobody finds a list shorter than it was, and a wipe wipes *)

\* Past s.Lock() a worker has the session's lock.
Locked == \A w \in Workers : pc[w] \notin {"idle", "fetched"} => locks[cur[w]] = w

\* Nobody works on sessions while a wipe does.
WipeAlone == ~lockerFree => \A s \in Sessions : ~Busy(s) /\ ~Deleting(s)

\* What a worker, or the wipe, has read of a list is what the list is.
SeenFresh == \A w \in Workers : pc[w] \in {"change", "copy", "write", "event"} => seen[w] = connections[cur[w]]
WipeFresh == wiped # None /\ wipePc \in {"copy", "write"} => wipeSeen = connections[wiped]

\* A connection is gone from the list once the wipe is through with the session.
StaleGone == \A s \in Sessions, c \in Conns : s \notin wiping /\ <<s, c>> \in stale => c \notin connections[s]

Sound ==
    /\ Shape /\ Filed
    /\ Locked /\ WipeAlone /\ SeenFresh /\ WipeFresh /\ StaleGone /\ NoPanic

LEMMA SoundInit == Init => Sound
<1> SUFFICES ASSUME Init PROVE Sound
    OBVIOUS
<1>1. Locked /\ WipeAlone /\ SeenFresh /\ WipeFresh /\ StaleGone /\ NoPanic
    BY DEF Init, Locked, WipeAlone, SeenFresh, WipeFresh, StaleGone, NoPanic, lockerFree
<1> QED BY <1>1, ShapeInit, FiledInit DEF Sound

\* As many connections as the list has are all of them.
LEMMA CopyIsWhole ==
    ASSUME TypeOK, NEW s \in Sessions
    PROVE  Copies(s, connections[s]) = {connections[s]}
<1>1. connections[s] \subseteq Conns /\ IsFiniteSet(Conns)
    BY ConstantsAssumption DEF TypeOK
<1>2. IsFiniteSet(connections[s])
    BY <1>1, FS_Subset
<1>3. \A C \in SUBSET connections[s] : Cardinality(C) = Cardinality(connections[s]) => C = connections[s]
    BY <1>2, FS_Subset
<1> QED BY <1>3 DEF Copies

\* No two workers are past s.Lock() of one session.
LEMMA OneWriter ==
    ASSUME Locked, NEW v \in Workers, NEW w \in Workers, cur[v] = cur[w],
           pc[v] \notin {"idle", "fetched"}, pc[w] \notin {"idle", "fetched"}
    PROVE  v = w
BY DEF Locked

\* While somebody works on a session there is no wipe.
LEMMA BusyMeansNoWipe ==
    ASSUME TypeOK, WipeAlone, NEW w \in Workers, pc[w] # "idle"
    PROVE  cur[w] \in Sessions /\ Busy(cur[w]) /\ wiping = {} /\ wiped = None
BY DEF TypeOK, WipeAlone, Busy, lockerFree

LEMMA UpdateSound == ASSUME Sound, NEW w \in Workers, Update(w) PROVE Sound'
<1> SUFFICES Locked' /\ WipeAlone' /\ SeenFresh' /\ WipeFresh' /\ StaleGone' /\ NoPanic'
    BY Steps, ShapeNext, FiledNext DEF Sound, Next
<1> USE DEF Sound, Shape
<1>1. pc[w] # "idle"
    BY DEF Update, LockSession, NotSubscribed, Change, Measure, Copy, Write, CopyEvent
<1>2. cur[w] \in Sessions /\ wiping = {} /\ wiped = None
    BY <1>1, BusyMeansNoWipe
<1>3. WipeAlone' /\ WipeFresh' /\ NoPanic' /\ wiping' = {}
    BY <1>2 DEF Update, LockSession, NotSubscribed, Change, Measure, Copy, Write, CopyEvent, WipeAlone, WipeFresh,
                NoPanic, lockerFree, memVars, wipeVars, histVars
<1>4. \A v \in Workers : v # w =>
        /\ pc'[v] = pc[v] /\ cur'[v] = cur[v] /\ seen'[v] = seen[v]
        /\ pc[v] \notin {"idle", "fetched"} => locks'[cur[v]] = locks[cur[v]]
    <2>1. ASSUME NEW v \in Workers, v # w, pc[v] \notin {"idle", "fetched"}
          PROVE  pc[w] # "fetched" => cur[v] # cur[w]
        BY <1>1, <2>1, OneWriter
    <2>2. \A v \in Workers : pc[v] \notin {"idle", "fetched"} => locks[cur[v]] = v /\ cur[v] \in Sessions
        BY DEF Locked, TypeOK
    <2> USE ConstantsAssumption DEF TypeOK
    <2>3. CASE LockSession(w)
        BY <2>2, <2>3 DEF LockSession
    <2>4. CASE NotSubscribed(w)
        BY <1>2, <2>1, <2>4 DEF NotSubscribed, Return
    <2>5. CASE Change(w) \/ Measure(w) \/ Copy(w) \/ Write(w)
        BY <2>5 DEF Change, Measure, Copy, Write
    <2>6. CASE CopyEvent(w)
        BY <1>2, <2>1, <2>6 DEF CopyEvent, Return
    <2> QED BY <2>3, <2>4, <2>5, <2>6 DEF Update
<1>5. \A v \in Workers : v # w /\ pc[v] \notin {"idle", "fetched"} => connections'[cur[v]] = connections[cur[v]]
    <2>1. CASE Change(w)
        <3>1. \A v \in Workers : v # w /\ pc[v] \notin {"idle", "fetched"} => cur[v] # cur[w] /\ cur[v] \in Sessions
            BY <1>1, <2>1, OneWriter DEF Change, TypeOK
        <3>2. \A s \in Sessions : s # cur[w] => connections'[s] = connections[s]
            BY <1>2, <2>1 DEF Change, TypeOK
        <3> QED BY <3>1, <3>2
    <2>2. CASE ~Change(w)
        BY <2>2 DEF Update, LockSession, NotSubscribed, Measure, Copy, Write, CopyEvent, memVars
    <2> QED BY <2>1, <2>2
<1>6. /\ pc'[w] \notin {"idle", "fetched"} => locks'[cur'[w]] = w
      /\ pc'[w] \in {"change", "copy", "write", "event"} => seen'[w] = connections'[cur'[w]]
    <2> USE <1>2 DEF TypeOK
    <2>1. CASE LockSession(w)
        BY <2>1 DEF LockSession, memVars
    <2>2. CASE NotSubscribed(w) \/ CopyEvent(w)
        BY <2>2 DEF NotSubscribed, CopyEvent, Return
    <2>3. CASE Change(w)
        BY <2>3 DEF Change, Locked
    <2>4. CASE Measure(w)
        BY <2>4 DEF Measure, Locked, memVars
    <2>5. CASE Copy(w)
        <3>1. seen[w] = connections[cur[w]]
            BY <2>5 DEF Copy, SeenFresh
        <3>2. seen'[w] = connections[cur[w]]
            BY <2>5, <3>1, CopyIsWhole DEF Copy
        <3> QED BY <2>5, <3>2 DEF Copy, Locked, memVars
    <2>6. CASE Write(w)
        BY <2>6 DEF Write, Locked, memVars
    <2> QED BY <2>1, <2>2, <2>3, <2>4, <2>5, <2>6 DEF Update
<1>7. Locked' /\ SeenFresh'
    BY <1>4, <1>5, <1>6 DEF Locked, SeenFresh
<1>8. StaleGone'
    <2>1. CASE Change(w)
        <3>1. seen[w] = connections[cur[w]]
            BY <2>1 DEF Change, SeenFresh
        <3>2. connections'[cur[w]] \subseteq connections[cur[w]]
                \/ (op[w] = "add" /\ connections'[cur[w]] = connections[cur[w]] \cup {arg[w]})
            BY <1>2, <2>1, <3>1 DEF Change, TypeOK
        <3>3. \A s \in Sessions : s # cur[w] => connections'[s] = connections[s]
            BY <1>2, <2>1 DEF Change, TypeOK
        <3>4. /\ stale' \subseteq stale
              /\ op[w] = "add" => <<cur[w], arg[w]>> \notin stale'
            BY <2>1 DEF Change
        <3> QED BY <1>2, <3>2, <3>3, <3>4 DEF StaleGone
    <2>2. CASE ~Change(w)
        BY <1>2, <2>2 DEF Update, LockSession, NotSubscribed, Measure, Copy, Write, CopyEvent, memVars, wipeVars, StaleGone
    <2> QED BY <2>1, <2>2
<1> QED BY <1>3, <1>7, <1>8

LEMMA WipeSound ==
    ASSUME Environment = {}, Sound, StartWipe \/ DeleteAllConnections
    PROVE  Sound'
<1> SUFFICES Locked' /\ WipeAlone' /\ SeenFresh' /\ WipeFresh' /\ StaleGone' /\ NoPanic'
    BY Steps, ShapeNext, FiledNext DEF Sound, Next
<1> USE DEF Sound, Shape
<1>1. /\ UNCHANGED <<pc, cur, seen, locks, deleting, panicked>>
      /\ \A s \in Sessions : ~Busy(s) /\ ~Deleting(s)
    BY ConstantsAssumption
    DEF StartWipe, DeleteAllConnections, WipeClear, WipeMeasure, WipeCopy, WipeWrite, WipeAlone,
        lockerFree, callVars, histVars
<1>2. \A w \in Workers : pc[w] = "idle"
    BY <1>1 DEF Busy, TypeOK
<1>3. Locked' /\ SeenFresh' /\ WipeAlone' /\ NoPanic'
    BY <1>1, <1>2 DEF Locked, SeenFresh, WipeAlone, NoPanic, Busy, Deleting, deleting
<1>4. ASSUME StartWipe PROVE WipeFresh' /\ StaleGone'
    BY <1>4 DEF StartWipe, WipeFresh, StaleGone, lockerFree, memVars
<1>5. ASSUME NEW s \in Sessions, WipeClear(s) PROVE WipeFresh' /\ StaleGone'
    <2>1. connections' = [connections EXCEPT ![s] = {}] /\ wiping' = wiping \ {s} /\ stale' = stale /\ wipePc' = "length"
        BY <1>5 DEF WipeClear
    <2> QED BY <2>1 DEF WipeFresh, StaleGone, TypeOK
<1>6. ASSUME NEW s \in Sessions, WipeMeasure(s) PROVE WipeFresh' /\ StaleGone'
    BY <1>6 DEF WipeMeasure, WipeFresh, StaleGone, memVars
<1>7. ASSUME NEW s \in Sessions, WipeCopy(s) PROVE WipeFresh' /\ StaleGone'
    <2>1. wipeSeen = connections[s]
        BY <1>7, ConstantsAssumption DEF WipeCopy, WipeFresh
    <2>2. wipeSeen' = connections[s]
        BY <1>7, <2>1, CopyIsWhole DEF WipeCopy
    <2> QED BY <1>7, <2>2 DEF WipeCopy, WipeFresh, StaleGone, memVars
<1>8. ASSUME NEW s \in Sessions, WipeWrite(s) PROVE WipeFresh' /\ StaleGone'
    BY <1>8 DEF WipeWrite, WipeFresh, StaleGone, memVars
<1> QED BY <1>3, <1>4, <1>5, <1>6, <1>7, <1>8 DEF DeleteAllConnections

LEMMA NeverPanics == ASSUME Sound PROVE ~Panic
<1> SUFFICES ASSUME Panic PROVE FALSE
    OBVIOUS
<1> USE DEF Sound, Shape
<1>1. ASSUME NEW w \in Workers, pc[w] \in {"copy", "event"} PROVE Copies(cur[w], seen[w]) # {}
    BY <1>1, CopyIsWhole DEF SeenFresh, TypeOK
<1>2. ASSUME NEW w \in Workers, pc[w] = "change" PROVE arg[w] \notin seen[w] \ connections[cur[w]]
    BY <1>2 DEF SeenFresh
<1>3. ASSUME wiped # None, wipePc = "copy" PROVE Copies(wiped, wipeSeen) # {}
    BY <1>3, CopyIsWhole DEF WipeFresh, TypeOK
<1> QED BY <1>1, <1>2, <1>3 DEF Panic

LEMMA SoundNext ==
    ASSUME Environment = {}
    PROVE  Sound /\ [Next]_vars => Sound'
<1> SUFFICES ASSUME Sound, [Next]_vars,
                    ~(\E w \in Workers : Update(w)), ~StartWipe, ~DeleteAllConnections
             PROVE  Locked' /\ WipeAlone' /\ SeenFresh' /\ WipeFresh' /\ StaleGone' /\ NoPanic'
    BY ShapeNext, FiledNext, UpdateSound, WipeSound DEF Sound
<1> USE DEF Sound
<1>0. TypeOK /\ Live \subseteq Sessions
    BY LiveFacts DEF Shape
<1>1. ASSUME NEW w \in Workers, NEW k \in APIKeys, NEW o, NEW c, Fetch(w, k, o, c)
      PROVE  Locked' /\ WipeAlone' /\ SeenFresh' /\ WipeFresh' /\ StaleGone' /\ NoPanic'
    <2>1. \A v \in Workers : \/ pc'[v] = pc[v] /\ cur'[v] = cur[v]
                             \/ pc'[v] = "fetched"
        BY <1>0, <1>1 DEF Fetch, TypeOK
    <2>2. lockerFree' /\ UNCHANGED <<connections, locks, seen, wiping, wiped, stale, panicked>>
        BY <1>1 DEF Fetch, memVars, wipeVars, histVars, lockerFree
    <2> QED BY <2>1, <2>2 DEF Locked, WipeAlone, SeenFresh, WipeFresh, StaleGone, NoPanic, lockerFree
<1>2. ASSUME NEW S \in SUBSET Live, StartDelete(S)
      PROVE  Locked' /\ WipeAlone' /\ SeenFresh' /\ WipeFresh' /\ StaleGone' /\ NoPanic'
    BY <1>2 DEF StartDelete, memVars, wipeVars, callVars, lockerFree,
                Locked, WipeAlone, SeenFresh, WipeFresh, StaleGone, NoPanic
<1>3. ASSUME NEW s \in Sessions, Delete(s)
      PROVE  Locked' /\ WipeAlone' /\ SeenFresh' /\ WipeFresh' /\ StaleGone' /\ NoPanic'
    <2>1. Deleting(s)
        BY <1>3, DeleteEffect
    <2>2. lockerFree
        BY <2>1 DEF WipeAlone
    <2>3. UNCHANGED <<connections, wipeVars, callVars, panicked>>
        BY <1>3 DEF Delete, DeleteFromDb, DeleteFromMap, memVars, histVars
    <2> QED BY <2>2, <2>3 DEF wipeVars, callVars, lockerFree,
                Locked, WipeAlone, SeenFresh, WipeFresh, StaleGone, NoPanic
<1>4. ASSUME NEW s \in Sessions, New(s)
      PROVE  Locked' /\ WipeAlone' /\ SeenFresh' /\ WipeFresh' /\ StaleGone' /\ NoPanic'
    <2>1. /\ lockerFree /\ s \notin made /\ connections' = [connections EXCEPT ![s] = {}]
          /\ UNCHANGED <<wipeVars, callVars, panicked>>
        BY <1>4 DEF New
    <2>2. \A v \in Workers : pc[v] # "idle" => cur[v] # s
        BY <2>1 DEF Filed, WorkFiled, Busy
    <2>3. \A t \in Sessions : connections'[t] = IF t = s THEN {} ELSE connections[t]
        BY <1>0, <2>1 DEF TypeOK
    <2>4. \A v \in Workers : pc[v] # "idle" => connections'[cur[v]] = connections[cur[v]]
        BY <1>0, <2>2, <2>3 DEF TypeOK
    <2> QED BY <2>1, <2>3, <2>4 DEF wipeVars, callVars, lockerFree,
                Locked, WipeAlone, SeenFresh, WipeFresh, StaleGone, NoPanic
<1>5. ASSUME (\E s \in Sessions : Expire(s)) \/ ClearRotten \/ Start \/ UNCHANGED vars
      PROVE  Locked' /\ WipeAlone' /\ SeenFresh' /\ WipeFresh' /\ StaleGone' /\ NoPanic'
    <2>1. UNCHANGED <<connections, wipeVars, callVars, deleting, panicked>>
        BY <1>5 DEF Expire, ClearRotten, Start, memVars, histVars, vars
    <2> QED BY <2>1 DEF wipeVars, callVars, deleting, lockerFree, Busy, Deleting,
                Locked, WipeAlone, SeenFresh, WipeFresh, StaleGone, NoPanic
<1>6. CASE Crash
    BY <1>6 DEF Crash, Die, lockerFree, Locked, WipeAlone, SeenFresh, WipeFresh, StaleGone, NoPanic
<1> QED BY <1>0, <1>1, <1>2, <1>3, <1>4, <1>5, <1>6, NeverPanics, Steps

\* sessionstore.go 413-435, 222: when calls on one session do not overlap with a wipe, nobody
\* indexes a list past its end, so the process does not panic.
THEOREM NeverPanicked ==
    ASSUME Environment = {}
    PROVE  Spec => []NoPanic
<1>1. Sound => NoPanic
    BY DEF Sound
<1>2. Sound /\ [Next]_vars => Sound'
    BY SoundNext
<1> QED BY <1>1, <1>2, SoundInit, PTL DEF Spec

\* sessionstore.go:126: under the same condition every connection that was listed when a wipe
\* began is gone when locker is free again, unless it has been added since.
THEOREM WipeIsComplete ==
    ASSUME Environment = {}
    PROVE  Spec => []WipedGone
<1>1. Sound => WipedGone
    BY LiveFacts DEF Sound, Shape, StaleGone, WipedGone, lockerFree
<1>2. Sound /\ [Next]_vars => Sound'
    BY SoundNext
<1> QED BY <1>1, <1>2, SoundInit, PTL DEF Spec
-----------------------------------------------------------------------------
(* Map and database agree *)

Record(s) == [session |-> s, conns |-> connections[s]]

\* The wipe, or a worker, has changed the session's list and not yet saved it.
Unsaved(s) == wiped = s \/ \E w \in Workers : cur[w] = s /\ pc[w] \in {"save", "copy", "write"}

\* The record of a key whose session has left the map.
Leftover(k) == db[k] = None \/ db[k].session \in expired

\* Who works on a session finds it in the map, or there is nothing there any more.
Held ==
    /\ \A s \in Sessions : Busy(s) =>
         sessions[Key[s]] = s \/ (sessions[Key[s]] = None /\ s \in expired)
    /\ \A s \in Sessions : Deleting(s) => sessions[Key[s]] \in {s, None}
    /\ \A s \in Sessions : s \in wiping \/ wiped = s => sessions[Key[s]] = s
    /\ \A s \in Sessions : mapDeletes[s] > 0 => Leftover(Key[s])

Agrees ==
    up => \A k \in APIKeys :
        /\ sessions[k] # None /\ ~Deleting(sessions[k]) /\ ~Unsaved(sessions[k])
             => db[k] = Record(sessions[k])
        /\ sessions[k] = None => Leftover(k)

\* A process that does not run does nothing.
Down == ~up => lockerFree /\ \A s \in Sessions : connections[s] = {} /\ ~Busy(s) /\ ~Deleting(s)

Agreeing == Sound /\ Final /\ Held /\ Agrees /\ Down

LEMMA AgreeingInit == Init => Agreeing
<1> SUFFICES ASSUME Init PROVE Agreeing
    OBVIOUS
<1>1. \A s \in Sessions : ~Busy(s) /\ ~Deleting(s)
    BY DEF Init, Busy, Deleting
<1>2. Held /\ Agrees /\ Down
    BY <1>1, ConstantsAssumption DEF Init, Held, Agrees, Down, Leftover
<1> QED BY <1>2, SoundInit, FinalInit DEF Agreeing

LEMMA UpdateAgrees ==
    ASSUME Agreeing, NEW w \in Workers, Update(w)
    PROVE  Held' /\ Agrees' /\ Down'
<1> USE DEF Agreeing
<1>0. TypeOK
    BY DEF Sound, Shape
<1>1. /\ cur[w] \in Sessions /\ Busy(cur[w]) /\ \A s \in Sessions : Busy(s)' => Busy(s)
      /\ UNCHANGED <<up, sessions, wiping, wiped, deleting, histVars>>
      /\ db' = db \/ Saved(cur[w])
    BY <1>0, UpdateEffect
<1> USE DEF deleting, histVars
<1>2. up
    BY <1>1 DEF Down
<1>3. PICK s \in Sessions : s = cur[w]
    BY <1>1
<1>4. /\ sessions[Key[s]] = s \/ (sessions[Key[s]] = None /\ s \in expired)
      /\ Key[s] \in APIKeys /\ ~Deleting(s) /\ wiped # s /\ None \notin Sessions
    BY <1>1, <1>3, ConstantsAssumption DEF Held, Final, Apart, Sound, WipeAlone, lockerFree, Busy
<1>5. \A k \in APIKeys : sessions[k] = s => k = Key[s]
    BY <1>4, ConstantsAssumption DEF Sound, Filed, MapFiled
<1>6. \A t \in Sessions : t # s => (Unsaved(t)' <=> Unsaved(t))
    <2> USE <1>0 DEF TypeOK
    <2>1. \A v \in Workers : v # w => pc'[v] = pc[v] /\ cur'[v] = cur[v]
        BY DEF Update, LockSession, NotSubscribed, Change, Measure, Copy, Write, CopyEvent, Return
    <2>2. cur'[w] \in {s, None}
        BY <1>3 DEF Update, LockSession, NotSubscribed, Change, Measure, Copy, Write, CopyEvent, Return
    <2>3. wiped' = wiped /\ None \notin Sessions
        BY <1>1, ConstantsAssumption
    <2> QED BY <1>3, <2>1, <2>2, <2>3 DEF Unsaved
<1>7. \A t \in Sessions : t # s => connections'[t] = connections[t]
    BY <1>0, <1>3 DEF Update, LockSession, NotSubscribed, Change, Measure, Copy, Write, CopyEvent, memVars, TypeOK
<1>8. CASE Write(w)
    <2>1. db'[Key[s]] = Record(s) /\ connections' = connections
        BY <1>0, <1>3, <1>4, <1>8 DEF Write, Record, Sound, SeenFresh, TypeOK, memVars
    <2>2. \A k \in APIKeys : k # Key[s] => db'[k] = db[k]
        BY <1>0, <1>3, <1>8 DEF Write, TypeOK
    <2>3. s \in expired => Leftover(Key[s])'
        BY <1>1, <2>1 DEF Leftover, Record
    <2>4. \A k \in APIKeys : k # Key[s] => (Leftover(k)' <=> Leftover(k))
        BY <1>1, <2>2 DEF Leftover
    <2>5. \A t \in Sessions : mapDeletes'[t] > 0 => Leftover(Key[t])'
        <3>1. ASSUME NEW t \in Sessions, mapDeletes[t] > 0, Key[t] = Key[s]
              PROVE  s \in expired
            <4>1. Deleting(t)
                BY <1>0, <3>1 DEF TypeOK, Deleting
            <4>2. sessions[Key[s]] \in {t, None} /\ t # s
                BY <1>4, <3>1, <4>1 DEF Held
            <4> QED BY <1>4, <4>2
        <3> QED BY <1>1, <2>3, <2>4, <3>1, ConstantsAssumption DEF Held
    <2>6. Held'
        BY <1>1, <2>5 DEF Held, Deleting
    <2>7. ASSUME NEW k \in APIKeys, NEW t, t = sessions[k]
          PROVE  /\ t # None /\ ~Deleting(t) /\ ~Unsaved(t)' => db'[k] = Record(t)'
                 /\ t = None => Leftover(k)'
        <3>1. CASE k = Key[s]
            BY <1>4, <2>1, <2>3, <2>7, <3>1 DEF Record
        <3>2. CASE k # Key[s]
            <4>1. t # None => t \in Sessions /\ t # s
                BY <1>0, <1>5, <2>7, <3>2 DEF TypeOK
            <4>2. /\ t # None /\ ~Deleting(t) /\ ~Unsaved(t) => db[k] = Record(t)
                  /\ t = None => Leftover(k)
                BY <1>2, <2>7 DEF Agrees
            <4>3. t # None => (Unsaved(t)' <=> Unsaved(t))
                BY <1>6, <4>1
            <4>4. Record(t)' = Record(t) /\ db'[k] = db[k] /\ (Leftover(k)' <=> Leftover(k))
                BY <2>1, <2>2, <2>4, <3>2 DEF Record
            <4> QED BY <4>2, <4>3, <4>4
        <3> QED BY <3>1, <3>2
    <2>8. Agrees'
        BY <1>1, <2>7 DEF Agrees, Deleting, Record, Unsaved
    <2> QED BY <1>1, <1>2, <2>6, <2>8 DEF Down
<1>9. CASE ~Write(w)
    <2>1. db' = db
        BY <1>9 DEF Update, LockSession, NotSubscribed, Change, Measure, Copy, CopyEvent
    <2>2. \A k \in APIKeys : Leftover(k)' <=> Leftover(k)
        BY <1>1, <2>1 DEF Leftover
    <2>3. Held'
        BY <1>1, <2>2, ConstantsAssumption DEF Held, Deleting
    <2>4. ~Unsaved(s)' => connections'[s] = connections[s] /\ ~Unsaved(s)
        <3> USE <1>0, <1>3, <1>4 DEF TypeOK
        <3>1. CASE LockSession(w)
            BY <3>1 DEF LockSession, Unsaved, memVars, wipeVars
        <3>2. CASE NotSubscribed(w) \/ CopyEvent(w)
            BY <3>2 DEF NotSubscribed, CopyEvent, Return, Unsaved, memVars, wipeVars
        <3>3. CASE Change(w)
            BY <3>3 DEF Change, Unsaved
        <3>4. CASE Measure(w) \/ Copy(w)
            BY <3>4 DEF Measure, Copy, Unsaved
        <3> QED BY <1>9, <3>1, <3>2, <3>3, <3>4 DEF Update
    <2>5. ASSUME NEW k \in APIKeys, NEW t, t = sessions[k], t # None, ~Deleting(t), ~Unsaved(t)'
          PROVE  db'[k] = Record(t)'
        <3>1. t \in Sessions
            BY <1>0, <2>5 DEF TypeOK
        <3>2. ~Unsaved(t) /\ connections'[t] = connections[t]
            BY <1>6, <1>7, <2>4, <2>5, <3>1
        <3> QED BY <1>2, <2>1, <2>5, <3>2 DEF Agrees, Record
    <2>6. Agrees'
        <3>1. \A k \in APIKeys : sessions[k] = None => Leftover(k)'
            BY <1>2, <2>2 DEF Agrees
        <3> QED BY <1>1, <2>5, <3>1 DEF Agrees, Deleting, Record, Unsaved
    <2> QED BY <1>1, <1>2, <2>3, <2>6 DEF Down
<1> QED BY <1>8, <1>9

LEMMA WipeAgrees ==
    ASSUME Agreeing, StartWipe \/ DeleteAllConnections
    PROVE  Held' /\ Agrees' /\ Down'
<1> USE DEF Agreeing
<1>0. TypeOK /\ None \notin Sessions
    BY ConstantsAssumption DEF Sound, Shape
<1>1. /\ up /\ up'
      /\ UNCHANGED <<sessions, callVars, deleting, histVars>>
    <2>1. up' = up /\ UNCHANGED <<sessions, callVars, deleting, histVars>>
        BY DEF StartWipe, DeleteAllConnections, WipeClear, WipeMeasure, WipeCopy, WipeWrite, memVars
    <2>2. StartWipe \/ ~lockerFree
        BY <1>0 DEF DeleteAllConnections, WipeClear, WipeMeasure, WipeCopy, WipeWrite, lockerFree
    <2>3. up
        BY <2>2 DEF StartWipe, Down
    <2> QED BY <2>1, <2>3, <1>0 DEF TypeOK
<1>2. \A s \in Sessions : (Busy(s)' <=> Busy(s)) /\ (Deleting(s)' <=> Deleting(s))
    BY <1>1 DEF Busy, Deleting, callVars, deleting
<1> USE <1>0, <1>1 DEF callVars, deleting, histVars
<1>3. CASE StartWipe
    <2>1. wiping' = Live /\ wiped = None /\ UNCHANGED <<connections, db, wiped>>
        BY <1>3 DEF StartWipe, memVars, lockerFree
    <2>2. \A s \in Live : sessions[Key[s]] = s
        BY LiveFacts DEF Sound, Filed, MapFiled
    <2>3. \A k \in APIKeys : Leftover(k)' <=> Leftover(k)
        BY <2>1 DEF Leftover
    <2>4. Held'
        BY <1>2, <2>1, <2>2, <2>3, ConstantsAssumption DEF Held
    <2>5. Agrees'
        BY <2>1 DEF Agrees, Deleting, Unsaved, Record, Leftover
    <2> QED BY <2>4, <2>5 DEF Down
<1>4. ASSUME NEW s \in Sessions, WipeClear(s) \/ WipeMeasure(s) \/ WipeCopy(s)
      PROVE  Held' /\ Agrees' /\ Down'
    <2>1. /\ db' = db /\ wiping' \subseteq wiping /\ wiped' = s
          /\ s \in wiping \/ wiped = s
          /\ wiped # None => wiped = s
          /\ \A t \in Sessions : t # s => connections'[t] = connections[t]
        BY <1>4 DEF WipeClear, WipeMeasure, WipeCopy, memVars, TypeOK
    <2>2. \A k \in APIKeys : Leftover(k)' <=> Leftover(k)
        BY <2>1 DEF Leftover
    <2>3. Held'
        BY <1>2, <2>1, <2>2, ConstantsAssumption DEF Held
    <2>4. ASSUME NEW k \in APIKeys, NEW t, t = sessions[k]
          PROVE  /\ t # None /\ ~Deleting(t) /\ ~Unsaved(t)' => db'[k] = Record(t)'
                 /\ t = None => Leftover(k)'
        <3>1. t # None => t \in Sessions
            BY <2>4 DEF TypeOK
        <3>2. /\ t # None /\ ~Deleting(t) /\ ~Unsaved(t) => db[k] = Record(t)
              /\ t = None => Leftover(k)
            BY <2>4 DEF Agrees
        <3>3. ~Unsaved(t)' => t # s /\ (t # None => ~Unsaved(t))
            BY <2>1, <3>1 DEF Unsaved
        <3>4. t # None /\ t # s => Record(t)' = Record(t)
            BY <2>1, <3>1 DEF Record
        <3> QED BY <2>1, <2>2, <3>2, <3>3, <3>4
    <2>5. Agrees'
        BY <2>4 DEF Agrees, Deleting, Record, Unsaved
    <2> QED BY <2>3, <2>5 DEF Down
<1>5. ASSUME NEW s \in Sessions, WipeWrite(s) PROVE Held' /\ Agrees' /\ Down'
    <2>1. /\ wiped = s /\ wiped' = None /\ UNCHANGED <<wiping, connections>>
          /\ wipeSeen = connections[s]
        BY <1>5 DEF WipeWrite, memVars, Sound, WipeFresh
    <2>2. sessions[Key[s]] = s /\ Key[s] \in APIKeys
        BY <2>1, ConstantsAssumption DEF Held
    <2>3. \A k \in APIKeys : db'[k] = IF k = Key[s] THEN Record(s) ELSE db[k]
        BY <1>5, <2>1 DEF WipeWrite, TypeOK, Record
    <2>4. \A t \in Sessions : ~Deleting(t) /\ ~Busy(t)
        BY <2>1 DEF Sound, WipeAlone, lockerFree
    <2>5. \A t \in Sessions : ~(mapDeletes[t] > 0)
        BY <2>4 DEF TypeOK, Deleting
    <2>6. Held'
        BY <1>2, <2>1, <2>4, <2>5 DEF Held
    <2>7. ASSUME NEW k \in APIKeys, NEW t, t = sessions[k]
          PROVE  /\ t # None /\ ~Deleting(t) /\ ~Unsaved(t)' => db'[k] = Record(t)'
                 /\ t = None => Leftover(k)'
        <3>1. CASE k = Key[s]
            BY <2>1, <2>2, <2>3, <2>7, <3>1 DEF Record
        <3>2. CASE k # Key[s]
            <4>1. t # s
                BY <2>7, <3>2 DEF Sound, Filed, MapFiled
            <4>2. /\ t # None /\ ~Deleting(t) /\ ~Unsaved(t) => db[k] = Record(t)
                  /\ t = None => Leftover(k)
                BY <2>7 DEF Agrees
            <4>3. Unsaved(t) => Unsaved(t)'
                BY <2>1, <4>1 DEF Unsaved
            <4>4. Record(t)' = Record(t) /\ db'[k] = db[k] /\ (Leftover(k)' <=> Leftover(k))
                BY <2>1, <2>3, <3>2 DEF Record, Leftover
            <4> QED BY <4>2, <4>3, <4>4
        <3> QED BY <3>1, <3>2
    <2>8. Agrees'
        BY <2>7 DEF Agrees, Deleting, Record, Unsaved
    <2> QED BY <2>6, <2>8 DEF Down
<1> QED BY <1>3, <1>4, <1>5 DEF DeleteAllConnections

LEMMA DeleteAgrees ==
    ASSUME Agreeing, NEW s \in Sessions, Delete(s)
    PROVE  Held' /\ Agrees' /\ Down'
<1> USE DEF Agreeing
<1>0. TypeOK /\ None \notin Sessions /\ Key[s] \in APIKeys
    BY ConstantsAssumption DEF Sound, Shape
<1>1. /\ Deleting(s)
      /\ \A t \in Sessions : Deleting(t)' => Deleting(t)
      /\ \A t \in Sessions : Busy(t)' <=> Busy(t)
      /\ UNCHANGED <<up, connections, wipeVars, callVars, expired, made, dismissed>>
    BY DeleteEffect DEF Sound, Delete, DeleteFromDb, DeleteFromMap, histVars
<1>2. up /\ lockerFree /\ ~Busy(s) /\ sessions[Key[s]] \in {s, None}
    BY <1>1 DEF Down, Sound, WipeAlone, Final, Apart, Held
<1>3. \A t : (Unsaved(t)' <=> Unsaved(t)) /\ Record(t)' = Record(t)
    BY <1>1 DEF Unsaved, Record, wipeVars, callVars
<1> USE <1>0, <1>1, <1>2 DEF wipeVars
<1>4. CASE DeleteFromDb(s)
    <2>1. /\ dbDeletes[s] > 0 /\ dbDeletes' = [dbDeletes EXCEPT ![s] = @ - 1]
          /\ mapDeletes' = [mapDeletes EXCEPT ![s] = @ + 1]
          /\ \A k \in APIKeys : db'[k] = IF k = Key[s] THEN None ELSE db[k]
          /\ sessions' = sessions
        BY <1>4 DEF DeleteFromDb, TypeOK, memVars
    <2>2. Deleting(s)' /\ \A t \in Sessions : t # s => dbDeletes'[t] = dbDeletes[t] /\ mapDeletes'[t] = mapDeletes[t]
        BY <2>1 DEF Deleting, TypeOK
    <2>3. \A k \in APIKeys : Leftover(k) => Leftover(k)'
        BY <2>1 DEF Leftover
    <2>4. Leftover(Key[s])'
        BY <2>1 DEF Leftover
    <2>5. Held'
        BY <2>1, <2>2, <2>3, <2>4, ConstantsAssumption DEF Held
    <2>6. ASSUME NEW k \in APIKeys, NEW t, t = sessions[k]
          PROVE  /\ t # None /\ ~Deleting(t)' /\ ~Unsaved(t)' => db'[k] = Record(t)'
                 /\ t = None => Leftover(k)'
        <3>1. CASE k = Key[s]
            BY <2>2, <2>4, <2>6, <3>1
        <3>2. CASE k # Key[s]
            <4>1. t # None => t \in Sessions /\ t # s
                BY <2>6, <3>2 DEF Sound, Filed, MapFiled, TypeOK
            <4>2. t # None => (Deleting(t)' <=> Deleting(t))
                BY <2>2, <4>1 DEF Deleting
            <4>3. /\ t # None /\ ~Deleting(t) /\ ~Unsaved(t) => db[k] = Record(t)
                  /\ t = None => Leftover(k)
                BY <2>6 DEF Agrees
            <4> QED BY <1>3, <2>1, <2>3, <3>2, <4>2, <4>3
        <3> QED BY <3>1, <3>2
    <2>7. Agrees'
        BY <2>1, <2>6 DEF Agrees, Deleting, Record, Unsaved
    <2> QED BY <2>5, <2>7 DEF Down
<1>5. CASE DeleteFromMap(s)
    <2>1. /\ mapDeletes[s] > 0 /\ mapDeletes' = [mapDeletes EXCEPT ![s] = @ - 1]
          /\ dbDeletes' = dbDeletes
          /\ \A k \in APIKeys : sessions'[k] = IF k = Key[s] THEN None ELSE sessions[k]
          /\ db' = db
        BY <1>5 DEF DeleteFromMap, TypeOK
    <2>2. \A t \in Sessions : t # s => dbDeletes'[t] = dbDeletes[t] /\ mapDeletes'[t] = mapDeletes[t]
        BY <2>1
    <2>3. \A k \in APIKeys : Leftover(k)' <=> Leftover(k)
        BY <2>1 DEF Leftover
    <2>4. Leftover(Key[s])
        BY <2>1 DEF Held
    <2>5. Held'
        <3>1. \A t \in Sessions : Busy(t) => sessions'[Key[t]] = t \/ (sessions'[Key[t]] = None /\ t \in expired)
            BY <2>1, ConstantsAssumption DEF Held
        <3>2. \A t \in Sessions : mapDeletes'[t] > 0 => Leftover(Key[t])'
            BY <2>2, <2>3, <2>4, ConstantsAssumption DEF Held
        <3>3. \A t \in Sessions : Deleting(t)' => sessions'[Key[t]] \in {t, None}
            BY <2>1, ConstantsAssumption DEF Held
        <3> QED BY <3>1, <3>2, <3>3 DEF Held, lockerFree
    <2>6. ASSUME NEW k \in APIKeys, NEW t, t = sessions'[k]
          PROVE  /\ t # None /\ ~Deleting(t)' /\ ~Unsaved(t)' => db'[k] = Record(t)'
                 /\ t = None => Leftover(k)'
        <3>1. CASE k = Key[s]
            BY <2>1, <2>3, <2>4, <2>6, <3>1
        <3>2. CASE k # Key[s]
            <4>0. t = sessions[k]
                BY <2>1, <2>6, <3>2
            <4>1. t # None => t \in Sessions /\ t # s
                BY <4>0, <3>2 DEF Sound, Filed, MapFiled, TypeOK
            <4>2. t # None => (Deleting(t)' <=> Deleting(t))
                BY <2>2, <4>1 DEF Deleting
            <4>3. /\ t # None /\ ~Deleting(t) /\ ~Unsaved(t) => db[k] = Record(t)
                  /\ t = None => Leftover(k)
                BY <4>0 DEF Agrees
            <4> QED BY <1>3, <2>1, <2>3, <4>2, <4>3
        <3> QED BY <3>1, <3>2
    <2>7. Agrees'
        BY <2>6 DEF Agrees, Deleting, Record, Unsaved
    <2> QED BY <2>5, <2>7 DEF Down
<1> QED BY <1>4, <1>5 DEF Delete

LEMMA NewAgrees ==
    ASSUME Environment = {}, Agreeing, NEW s \in Sessions, New(s)
    PROVE  Held' /\ Agrees' /\ Down'
<1> USE DEF Agreeing
<1>0. TypeOK /\ None \notin Sessions /\ Key[s] \in APIKeys
    BY ConstantsAssumption DEF Sound, Shape
<1>1. /\ up /\ up' /\ lockerFree /\ s \notin made
      /\ \A t \in Sessions : Key[t] = Key[s] => ~Busy(t) /\ ~Deleting(t)
      /\ connections' = [connections EXCEPT ![s] = {}]
      /\ UNCHANGED <<wipeVars, callVars, deleting, expired>>
      /\ \A k \in APIKeys : /\ sessions'[k] = IF k = Key[s] THEN s ELSE sessions[k]
                            /\ db'[k] = IF k = Key[s] THEN [session |-> s, conns |-> {}] ELSE db[k]
    BY <1>0 DEF New, TypeOK
<1>2. \A t \in Sessions : (Busy(t)' <=> Busy(t)) /\ (Deleting(t)' <=> Deleting(t)) /\ (Unsaved(t)' <=> Unsaved(t))
    BY <1>1 DEF Busy, Deleting, Unsaved, callVars, deleting, wipeVars
<1>3. \A t \in Sessions : t # s => Record(t)' = Record(t)
    BY <1>0, <1>1 DEF Record, TypeOK
<1>4. Record(s)' = [session |-> s, conns |-> {}]
    BY <1>0, <1>1 DEF Record, TypeOK
<1>5. Held'
    <2>1. \A k \in APIKeys : k # Key[s] => (Leftover(k)' <=> Leftover(k))
        BY <1>1 DEF Leftover
    <2>2. \A t \in Sessions : mapDeletes[t] > 0 => Deleting(t)
        BY <1>0 DEF Deleting, TypeOK
    <2>3. \A t \in Sessions : mapDeletes'[t] > 0 => Leftover(Key[t])'
        BY <1>1, <2>1, <2>2, ConstantsAssumption DEF Held, deleting
    <2>4. \A t \in Sessions : t \notin wiping /\ wiped # t
        BY <1>0, <1>1 DEF lockerFree
    <2> QED BY <1>1, <1>2, <2>3, <2>4, ConstantsAssumption DEF Held, wipeVars
<1>6. ASSUME NEW k \in APIKeys, NEW t, t = sessions'[k]
      PROVE  /\ t # None /\ ~Deleting(t)' /\ ~Unsaved(t)' => db'[k] = Record(t)'
             /\ t = None => Leftover(k)'
    <2>1. CASE k = Key[s]
        BY <1>0, <1>1, <1>4, <1>6, <2>1
    <2>2. CASE k # Key[s]
        <3>1. t = sessions[k] /\ t # s
            BY <1>0, <1>1, <1>6, <2>2 DEF Sound, Filed, MapFiled
        <3>2. t # None => t \in Sessions
            BY <1>0, <3>1 DEF TypeOK
        <3>3. /\ t # None /\ ~Deleting(t) /\ ~Unsaved(t) => db[k] = Record(t)
              /\ t = None => Leftover(k)
            BY <1>1, <3>1 DEF Agrees
        <3> QED BY <1>1, <1>2, <1>3, <2>2, <3>1, <3>2, <3>3 DEF Leftover
    <2> QED BY <2>1, <2>2
<1>7. Agrees'
    BY <1>6 DEF Agrees, Deleting, Record, Unsaved
<1> QED BY <1>1, <1>5, <1>7 DEF Down

LEMMA AgreeingNext ==
    ASSUME Environment = {}
    PROVE  Agreeing /\ [Next]_vars => Agreeing'
<1> SUFFICES ASSUME Agreeing, [Next]_vars,
                    ~(\E w \in Workers : Update(w)), ~StartWipe, ~DeleteAllConnections,
                    ~(\E s \in Sessions : Delete(s)), ~(\E s \in Sessions : New(s))
             PROVE  Held' /\ Agrees' /\ Down'
    BY SoundNext, FinalNext, UpdateAgrees, WipeAgrees, DeleteAgrees, NewAgrees DEF Agreeing
<1> USE DEF Agreeing
<1>0. TypeOK /\ Live \subseteq Sessions /\ None \notin Sessions
    BY LiveFacts, ConstantsAssumption DEF Sound, Shape
<1>1. \A k \in APIKeys : sessions[k] # None => Key[sessions[k]] = k /\ sessions[k] \in Sessions
    BY <1>0 DEF Sound, Filed, MapFiled, TypeOK
<1>2. ASSUME NEW w \in Workers, NEW k \in APIKeys, NEW o, NEW c, Fetch(w, k, o, c)
      PROVE  Held' /\ Agrees' /\ Down'
    <2>1. /\ up /\ sessions[k] # None
          /\ \A s \in Sessions : Busy(s)' => Busy(s) \/ s = sessions[k]
          /\ UNCHANGED <<up, memVars, db, wipeVars, deleting, histVars>>
        BY <1>0, <1>2, FetchEffect
    <2>2. Held'
        BY <1>1, <2>1 DEF Held, Deleting, Leftover, memVars, wipeVars, deleting, histVars
    <2>3. \A s \in Sessions : Unsaved(s) => Unsaved(s)'
        <3>1. pc[w] = "idle" /\ \A v \in Workers : v # w => pc'[v] = pc[v] /\ cur'[v] = cur[v]
            BY <1>0, <1>2 DEF Fetch, TypeOK
        <3> QED BY <2>1, <3>1 DEF Unsaved, wipeVars
    <2>4. ASSUME NEW j \in APIKeys, NEW t, t = sessions[j]
          PROVE  /\ t # None /\ ~Deleting(t) /\ ~Unsaved(t)' => db[j] = Record(t)
                 /\ t = None => Leftover(j)
        BY <1>1, <2>1, <2>3, <2>4 DEF Agrees
    <2>5. Agrees'
        BY <2>1, <2>4 DEF Agrees, Deleting, Record, Unsaved, Leftover, memVars, wipeVars, deleting, histVars
    <2> QED BY <2>1, <2>2, <2>5 DEF Down
<1>3. ASSUME NEW S \in SUBSET Live, StartDelete(S)
      PROVE  Held' /\ Agrees' /\ Down'
    <2>1. /\ up /\ \A s \in Sessions : Deleting(s)' => Deleting(s) \/ s \in S
          /\ \A s \in Sessions : Busy(s)' <=> Busy(s)
          /\ UNCHANGED <<up, memVars, db, wipeVars, mapDeletes, expired>>
        BY <1>0, <1>3, StartDeleteEffect
    <2>2. \A s \in S : sessions[Key[s]] = s
        BY <1>1 DEF Live
    <2>3. Held'
        BY <2>1, <2>2 DEF Held, Leftover, memVars, wipeVars
    <2>4. \A s \in Sessions : Deleting(s) => Deleting(s)'
        <3>1. \A s \in Sessions : dbDeletes'[s] \in {dbDeletes[s], dbDeletes[s] + 1}
            BY <1>3 DEF StartDelete
        <3> QED BY <1>0, <2>1, <3>1 DEF Deleting, TypeOK
    <2>5. UNCHANGED callVars
        BY <1>3 DEF StartDelete
    <2>6. ASSUME NEW j \in APIKeys, NEW t, t = sessions[j]
          PROVE  /\ t # None /\ ~Deleting(t)' /\ ~Unsaved(t) => db[j] = Record(t)
                 /\ t = None => Leftover(j)
        BY <1>1, <2>1, <2>4, <2>6 DEF Agrees
    <2>7. Agrees'
        BY <2>1, <2>5, <2>6 DEF Agrees, Deleting, Record, Unsaved, Leftover, memVars, wipeVars, callVars
    <2> QED BY <2>1, <2>3, <2>7 DEF Down
<1>4. ASSUME NEW s \in Sessions, Expire(s) PROVE Held' /\ Agrees' /\ Down'
    <2>1. /\ expired' = expired \cup {s}
          /\ UNCHANGED <<up, memVars, db, wipeVars, callVars, deleting>>
        BY <1>4 DEF Expire
    <2>2. \A k \in APIKeys : Leftover(k) => Leftover(k)'
        BY <2>1 DEF Leftover
    <2>3. Held'
        BY <2>1, <2>2, ConstantsAssumption
        DEF Held, Busy, Deleting, memVars, wipeVars, callVars, deleting
    <2>4. Agrees'
        BY <2>1, <2>2 DEF Agrees, Deleting, Record, Unsaved, memVars, wipeVars, callVars, deleting
    <2>5. Down'
        BY <2>1 DEF Down, lockerFree, Busy, Deleting, memVars, wipeVars, callVars, deleting
    <2> QED BY <2>3, <2>4, <2>5
<1>5. CASE ClearRotten
    <2>1. /\ \A k \in APIKeys :
                \/ sessions'[k] = sessions[k] /\ db'[k] = db[k]
                \/ sessions'[k] = None /\ db'[k] = None /\ sessions[k] \in expired
          /\ UNCHANGED <<up, connections, wipeVars, callVars, deleting, histVars>>
          /\ up /\ lockerFree
        BY <1>0, <1>5, ClearRottenEffect DEF ClearRotten
    <2>2. \A k \in APIKeys : Leftover(k) => Leftover(k)'
        BY <2>1 DEF Leftover, histVars
    <2>3. \A s \in Sessions : s \notin wiping /\ wiped # s
        BY <1>0, <2>1 DEF lockerFree
    <2>4. Held'
        <3>1. \A s \in Sessions : Busy(s) => sessions'[Key[s]] = s \/ (sessions'[Key[s]] = None /\ s \in expired)
            BY <1>0, <2>1, ConstantsAssumption DEF Held
        <3>2. \A s \in Sessions : Deleting(s) => sessions'[Key[s]] \in {s, None}
            BY <2>1, ConstantsAssumption DEF Held
        <3> QED BY <2>1, <2>2, <2>3, <3>1, <3>2, ConstantsAssumption
            DEF Held, Busy, Deleting, wipeVars, callVars, deleting, histVars
    <2>5. ASSUME NEW k \in APIKeys, NEW t, t = sessions'[k]
          PROVE  /\ t # None /\ ~Deleting(t) /\ ~Unsaved(t) => db'[k] = Record(t)
                 /\ t = None => Leftover(k)'
        <3>1. CASE sessions'[k] = sessions[k] /\ db'[k] = db[k]
            BY <2>1, <2>2, <2>5, <3>1 DEF Agrees
        <3>2. CASE sessions'[k] = None /\ db'[k] = None
            BY <2>5, <3>2 DEF Leftover
        <3> QED BY <2>1, <3>1, <3>2
    <2>6. Agrees'
        BY <2>1, <2>5 DEF Agrees, Deleting, Record, Unsaved, wipeVars, callVars, deleting
    <2> QED BY <2>1, <2>4, <2>6 DEF Down
<1>6. CASE Crash
    <2>1. Die
        BY <1>6 DEF Crash
    <2>2. /\ ~up' /\ wiping' = {} /\ wiped' = None
          /\ \A k \in APIKeys : sessions'[k] = None
          /\ \A s \in Sessions : ~Busy(s)' /\ ~Deleting(s)' /\ mapDeletes'[s] = 0
        BY <2>1, DieEffect
    <2>3. \A s \in Sessions : connections'[s] = {}
        BY <2>1 DEF Die
    <2> QED BY <1>0, <2>2, <2>3 DEF Held, Agrees, Down, lockerFree
<1>7. CASE Start
    <2>1. /\ ~up /\ \A k \in APIKeys :
                IF db[k] # None /\ db[k].session \notin expired
                THEN sessions'[k] = db[k].session /\ db'[k] = [db[k] EXCEPT !.conns = {}]
                ELSE sessions'[k] = None /\ db'[k] = None
          /\ UNCHANGED <<connections, wipeVars, callVars, deleting, histVars>> /\ up'
        BY <1>7 DEF Start
    <2>2. lockerFree /\ \A s \in Sessions : connections[s] = {} /\ ~Busy(s) /\ ~Deleting(s)
        BY <2>1 DEF Down
    <2>3. \A s \in Sessions : s \notin wiping /\ wiped # s /\ ~(mapDeletes[s] > 0)
        BY <1>0, <2>2 DEF lockerFree, Deleting, TypeOK
    <2>4. Held'
        BY <2>1, <2>2, <2>3 DEF Held, Busy, Deleting, wipeVars, callVars, deleting
    <2>5. ASSUME NEW k \in APIKeys, NEW t, t = sessions'[k]
          PROVE  /\ t # None => db'[k] = Record(t)
                 /\ t = None => Leftover(k)'
        <3>1. CASE db[k] # None /\ db[k].session \notin expired
            <4>1. db[k] \in Records /\ t = db[k].session /\ db'[k] = [db[k] EXCEPT !.conns = {}]
                BY <1>0, <2>1, <2>5, <3>1 DEF TypeOK
            <4>2. db'[k] = [session |-> t, conns |-> {}] /\ t \in Sessions
                BY <4>1 DEF Records
            <4> QED BY <1>0, <2>2, <4>2 DEF Record
        <3>2. CASE ~(db[k] # None /\ db[k].session \notin expired)
            BY <2>1, <2>5, <3>2 DEF Leftover
        <3> QED BY <3>1, <3>2
    <2>6. Agrees'
        BY <2>1, <2>5 DEF Agrees, Record
    <2> QED BY <2>1, <2>4, <2>6 DEF Down
<1>8. CASE UNCHANGED vars
    BY <1>8
    DEF vars, memVars, wipeVars, callVars, deleting, histVars, Held, Agrees, Down, lockerFree, Busy, Deleting,
        Unsaved, Record, Leftover
<1> QED BY <1>0, <1>2, <1>3, <1>4, <1>5, <1>6, <1>7, <1>8, NeverPanics, Steps

\* sessionstore.go: when calls on one session do not overlap, a session nobody works on is saved
\* as it is in the map, and the database has no other sessions than expired ones.
THEOREM MapIsSaved ==
    ASSUME Environment = {}
    PROVE  Spec => []StoreAgrees
<1>1. ASSUME Agreeing PROVE StoreAgrees
    <2>1. ASSUME NEW k \in APIKeys, up, lockerFree
          PROVE  /\ sessions[k] # None /\ ~Busy(sessions[k]) /\ ~Deleting(sessions[k]) =>
                      db[k] = [session |-> sessions[k], conns |-> connections[sessions[k]]]
                 /\ sessions[k] = None => db[k] = None \/ db[k].session \in expired
        <3>1. sessions[k] # None /\ ~Busy(sessions[k]) => ~Unsaved(sessions[k])
            BY <2>1 DEF Unsaved, Busy, lockerFree
        <3> QED BY <1>1, <2>1, <3>1 DEF Agreeing, Agrees, Record, Leftover
    <2> QED BY <2>1 DEF StoreAgrees
<1>2. Agreeing /\ [Next]_vars => Agreeing'
    BY AgreeingNext
<1> QED BY <1>1, <1>2, AgreeingInit, PTL DEF Spec
-----------------------------------------------------------------------------
(***************************************************************************)
(* The store implements SessionService.  Its one copy is what is saved of  *)
(* the sessions that have not expired.  Who works on such a session finds  *)
(* it there, and is about to save what its call makes of it.               *)
(***************************************************************************)

\* What is saved under the key of a listed session is that session, if it is anything.
Mine == \A k \in APIKeys : sessions[k] # None => Leftover(k) \/ db[k].session = sessions[k]

\* A listed session is saved, unless it has expired or is being deleted.
InDb ==
    \A k \in APIKeys : sessions[k] # None /\ sessions[k] \notin expired /\ ~Deleting(sessions[k]) =>
        db[k] # None /\ db[k].session = sessions[k]

\* What a worker is about to save is what its call makes of what is saved.
Writing(w) == pc[w] \in {"save", "copy", "write"} /\ cur[w] \notin expired
Intent ==
    \A w \in Workers : Writing(w) =>
        connections[cur[w]] = SS!Applied(op[w], arg[w], db[Key[cur[w]]].conns)

Asked == \A s \in Sessions : Deleting(s) => s \in dismissed
WipedEmpty == wiped # None => connections[wiped] = {}

Serving == Agreeing /\ Mine /\ InDb /\ Intent /\ Asked /\ WipedEmpty /\ expired \subseteq made

LEMMA ServingInit == Init => Serving
<1> SUFFICES ASSUME Init PROVE Serving
    OBVIOUS
<1>1. Mine /\ InDb /\ Intent /\ Asked /\ WipedEmpty /\ expired \subseteq made
    BY DEF Init, Mine, InDb, Intent, Writing, Asked, WipedEmpty, Deleting
<1> QED BY <1>1, AgreeingInit DEF Serving

\* A session that has not expired and that somebody works on is listed under its key.
LEMMA BusyListed ==
    ASSUME Serving, NEW s \in Sessions, Busy(s), s \notin expired
    PROVE  /\ sessions[Key[s]] = s /\ Key[s] \in APIKeys /\ s # None /\ ~Deleting(s)
           /\ db[Key[s]] # None /\ db[Key[s]].session = s
<1>1. sessions[Key[s]] = s /\ Key[s] \in APIKeys /\ s # None
    BY ConstantsAssumption DEF Serving, Agreeing, Held
<1>2. ~Deleting(s)
    BY DEF Serving, Agreeing, Final, Apart
<1> QED BY <1>1, <1>2 DEF Serving, InDb

LEMMA UpdateServes ==
    ASSUME Serving, NEW w \in Workers, Update(w)
    PROVE  Mine' /\ InDb' /\ Intent' /\ Asked' /\ WipedEmpty' /\ (expired \subseteq made)'
<1> DEFINE s == cur[w]
<1>0. TypeOK /\ None \notin Sessions
    BY ConstantsAssumption DEF Serving, Agreeing, Sound, Shape
<1>1. /\ s \in Sessions /\ Busy(s)
      /\ UNCHANGED <<up, sessions, wiping, wiped, deleting, histVars>>
      /\ db' = db \/ Saved(s)
    BY <1>0, UpdateEffect
<1>2. /\ sessions[Key[s]] = s \/ sessions[Key[s]] = None
      /\ Key[s] \in APIKeys
    BY <1>1, ConstantsAssumption DEF Serving, Agreeing, Held
<1>3. /\ \A k \in APIKeys : db'[k] = db[k] \/ (k = Key[s] /\ db'[k] # None /\ db'[k].session = s)
    BY <1>0, <1>1, SavedEffect
<1>4. Mine'
    BY <1>1, <1>2, <1>3 DEF Serving, Mine, Leftover, histVars
<1>5. InDb'
    BY <1>1, <1>2, <1>3 DEF Serving, InDb, Deleting, deleting, histVars
<1>6. Asked' /\ (expired \subseteq made)'
    BY <1>1 DEF Serving, Asked, Deleting, deleting, histVars
<1>7. wiped = None /\ pc[w] # "idle"
  <2>1. pc[w] # "idle"
      BY DEF Update, LockSession, NotSubscribed, Change, Measure, Copy, Write, CopyEvent
  <2> QED BY <1>0, <2>1, BusyMeansNoWipe DEF Serving, Agreeing, Sound
<1>8. WipedEmpty'
    BY <1>1, <1>7 DEF WipedEmpty
<1>9. \A v \in Workers : v # w => pc'[v] = pc[v] /\ cur'[v] = cur[v] /\ op'[v] = op[v] /\ arg'[v] = arg[v]
    BY <1>0 DEF TypeOK, Update, LockSession, NotSubscribed, Change, Measure, Copy, Write, CopyEvent, Return
<1>10. \A v \in Workers : Writing(v) => cur[v] \in Sessions /\ Busy(cur[v])
    BY <1>0 DEF TypeOK, Writing, Busy
<1>11. Intent'
  <2>1. CASE LockSession(w) \/ NotSubscribed(w) \/ CopyEvent(w)
    <3>1. /\ UNCHANGED <<connections, db, expired>>
          /\ pc'[w] \notin {"save", "copy", "write"}
        BY <1>0, <2>1 DEF LockSession, NotSubscribed, CopyEvent, Return, TypeOK, memVars, histVars
    <3> QED BY <1>9, <3>1 DEF Serving, Intent, Writing
  <2>2. CASE Measure(w) \/ Copy(w)
    <3>1. /\ UNCHANGED <<connections, db, expired, cur, op, arg>>
          /\ pc[w] \in {"save", "copy", "write"}
        BY <2>2 DEF Measure, Copy, memVars, histVars
    <3> QED BY <1>9, <3>1 DEF Serving, Intent, Writing
  <2>3. CASE Write(w)
    <3>1. UNCHANGED <<connections, expired>> /\ pc'[w] = "event" /\ pc[w] = "write"
        BY <1>0, <2>3 DEF Write, TypeOK, memVars, histVars
    <3>2. ASSUME NEW v \in Workers, v # w, Writing(v) PROVE db'[Key[cur[v]]] = db[Key[cur[v]]]
      <4>1. cur[v] # s
          BY <3>1, <3>2, OneWriter DEF Serving, Agreeing, Sound, Writing
      <4>2. sessions[Key[cur[v]]] = cur[v] /\ Key[cur[v]] \in APIKeys /\ cur[v] # None
          BY <1>10, <3>2, BusyListed DEF Writing
      <4> QED BY <1>2, <1>3, <4>1, <4>2
    <3> QED BY <1>9, <3>1, <3>2 DEF Serving, Intent, Writing
  <2>4. CASE Change(w)
    <3>1. /\ pc[w] = "change" /\ UNCHANGED <<db, cur, op, arg, expired>>
          /\ \A x \in Sessions : x # s => connections'[x] = connections[x]
        BY <1>0, <2>4 DEF Change, TypeOK, histVars
    <3>2. ASSUME NEW v \in Workers, v # w, Writing(v) PROVE cur[v] # s
        BY <3>1, <3>2, OneWriter DEF Serving, Agreeing, Sound, Writing
    <3>3. ASSUME s \notin expired
          PROVE  connections'[s] = SS!Applied(op[w], arg[w], db[Key[s]].conns)
      <4>1. sessions[Key[s]] = s /\ s # None /\ ~Deleting(s)
          BY <1>1, <3>3, BusyListed
      <4>2. \A v \in Workers : cur[v] = s => pc[v] \notin {"save", "copy", "write"}
          BY <3>1, OneWriter DEF Serving, Agreeing, Sound
      <4>3. up /\ ~Unsaved(s)
          BY <1>0, <1>1, <1>7, <4>2 DEF Unsaved, Serving, Agreeing, Down
      <4>4. db[Key[s]] = Record(s)
          BY <1>2, <4>1, <4>3 DEF Serving, Agreeing, Agrees
      <4>5. db[Key[s]].conns = connections[s] /\ seen[w] = connections[s]
          BY <3>1, <4>4 DEF Record, Serving, Agreeing, Sound, SeenFresh
      <4>6. connections'[s] =
                CASE op[w] = "add" /\ arg[w] \notin seen[w] -> seen[w] \cup {arg[w]}
                  [] op[w] = "remove" /\ arg[w] \in seen[w] -> seen[w] \ {arg[w]}
                  [] OTHER -> connections[s]
        <5>1. {seen[w], connections[s]} = {seen[w]}
            BY <4>5
        <5> QED BY <1>0, <1>1, <2>4, <5>1 DEF Change, TypeOK
      <4>7. connections'[s] = SS!Applied(op[w], arg[w], connections[s])
        <5>1. CASE op[w] = "add"
            BY <4>5, <4>6, <5>1 DEF SS!Applied
        <5>2. CASE op[w] = "remove"
            BY <4>5, <4>6, <5>2 DEF SS!Applied
        <5>3. CASE op[w] \notin {"add", "remove"}
            BY <4>5, <4>6, <5>3 DEF SS!Applied
        <5> QED BY <5>1, <5>2, <5>3
      <4> QED BY <4>5, <4>7
    <3>4. ASSUME NEW v \in Workers, Writing(v)'
          PROVE  connections'[cur'[v]] = SS!Applied(op'[v], arg'[v], db'[Key[cur'[v]]].conns)
      <4>1. CASE v = w
          BY <3>1, <3>3, <3>4, <4>1 DEF Writing
      <4>2. CASE v # w
        <5>1. Writing(v)
            BY <1>9, <3>1, <3>4, <4>2 DEF Writing
        <5> QED BY <1>9, <1>10, <3>1, <3>2, <4>2, <5>1 DEF Serving, Intent
      <4> QED BY <4>1, <4>2
    <3> QED BY <3>4 DEF Intent
  <2> QED BY <2>1, <2>2, <2>3, <2>4 DEF Update
<1> QED BY <1>4, <1>5, <1>6, <1>8, <1>11
\* What nobody is about to save stays as it is meant, while session and record do.
LEMMA IntentStays ==
    ASSUME Serving, UNCHANGED <<pc, cur, op, arg>>, expired \subseteq expired',
           NEW S \in SUBSET Sessions, \A s \in S : ~Busy(s) \/ s \in expired',
           \A s \in Sessions : s \in S \/ (connections'[s] = connections[s] /\ db'[Key[s]] = db[Key[s]])
    PROVE  Intent'
<1>1. \A w \in Workers : Writing(w) => cur[w] \in Sessions /\ Busy(cur[w])
    BY DEF Serving, Agreeing, Sound, Shape, TypeOK, Writing, Busy
<1> QED BY <1>1 DEF Serving, Intent, Writing

LEMMA WipeServes ==
    ASSUME Serving, StartWipe \/ DeleteAllConnections
    PROVE  Mine' /\ InDb' /\ Intent' /\ Asked' /\ WipedEmpty' /\ (expired \subseteq made)'
<1>0. TypeOK /\ None \notin Sessions
    BY ConstantsAssumption DEF Serving, Agreeing, Sound, Shape
<1>1. UNCHANGED <<sessions, callVars, deleting, histVars>>
  <2>1. CASE StartWipe
      BY <2>1 DEF StartWipe, memVars
  <2>2. CASE DeleteAllConnections
      BY <2>2 DEF DeleteAllConnections, WipeClear, WipeMeasure, WipeCopy, WipeWrite, memVars
  <2> QED BY <2>1, <2>2
<1>2. db' = db \/ (wiped \in Sessions /\ Saved(wiped) /\ sessions[Key[wiped]] = wiped)
  <2>1. CASE StartWipe
      BY <2>1 DEF StartWipe
  <2>2. CASE DeleteAllConnections
      BY <1>0, <2>2, WipeEffect DEF Serving, Agreeing, Held
  <2> QED BY <2>1, <2>2
<1>3. \A k \in APIKeys :
        \/ db'[k] = db[k]
        \/ sessions[k] # None /\ db'[k] # None /\ db'[k].session = sessions[k]
  <2>1. CASE db' = db
      BY <2>1
  <2>2. CASE wiped \in Sessions /\ Saved(wiped) /\ sessions[Key[wiped]] = wiped
    <3>1. /\ db'[Key[wiped]] # None /\ db'[Key[wiped]].session = wiped
          /\ \A k \in APIKeys : k # Key[wiped] => db'[k] = db[k]
        BY <1>0, <2>2, SavedEffect
    <3> QED BY <1>0, <2>2, <3>1
  <2> QED BY <1>2, <2>1, <2>2
<1>4. Mine' /\ InDb' /\ Asked' /\ (expired \subseteq made)'
    BY <1>1, <1>3
    DEF Serving, Mine, InDb, Asked, Leftover, Deleting, deleting, histVars
<1>5. WipedEmpty'
    BY <1>0 DEF Serving, WipedEmpty, TypeOK, StartWipe, DeleteAllConnections, WipeClear,
        WipeMeasure, WipeCopy, WipeWrite, lockerFree, memVars
<1>6. Intent'
  <2>1. CASE StartWipe
      BY <1>1, <2>1 DEF StartWipe, memVars, callVars, histVars, Serving, Intent, Writing
  <2>2. CASE DeleteAllConnections
    <3>1. \A s \in Sessions : ~Busy(s)
        BY <1>0, <2>2 DEF Serving, Agreeing, Sound, WipeAlone, lockerFree, DeleteAllConnections,
            WipeClear, WipeMeasure, WipeCopy, WipeWrite
    <3> QED BY <1>1, <3>1, IntentStays DEF callVars, histVars
  <2> QED BY <2>1, <2>2
<1> QED BY <1>4, <1>5, <1>6

LEMMA DeleteServes ==
    ASSUME Serving, NEW s \in Sessions, Delete(s)
    PROVE  Mine' /\ InDb' /\ Intent' /\ Asked' /\ WipedEmpty' /\ (expired \subseteq made)'
<1>0. Shape /\ TypeOK /\ None \notin Sessions
    BY ConstantsAssumption DEF Serving, Agreeing, Sound, Shape
<1>1. /\ Deleting(s) /\ \A t \in Sessions : Deleting(t)' => Deleting(t)
      /\ UNCHANGED <<up, connections, wipeVars, expired, made, dismissed>>
    BY <1>0, DeleteEffect
<1>2. Key[s] \in APIKeys /\ sessions[Key[s]] \in {s, None}
    BY <1>1, ConstantsAssumption DEF Serving, Agreeing, Held
<1>3. \A k \in APIKeys :
        /\ sessions'[k] = sessions[k] \/ (k = Key[s] /\ sessions'[k] = None)
        /\ db'[k] = db[k] \/ (k = Key[s] /\ db'[k] = None)
    BY <1>0, DeleteEffect DEF TypeOK
<1>4. UNCHANGED callVars
    BY DEF Delete, DeleteFromDb, DeleteFromMap
<1>5. Mine'
    BY <1>1, <1>3 DEF Serving, Mine, Leftover
<1>6. InDb'
  <2>1. ASSUME NEW k \in APIKeys, NEW t, t = sessions'[k], t # None, t \notin expired, ~Deleting(t)'
        PROVE  db'[k] # None /\ db'[k].session = t
    <3>1. t = sessions[k] /\ t \in Sessions
      <4>1. t = sessions[k]
          BY <1>3, <2>1
      <4> QED BY <1>0, <2>1, <4>1 DEF TypeOK
    <3>2. CASE DeleteFromDb(s)
      <4>1. Deleting(s)' /\ \A x \in Sessions : Deleting(x) => Deleting(x)'
          BY <1>0, <3>2 DEF DeleteFromDb, Deleting, TypeOK
      <4>2. t # s /\ ~Deleting(t) /\ k # Key[s]
          BY <1>2, <2>1, <3>1, <4>1
      <4> QED BY <1>3, <2>1, <3>1, <4>2 DEF Serving, InDb
    <3>3. CASE DeleteFromMap(s)
      <4>1. sessions'[Key[s]] = None /\ UNCHANGED db
          BY <1>0, <1>2, <3>3 DEF DeleteFromMap, TypeOK
      <4>2. t # s
          BY <2>1, <3>1, <4>1 DEF Serving, Agreeing, Sound, Filed, MapFiled
      <4>3. ~Deleting(t)
          BY <1>0, <2>1, <3>1, <3>3, <4>2 DEF DeleteFromMap, Deleting, TypeOK
      <4> QED BY <2>1, <3>1, <4>1, <4>3 DEF Serving, InDb
    <3> QED BY <3>2, <3>3 DEF Delete
  <2> QED BY <1>1, <2>1 DEF InDb, Deleting
<1>7. Asked' /\ (expired \subseteq made)'
    BY <1>1 DEF Serving, Asked
<1>8. WipedEmpty'
    BY <1>1 DEF Serving, WipedEmpty, wipeVars
<1>9. Intent'
  <2> DEFINE S == {t \in Sessions : Key[t] = Key[s]}
  <2>1. ASSUME NEW t \in S PROVE ~Busy(t) \/ t \in expired'
      BY <1>1, <1>2, <2>1, BusyListed
  <2>2. \A t \in Sessions :
            t \in S \/ (connections'[t] = connections[t] /\ db'[Key[t]] = db[Key[t]])
      BY <1>1, <1>3, ConstantsAssumption
  <2>3. S \in SUBSET Sessions /\ UNCHANGED <<pc, cur, op, arg>> /\ expired \subseteq expired'
      BY <1>1, <1>4 DEF callVars
  <2> HIDE DEF S
  <2> QED BY <2>1, <2>2, <2>3, IntentStays
<1> QED BY <1>5, <1>6, <1>7, <1>8, <1>9
LEMMA NewServes ==
    ASSUME Environment = {}, Serving, NEW s \in Sessions, New(s)
    PROVE  Mine' /\ InDb' /\ Intent' /\ Asked' /\ WipedEmpty' /\ (expired \subseteq made)'
<1>0. TypeOK /\ Key[s] \in APIKeys
    BY ConstantsAssumption DEF Serving, Agreeing, Sound, Shape
<1>1. /\ s \notin made /\ wiped' = None /\ made' = made \cup {s} /\ dismissed \subseteq dismissed'
      /\ \A t \in Sessions : Key[t] = Key[s] => ~Busy(t) /\ ~Deleting(t)
      /\ UNCHANGED <<deleting, expired>> /\ Saved(s)
      /\ sessions' = [sessions EXCEPT ![Key[s]] = s]
    BY <1>0, NewEffect
<1>2. /\ sessions'[Key[s]] = s /\ db'[Key[s]] # None /\ db'[Key[s]].session = s
      /\ \A k \in APIKeys : k # Key[s] => sessions'[k] = sessions[k] /\ db'[k] = db[k]
    BY <1>0, <1>1, SavedEffect DEF TypeOK
<1>3. Mine'
    BY <1>1, <1>2 DEF Serving, Mine, Leftover
<1>4. InDb'
    BY <1>1, <1>2 DEF Serving, InDb, Deleting, deleting
<1>5. Asked' /\ (expired \subseteq made)' /\ WipedEmpty'
    BY <1>1 DEF Serving, Asked, Deleting, deleting, WipedEmpty
<1>6. Intent'
  <2> DEFINE S == {t \in Sessions : Key[t] = Key[s]}
  <2>1. \A t \in S : ~Busy(t) \/ t \in expired'
      BY <1>1
  <2>2. \A t \in Sessions :
            t \in S \/ (connections'[t] = connections[t] /\ db'[Key[t]] = db[Key[t]])
    <3>1. \A t \in Sessions : t # s => connections'[t] = connections[t]
        BY <1>0 DEF New, TypeOK
    <3> QED BY <1>2, <3>1, ConstantsAssumption
  <2>3. S \in SUBSET Sessions /\ UNCHANGED <<pc, cur, op, arg>> /\ expired \subseteq expired'
      BY <1>1 DEF New, callVars
  <2> HIDE DEF S
  <2> QED BY <2>1, <2>2, <2>3, IntentStays
<1> QED BY <1>3, <1>4, <1>5, <1>6

LEMMA ServingNext ==
    ASSUME Environment = {}
    PROVE  Serving /\ [Next]_vars => Serving'
<1> SUFFICES ASSUME Serving, [Next]_vars,
                    ~(\E w \in Workers : Update(w)), ~StartWipe, ~DeleteAllConnections,
                    ~(\E s \in Sessions : Delete(s)), ~(\E s \in Sessions : New(s))
             PROVE  Mine' /\ InDb' /\ Intent' /\ Asked' /\ WipedEmpty' /\ (expired \subseteq made)'
    BY AgreeingNext, UpdateServes, WipeServes, DeleteServes, NewServes DEF Serving
<1>0. TypeOK /\ Live \subseteq Sessions /\ None \notin Sessions
    BY LiveFacts, ConstantsAssumption DEF Serving, Agreeing, Sound, Shape
<1>1. ASSUME NEW w \in Workers, NEW k \in APIKeys, NEW o, NEW c, Fetch(w, k, o, c)
      PROVE  Mine' /\ InDb' /\ Intent' /\ Asked' /\ WipedEmpty' /\ (expired \subseteq made)'
    <2>1. UNCHANGED <<memVars, db, wipeVars, deleting, histVars>>
        BY <1>1 DEF Fetch
    <2>2. /\ pc'[w] = "fetched"
          /\ \A v \in Workers \ {w} : pc'[v] = pc[v] /\ cur'[v] = cur[v] /\ op'[v] = op[v] /\ arg'[v] = arg[v]
        BY <1>0, <1>1 DEF Fetch, TypeOK
    <2>3. Intent'
        BY <2>1, <2>2 DEF Serving, Intent, Writing, memVars, histVars
    <2> QED BY <2>1, <2>3 DEF Serving, Mine, InDb, Asked, WipedEmpty, Leftover, Deleting, memVars, wipeVars,
                deleting, histVars
<1>2. ASSUME NEW S \in SUBSET Live, StartDelete(S)
      PROVE  Mine' /\ InDb' /\ Intent' /\ Asked' /\ WipedEmpty' /\ (expired \subseteq made)'
    <2>1. /\ UNCHANGED <<memVars, db, wipeVars, callVars, mapDeletes, expired, made>>
          /\ dismissed' = dismissed \cup S
        BY <1>2 DEF StartDelete
    <2>2. \A s \in Sessions :
            /\ Deleting(s) => Deleting(s)'
            /\ Deleting(s)' => Deleting(s) \/ s \in S
        BY <1>0, <1>2 DEF StartDelete, Deleting, TypeOK
    <2>3. Mine' /\ Intent' /\ WipedEmpty' /\ (expired \subseteq made)'
        BY <2>1 DEF Serving, Mine, Leftover, Intent, Writing, WipedEmpty, memVars, wipeVars, callVars
    <2>4. ASSUME NEW k \in APIKeys, NEW t, t = sessions[k], t # None, t \notin expired, ~Deleting(t)'
          PROVE  db[k] # None /\ db[k].session = t
        <3>1. t \in Sessions
            BY <1>0, <2>4 DEF TypeOK
        <3>2. ~Deleting(t)
            BY <3>1, <2>2, <2>4
        <3> QED BY <3>2, <2>4 DEF Serving, InDb
    <2>5. InDb'
        BY <2>1, <2>4 DEF InDb, Deleting, memVars
    <2>6. Asked'
        BY <2>1, <2>2 DEF Serving, Asked
    <2> QED BY <2>3, <2>5, <2>6
<1>3. ASSUME NEW s \in Sessions, Expire(s)
      PROVE  Mine' /\ InDb' /\ Intent' /\ Asked' /\ WipedEmpty' /\ (expired \subseteq made)'
    <2>1. /\ UNCHANGED <<memVars, db, wipeVars, callVars, deleting, made, dismissed>>
          /\ expired' = expired \cup {s} /\ s \in made
        BY <1>3 DEF Expire
    <2> QED BY <2>1 DEF Serving, Mine, InDb, Intent, Writing, Asked, WipedEmpty, Leftover, Deleting, memVars,
                wipeVars, callVars, deleting
<1>4. ASSUME ClearRotten
      PROVE  Mine' /\ InDb' /\ Intent' /\ Asked' /\ WipedEmpty' /\ (expired \subseteq made)'
    <2>1. /\ \A k \in APIKeys :
                \/ sessions'[k] = sessions[k] /\ db'[k] = db[k]
                \/ sessions'[k] = None /\ db'[k] = None /\ sessions[k] \in expired
          /\ UNCHANGED <<connections, wipeVars, callVars, deleting, histVars>>
        BY <1>0, <1>4, ClearRottenEffect DEF ClearRotten
    <2>2. Mine' /\ InDb' /\ Asked' /\ WipedEmpty' /\ (expired \subseteq made)'
        BY <2>1 DEF Serving, Mine, InDb, Asked, WipedEmpty, Leftover, Deleting, wipeVars, deleting, histVars
    <2>3. \A w \in Workers : Writing(w) =>
            sessions[Key[cur[w]]] = cur[w] /\ Key[cur[w]] \in APIKeys
        <3>1. \A w \in Workers : Writing(w) => cur[w] \in Sessions /\ Busy(cur[w])
            BY <1>0 DEF Writing, Busy, TypeOK
        <3> QED BY <3>1, BusyListed DEF Writing
    <2>4. Intent'
        BY <2>1, <2>3 DEF Serving, Intent, Writing, callVars, histVars
    <2> QED BY <2>2, <2>4
<1>5. ASSUME Die
      PROVE  Mine' /\ InDb' /\ Intent' /\ Asked' /\ WipedEmpty' /\ (expired \subseteq made)'
    <2>1. /\ \A k \in APIKeys : sessions'[k] = None
          /\ \A w \in Workers : pc'[w] = "idle"
          /\ \A s \in Sessions : dbDeletes'[s] = 0 /\ mapDeletes'[s] = 0
          /\ wiped' = None /\ UNCHANGED <<expired, made>>
        BY <1>5 DEF Die
    <2> QED BY <2>1 DEF Serving, Mine, InDb, Intent, Writing, Asked, WipedEmpty, Deleting
<1>6. ASSUME Start
      PROVE  Mine' /\ InDb' /\ Intent' /\ Asked' /\ WipedEmpty' /\ (expired \subseteq made)'
    <2>1. /\ ~up /\ \A k \in APIKeys :
                IF db[k] # None /\ db[k].session \notin expired
                THEN /\ sessions'[k] = db[k].session
                     /\ db'[k] # None /\ db'[k].session = db[k].session
                ELSE sessions'[k] = None /\ db'[k] = None
          /\ UNCHANGED <<connections, wipeVars, callVars, deleting, histVars>>
        BY <1>0, <1>6, StartEffect DEF Start
    <2>2. \A s \in Sessions : ~Busy(s)
        BY <2>1 DEF Serving, Agreeing, Down
    <2>3. Mine' /\ InDb'
        BY <2>1 DEF Mine, InDb, Leftover
    <2>4. Asked' /\ WipedEmpty' /\ (expired \subseteq made)'
        BY <2>1 DEF Serving, Asked, WipedEmpty, Deleting, wipeVars, deleting, histVars
    <2>5. Intent'
        BY <2>1, <2>2, IntentStays DEF callVars, histVars
    <2> QED BY <2>3, <2>4, <2>5
<1>7. ASSUME UNCHANGED vars
      PROVE  Mine' /\ InDb' /\ Intent' /\ Asked' /\ WipedEmpty' /\ (expired \subseteq made)'
    BY <1>7 DEF vars, memVars, wipeVars, callVars, deleting, histVars, Serving, Mine, InDb, Intent, Writing,
        Asked, WipedEmpty, Leftover, Deleting
<1> QED BY <1>0, <1>1, <1>2, <1>3, <1>4, <1>5, <1>6, <1>7, Steps DEF Crash, Panic

(* The one copy of each session, and the calls in flight *)

LEMMA OneCopy ==
    ASSUME TypeOK, NEW k \in APIKeys
    PROVE  /\ Leftover(k) => SavedSessions[k] = None
           /\ ~Leftover(k) => SavedSessions[k] = db[k] /\ db[k] \in Records /\ db[k] # None
BY DEF SavedSessions, Leftover, TypeOK

LEMMA OneCopySaved ==
    ASSUME TypeOK, NEW s \in Sessions
    PROVE  SS!Saved(s) <=> ~Leftover(Key[s]) /\ db[Key[s]].session = s
<1>1. Key[s] \in APIKeys
    BY ConstantsAssumption
<1> QED BY <1>1, OneCopy DEF SS!Saved

LEMMA OneCopyKept ==
    ASSUME \A k \in APIKeys : SavedSessions'[k] = SavedSessions[k]
    PROVE  SavedSessions' = SavedSessions
BY DEF SavedSessions

LEMMA OneCopySet ==
    ASSUME NEW k \in APIKeys, NEW v, SavedSessions'[k] = v,
           \A j \in APIKeys : j # k => SavedSessions'[j] = SavedSessions[j]
    PROVE  SavedSessions' = [SavedSessions EXCEPT ![k] = v]
<1> DEFINE W == [SavedSessions EXCEPT ![k] = v]
<1>1. W = [j \in APIKeys |-> IF j = k THEN v ELSE SavedSessions[j]]
    BY DEF SavedSessions
<1>2. \A j \in APIKeys : SavedSessions'[j] = IF j = k THEN v ELSE SavedSessions[j]
    OBVIOUS
<1>3. SavedSessions' = [j \in APIKeys |-> SavedSessions'[j]]
    BY DEF SavedSessions
<1> QED BY <1>1, <1>2, <1>3

NoCall == {"idle", "event"}
SameCall(w) ==
    /\ pc'[w] \in NoCall <=> pc[w] \in NoCall
    /\ pc[w] \notin NoCall => cur'[w] = cur[w] /\ op'[w] = op[w] /\ arg'[w] = arg[w]

LEMMA CallsKept ==
    ASSUME \A w \in Workers : SameCall(w)
    PROVE  CallsInFlight' = CallsInFlight
<1>1. \A w \in Workers : CallsInFlight'[w] = CallsInFlight[w]
    BY DEF CallsInFlight, SameCall, NoCall
<1> QED BY <1>1 DEF CallsInFlight

LEMMA CallsSet ==
    ASSUME NEW w \in Workers, NEW v, CallsInFlight'[w] = v,
           \A u \in Workers \ {w} : SameCall(u)
    PROVE  CallsInFlight' = [CallsInFlight EXCEPT ![w] = v]
<1>1. \A u \in Workers \ {w} : CallsInFlight'[u] = CallsInFlight[u]
    BY DEF CallsInFlight, SameCall, NoCall
<1> QED BY <1>1 DEF CallsInFlight

LEMMA CallOf ==
    ASSUME TypeOK, NEW w \in Workers
    PROVE  IF pc[w] \in NoCall THEN CallsInFlight[w] = None
           ELSE /\ CallsInFlight[w] # None
                /\ CallsInFlight[w] = [session |-> cur[w], op |-> op[w], conn |-> arg[w]]
<1> DEFINE call == [session |-> cur[w], op |-> op[w], conn |-> arg[w]]
<1>1. CASE pc[w] \in NoCall
    BY <1>1 DEF CallsInFlight, NoCall
<1>2. CASE pc[w] \notin NoCall
    <2>1. /\ cur[w] \in Sessions /\ op[w] \in {"add", "remove", "unsubscribe", "none"}
          /\ arg[w] \in Conns \cup {None}
        BY <1>2 DEF TypeOK, NoCall
    <2>2. call \in [session : Sessions, op : {"add", "remove", "unsubscribe", "none"},
                    conn : Conns \cup {None}]
        BY <2>1, Zenon
    <2>3. call # None
        BY <2>2, CallsAssumption, Zenon
    <2>4. CallsInFlight[w] = call
        BY <1>2 DEF CallsInFlight, NoCall
    <2> QED BY <1>2, <2>3, <2>4
<1> QED BY <1>1, <1>2

\* A session somebody works on is saved, or it has expired and what is saved has expired too.
LEMMA WorkedOn ==
    ASSUME Serving, NEW s \in Sessions, sessions[Key[s]] = s \/ sessions[Key[s]] = None, up
    PROVE  Leftover(Key[s]) \/ db[Key[s]].session = s
<1>1. Key[s] \in APIKeys /\ s # None
    BY ConstantsAssumption
<1>2. CASE sessions[Key[s]] = s
    BY <1>1, <1>2 DEF Serving, Mine
<1>3. CASE sessions[Key[s]] = None
    BY <1>1, <1>3 DEF Serving, Agreeing, Agrees
<1> QED BY <1>2, <1>3

\* What is saved of an expired session is nothing.
LEMMA ExpiredUnsaved ==
    ASSUME Serving, NEW s \in Sessions, s \in expired, Saved(s), UNCHANGED expired,
           sessions[Key[s]] = s \/ sessions[Key[s]] = None, up
    PROVE  SavedSessions' = SavedSessions /\ ~SS!Saved(s)
<1>0. TypeOK /\ Key[s] \in APIKeys
    BY ConstantsAssumption DEF Serving, Agreeing, Sound, Shape
<1>1. Leftover(Key[s])
    BY WorkedOn DEF Leftover
<1>2. /\ db'[Key[s]] # None /\ db'[Key[s]].session = s
      /\ \A k \in APIKeys : k # Key[s] => db'[k] = db[k]
    BY <1>0, SavedEffect
<1>3. SavedSessions[Key[s]] = None /\ SavedSessions'[Key[s]] = None
    BY <1>0, <1>1, <1>2, OneCopy DEF SavedSessions
<1>4. \A k \in APIKeys : k # Key[s] => SavedSessions'[k] = SavedSessions[k]
    BY <1>2 DEF SavedSessions
<1> QED BY <1>0, <1>1, <1>3, <1>4, OneCopyKept, OneCopySaved

(* Step by step *)

LEMMA ServingFacts ==
    ASSUME Serving
    PROVE  /\ TypeOK /\ Sound /\ MapFiled /\ DbFiled /\ WorkFiled /\ expired \subseteq made
           /\ None \notin Sessions /\ Key \in [Sessions -> APIKeys]
BY ConstantsAssumption DEF Serving, Agreeing, Sound, Shape, Filed

\* What leaves the database, the calls and the history alone leaves the one copy alone.
LEMMA NothingHappens ==
    ASSUME UNCHANGED <<db, expired, made, dismissed>>, \A w \in Workers : SameCall(w)
    PROVE  UNCHANGED SS!vars
<1>1. UNCHANGED SavedSessions
    BY DEF SavedSessions
<1> QED BY <1>1, CallsKept DEF SS!vars

LEMMA NewImplements ==
    ASSUME Serving, NEW s \in Sessions, New(s)
    PROVE  SS!Make(s)
<1>0. TypeOK /\ expired \subseteq made /\ Key[s] \in APIKeys
    BY ServingFacts
<1> DEFINE fresh == [session |-> s, conns |-> {}]
<1>1. /\ s \notin made /\ made' = made \cup {s}
      /\ dismissed' = dismissed \cup {t \in made : Key[t] = Key[s]}
      /\ db' = [db EXCEPT ![Key[s]] = fresh]
      /\ UNCHANGED <<expired, pc, cur, op, arg>>
    BY DEF New, callVars
<1>2. fresh # None
    BY ConstantsAssumption
<1>3. db'[Key[s]] = fresh /\ \A k \in APIKeys : k # Key[s] => db'[k] = db[k]
    BY <1>0, <1>1 DEF TypeOK
<1>4. SavedSessions'[Key[s]] = fresh
    BY <1>0, <1>1, <1>2, <1>3 DEF SavedSessions
<1>5. \A k \in APIKeys : k # Key[s] => SavedSessions'[k] = SavedSessions[k]
    BY <1>1, <1>3 DEF SavedSessions
<1>6. SavedSessions' = [SavedSessions EXCEPT ![Key[s]] = fresh]
    BY <1>0, <1>4, <1>5, OneCopySet
<1>7. UNCHANGED CallsInFlight
    BY <1>1, CallsKept DEF SameCall
<1> QED BY <1>1, <1>6, <1>7 DEF SS!Make

LEMMA ExpireImplements ==
    ASSUME Serving, NEW s \in Sessions, Expire(s)
    PROVE  SS!Expire(s)
<1>0. TypeOK /\ DbFiled /\ Key[s] \in APIKeys
    BY ServingFacts
<1>1. /\ s \in made \ expired /\ expired' = expired \cup {s}
      /\ UNCHANGED <<db, made, dismissed, pc, cur, op, arg>>
    BY DEF Expire, callVars
<1>2. UNCHANGED CallsInFlight
    BY <1>1, CallsKept DEF SameCall
<1>3. \A k \in APIKeys : db[k] # None /\ k # Key[s] => db[k].session # s
    BY <1>0 DEF DbFiled
<1>4. \A k \in APIKeys : k # Key[s] => SavedSessions'[k] = SavedSessions[k]
    BY <1>1, <1>3 DEF SavedSessions
<1>5. CASE SS!Saved(s)
    <2>1. db[Key[s]].session = s
        BY <1>0, <1>5, OneCopySaved
    <2>2. SavedSessions'[Key[s]] = None
        BY <1>0, <1>1, <2>1 DEF SavedSessions
    <2>3. SavedSessions' = [SavedSessions EXCEPT ![Key[s]] = None]
        BY <1>0, <1>4, <2>2, OneCopySet
    <2> QED BY <1>1, <1>2, <1>5, <2>3 DEF SS!Expire
<1>6. CASE ~SS!Saved(s)
    <2>1. Leftover(Key[s]) \/ db[Key[s]].session # s
        BY <1>0, <1>6, OneCopySaved
    <2>2. SavedSessions'[Key[s]] = SavedSessions[Key[s]]
        BY <1>0, <1>1, <2>1 DEF SavedSessions, Leftover
    <2>3. SavedSessions' = SavedSessions
        BY <1>4, <2>2, OneCopyKept
    <2> QED BY <1>1, <1>2, <1>6, <2>3 DEF SS!Expire
<1> QED BY <1>5, <1>6

LEMMA ClearRottenImplements ==
    ASSUME Serving, ClearRotten
    PROVE  UNCHANGED SS!vars
<1>0. TypeOK /\ None \notin Sessions
    BY ServingFacts
<1>1. \A k \in APIKeys :
        \/ db'[k] = db[k]
        \/ db'[k] = None /\ sessions[k] \in expired
    BY <1>0, ClearRottenEffect
<1>2. \A k \in APIKeys : sessions[k] \in expired => Leftover(k)
    BY <1>0 DEF Serving, Mine, Leftover, TypeOK
<1>3. UNCHANGED <<expired, made, dismissed, pc, cur, op, arg>>
    BY DEF ClearRotten, histVars, callVars
<1>4. SavedSessions' = SavedSessions
    BY <1>1, <1>2, <1>3, OneCopyKept DEF SavedSessions, Leftover
<1>5. UNCHANGED CallsInFlight
    BY <1>3, CallsKept DEF SameCall
<1> QED BY <1>3, <1>4, <1>5 DEF SS!vars

LEMMA FetchImplements ==
    ASSUME Environment = {}, Serving, NEW w \in Workers, NEW k \in APIKeys,
           NEW o \in {"add", "remove", "unsubscribe"}, NEW c \in Conns, Fetch(w, k, o, c)
    PROVE  \E s \in Sessions : SS!Ask(w, s, o, c)
<1>0. TypeOK /\ MapFiled
    BY ServingFacts
<1>1. PICK s \in Sessions : s = sessions[k]
    BY <1>0 DEF Fetch, TypeOK
<1>2. Key[s] = k /\ s # None /\ ~Deleting(s)
    BY <1>0, <1>1 DEF Fetch, MapFiled
<1>3. SS!Saved(s) \/ s \in expired
    <2>1. ASSUME s \notin expired PROVE ~Leftover(k) /\ db[k].session = s
        BY <1>1, <1>2, <2>1 DEF Serving, InDb, Leftover
    <2> QED BY <1>0, <1>2, <2>1, OneCopySaved
<1>4. /\ pc[w] \in NoCall /\ pc'[w] \notin NoCall /\ cur'[w] = s /\ op'[w] = o /\ arg'[w] = c
      /\ \A v \in Workers \ {w} : SameCall(v)
      /\ UNCHANGED <<db, expired, made, dismissed>>
    BY <1>0, <1>1 DEF Fetch, TypeOK, SameCall, NoCall, histVars
<1>5. CallsInFlight[w] = None
    BY <1>0, <1>4, CallOf
<1>6. CallsInFlight'[w] = [session |-> s, op |-> o, conn |-> c]
    BY <1>4 DEF CallsInFlight, NoCall
<1>7. CallsInFlight' = [CallsInFlight EXCEPT ![w] = [session |-> s, op |-> o, conn |-> c]]
    BY <1>4, <1>6, CallsSet
<1>8. UNCHANGED SavedSessions
    BY <1>4 DEF SavedSessions
<1> QED BY <1>3, <1>4, <1>5, <1>7, <1>8 DEF SS!Ask


LEMMA NotSubscribedImplements ==
    ASSUME Serving, NEW w \in Workers, NotSubscribed(w)
    PROVE  SS!Answer(w)
<1>0. TypeOK
    BY ServingFacts
<1> DEFINE s == cur[w]
<1>1. /\ pc[w] \notin NoCall /\ op[w] = "unsubscribe" /\ s \in Sessions /\ Key[s] \in APIKeys
      /\ pc'[w] \in NoCall /\ \A v \in Workers \ {w} : SameCall(v)
      /\ UNCHANGED <<db, expired, made, dismissed>>
    BY <1>0, ServingFacts DEF NotSubscribed, Return, TypeOK, SameCall, NoCall, histVars
<1>2. /\ CallsInFlight[w] # None /\ CallsInFlight[w].session = s
      /\ CallsInFlight[w].op = "unsubscribe"
    <2>1. /\ CallsInFlight[w] # None
          /\ CallsInFlight[w] = [session |-> cur[w], op |-> op[w], conn |-> arg[w]]
        BY <1>0, <1>1, CallOf
    <2> QED BY <1>1, <2>1
<1>3. CallsInFlight' = [CallsInFlight EXCEPT ![w] = None]
    <2>1. CallsInFlight'[w] = None
        BY <1>1 DEF CallsInFlight, NoCall
    <2> QED BY <1>1, <2>1, CallsSet
<1>4. UNCHANGED SavedSessions
    BY <1>1 DEF SavedSessions
<1>5. CASE ~SS!Saved(s)
    BY <1>1, <1>2, <1>3, <1>4, <1>5 DEF SS!Answer
<1>6. CASE SS!Saved(s)
    <2> DEFINE same == [session |-> s, conns |-> SavedSessions[Key[s]].conns]
    <2>1. SavedSessions[Key[s]] = same
        BY <1>0, <1>1, <1>6, OneCopy, OneCopySaved DEF Records
    <2>2. SavedSessions' = [SavedSessions EXCEPT ![Key[s]] = same]
        BY <1>1, <1>4, <2>1, OneCopySet
    <2>3. SS!Applied(CallsInFlight[w].op, CallsInFlight[w].conn, SavedSessions[Key[s]].conns)
            = SavedSessions[Key[s]].conns
        BY <1>2 DEF SS!Applied
    <2> QED BY <1>1, <1>2, <1>3, <1>6, <2>2, <2>3 DEF SS!Answer
<1> QED BY <1>5, <1>6

LEMMA WriteImplements ==
    ASSUME Serving, NEW w \in Workers, Write(w)
    PROVE  SS!Answer(w)
<1>0. TypeOK
    BY ServingFacts
<1> DEFINE s == cur[w]
           saved == [session |-> s, conns |-> seen[w]]
<1>1. /\ pc[w] = "write" /\ s \in Sessions /\ Key[s] \in APIKeys
      /\ pc[w] \notin NoCall /\ pc'[w] \in NoCall /\ \A v \in Workers \ {w} : SameCall(v)
      /\ db' = [db EXCEPT ![Key[s]] = saved] /\ seen[w] \in SUBSET Conns
      /\ UNCHANGED <<expired, made, dismissed>>
    BY <1>0, ServingFacts DEF Write, TypeOK, SameCall, NoCall, histVars
<1>2. /\ CallsInFlight[w] # None /\ CallsInFlight[w].session = s
      /\ CallsInFlight[w].op = op[w] /\ CallsInFlight[w].conn = arg[w]
    <2>1. /\ CallsInFlight[w] # None
          /\ CallsInFlight[w] = [session |-> cur[w], op |-> op[w], conn |-> arg[w]]
        BY <1>0, <1>1, CallOf
    <2> QED BY <1>1, <2>1
<1>3. CallsInFlight' = [CallsInFlight EXCEPT ![w] = None]
    <2>1. CallsInFlight'[w] = None
        BY <1>1 DEF CallsInFlight, NoCall
    <2> QED BY <1>1, <2>1, CallsSet
<1>4. Busy(s) /\ Saved(s)
    BY <1>1 DEF Busy, Saved
<1>5. CASE s \in expired
    <2>1. up /\ (sessions[Key[s]] = s \/ sessions[Key[s]] = None)
        BY <1>1, <1>4 DEF Serving, Agreeing, Held, Down
    <2>2. SavedSessions' = SavedSessions /\ ~SS!Saved(s)
        BY <1>1, <1>4, <1>5, <2>1, ExpiredUnsaved
    <2> QED BY <1>1, <1>2, <1>3, <2>2 DEF SS!Answer
<1>6. CASE s \notin expired
    <2>1. db[Key[s]] # None /\ db[Key[s]].session = s
        BY <1>1, <1>4, <1>6, BusyListed
    <2>2. SS!Saved(s) /\ SavedSessions[Key[s]] = db[Key[s]]
        BY <1>0, <1>1, <1>6, <2>1, OneCopy, OneCopySaved DEF Leftover
    <2>3. seen[w] = SS!Applied(op[w], arg[w], SavedSessions[Key[s]].conns)
        <3>1. seen[w] = connections[s]
            BY <1>1, ServingFacts DEF Sound, SeenFresh
        <3>2. connections[s] = SS!Applied(op[w], arg[w], db[Key[s]].conns)
            BY <1>1, <1>6 DEF Serving, Intent, Writing
        <3> QED BY <2>2, <3>1, <3>2
    <2>4. db'[Key[s]] = saved /\ \A k \in APIKeys : k # Key[s] => db'[k] = db[k]
        BY <1>0, <1>1 DEF TypeOK
    <2>5. saved # None
        BY <1>1, ConstantsAssumption
    <2>6. SavedSessions'[Key[s]] = saved
        BY <1>1, <1>6, <2>4, <2>5 DEF SavedSessions
    <2>7. \A k \in APIKeys : k # Key[s] => SavedSessions'[k] = SavedSessions[k]
        BY <1>1, <2>4 DEF SavedSessions
    <2>8. SavedSessions' = [SavedSessions EXCEPT ![Key[s]] = saved]
        BY <1>1, <2>6, <2>7, OneCopySet
    <2> QED BY <1>1, <1>2, <1>3, <2>2, <2>3, <2>8 DEF SS!Answer
<1> QED BY <1>5, <1>6

LEMMA UpdateImplements ==
    ASSUME Serving, NEW w \in Workers, Update(w)
    PROVE  SS!Answer(w) \/ UNCHANGED SS!vars
<1>1. ASSUME LockSession(w) \/ Change(w) \/ Measure(w) \/ Copy(w)
      PROVE  UNCHANGED SS!vars
    <2>1. UNCHANGED <<db, expired, made, dismissed, cur, op, arg>>
        BY <1>1 DEF LockSession, Change, Measure, Copy, histVars
    <2>2. \A v \in Workers : pc'[v] \in NoCall <=> pc[v] \in NoCall
        BY <1>1, ServingFacts DEF LockSession, Change, Measure, Copy, TypeOK, NoCall
    <2> QED BY <2>1, <2>2, NothingHappens DEF SameCall
<1>2. ASSUME CopyEvent(w) PROVE UNCHANGED SS!vars
    <2>1. UNCHANGED <<db, expired, made, dismissed>>
        BY <1>2 DEF CopyEvent, histVars
    <2>2. \A v \in Workers : SameCall(v)
        BY <1>2, ServingFacts DEF CopyEvent, Return, TypeOK, SameCall, NoCall
    <2> QED BY <2>1, <2>2, NothingHappens
<1> QED BY <1>1, <1>2, NotSubscribedImplements, WriteImplements DEF Update

LEMMA StartDeleteImplements ==
    ASSUME Serving, NEW S \in SUBSET Live, StartDelete(S)
    PROVE  S \in SUBSET made /\ SS!Dismiss(S)
<1>1. S \in SUBSET made
    BY ServingFacts DEF Live, MapFiled
<1>2. /\ dismissed' = dismissed \cup S
      /\ UNCHANGED <<db, expired, made, pc, cur, op, arg>>
    BY DEF StartDelete, callVars
<1>3. UNCHANGED SavedSessions
    BY <1>2 DEF SavedSessions
<1>4. UNCHANGED CallsInFlight
    BY <1>2, CallsKept DEF SameCall
<1> QED BY <1>1, <1>2, <1>3, <1>4 DEF SS!Dismiss

LEMMA DeleteImplements ==
    ASSUME Serving, NEW s \in Sessions, Delete(s)
    PROVE  SS!Remove(s) \/ UNCHANGED SS!vars
<1>0. TypeOK /\ Key[s] \in APIKeys
    BY ServingFacts
<1>1. \A w \in Workers : SameCall(w)
    BY DEF Delete, DeleteFromDb, DeleteFromMap, callVars, SameCall
<1>2. CASE DeleteFromMap(s)
    BY <1>1, <1>2, NothingHappens DEF DeleteFromMap
<1>3. CASE DeleteFromDb(s)
    <2>1. /\ db' = [db EXCEPT ![Key[s]] = None] /\ Deleting(s)
          /\ UNCHANGED <<expired, made, dismissed>>
        <3>1. Deleting(s)
            BY <1>0, <1>3 DEF DeleteFromDb, Deleting, TypeOK
        <3> QED BY <1>3, <3>1 DEF DeleteFromDb, histVars
    <2>2. s \in dismissed /\ up /\ (sessions[Key[s]] = s \/ sessions[Key[s]] = None)
        BY <2>1 DEF Serving, Asked, Agreeing, Held, Down
    <2>3. Leftover(Key[s]) \/ db[Key[s]].session = s
        BY <2>2, WorkedOn
    <2>4. db'[Key[s]] = None /\ \A k \in APIKeys : k # Key[s] => db'[k] = db[k]
        BY <1>0, <2>1 DEF TypeOK
    <2>5. SavedSessions'[Key[s]] = None
        BY <1>0, <2>4 DEF SavedSessions
    <2>6. \A k \in APIKeys : k # Key[s] => SavedSessions'[k] = SavedSessions[k]
        BY <2>1, <2>4 DEF SavedSessions
    <2>7. UNCHANGED CallsInFlight
        BY <1>1, CallsKept
    <2>8. CASE Leftover(Key[s])
        <3>1. SavedSessions'[Key[s]] = SavedSessions[Key[s]]
            BY <1>0, <2>5, <2>8, OneCopy
        <3>2. UNCHANGED SavedSessions
            BY <2>6, <3>1, OneCopyKept
        <3> QED BY <2>1, <2>7, <3>2 DEF SS!vars
    <2>9. CASE ~Leftover(Key[s])
        <3>1. SS!Saved(s)
            BY <1>0, <2>3, <2>9, OneCopySaved
        <3>2. SavedSessions' = [SavedSessions EXCEPT ![Key[s]] = None]
            BY <1>0, <2>5, <2>6, OneCopySet
        <3> QED BY <2>1, <2>2, <2>7, <3>1, <3>2 DEF SS!Remove
    <2> QED BY <2>8, <2>9
<1> QED BY <1>2, <1>3 DEF Delete

LEMMA WipeImplements ==
    ASSUME Serving, NEW s \in Sessions,
           WipeClear(s) \/ WipeMeasure(s) \/ WipeCopy(s) \/ WipeWrite(s)
    PROVE  SS!Wipe(s) \/ UNCHANGED SS!vars
<1>0. TypeOK /\ None \notin Sessions /\ Key[s] \in APIKeys
    BY ServingFacts
<1>1. (\A w \in Workers : SameCall(w)) /\ UNCHANGED <<expired, made, dismissed>>
    BY DEF WipeClear, WipeMeasure, WipeCopy, WipeWrite, callVars, histVars, SameCall
<1>2. CASE WipeClear(s) \/ WipeMeasure(s) \/ WipeCopy(s)
    <2>1. UNCHANGED db
        BY <1>2 DEF WipeClear, WipeMeasure, WipeCopy
    <2> QED BY <1>1, <2>1, NothingHappens
<1>3. CASE WipeWrite(s)
    <2> DEFINE saved == [session |-> s, conns |-> {}]
    <2>1. wiped = s /\ wipePc = "write" /\ wiped # None
        BY <1>0, <1>3 DEF WipeWrite
    <2>2. wipeSeen = {}
        BY <2>1, ServingFacts DEF Serving, WipedEmpty, Sound, WipeFresh
    <2>3. db' = [db EXCEPT ![Key[s]] = saved]
        BY <1>3, <2>2 DEF WipeWrite
    <2>4. sessions[Key[s]] = s /\ up /\ ~Deleting(s)
        BY <2>1, ServingFacts DEF Serving, Agreeing, Held, Down, Sound, WipeAlone, lockerFree
    <2>5. UNCHANGED CallsInFlight
        BY <1>1, CallsKept
    <2>6. CASE s \in expired
        <3>1. Saved(s)
            BY <2>3 DEF Saved
        <3>2. UNCHANGED SavedSessions
            BY <1>1, <2>4, <2>6, <3>1, ExpiredUnsaved
        <3> QED BY <1>1, <2>5, <3>2 DEF SS!vars
    <2>7. CASE s \notin expired
        <3>1. SS!Saved(s)
            <4>1. db[Key[s]] # None /\ db[Key[s]].session = s
                BY <1>0, <2>4, <2>7 DEF Serving, InDb
            <4> QED BY <1>0, <2>7, <4>1, OneCopySaved DEF Leftover
        <3>2. db'[Key[s]] = saved /\ \A k \in APIKeys : k # Key[s] => db'[k] = db[k]
            BY <1>0, <2>3 DEF TypeOK
        <3>3. saved # None
            BY ConstantsAssumption
        <3>4. SavedSessions'[Key[s]] = saved
            BY <1>0, <1>1, <2>7, <3>2, <3>3 DEF SavedSessions
        <3>5. \A k \in APIKeys : k # Key[s] => SavedSessions'[k] = SavedSessions[k]
            BY <1>1, <3>2 DEF SavedSessions
        <3>6. SavedSessions' = [SavedSessions EXCEPT ![Key[s]] = saved]
            BY <1>0, <3>4, <3>5, OneCopySet
        <3> QED BY <1>1, <2>5, <3>1, <3>6 DEF SS!Wipe
    <2> QED BY <2>6, <2>7
<1> QED BY <1>2, <1>3

LEMMA CrashImplements ==
    ASSUME Crash
    PROVE  SS!Crash
<1>1. UNCHANGED <<db, expired, made, dismissed>> /\ pc' = [w \in Workers |-> "idle"]
    BY DEF Crash, Die
<1>2. UNCHANGED SavedSessions
    BY <1>1 DEF SavedSessions
<1>3. CallsInFlight' = [w \in Workers |-> None]
    BY <1>1 DEF CallsInFlight
<1> QED BY <1>1, <1>2, <1>3 DEF SS!Crash

LEMMA StartImplements ==
    ASSUME Serving, Start
    PROVE  SS!Restart
<1>0. TypeOK
    BY ServingFacts
<1>1. /\ ~up /\ UNCHANGED <<expired, made, dismissed, pc, cur, op, arg>>
    BY DEF Start, callVars, histVars
<1>2. \A w \in Workers : pc[w] = "idle"
    <2>1. \A s \in Sessions : ~Busy(s)
        BY <1>1 DEF Serving, Agreeing, Down
    <2> QED BY <1>0, <2>1 DEF Busy, TypeOK
<1>3. CallsInFlight = [w \in Workers |-> None]
    BY <1>2 DEF CallsInFlight
<1>4. UNCHANGED CallsInFlight
    BY <1>1, CallsKept DEF SameCall
<1>5. ASSUME NEW k \in APIKeys
      PROVE  SavedSessions'[k] = IF SavedSessions[k] = None THEN None
                                 ELSE [session |-> SavedSessions[k].session, conns |-> {}]
    <2>1. db'[k] = IF db[k] # None /\ db[k].session \notin expired
                   THEN [db[k] EXCEPT !.conns = {}] ELSE None
        BY DEF Start
    <2>2. CASE Leftover(k)
        <3>1. SavedSessions[k] = None /\ db'[k] = None
            BY <1>0, <2>1, <2>2, OneCopy DEF Leftover
        <3> QED BY <3>1 DEF SavedSessions
    <2>3. CASE ~Leftover(k)
        <3>1. SavedSessions[k] = db[k] /\ db[k] \in Records /\ db[k] # None
            BY <1>0, <2>3, OneCopy
        <3>2. [db[k] EXCEPT !.conns = {}] = [session |-> db[k].session, conns |-> {}]
            BY <3>1 DEF Records
        <3>3. [session |-> db[k].session, conns |-> {}] # None /\ db[k].session \notin expired
            BY <2>3, <3>1, ConstantsAssumption DEF Records, Leftover
        <3>4. SavedSessions'[k] = db'[k]
            BY <1>1, <2>1, <2>3, <3>2, <3>3 DEF SavedSessions, Leftover
        <3> QED BY <2>1, <2>3, <3>1, <3>2, <3>4 DEF Leftover
    <2> QED BY <2>2, <2>3
<1>6. SavedSessions' = [k \in APIKeys |-> IF SavedSessions[k] = None THEN None
                            ELSE [session |-> SavedSessions[k].session, conns |-> {}]]
    <2>1. SavedSessions' = [k \in APIKeys |-> SavedSessions'[k]]
        BY DEF SavedSessions
    <2> QED BY <1>5, <2>1
<1> QED BY <1>1, <1>3, <1>4, <1>6 DEF SS!Restart

LEMMA InitImplements == Init => SS!Init
<1> SUFFICES ASSUME Init PROVE SS!Init
    OBVIOUS
<1>1. SavedSessions = [k \in APIKeys |-> None]
    BY DEF Init, SavedSessions
<1>2. CallsInFlight = [w \in Workers |-> None]
    BY DEF Init, CallsInFlight
<1> QED BY <1>1, <1>2 DEF Init, SS!Init

LEMMA StepImplements ==
    ASSUME Environment = {}, Serving, [Next]_vars
    PROVE  [SS!Next]_(SS!vars)
<1>0. TypeOK /\ ~Panic
    BY ServingFacts, NeverPanics
<1>1. ASSUME NEW w \in Workers, Update(w) PROVE [SS!Next]_(SS!vars)
    BY <1>1, UpdateImplements DEF SS!Next
<1>2. ASSUME NEW w \in Workers, NEW k \in APIKeys, NEW o \in {"add", "remove", "unsubscribe"},
             NEW c \in Conns, Fetch(w, k, o, c)
      PROVE  [SS!Next]_(SS!vars)
    BY <1>2, FetchImplements DEF SS!Next
<1>3. ASSUME NEW S \in SUBSET Live, StartDelete(S) PROVE [SS!Next]_(SS!vars)
    BY <1>3, StartDeleteImplements DEF SS!Next
<1>4. ASSUME NEW s \in Sessions, Delete(s) PROVE [SS!Next]_(SS!vars)
    BY <1>4, DeleteImplements DEF SS!Next
<1>5. ASSUME StartWipe PROVE UNCHANGED SS!vars
    BY <1>5, NothingHappens DEF StartWipe, SameCall, callVars, histVars
<1>6. ASSUME DeleteAllConnections PROVE [SS!Next]_(SS!vars)
    BY <1>6, WipeImplements DEF DeleteAllConnections, SS!Next
<1>7. ASSUME NEW s \in Sessions, New(s) \/ Expire(s) PROVE [SS!Next]_(SS!vars)
    BY <1>7, NewImplements, ExpireImplements DEF SS!Next
<1>8. ASSUME ClearRotten \/ UNCHANGED vars PROVE UNCHANGED SS!vars
    BY <1>8, ClearRottenImplements, NothingHappens DEF vars, SameCall, callVars, histVars
<1>9. ASSUME Crash \/ Start PROVE [SS!Next]_(SS!vars)
    BY <1>9, CrashImplements, StartImplements DEF SS!Next
<1> QED BY <1>0, <1>1, <1>2, <1>3, <1>4, <1>5, <1>6, <1>7, <1>8, <1>9, Steps

\* sessionstore.go: if calls on one session overlap with other updates only, the map, the
\* slices, the copies and the database behave as one copy that each call changes at once.
THEOREM ImplementsService ==
    ASSUME Environment = {}
    PROVE  Spec => ImplementsSessionService
<1>1. Serving /\ [Next]_vars => Serving'
    BY ServingNext
<1>2. Serving /\ [Next]_vars => [SS!Next]_(SS!vars)
    BY StepImplements
<1> QED BY <1>1, <1>2, ServingInit, InitImplements, PTL
        DEF Spec, SS!Spec, ImplementsSessionService
=============================================================================

---------------------------- MODULE SessionStore ----------------------------
(***************************************************************************)
(* The session store of blank-sr (src/sessionstore/sessionstore.go): a map *)
(* of Session objects, each saved in a bolt database, with the RPC         *)
(* handlers of src/handlers.go that work on them, the wipe of all          *)
(* connections, the watcher that clears expired sessions, and a process    *)
(* that may crash at any time and start again from the database.           *)
(*                                                                         *)
(* A handler takes the pointer to a session from the map under locker and  *)
(* uses it after releasing locker, under the session's own lock: the       *)
(* session may have been deleted, replaced or wiped meanwhile.             *)
(*                                                                         *)
(* Every call of New makes a different member of Sessions, with the API    *)
(* key the caller gave or a fresh one.  Of a session's content only its    *)
(* connections matter here; their subscriptions, the version number and    *)
(* the token are left out.                                                 *)
(***************************************************************************)
EXTENDS Integers, FiniteSets

CONSTANTS Sessions,     \* all sessions ever made
          APIKeys, Key, \* the API key of each session
          User,         \* the user of each session
          Conns,        \* ids of the routers' client connections
          Workers,      \* goroutines of RPC calls that update a session
          Environment,  \* which calls may overlap, below
          MaxDeletes,   \* bound: calls of Delete() for one session at the same time
          MaxCrashes,   \* bound: crashes of the process
          Free, None

(***************************************************************************)
(* With Environment = {} nobody deletes or replaces a session, or wipes    *)
(* the connections, while another call on that session is in flight.       *)
(*   "deleteInFlight"  a session may be deleted while it is updated        *)
(*   "wipeInFlight"    connections may be wiped while a session is updated *)
(*                     or deleted                                          *)
(*   "newInFlight"     New may reuse the API key of a session that is      *)
(*                     being updated or deleted                            *)
(***************************************************************************)
ASSUME ConstantsAssumption ==
    /\ IsFiniteSet(Sessions)
    /\ Key \in [Sessions -> APIKeys]
    /\ IsFiniteSet(Conns)
    /\ MaxDeletes \in Nat /\ MaxCrashes \in Nat
    /\ Environment \subseteq {"deleteInFlight", "wipeInFlight", "newInFlight"}
    /\ None \notin Sessions \cup [session : Sessions, conns : SUBSET Conns]
    /\ Free \notin Workers

\* None is no call either (CallsInFlight).
ASSUME CallsAssumption ==
    None \notin [session : Sessions, op : {"add", "remove", "unsubscribe", "none"},
                 conn : Conns \cup {None}]

VARIABLES
    up,         \* whether the process runs
    sessions,   \* map APIKey -> *Session
    connections,\* the Connections field of each Session object
    db,         \* the bucket "__sessions": APIKey -> saved session
    wiping,     \* sessions DeleteAllConnections still has to do, holding locker
    wiped,      \* the session it has cleared and not yet saved
    wipePc, wipeSeen, \* where it is in Save, and the list as Save has read it
    locks,      \* each session's own lock: the worker that holds it, or Free
    pc, cur,    \* control state of each worker, and the session it fetched
    op, arg,    \* what it does, with which connection
    seen,       \* s.Connections as the worker read it, the copy it saves, and the list as the
                \* copy for the event has read it
    dbDeletes,  \* calls of Delete() of each session that have not done anything yet
    mapDeletes, \* calls of Delete() that have deleted the record and wait for locker
    expired,    \* sessions whose TTL has passed
    made,       \* sessions New has returned
    dismissed,  \* sessions New has replaced, or someone has asked to delete
    deleted,    \* sessions Delete() has returned for
    stale,      \* connections listed when the last wipe began, and not added since
    panicked,   \* whether an index out of range has ever killed the process
    crashes     \* number of other crashes so far

memVars == <<sessions, connections>>
wipeVars == <<wiping, wiped, wipePc, wipeSeen, stale>>
callVars == <<locks, pc, cur, op, arg, seen>>
deleting == <<dbDeletes, mapDeletes>>
histVars == <<expired, made, dismissed, deleted, panicked, crashes>>
vars == <<up, memVars, db, wipeVars, callVars, deleting, histVars>>

Records == [session : Sessions, conns : SUBSET Conns]
Live == {sessions[k] : k \in APIKeys} \ {None}
lockerFree == wiping = {} /\ wiped = None
Busy(s) == \E w \in Workers : pc[w] # "idle" /\ cur[w] = s
Deleting(s) == dbDeletes[s] + mapDeletes[s] > 0

TypeOK ==
    /\ up \in BOOLEAN
    /\ sessions \in [APIKeys -> Sessions \cup {None}]
    /\ connections \in [Sessions -> SUBSET Conns]
    /\ db \in [APIKeys -> Records \cup {None}]
    /\ wiping \subseteq Sessions
    /\ wiped \in Sessions \cup {None}
    /\ wipePc \in {"length", "copy", "write"} /\ wipeSeen \subseteq Conns
    /\ locks \in [Sessions -> Workers \cup {Free}]
    /\ pc \in [Workers -> {"idle", "fetched", "change", "save", "copy", "write", "event"}]
    /\ cur \in [Workers -> Sessions \cup {None}]
    /\ \A w \in Workers : pc[w] # "idle" => cur[w] \in Sessions
    /\ op \in [Workers -> {"add", "remove", "unsubscribe", "none"}]
    /\ arg \in [Workers -> Conns \cup {None}]
    /\ seen \in [Workers -> SUBSET Conns]
    /\ dbDeletes \in [Sessions -> 0..MaxDeletes]
    /\ mapDeletes \in [Sessions -> 0..MaxDeletes]
    /\ expired \subseteq Sessions /\ made \subseteq Sessions
    /\ dismissed \subseteq Sessions /\ deleted \subseteq Sessions
    /\ stale \subseteq Sessions \X Conns
    /\ panicked \in BOOLEAN /\ crashes \in 0..MaxCrashes

Init ==
    /\ up = TRUE
    /\ sessions = [k \in APIKeys |-> None]
    /\ connections = [s \in Sessions |-> {}]
    /\ db = [k \in APIKeys |-> None]
    /\ wiping = {} /\ wiped = None /\ wipePc = "length" /\ wipeSeen = {} /\ stale = {}
    /\ locks = [s \in Sessions |-> Free]
    /\ pc = [w \in Workers |-> "idle"]
    /\ cur = [w \in Workers |-> None]
    /\ op = [w \in Workers |-> "none"]
    /\ arg = [w \in Workers |-> None]
    /\ seen = [w \in Workers |-> {}]
    /\ dbDeletes = [s \in Sessions |-> 0] /\ mapDeletes = [s \in Sessions |-> 0]
    /\ expired = {} /\ made = {} /\ dismissed = {} /\ deleted = {}
    /\ panicked = FALSE /\ crashes = 0
-----------------------------------------------------------------------------
(* New, and time *)

New_Unsaved(s) ==
    /\ up /\ lockerFree /\ s \notin made
    /\ "newInFlight" \in Environment
       \/ \A t \in Sessions : Key[t] = Key[s] => ~Busy(t) /\ ~Deleting(t)
    /\ sessions' = [sessions EXCEPT ![Key[s]] = s]
    /\ connections' = [connections EXCEPT ![s] = {}]
    /\ made' = made \cup {s}
    /\ dismissed' = dismissed \cup {t \in made : Key[t] = Key[s]}
    /\ UNCHANGED <<up, db, wipeVars, callVars, deleting, expired, deleted, panicked, crashes>>

\* New saves the session under locker, in place of one with the same key.
New(s) ==
    /\ up /\ lockerFree /\ s \notin made
    /\ "newInFlight" \in Environment
       \/ \A t \in Sessions : Key[t] = Key[s] => ~Busy(t) /\ ~Deleting(t)
    /\ sessions' = [sessions EXCEPT ![Key[s]] = s]
    /\ connections' = [connections EXCEPT ![s] = {}]
    /\ db' = [db EXCEPT ![Key[s]] = [session |-> s, conns |-> {}]]
    /\ made' = made \cup {s}
    /\ dismissed' = dismissed \cup {t \in made : Key[t] = Key[s]}
    /\ UNCHANGED <<up, wipeVars, callVars, deleting, expired, deleted, panicked, crashes>>

Expire(s) ==
    /\ s \in made \ expired
    /\ expired' = expired \cup {s}
    /\ UNCHANGED <<up, memVars, db, wipeVars, callVars, deleting, made, dismissed, deleted,
                   panicked, crashes>>

ClearRotten_Idle ==
    LET rotten == {k \in APIKeys : sessions[k] \in Live \cap expired /\ ~Busy(sessions[k])
                                    /\ connections[sessions[k]] = {}} IN
    /\ up /\ lockerFree
    /\ rotten # {}
    /\ sessions' = [k \in APIKeys |-> IF k \in rotten THEN None ELSE sessions[k]]
    /\ db' = [k \in APIKeys |-> IF k \in rotten THEN None ELSE db[k]]
    /\ UNCHANGED <<up, connections, wipeVars, callVars, deleting, histVars>>

\* ttlWatcher: expired sessions leave the database and the map, all under locker.
ClearRotten ==
    LET rotten == {k \in APIKeys : sessions[k] \in Live \cap expired} IN
    /\ up /\ lockerFree
    /\ rotten # {}
    /\ sessions' = [k \in APIKeys |-> IF k \in rotten THEN None ELSE sessions[k]]
    /\ db' = [k \in APIKeys |-> IF k \in rotten THEN None ELSE db[k]]
    /\ UNCHANGED <<up, connections, wipeVars, callVars, deleting, histVars>>
-----------------------------------------------------------------------------
(* AddSubscription, DeleteConnection and DeleteSubscription *)

Fetch_Unchecked(w, k, o, c) ==
    /\ up /\ lockerFree /\ pc[w] = "idle"
    /\ pc' = [pc EXCEPT ![w] = "fetched"]
    /\ cur' = [cur EXCEPT ![w] = sessions[k]]
    /\ op' = [op EXCEPT ![w] = o]
    /\ arg' = [arg EXCEPT ![w] = c]
    /\ UNCHANGED <<up, memVars, db, wipeVars, locks, seen, deleting, histVars>>

\* GetByAPIKey finds the session: from here on the handler works on the pointer.
Fetch(w, k, o, c) ==
    /\ up /\ lockerFree /\ pc[w] = "idle"
    /\ sessions[k] # None
    /\ "deleteInFlight" \in Environment \/ ~Deleting(sessions[k])
    /\ pc' = [pc EXCEPT ![w] = "fetched"]
    /\ cur' = [cur EXCEPT ![w] = sessions[k]]
    /\ op' = [op EXCEPT ![w] = o]
    /\ arg' = [arg EXCEPT ![w] = c]
    /\ UNCHANGED <<up, memVars, db, wipeVars, locks, seen, deleting, histVars>>

LockSession_Shared(w) ==
    /\ pc[w] = "fetched"
    /\ locks' = [locks EXCEPT ![cur[w]] = w]
    /\ seen' = [seen EXCEPT ![w] = connections[cur[w]]]
    /\ pc' = [pc EXCEPT ![w] = "change"]
    /\ UNCHANGED <<up, memVars, db, wipeVars, cur, op, arg, deleting, histVars>>

\* s.Lock(), and the search for the connection in s.Connections.
LockSession(w) ==
    /\ pc[w] = "fetched" /\ locks[cur[w]] = Free
    /\ locks' = [locks EXCEPT ![cur[w]] = w]
    /\ seen' = [seen EXCEPT ![w] = connections[cur[w]]]
    /\ pc' = [pc EXCEPT ![w] = "change"]
    /\ UNCHANGED <<up, memVars, db, wipeVars, cur, op, arg, deleting, histVars>>

Return(w) ==
    /\ locks' = [locks EXCEPT ![cur[w]] = Free]
    /\ pc' = [pc EXCEPT ![w] = "idle"]
    /\ cur' = [cur EXCEPT ![w] = None]
    /\ op' = [op EXCEPT ![w] = "none"]
    /\ arg' = [arg EXCEPT ![w] = None]
    /\ seen' = [seen EXCEPT ![w] = {}]

\* DeleteSubscription returns when it has not found the connection.
NotSubscribed(w) ==
    /\ pc[w] = "change" /\ op[w] = "unsubscribe" /\ arg[w] \notin seen[w]
    /\ Return(w)
    /\ UNCHANGED <<up, memVars, db, wipeVars, deleting, histVars>>

\* The list is assigned only if the connection has to be appended or cut out; a
\* subscription that is added or deleted leaves it as it is.  The assignment reads the list
\* again, and a wipe may come before that, or between it and the write: an append may find
\* either list, and a cut the list it has searched (or it panics, below).
Change(w) ==
    /\ pc[w] = "change"
    /\ op[w] = "unsubscribe" => arg[w] \in seen[w]
    /\ \E list \in {seen[w], connections[cur[w]]} : connections' =
         [connections EXCEPT ![cur[w]] =
            CASE op[w] = "add" /\ arg[w] \notin seen[w] -> list \cup {arg[w]}
              [] op[w] = "remove" /\ arg[w] \in seen[w] -> seen[w] \ {arg[w]}
              [] OTHER -> @]
    /\ stale' = IF op[w] = "add" THEN stale \ {<<cur[w], arg[w]>>} ELSE stale
    /\ pc' = [pc EXCEPT ![w] = "save"]
    /\ UNCHANGED <<up, sessions, db, wiping, wiped, wipePc, wipeSeen, locks, cur, op, arg,
                   seen, deleting, histVars>>

Measure_Unlocks(w) ==
    /\ pc[w] = "save"
    /\ seen' = [seen EXCEPT ![w] = connections[cur[w]]]
    /\ pc' = [pc EXCEPT ![w] = "copy"]
    /\ locks' = [locks EXCEPT ![cur[w]] = Free]
    /\ UNCHANGED <<up, memVars, db, wipeVars, cur, op, arg, deleting, histVars>>

\* sessionUpdated -> Save -> copySession takes the length of the list first ...
Measure(w) ==
    /\ pc[w] = "save"
    /\ seen' = [seen EXCEPT ![w] = connections[cur[w]]]
    /\ pc' = [pc EXCEPT ![w] = "copy"]
    /\ UNCHANGED <<up, memVars, db, wipeVars, locks, cur, op, arg, deleting, histVars>>

\* ... and then as many connections from the list as it is now: there may be fewer.
Copies(s, listed) == {C \in SUBSET connections[s] : Cardinality(C) = Cardinality(listed)}

Copy(w) ==
    /\ pc[w] = "copy"
    /\ \E copied \in Copies(cur[w], seen[w]) : seen' = [seen EXCEPT ![w] = copied]
    /\ pc' = [pc EXCEPT ![w] = "write"]
    /\ UNCHANGED <<up, memVars, db, wipeVars, locks, cur, op, arg, deleting, histVars>>

\* db.Save, whatever has happened to the session.  The length for the next copy is that of
\* the list after it.
Write(w) ==
    /\ pc[w] = "write"
    /\ db' = [db EXCEPT ![Key[cur[w]]] = [session |-> cur[w], conns |-> seen[w]]]
    /\ seen' = [seen EXCEPT ![w] = connections[cur[w]]]
    /\ pc' = [pc EXCEPT ![w] = "event"]
    /\ UNCHANGED <<up, memVars, wipeVars, locks, cur, op, arg, deleting, histVars>>

\* sessionUpdated copies the session once more, for the handlers of the event (module
\* SessionFeed); the call returns.
CopyEvent(w) ==
    /\ pc[w] = "event" /\ Copies(cur[w], seen[w]) # {}
    /\ Return(w)
    /\ UNCHANGED <<up, memVars, db, wipeVars, deleting, histVars>>
-----------------------------------------------------------------------------
(* Delete *)

StartDelete(S) ==
    /\ up /\ lockerFree
    /\ "deleteInFlight" \in Environment \/ \A s \in S : ~Busy(s)
    /\ \A s \in S : dbDeletes[s] + mapDeletes[s] < MaxDeletes
    /\ dbDeletes' = [s \in Sessions |-> IF s \in S THEN dbDeletes[s] + 1 ELSE dbDeletes[s]]
    /\ dismissed' = dismissed \cup S
    /\ UNCHANGED <<up, memVars, db, wipeVars, callVars, mapDeletes, expired, made, deleted,
                   panicked, crashes>>

\* session.delete, and session.user-update for all sessions of a user.
DeleteByKey(k) == sessions[k] # None /\ StartDelete({sessions[k]})
DeleteAllForUser(u) ==
    LET ofUser == {s \in Live : User[s] = u} IN
    ofUser # {} /\ StartDelete(ofUser)

DeleteFromDb_Skipped(s) ==
    /\ dbDeletes[s] > 0
    /\ dbDeletes' = [dbDeletes EXCEPT ![s] = @ - 1]
    /\ mapDeletes' = [mapDeletes EXCEPT ![s] = @ + 1]
    /\ UNCHANGED <<up, memVars, db, wipeVars, callVars, histVars>>

\* Delete: the record first, before locker is taken ...
DeleteFromDb(s) ==
    /\ dbDeletes[s] > 0
    /\ db' = [db EXCEPT ![Key[s]] = None]
    /\ dbDeletes' = [dbDeletes EXCEPT ![s] = @ - 1]
    /\ mapDeletes' = [mapDeletes EXCEPT ![s] = @ + 1]
    /\ UNCHANGED <<up, memVars, wipeVars, callVars, histVars>>

\* ... and then whatever the map has under the session's key.
DeleteFromMap(s) ==
    /\ mapDeletes[s] > 0 /\ lockerFree
    /\ sessions' = [sessions EXCEPT ![Key[s]] = None]
    /\ mapDeletes' = [mapDeletes EXCEPT ![s] = @ - 1]
    /\ deleted' = deleted \cup {s}
    /\ UNCHANGED <<up, connections, db, wipeVars, callVars, dbDeletes, expired, made, dismissed,
                   panicked, crashes>>
-----------------------------------------------------------------------------
(* DeleteAllConnections *)

StartWipe ==
    /\ up /\ lockerFree /\ Live # {}
    /\ "wipeInFlight" \in Environment \/ \A s \in Sessions : ~Busy(s) /\ ~Deleting(s)
    /\ wiping' = Live
    /\ stale' = {p \in Live \X Conns : p[2] \in connections[p[1]]}
    /\ UNCHANGED <<up, memVars, db, wiped, wipePc, wipeSeen, callVars, deleting, histVars>>

\* s.Connections = []*Conn{}, without the session's own lock ...
WipeClear(s) ==
    /\ s \in wiping /\ wiped = None
    /\ connections' = [connections EXCEPT ![s] = {}]
    /\ wiping' = wiping \ {s}
    /\ wiped' = s
    /\ wipePc' = "length"
    /\ UNCHANGED <<up, sessions, db, wipeSeen, stale, callVars, deleting, histVars>>

\* ... and s.Save(), in the same steps as an update's.
WipeMeasure(s) ==
    /\ wiped = s /\ wipePc = "length"
    /\ wipeSeen' = connections[s]
    /\ wipePc' = "copy"
    /\ UNCHANGED <<up, memVars, db, wiping, wiped, stale, callVars, deleting, histVars>>

WipeCopy(s) ==
    /\ wiped = s /\ wipePc = "copy"
    /\ wipeSeen' \in Copies(s, wipeSeen)
    /\ wipePc' = "write"
    /\ UNCHANGED <<up, memVars, db, wiping, wiped, stale, callVars, deleting, histVars>>

WipeWrite_Stops(s) ==
    /\ wiped = s /\ wipePc = "write"
    /\ db' = [db EXCEPT ![Key[s]] = [session |-> s, conns |-> wipeSeen]]
    /\ wiped' = None /\ wipePc' = "length" /\ wipeSeen' = {}
    /\ wiping' = {}
    /\ UNCHANGED <<up, memVars, stale, callVars, deleting, histVars>>

\* locker is released after the last session.
WipeWrite(s) ==
    /\ wiped = s /\ wipePc = "write"
    /\ db' = [db EXCEPT ![Key[s]] = [session |-> s, conns |-> wipeSeen]]
    /\ wiped' = None /\ wipePc' = "length" /\ wipeSeen' = {}
    /\ UNCHANGED <<up, memVars, wiping, stale, callVars, deleting, histVars>>
-----------------------------------------------------------------------------
(* The process *)

\* All that is left of a process is the database.
Die ==
    /\ up /\ up' = FALSE
    /\ sessions' = [k \in APIKeys |-> None]
    /\ connections' = [s \in Sessions |-> {}]
    /\ wiping' = {} /\ wiped' = None /\ wipePc' = "length" /\ wipeSeen' = {} /\ stale' = {}
    /\ locks' = [s \in Sessions |-> Free]
    /\ pc' = [w \in Workers |-> "idle"]
    /\ cur' = [w \in Workers |-> None]
    /\ op' = [w \in Workers |-> "none"]
    /\ arg' = [w \in Workers |-> None]
    /\ seen' = [w \in Workers |-> {}]
    /\ dbDeletes' = [s \in Sessions |-> 0] /\ mapDeletes' = [s \in Sessions |-> 0]
    /\ UNCHANGED <<db, expired, made, dismissed, deleted>>

Crash == crashes < MaxCrashes /\ Die /\ crashes' = crashes + 1 /\ UNCHANGED panicked

\* A panic of a handler's goroutine ends the process: the list has become shorter since
\* its length was taken, or since the connection to cut out of it was found.
Panic ==
    /\ \/ \E w \in Workers :
            \/ pc[w] \in {"copy", "event"} /\ Copies(cur[w], seen[w]) = {}
            \/ pc[w] = "change" /\ op[w] = "remove" /\ arg[w] \in seen[w] \ connections[cur[w]]
       \/ wiped # None /\ wipePc = "copy" /\ Copies(wiped, wipeSeen) = {}
    /\ Die /\ panicked' = TRUE /\ UNCHANGED crashes

\* loadSessions: what has not expired comes back, without connections.
Start ==
    LET kept == {k \in APIKeys : db[k] # None /\ db[k].session \notin expired} IN
    /\ ~up
    /\ up' = TRUE
    /\ sessions' = [k \in APIKeys |-> IF k \in kept THEN db[k].session ELSE None]
    /\ db' = [k \in APIKeys |-> IF k \in kept THEN [db[k] EXCEPT !.conns = {}] ELSE None]
    /\ UNCHANGED <<connections, wipeVars, callVars, deleting, histVars>>
-----------------------------------------------------------------------------
Update(w) ==
    \/ LockSession(w) \/ NotSubscribed(w) \/ Change(w)
    \/ Measure(w) \/ Copy(w) \/ Write(w) \/ CopyEvent(w)
Delete(s) == DeleteFromDb(s) \/ DeleteFromMap(s)
DeleteAllConnections ==
    \E s \in Sessions : WipeClear(s) \/ WipeMeasure(s) \/ WipeCopy(s) \/ WipeWrite(s)

Next ==
    \/ \E s \in Sessions : New(s) \/ Expire(s) \/ Delete(s)
    \/ \E k \in APIKeys : DeleteByKey(k)
    \/ \E u \in {User[s] : s \in Sessions} : DeleteAllForUser(u)
    \/ \E w \in Workers :
         \/ Update(w)
         \/ \E k \in APIKeys, o \in {"add", "remove", "unsubscribe"}, c \in Conns :
              Fetch(w, k, o, c)
    \/ StartWipe \/ DeleteAllConnections
    \/ ClearRotten \/ Crash \/ Panic \/ Start

Spec == Init /\ [][Next]_vars

(***************************************************************************)
(* Goroutines run, the watcher ticks every minute, locks are handed on     *)
(* and a crashed process is started again.                                 *)
(***************************************************************************)
Fairness ==
    /\ WF_vars(Start) /\ SF_vars(ClearRotten) /\ WF_vars(DeleteAllConnections)

FairSpec == Spec /\ Fairness
-----------------------------------------------------------------------------
(* What holds unless New reuses the key of a session someone is working on. *)

\* A session New has returned stays, in the database and, while the process runs, in
\* the map, through crashes and whatever other calls do, until it expires, is replaced
\* or somebody asks to delete it.
Durable ==
    \A s \in made \ (expired \cup dismissed) :
        /\ db[Key[s]] # None /\ db[Key[s]].session = s
        /\ up => sessions[Key[s]] = s

\* Once its TTL has passed a session is eventually out of the map for good, whatever
\* calls are still working on it and whatever they write to the database.
ExpiredCleared == \A s \in Sessions : s \in expired ~> [](s \notin Live)
-----------------------------------------------------------------------------
(* What holds if calls on one session do not overlap, Environment = {}. *)

\* "Delete removes Session from store" (sessionstore.go:251): it is neither in the map
\* nor in the database again, after a restart either.
DeletedStaysDeleted ==
    \A s \in deleted : s \notin Live /\ \A k \in APIKeys : db[k] # None => db[k].session # s

\* While nobody works on it, a session in the map is in the database with the same
\* connections, and the database has no other sessions than expired ones.
StoreAgrees ==
    up /\ lockerFree => \A k \in APIKeys :
        /\ sessions[k] # None /\ ~Busy(sessions[k]) /\ ~Deleting(sessions[k]) =>
             db[k] = [session |-> sessions[k], conns |-> connections[sessions[k]]]
        /\ sessions[k] = None => db[k] = None \/ db[k].session \in expired

\* "DeleteAllConnections deletes all connections from all sessions" (126): a connection
\* that was listed when it began is not listed after it, unless it has been added again.
WipedGone ==
    lockerFree => \A s \in Live, c \in Conns : <<s, c>> \in stale => c \notin connections[s]

\* Calls that update or save one session never find its list shorter than they read it
\* (copySession 413-435, DeleteConnection 222): the process does not panic.
NoPanic == ~panicked

\* SessionService (a module of its own) says what the store promises when calls on one
\* session do not overlap.  Its one copy is the database without the expired sessions, which
\* ClearRotten removes and an update in flight may write once more.
SavedSessions ==
    [k \in APIKeys |-> IF db[k] = None \/ db[k].session \in expired THEN None ELSE db[k]]
CallsInFlight ==
    [w \in Workers |-> IF pc[w] \in {"idle", "event"} THEN None
                       ELSE [session |-> cur[w], op |-> op[w], conn |-> arg[w]]]

SS == INSTANCE SessionService WITH store <- SavedSessions, calls <- CallsInFlight

\* sessionstore.go 134-246, 413-435: map, slices, copies and database together behave as one
\* copy that each call changes at one moment: no update undoes another, and none is saved
\* but as it was asked for.
ImplementsSessionService == SS!Spec
=============================================================================

----------------------------- MODULE SessionFeed -----------------------------
(***************************************************************************)
(* What the subscribers of the "sessions" topic of blank-sr learn about    *)
(* the session store: the list GetAll returns when they subscribe          *)
(* (src/handlers.go, src/sessionstore/sessionstore.go), and an event for   *)
(* each update and deletion since, published by a goroutine of its own     *)
(* (src/main.go).  Sessions that expire leave without an event.            *)
(*                                                                         *)
(* wango runs the handler of a subscription with subscribersLocker held,   *)
(* and publishes to those it finds subscribed under the same lock.  GetAll *)
(* takes the number of sessions first and the lock of the store after.     *)
(***************************************************************************)
EXTENDS Integers, FiniteSets

CONSTANTS FeedSessions,  \* sessions ever made
          Subscribers,   \* connections that subscribe to "sessions"
          Nobody,
          MaxPending     \* bound: goroutines of one event of one session

ASSUME FeedAssumption ==
    /\ IsFiniteSet(FeedSessions)
    /\ Nobody \notin Subscribers
    /\ MaxPending \in Nat

VARIABLES
    listed,      \* the sessions in the map
    created,     \* those that have ever been made
    deletedBy,   \* those Delete has removed, rather than the watcher of expired ones
    pending,     \* goroutines per event that have not published it
    subscribing, \* the connection in handleSubscribe, which holds subscribersLocker
    counted,     \* the number of sessions its GetAll has found
    toList,      \* subscribersLocker's holder has its list and is about to be subscribed
    subscribed,
    inList,      \* sessions in the list each subscriber got
    toldOf,      \* sessions each subscriber has had in the list or in an updated event
    toldGone     \* sessions each subscriber has had a deleted event of

storeVars == <<listed, created, deletedBy>>
lockVars == <<subscribing, counted, toList>>
subscriberVars == <<subscribed, inList, toldOf, toldGone>>
feedVars == <<storeVars, pending, lockVars, subscriberVars>>

Events == {"updated", "deleted"} \X FeedSessions

FeedTypeOK ==
    /\ listed \subseteq created /\ created \subseteq FeedSessions
    /\ deletedBy \subseteq created
    /\ pending \in [Events -> 0..MaxPending]
    /\ subscribing \in Subscribers \cup {Nobody}
    /\ counted \in 0..Cardinality(FeedSessions)
    /\ toList \in BOOLEAN
    /\ subscribed \subseteq Subscribers
    /\ {inList, toldOf, toldGone} \subseteq [Subscribers -> SUBSET FeedSessions]

FeedInit ==
    /\ listed = {} /\ created = {} /\ deletedBy = {}
    /\ pending = [e \in Events |-> 0]
    /\ subscribing = Nobody /\ counted = 0 /\ toList = FALSE
    /\ subscribed = {}
    /\ inList = [w \in Subscribers |-> {}]
    /\ toldOf = [w \in Subscribers |-> {}]
    /\ toldGone = [w \in Subscribers |-> {}]
-----------------------------------------------------------------------------
(* Changes of the store, each made and given to its goroutine under locker or the session's lock *)

Emit(event, s) ==
    /\ pending[<<event, s>>] < MaxPending
    /\ pending' = [pending EXCEPT ![<<event, s>>] = @ + 1]

NewSession(s) ==
    /\ s \notin created
    /\ created' = created \cup {s}
    /\ listed' = listed \cup {s}
    /\ Emit("updated", s)
    /\ UNCHANGED <<deletedBy, lockVars, subscriberVars>>

\* A call that has the pointer of s, which may have been deleted since.
UpdateSession(s) ==
    /\ s \in created
    /\ Emit("updated", s)
    /\ UNCHANGED <<storeVars, lockVars, subscriberVars>>

\* Delete emits its event also for a session that has been deleted before.
DeleteSession(s) ==
    /\ s \in created
    /\ listed' = listed \ {s}
    /\ deletedBy' = IF s \in listed THEN deletedBy \cup {s} ELSE deletedBy
    /\ Emit("deleted", s)
    /\ UNCHANGED <<created, lockVars, subscriberVars>>

\* clearRottenSessions
ExpireSession(s) ==
    /\ s \in listed
    /\ listed' = listed \ {s}
    /\ UNCHANGED <<created, deletedBy, pending, lockVars, subscriberVars>>
-----------------------------------------------------------------------------
(* Subscriptions *)

\* handleSubscribe, as far as the first line of GetAll; a subscriber may subscribe once more.
CountSessions(w) ==
    /\ subscribing = Nobody
    /\ subscribing' = w
    /\ counted' = Cardinality(listed)
    /\ UNCHANGED <<storeVars, pending, toList, subscriberVars>>

\* The rest of GetAll, when the sessions fit into the slice.
ListSessions(w) ==
    /\ subscribing = w /\ ~toList
    /\ Cardinality(listed) <= counted
    /\ toList' = TRUE
    /\ inList' = [inList EXCEPT ![w] = listed]
    /\ toldOf' = [toldOf EXCEPT ![w] = listed]
    /\ toldGone' = [toldGone EXCEPT ![w] = {}]
    /\ UNCHANGED <<storeVars, pending, subscribing, counted, subscribed>>

\* What a subscriber has been told is forgotten with its subscription.
ForgetTold(W) ==
    /\ inList' = [w \in Subscribers |-> IF w \in W THEN {} ELSE inList[w]]
    /\ toldOf' = [w \in Subscribers |-> IF w \in W THEN {} ELSE toldOf[w]]
    /\ toldGone' = [w \in Subscribers |-> IF w \in W THEN {} ELSE toldGone[w]]

\* The rest of GetAll with more sessions than it has counted: index out of range.  It runs in
\* net/http's goroutine of w's web socket, which recovers the panic, and every lock is released
\* by a defer: w loses its connection, and nobody else notices.
ListPanics(w) ==
    /\ subscribing = w /\ ~toList
    /\ Cardinality(listed) > counted
    /\ subscribed' = subscribed \ {w}
    /\ subscribing' = Nobody /\ counted' = 0
    /\ ForgetTold({w})
    /\ UNCHANGED <<storeVars, pending, toList>>

AddSubscriber(w) ==
    /\ subscribing = w /\ toList
    /\ subscribed' = subscribed \cup {w}
    /\ subscribing' = Nobody /\ counted' = 0 /\ toList' = FALSE
    /\ UNCHANGED <<storeVars, pending, inList, toldOf, toldGone>>

Leave(w) ==
    /\ w \in subscribed /\ subscribing = Nobody
    /\ subscribed' = subscribed \ {w}
    /\ ForgetTold({w})
    /\ UNCHANGED <<storeVars, pending, lockVars>>

PublishLock_None == TRUE
PublishLock == subscribing = Nobody

\* The goroutine of an event, once it gets subscribersLocker.
PublishEvent(event, s) ==
    /\ pending[<<event, s>>] > 0 /\ PublishLock
    /\ pending' = [pending EXCEPT ![<<event, s>>] = @ - 1]
    /\ IF event = "updated"
       THEN /\ toldOf' = [w \in Subscribers |->
                            toldOf[w] \cup (IF w \in subscribed THEN {s} ELSE {})]
            /\ UNCHANGED toldGone
       ELSE /\ toldGone' = [w \in Subscribers |->
                            toldGone[w] \cup (IF w \in subscribed THEN {s} ELSE {})]
            /\ UNCHANGED toldOf
    /\ UNCHANGED <<storeVars, lockVars, subscribed, inList>>
-----------------------------------------------------------------------------
\* The process dies and starts from the database; connections and goroutines are gone.
Restart ==
    /\ pending' = [e \in Events |-> 0]
    /\ subscribing' = Nobody /\ counted' = 0 /\ toList' = FALSE
    /\ subscribed' = {}
    /\ ForgetTold(Subscribers)
    /\ UNCHANGED storeVars

FeedNext ==
    \/ \E s \in FeedSessions :
        \/ NewSession(s) \/ UpdateSession(s) \/ DeleteSession(s) \/ ExpireSession(s)
        \/ \E event \in {"updated", "deleted"} : PublishEvent(event, s)
    \/ \E w \in Subscribers :
        CountSessions(w) \/ ListSessions(w) \/ ListPanics(w) \/ AddSubscriber(w) \/ Leave(w)
    \/ Restart

FeedSpec == FeedInit /\ [][FeedNext]_feedVars
-----------------------------------------------------------------------------
\* subSessionsHandler and the handlers of main.go:140-146 leave no gap: a subscriber has been
\* sent every session of the store, or an updated event with it is on its way.
FeedComplete ==
    \A w \in subscribed : \A s \in listed :
        s \in toldOf[w] \/ pending[<<"updated", s>>] > 0

\* Nor does a deletion get lost: of a session that was in its list and that Delete has
\* removed, a subscriber has been sent a deleted event, or one is on its way.
DeletionsReach ==
    \A w \in subscribed : \A s \in inList[w] \cap deletedBy :
        s \in toldGone[w] \/ pending[<<"deleted", s>>] > 0
=============================================================================

--------------------------- MODULE SessionService ---------------------------
(***************************************************************************)
(* What the session store of blank-sr promises, if calls on one session do *)
(* not overlap but updates with updates: one copy of each session, which   *)
(* outlives crashes.  A session is made once and leaves only when it       *)
(* expires, is replaced, or somebody has asked to delete it.  An update    *)
(* changes the list of connections at one moment, between the call and its *)
(* answer, as the call says and in no other way: no update undoes another. *)
(* SessionStore is shown to implement this specification, although a       *)
(* session lives twice, in memory and in the database, and an update goes  *)
(* through both in several steps.                                          *)
(***************************************************************************)
CONSTANTS Sessions, APIKeys, Key,  \* all sessions ever made, and their keys
          Conns,                   \* connections a session may list
          Workers,                 \* goroutines of calls that update a session
          None

VARIABLES store,     \* the saved session of each key, if it has not expired
          made,      \* sessions that have been made,
          expired,   \* whose time has passed,
          dismissed, \* that were replaced, or that somebody has asked to delete
          calls      \* what each goroutine has been asked for

vars == <<store, made, expired, dismissed, calls>>

Saved(s) == store[Key[s]] # None /\ store[Key[s]].session = s

\* What an update makes of a list of connections.  A subscription that is deleted leaves the
\* connection in the list.
Applied(op, c, conns) ==
    IF op = "add" THEN conns \cup {c} ELSE IF op = "remove" THEN conns \ {c} ELSE conns

Init ==
    /\ store = [k \in APIKeys |-> None]
    /\ made = {} /\ expired = {} /\ dismissed = {}
    /\ calls = [w \in Workers |-> None]

\* A new session, in place of whatever has its key.
Make(s) ==
    /\ s \notin made
    /\ store' = [store EXCEPT ![Key[s]] = [session |-> s, conns |-> {}]]
    /\ made' = made \cup {s}
    /\ dismissed' = dismissed \cup {t \in made : Key[t] = Key[s]}
    /\ UNCHANGED <<expired, calls>>

Expire(s) ==
    /\ s \in made \ expired
    /\ expired' = expired \cup {s}
    /\ store' = IF Saved(s) THEN [store EXCEPT ![Key[s]] = None] ELSE store
    /\ UNCHANGED <<made, dismissed, calls>>

\* A call finds a session that is saved, or has expired not long ago.
Ask(w, s, op, c) ==
    /\ calls[w] = None
    /\ Saved(s) \/ s \in expired
    /\ calls' = [calls EXCEPT ![w] = [session |-> s, op |-> op, conn |-> c]]
    /\ UNCHANGED <<store, made, expired, dismissed>>

Answer(w) ==
    /\ calls[w] # None
    /\ LET s == calls[w].session IN
        store' = IF Saved(s)
                 THEN [store EXCEPT ![Key[s]] =
                        [session |-> s, conns |-> Applied(calls[w].op, calls[w].conn, @.conns)]]
                 ELSE store
    /\ calls' = [calls EXCEPT ![w] = None]
    /\ UNCHANGED <<made, expired, dismissed>>

Dismiss(S) ==
    /\ dismissed' = dismissed \cup S
    /\ UNCHANGED <<store, made, expired, calls>>

Remove(s) ==
    /\ s \in dismissed /\ Saved(s)
    /\ store' = [store EXCEPT ![Key[s]] = None]
    /\ UNCHANGED <<made, expired, dismissed, calls>>

\* DeleteAllConnections, for one session after the other.
Wipe(s) ==
    /\ Saved(s)
    /\ store' = [store EXCEPT ![Key[s]] = [session |-> s, conns |-> {}]]
    /\ UNCHANGED <<made, expired, dismissed, calls>>

\* A crash loses the calls, and nothing else.  After the start nobody is connected.
Crash ==
    /\ calls' = [w \in Workers |-> None]
    /\ UNCHANGED <<store, made, expired, dismissed>>

Restart ==
    /\ calls = [w \in Workers |-> None]
    /\ store' = [k \in APIKeys |->
            IF store[k] = None THEN None ELSE [session |-> store[k].session, conns |-> {}]]
    /\ UNCHANGED <<made, expired, dismissed, calls>>

Next ==
    \/ \E S \in SUBSET made : Dismiss(S)
    \/ \E s \in Sessions : Make(s) \/ Expire(s) \/ Remove(s) \/ Wipe(s)
    \/ \E w \in Workers :
        \/ Answer(w)
        \/ \E s \in Sessions, op \in {"add", "remove", "unsubscribe"}, c \in Conns : Ask(w, s, op, c)
    \/ Crash \/ Restart

Spec == Init /\ [][Next]_vars
=============================================================================

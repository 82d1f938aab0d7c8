-------------------------------- MODULE Once --------------------------------
(***************************************************************************)
(* sync.once of blank-sr (src/sync/once.go): of all the callers that ask   *)
(* for an id within a minute, one is told to go ahead.                     *)
(*                                                                         *)
(* A winner's call adds the id to a map and starts a timer of one minute,  *)
(* Minute ticks here, whose goroutine takes the lock and forgets the id.   *)
(* The goroutine may run late.  A refused call changes nothing.            *)
(***************************************************************************)
EXTENDS Integers

CONSTANTS OnceIds,  \* ids clients ask for
          Minute    \* ttl, in ticks

ASSUME OnceAssumption == Minute \in Nat \ {0}

VARIABLES
    oncers,  \* the ids that have been won and not forgotten
    timers,  \* pairs <<id, ticks left>> of the timers that have not deleted their id
    sinceWon,  \* ticks since each id was last won in this process, at most Minute
    wonTwice   \* ids a process has given to two callers within a minute

onceVars == <<oncers, timers, sinceWon, wonTwice>>

OnceTypeOK ==
    /\ oncers \subseteq OnceIds
    /\ timers \subseteq OnceIds \X (0..Minute)
    /\ sinceWon \in [OnceIds -> 0..Minute]
    /\ wonTwice \subseteq OnceIds

OnceInit ==
    /\ oncers = {}
    /\ timers = {}
    /\ sinceWon = [id \in OnceIds |-> Minute]
    /\ wonTwice = {}
-----------------------------------------------------------------------------
MakeOncer_NoTimer(id) == timers
MakeOncer(id) == timers \cup {<<id, Minute>>}

CallOnce_TimerFirst(id) ==
    /\ timers' = MakeOncer(id)
    /\ oncers' = oncers \cup {id}
    /\ IF id \in oncers
       THEN UNCHANGED <<sinceWon, wonTwice>>
       ELSE /\ sinceWon' = [sinceWon EXCEPT ![id] = 0]
            /\ wonTwice' = IF sinceWon[id] < Minute THEN wonTwice \cup {id} ELSE wonTwice

\* once() for a caller that wins; any other gets errExecuted and leaves no trace.
CallOnce(id) ==
    /\ id \notin oncers
    /\ oncers' = oncers \cup {id}
    /\ timers' = MakeOncer(id)
    /\ sinceWon' = [sinceWon EXCEPT ![id] = 0]
    /\ wonTwice' = IF sinceWon[id] < Minute THEN wonTwice \cup {id} ELSE wonTwice

\* The function of time.AfterFunc, once its time has come.
Forget(id) ==
    /\ <<id, 0>> \in timers
    /\ oncers' = oncers \ {id}
    /\ timers' = timers \ {<<id, 0>>}
    /\ UNCHANGED <<sinceWon, wonTwice>>

\* Time passes, whether or not the timers that have run out have done their work.
OnceTick ==
    /\ \/ \E t \in timers : t[2] > 0
       \/ \E id \in OnceIds : sinceWon[id] < Minute
    /\ timers' = {<<t[1], IF t[2] > 0 THEN t[2] - 1 ELSE 0>> : t \in timers}
    /\ sinceWon' = [id \in OnceIds |-> IF sinceWon[id] < Minute THEN sinceWon[id] + 1 ELSE Minute]
    /\ UNCHANGED <<oncers, wonTwice>>

\* The process restarts: the map and the timers were in memory only.
OnceRestart ==
    /\ oncers' = {}
    /\ timers' = {}
    /\ sinceWon' = [id \in OnceIds |-> Minute]
    /\ UNCHANGED wonTwice

OnceNext ==
    \/ \E id \in OnceIds : CallOnce(id) \/ Forget(id)
    \/ OnceTick
    \/ OnceRestart

\* The clock goes on, and a timer's goroutine is scheduled in the end.
OnceFairness ==
    /\ WF_onceVars(OnceTick)
    /\ \A id \in OnceIds : WF_onceVars(Forget(id))

OnceSpec == OnceInit /\ [][OnceNext]_onceVars /\ OnceFairness
-----------------------------------------------------------------------------
\* once.go:16: "Once will return nil only to one caller for id provided in minute."
\* As long as the process lives, that is: a restart forgets who has won.
OneWinner == wonTwice = {}

\* An id that has been won can be won again later, however calls, timers and
\* restarts interleave (the timer of once.go:32-39).
FreedAgain == \A id \in OnceIds : id \in oncers ~> id \notin oncers
=============================================================================

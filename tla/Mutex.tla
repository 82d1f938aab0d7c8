-------------------------------- MODULE Mutex --------------------------------
(***************************************************************************)
(* The distributed mutex of blank-sr (src/sync/mutex.go), as the WAMP      *)
(* connections of main.go and handlers.go use it.                          *)
(*                                                                         *)
(* A client calls sync.lock and sync.unlock over a connection; several     *)
(* clients may share one.  The owner of a lock is the connection, not the  *)
(* client.  wango runs every call in a goroutine of its own, and calls     *)
(* UnlockForOwner when a connection is lost, so a call still in flight     *)
(* races with it.  One client has one call at a time, and one id at a      *)
(* time: pc[c] is the control state of its call's goroutine.               *)
(*                                                                         *)
(* A locker is a Go channel of capacity 1: locking sends a token, and      *)
(* unlocking receives one.  Tokens are anonymous in the code; here a token *)
(* carries the name of the client whose send it was, which no action reads *)
(* and the properties need.  Senders that find the channel full wait in    *)
(* sendq, in order; a receiver that finds it empty waits holding           *)
(* mutexLocker, so there is at most one.                                   *)
(***************************************************************************)
EXTENDS Integers, Sequences, FiniteSets

CONSTANTS Owners,       \* connection slots; a connection's id is a fresh UUID
          Clients,      \* callers of sync.lock
          Conn,         \* the connection of each client
          Ids,          \* names that are locked
          Lockers,      \* heap of locker objects
          Environment,  \* what the clients and the network may do, below
          MaxEntries,   \* bound: entries of one id in one owner's list
          NoClient, NoLocker, NoId, Free

(***************************************************************************)
(* With Environment = {} clients are disciplined: a client unlocks only    *)
(* what it holds, clients that share a connection never want the same id,  *)
(* and a connection is lost only when none of its calls is in flight.      *)
(*   "dropInFlight"  a connection may be lost with calls in flight         *)
(*   "share"         clients of one connection may want the same id        *)
(*   "stray"         a client may unlock an id it does not hold            *)
(***************************************************************************)
ASSUME ConstantsAssumption ==
    /\ Conn \in [Clients -> Owners]
    /\ IsFiniteSet(Clients)
    /\ Environment \subseteq {"dropInFlight", "share", "stray"}
    /\ MaxEntries \in Nat

ASSUME NullsAssumption ==
    /\ NoClient \notin Clients
    /\ NoLocker \notin Lockers
    /\ NoId \notin Ids
    /\ Free \notin Clients \cup Owners
    /\ Clients \cap Owners = {}

VARIABLES
    lockers,         \* map id -> *locker, NoLocker when absent
    lockersCounters, \* map id -> int, 0 when absent
    owners2Lockers,  \* map owner -> []id, as the number of entries of each id
    ch,              \* the buffer of each locker's channel
    sendq,           \* the goroutines blocked in a send to it, oldest first
    mutexLocker,     \* the sync.Mutex: who holds it, or Free
    taking,          \* the id whose locker mutexLocker's holder receives from
    got,             \* whether that receive has completed
    left,            \* what UnlockForOwner's range loop still has to visit
    conn,            \* state of each connection
    pc, arg, m       \* each client's call: control state, id, local variable m

mapVars == <<lockers, lockersCounters, owners2Lockers>>
chanVars == <<ch, sendq>>
recvVars == <<mutexLocker, taking, got, left>>
callVars == <<pc, arg, m>>
vars == <<mapVars, chanVars, recvVars, conn, callVars>>

NoEntries == [id \in Ids |-> 0]
ClientsOf(o) == {c \in Clients : Conn[c] = o}

\* The two states in which a registered Lock call has yet to deliver its token.
Pending == {"send", "queued"}
Waiters(id) == {c \in Clients : pc[c] \in Pending /\ arg[c] = id}

\* Lock has returned to a client; the reply reaches nobody if its connection is lost.
Returned(c) == IF conn[Conn[c]] = "open" THEN "held" ELSE "idle"

\* The receiver in unlock() is blocked on the channel of locker l.
ReceiverBlockedOn(l) == taking # NoId /\ ~got /\ lockers[taking] = l

\* The tokens of o's clients that are in some channel of the map.
TokensOf(o) == {id \in Ids : lockers[id] # NoLocker /\ ch[lockers[id]] \in ClientsOf(o)}

TypeOK ==
    /\ lockers \in [Ids -> Lockers \cup {NoLocker}]
    /\ lockersCounters \in [Ids -> Int]
    /\ owners2Lockers \in [Owners -> [Ids -> Nat]]
    /\ ch \in [Lockers -> Clients \cup {NoClient}]
    /\ sendq \in [Lockers -> Seq(Clients)]
    /\ mutexLocker \in Clients \cup Owners \cup {Free}
    /\ taking \in Ids \cup {NoId}
    /\ got \in BOOLEAN
    /\ left \in [Ids -> Nat]
    /\ conn \in [Owners -> {"open", "closing", "closed"}]
    /\ pc \in [Clients -> {"idle", "lock", "send", "queued", "held", "unlock"}]
    /\ arg \in [Clients -> Ids \cup {NoId}]
    /\ m \in [Clients -> Lockers \cup {NoLocker}]
    /\ \A c \in Clients : pc[c] # "idle" => arg[c] \in Ids
    /\ \A c \in Clients : pc[c] \in Pending <=> m[c] \in Lockers
    /\ got => taking # NoId
    /\ mutexLocker = Free => taking = NoId /\ left = NoEntries

Init ==
    /\ lockers = [id \in Ids |-> NoLocker]
    /\ lockersCounters = [id \in Ids |-> 0]
    /\ owners2Lockers = [o \in Owners |-> NoEntries]
    /\ ch = [l \in Lockers |-> NoClient]
    /\ sendq = [l \in Lockers |-> <<>>]
    /\ mutexLocker = Free
    /\ taking = NoId
    /\ got = FALSE
    /\ left = NoEntries
    /\ conn = [o \in Owners |-> "closed"]
    /\ pc = [c \in Clients |-> "idle"]
    /\ arg = [c \in Clients |-> NoId]
    /\ m = [c \in Clients |-> NoLocker]
-----------------------------------------------------------------------------
(* The clients and their connections. *)

\* A new connection takes a slot nothing in the service refers to any more: its
\* id is a fresh UUID, and what an earlier connection left behind stays.
Connect(o) ==
    /\ conn[o] = "closed"
    /\ owners2Lockers[o] = NoEntries
    /\ \A c \in ClientsOf(o) : pc[c] = "idle"
    /\ \A l \in Lockers : ch[l] \notin ClientsOf(o)
    /\ conn' = [conn EXCEPT ![o] = "open"]
    /\ arg' = [c \in Clients |-> IF c \in ClientsOf(o) THEN NoId ELSE arg[c]]
    /\ UNCHANGED <<mapVars, chanVars, recvVars, pc, m>>

CallLock(c, id) ==
    /\ conn[Conn[c]] = "open"
    /\ pc[c] = "idle"
    /\ \/ "share" \in Environment
       \/ \A d \in ClientsOf(Conn[c]) : pc[d] # "idle" => arg[d] # id
    /\ owners2Lockers[Conn[c]][id] < MaxEntries
    /\ pc' = [pc EXCEPT ![c] = "lock"]
    /\ arg' = [arg EXCEPT ![c] = id]
    /\ UNCHANGED <<mapVars, chanVars, recvVars, conn, m>>

CallUnlock(c) ==
    /\ conn[Conn[c]] = "open"
    /\ pc[c] = "held"
    /\ pc' = [pc EXCEPT ![c] = "unlock"]
    /\ UNCHANGED <<mapVars, chanVars, recvVars, conn, arg, m>>

StrayUnlock(c, id) ==
    /\ "stray" \in Environment
    /\ conn[Conn[c]] = "open"
    /\ pc[c] = "idle"
    /\ pc' = [pc EXCEPT ![c] = "unlock"]
    /\ arg' = [arg EXCEPT ![c] = id]
    /\ UNCHANGED <<mapVars, chanVars, recvVars, conn, m>>

\* The connection is lost: its holders are gone, goroutines of its calls are not.
Drop(o) ==
    /\ conn[o] = "open"
    /\ \/ "dropInFlight" \in Environment
       \/ \A c \in ClientsOf(o) : pc[c] \in {"idle", "held"}
    /\ conn' = [conn EXCEPT ![o] = "closing"]
    /\ pc' = [c \in Clients |-> IF c \in ClientsOf(o) /\ pc[c] = "held"
                                THEN "idle" ELSE pc[c]]
    /\ UNCHANGED <<mapVars, chanVars, recvVars, arg, m>>
-----------------------------------------------------------------------------
(* Lock *)

AddEntry_FirstOnly(o, id) ==
    IF owners2Lockers[o] = NoEntries THEN [owners2Lockers EXCEPT ![o][id] = 1]
    ELSE owners2Lockers

\* owners2Lockers[owner] = append(owners2Lockers[owner], id)
AddEntry(o, id) == [owners2Lockers EXCEPT ![o][id] = @ + 1]

Register(c, l) ==
    LET id == arg[c] IN
    /\ lockers' = [lockers EXCEPT ![id] = l]
    /\ owners2Lockers' = AddEntry(Conn[c], id)
    /\ lockersCounters' = [lockersCounters EXCEPT ![id] = @ + 1]
    /\ pc' = [pc EXCEPT ![c] = "send"]
    /\ m' = [m EXCEPT ![c] = l]
    /\ UNCHANGED <<recvVars, conn, arg>>

\* The critical section of Lock, when the map has a locker for the id ...
LockFound(c) ==
    /\ pc[c] = "lock" /\ mutexLocker = Free
    /\ lockers[arg[c]] # NoLocker
    /\ Register(c, lockers[arg[c]])
    /\ UNCHANGED chanVars

\* ... and when it makes one: an object nothing refers to, with a new channel.
LockNew(c) ==
    /\ pc[c] = "lock" /\ mutexLocker = Free
    /\ lockers[arg[c]] = NoLocker
    /\ \E l \in Lockers :
         /\ \A id \in Ids : lockers[id] # l
         /\ \A d \in Clients : m[d] # l
         /\ Register(c, l)
         /\ ch' = [ch EXCEPT ![l] = NoClient]
         /\ sendq' = [sendq EXCEPT ![l] = <<>>]

\* m.lock(), outside of mutexLocker: a blocked receiver takes the token at once,
\* an empty buffer keeps it, and with a full one the goroutine joins the queue.
SendHandOff(c) ==
    /\ pc[c] = "send" /\ ReceiverBlockedOn(m[c])
    /\ got' = TRUE
    /\ pc' = [pc EXCEPT ![c] = Returned(c)]
    /\ m' = [m EXCEPT ![c] = NoLocker]
    /\ UNCHANGED <<mapVars, chanVars, mutexLocker, taking, left, conn, arg>>

SendBuffer(c) ==
    /\ pc[c] = "send" /\ ~ReceiverBlockedOn(m[c])
    /\ ch[m[c]] = NoClient
    /\ ch' = [ch EXCEPT ![m[c]] = c]
    /\ pc' = [pc EXCEPT ![c] = Returned(c)]
    /\ m' = [m EXCEPT ![c] = NoLocker]
    /\ UNCHANGED <<mapVars, sendq, recvVars, conn, arg>>

SendQueue(c) ==
    /\ pc[c] = "send" /\ ~ReceiverBlockedOn(m[c])
    /\ ch[m[c]] # NoClient
    /\ sendq' = [sendq EXCEPT ![m[c]] = Append(@, c)]
    /\ pc' = [pc EXCEPT ![c] = "queued"]
    /\ UNCHANGED <<mapVars, ch, recvVars, conn, arg, m>>
-----------------------------------------------------------------------------
(* Unlock and UnlockForOwner *)

\* unlock(): <-l.ch on the locker of id. It blocks on an empty channel; otherwise it
\* takes the token, and the oldest blocked sender's token moves into the buffer.
ReceiveBlocks(id) ==
    /\ ch[lockers[id]] = NoClient
    /\ got' = FALSE
    /\ UNCHANGED <<chanVars, pc, m>>

ReceiveLast(id) ==
    /\ ch[lockers[id]] # NoClient
    /\ sendq[lockers[id]] = <<>>
    /\ ch' = [ch EXCEPT ![lockers[id]] = NoClient]
    /\ got' = TRUE
    /\ UNCHANGED <<sendq, pc, m>>

ReceiveNext(id) ==
    LET l == lockers[id]
        next == Head(sendq[l])
    IN  /\ ch[l] # NoClient
        /\ sendq[l] # <<>>
        /\ ch' = [ch EXCEPT ![l] = next]
        /\ sendq' = [sendq EXCEPT ![l] = Tail(@)]
        /\ pc' = [pc EXCEPT ![next] = Returned(next)]
        /\ m' = [m EXCEPT ![next] = NoLocker]
        /\ got' = TRUE

Receive(id) ==
    /\ taking' = id
    /\ ReceiveBlocks(id) \/ ReceiveLast(id) \/ ReceiveNext(id)
    /\ UNCHANGED <<mapVars, conn, arg>>

\* Unlock returns: no locker of that id.
UnlockNotFound(c) ==
    /\ pc[c] = "unlock" /\ mutexLocker = Free
    /\ lockers[arg[c]] = NoLocker
    /\ pc' = [pc EXCEPT ![c] = "idle"]
    /\ arg' = [arg EXCEPT ![c] = NoId]
    /\ UNCHANGED <<mapVars, chanVars, recvVars, conn, m>>

UnlockReceive_Unguarded(c) ==
    /\ pc[c] = "unlock" /\ mutexLocker = Free
    /\ lockers[arg[c]] # NoLocker
    /\ Receive(arg[c])
    /\ UNCHANGED <<mutexLocker, left>>

UnlockReceive(c) ==
    /\ pc[c] = "unlock" /\ mutexLocker = Free
    /\ lockers[arg[c]] # NoLocker
    /\ mutexLocker' = c
    /\ Receive(arg[c])
    /\ UNCHANGED left

NoneLeft_OffByOne(id) == lockersCounters[id] - 1 <= 1

\* The counter, decremented, is 0: the id's locker goes out of the map.
NoneLeft(id) == lockersCounters[id] - 1 = 0

RemoveEntries_Kept(o, id) == owners2Lockers

\* Unlock removes every entry of the id from the list of the caller's connection.
RemoveEntries(o, id) == [owners2Lockers EXCEPT ![o][id] = 0]

\* The rest of Unlock.
UnlockFinish(c) ==
    /\ mutexLocker = c /\ got
    /\ IF NoneLeft(taking)
       THEN /\ lockers' = [lockers EXCEPT ![taking] = NoLocker]
            /\ lockersCounters' = [lockersCounters EXCEPT ![taking] = 0]
       ELSE /\ lockersCounters' = [lockersCounters EXCEPT ![taking] = @ - 1]
            /\ UNCHANGED lockers
    /\ owners2Lockers' = RemoveEntries(Conn[c], taking)
    /\ mutexLocker' = Free /\ taking' = NoId /\ got' = FALSE
    /\ pc' = [pc EXCEPT ![c] = "idle"]
    /\ arg' = [arg EXCEPT ![c] = NoId]
    /\ UNCHANGED <<chanVars, left, conn, m>>

UnlockForOwnerBegin(o) ==
    /\ conn[o] = "closing" /\ mutexLocker = Free
    /\ mutexLocker' = o
    /\ left' = owners2Lockers[o]
    /\ UNCHANGED <<mapVars, chanVars, taking, got, conn, callVars>>

\* One turn of the range loop: the entry's locker is unlocked (lists are kept as
\* counts, so the entries are visited in any order) ...
UnlockForOwnerReceive(o) ==
    /\ mutexLocker = o /\ taking = NoId
    /\ \E id \in Ids :
         /\ left[id] > 0
         /\ lockers[id] # NoLocker
         /\ left' = [left EXCEPT ![id] = @ - 1]
         /\ Receive(id)
    /\ UNCHANGED mutexLocker

UnlockForOwnerCount_Forgets(o) ==
    /\ mutexLocker = o /\ got
    /\ taking' = NoId /\ got' = FALSE
    /\ UNCHANGED <<mapVars, chanVars, mutexLocker, left, conn, callVars>>

\* ... and the counter goes down; the locker stays in the map, at 0 too.
UnlockForOwnerCount(o) ==
    /\ mutexLocker = o /\ got
    /\ lockersCounters' = [lockersCounters EXCEPT ![taking] = @ - 1]
    /\ taking' = NoId /\ got' = FALSE
    /\ UNCHANGED <<lockers, owners2Lockers, chanVars, mutexLocker, left, conn, callVars>>

\* An entry whose locker is not in the map is a nil pointer: the panic runs the
\* deferred mutexLocker.Unlock() and leaves the list as it is.
UnlockForOwnerPanic(o) ==
    /\ mutexLocker = o /\ taking = NoId
    /\ \E id \in Ids : left[id] > 0 /\ lockers[id] = NoLocker
    /\ mutexLocker' = Free
    /\ left' = NoEntries
    /\ conn' = [conn EXCEPT ![o] = "closed"]
    /\ UNCHANGED <<mapVars, chanVars, taking, got, callVars>>

UnlockForOwnerEnd(o) ==
    /\ mutexLocker = o /\ taking = NoId
    /\ left = NoEntries
    /\ owners2Lockers' = [owners2Lockers EXCEPT ![o] = NoEntries]
    /\ mutexLocker' = Free
    /\ conn' = [conn EXCEPT ![o] = "closed"]
    /\ UNCHANGED <<lockers, lockersCounters, chanVars, taking, got, left, callVars>>
-----------------------------------------------------------------------------
Lock(c) == LockFound(c) \/ LockNew(c)
Send(c) == SendHandOff(c) \/ SendBuffer(c) \/ SendQueue(c)
Unlock(c) == UnlockNotFound(c) \/ UnlockReceive(c) \/ UnlockFinish(c)
UnlockForOwner(o) ==
    \/ UnlockForOwnerBegin(o) \/ UnlockForOwnerReceive(o) \/ UnlockForOwnerCount(o)
    \/ UnlockForOwnerPanic(o) \/ UnlockForOwnerEnd(o)

Next ==
    \/ \E c \in Clients : CallUnlock(c) \/ Lock(c) \/ Send(c) \/ Unlock(c)
    \/ \E c \in Clients, id \in Ids : CallLock(c, id) \/ StrayUnlock(c, id)
    \/ \E o \in Owners : Connect(o) \/ Drop(o) \/ UnlockForOwner(o)

Spec == Init /\ [][Next]_vars

(***************************************************************************)
(* Goroutines that can run do run.  Acquiring mutexLocker is strongly      *)
(* fair: a sync.Mutex hands itself to a waiter that has waited 1ms.        *)
(* Clients are trusted to unlock what they hold; nobody has to ask for a   *)
(* lock, connect or disconnect.                                            *)
(***************************************************************************)
Fairness ==
    /\ \A c \in Clients :
         /\ SF_vars(Lock(c))
         /\ SF_vars(UnlockNotFound(c) \/ UnlockReceive(c))
         /\ WF_vars(Send(c)) /\ WF_vars(UnlockFinish(c)) /\ WF_vars(CallUnlock(c))
    /\ \A o \in Owners :
         /\ SF_vars(UnlockForOwnerBegin(o))
         /\ WF_vars(\/ UnlockForOwnerReceive(o) \/ UnlockForOwnerCount(o)
                    \/ UnlockForOwnerPanic(o) \/ UnlockForOwnerEnd(o))

FairSpec == Spec /\ Fairness
-----------------------------------------------------------------------------
(* What holds whatever the clients and the network do. *)

Token(id) == IF lockers[id] = NoLocker THEN NoClient ELSE ch[lockers[id]]

\* lockersCounters counts exactly the Lock calls whose token is still to come, the
\* token in the channel, and the one a receiver has taken and not yet counted: so
\* Unlock's test for 0 (mutex.go:53) deletes a locker neither too early nor too late.
CounterExact ==
    \A id \in Ids :
        lockersCounters[id] = Cardinality(Waiters(id))
                              + (IF Token(id) # NoClient THEN 1 ELSE 0)
                              + (IF taking = id /\ got THEN 1 ELSE 0)

\* The locker a Lock call took from the map before it left mutexLocker (mutex.go:24)
\* is still the map's locker for its id, however late the call gets to send: a second
\* locker for the id would let two clients in.
NoOrphanWaiter ==
    \A c \in Clients :
        pc[c] \in Pending => lockers[arg[c]] # NoLocker /\ m[c] = lockers[arg[c]]
-----------------------------------------------------------------------------
(* What holds for disciplined clients, Environment = {}. *)

\* No two clients that believe they hold an id (their Lock has returned, their
\* connection is open, they have not asked to unlock) hold the same one.
MutualExclusion ==
    \A c, d \in Clients :
        c # d /\ pc[c] = "held" /\ pc[d] = "held" => arg[c] # arg[d]

\* The receive in unlock() (mutex.go:92), which runs inside mutexLocker, never finds
\* the channel empty: if it did, the whole service would wait for it.
UnlockNeverBlocks == \A l \in Lockers : ~ReceiverBlockedOn(l)

\* Once UnlockForOwner has returned for a lost connection, no token of its clients
\* is left in a channel and no entry in its list ("unlocks all lockers locked by
\* owner", mutex.go:69).
OwnerCleanup ==
    \A o \in Owners : conn[o] = "closed" =>
        /\ TokensOf(o) = {}
        /\ owners2Lockers[o] = NoEntries

\* The list UnlockForOwner will go by names every id the connection's clients use and
\* nothing else, so that it neither leaks a lock nor meets a locker that is gone.
ListExact ==
    \A o \in Owners, id \in Ids : mutexLocker # o =>
        owners2Lockers[o][id] =
            Cardinality({c \in ClientsOf(o) :
                /\ arg[c] = id
                /\ pc[c] \in Pending \cup {"held", "unlock"} \/ Token(id) = c})

Phase(c) ==
    CASE pc[c] \in Pending -> "waiting"
      [] pc[c] = "held" -> "holding"
      [] OTHER -> IF \E id \in Ids : Token(id) = c THEN "done" ELSE "idle"

LS == INSTANCE LockService WITH
    holder <- [id \in Ids |-> Token(id)],
    phase <- [c \in Clients |-> Phase(c)],
    want <- [c \in Clients |-> IF Phase(c) = "idle" THEN NoId ELSE arg[c]]

\* The maps, counters and channels implement the lock service: in particular the only
\* token a client's Unlock or a lost connection ever takes back is its own.
ImplementsLockService == LS!Spec

\* A client that calls sync.lock gets the lock, unless its connection is lost:
\* sends to a full channel are served in order and every holder unlocks or is lost.
LockGranted ==
    \A c \in Clients :
        pc[c] = "lock" ~> (pc[c] = "held" \/ conn[Conn[c]] # "open")
=============================================================================

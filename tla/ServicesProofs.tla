--------------------------- MODULE ServicesProofs ---------------------------
(***************************************************************************)
(* Proofs about the services of module Services: the three smaller ones    *)
(* here, sync.once with one winner per id and minute (module Once), the    *)
(* local storage of which only clear loses an item (module LocalStorage)   *)
(* and the sessions feed, whose list and events leave no gap (module       *)
(* SessionFeed); and that the services together are what each is alone.    *)
(***************************************************************************)
EXTENDS Services, LibServerProofs, ConfigReloadProofs, ConfigProofs

(***************************************************************************)
(* Once.  The induction needs to know how timers and clock go together: an *)
(* id that is not in the map was won a minute ago or more, and a timer has *)
(* as many ticks left as the minute has since its id was won.              *)
(***************************************************************************)

\* An id that may be won was won a minute ago or more.
FreeIsOld == \A id \in OnceIds : id \notin oncers => sinceWon[id] = Minute

\* A timer that has not done its work belongs to an id in the map, and runs out when the minute
\* of the id is over.
TimersExact ==
    \A t \in timers : t[1] \in oncers /\ t[2] + sinceWon[t[1]] = Minute

OnceInv == OnceTypeOK /\ FreeIsOld /\ TimersExact /\ OneWinner

LEMMA OnceInvInit == OnceInit => OnceInv
BY OnceAssumption
DEF OnceInit, OnceInv, OnceTypeOK, FreeIsOld, TimersExact, OneWinner

LEMMA OnceInvNext == OnceInv /\ [OnceNext]_onceVars => OnceInv'
<1> SUFFICES ASSUME OnceInv, [OnceNext]_onceVars PROVE OnceInv'
    OBVIOUS
<1> USE OnceAssumption DEF OnceInv, OnceTypeOK, FreeIsOld, TimersExact, OneWinner
<1>1. ASSUME NEW id \in OnceIds, CallOnce(id) PROVE OnceInv'
    <2>1. sinceWon[id] = Minute
        BY <1>1 DEF CallOnce
    <2>2. wonTwice' = wonTwice
        BY <1>1, <2>1 DEF CallOnce
    <2>3. timers' = timers \cup {<<id, Minute>>}
        BY <1>1 DEF CallOnce, MakeOncer
    <2>4. \A t \in timers : t[1] # id
        BY <1>1 DEF CallOnce
    <2>5. OnceTypeOK'
        BY <1>1, <2>2, <2>3 DEF CallOnce
    <2>6. FreeIsOld'
        BY <1>1 DEF CallOnce
    <2>7. TimersExact'
        BY <1>1, <2>3, <2>4 DEF CallOnce
    <2> QED BY <2>2, <2>5, <2>6, <2>7
<1>2. ASSUME NEW id \in OnceIds, Forget(id) PROVE OnceInv'
    <2>1. sinceWon[id] = Minute
        BY <1>2 DEF Forget
    <2>2. \A t \in timers : t[1] = id => t = <<id, 0>>
        BY <2>1
    <2>3. OnceTypeOK' /\ FreeIsOld'
        BY <1>2, <2>1 DEF Forget
    <2>4. TimersExact'
        BY <1>2, <2>2 DEF Forget
    <2> QED BY <1>2, <2>3, <2>4 DEF Forget
<1>3. ASSUME OnceTick PROVE OnceInv'
    <2>1. OnceTypeOK' /\ OneWinner'
        BY <1>3 DEF OnceTick
    <2>2. FreeIsOld'
        BY <1>3 DEF OnceTick
    <2>3. ASSUME NEW t \in timers'
          PROVE  t[1] \in oncers' /\ t[2] + sinceWon'[t[1]] = Minute
        <3>1. PICK old \in timers : t = <<old[1], IF old[2] > 0 THEN old[2] - 1 ELSE 0>>
            BY <1>3, <2>3 DEF OnceTick
        <3>2. old[1] \in OnceIds /\ old[2] \in 0..Minute /\ sinceWon[old[1]] \in 0..Minute
            OBVIOUS
        <3>3. old[1] \in oncers /\ old[2] + sinceWon[old[1]] = Minute
            OBVIOUS
        <3>4. sinceWon'[old[1]] = IF sinceWon[old[1]] < Minute THEN sinceWon[old[1]] + 1 ELSE Minute
            BY <1>3, <3>2 DEF OnceTick
        <3> QED BY <1>3, <3>1, <3>2, <3>3, <3>4 DEF OnceTick
    <2> QED BY <2>1, <2>2, <2>3
<1>4. CASE OnceRestart
    BY <1>4 DEF OnceRestart
<1>5. CASE UNCHANGED onceVars
    BY <1>5 DEF onceVars
<1> QED BY <1>1, <1>2, <1>3, <1>4, <1>5 DEF OnceNext

\* sync/once.go: whatever ids there are and however long the minute is, no id is given to two
\* callers within it, and the map, the timers and the clock have their types.
THEOREM OnceCorrect == OnceSpec => [](OneWinner /\ OnceTypeOK)
<1>1. OnceInv => OneWinner /\ OnceTypeOK
    BY DEF OnceInv
<1> QED BY <1>1, OnceInvInit, OnceInvNext, PTL DEF OnceSpec
-----------------------------------------------------------------------------
(***************************************************************************)
(* LocalStorage.  While a goroutine of clear waits, it may wipe any item,  *)
(* whenever it was set.                                                    *)
(***************************************************************************)

StorageInv ==
    /\ StorageTypeOK
    /\ clearing > 0 => threatened = Items
    /\ LostOnlyByClear

LEMMA StorageInvInit == StorageInit => StorageInv
BY StorageAssumption
DEF StorageInit, StorageInv, StorageTypeOK, LostOnlyByClear, GetItem, ItemOrNone

LEMMA StorageInvNext == StorageInv /\ [StorageNext]_storageVars => StorageInv'
<1> SUFFICES ASSUME StorageInv, [StorageNext]_storageVars PROVE StorageInv'
    OBVIOUS
<1> USE StorageAssumption DEF StorageInv, StorageTypeOK, LostOnlyByClear, GetItem, ItemOrNone
<1>1. ASSUME NEW i \in Items, NEW v \in ItemValues, SetItem(i, v) PROVE StorageInv'
    BY <1>1 DEF SetItem, SaveItem, Asked
<1>2. ASSUME NEW i \in Items, RemoveItem(i) PROVE StorageInv'
    BY <1>2 DEF RemoveItem, DeleteItem, Asked
<1>3. CASE Clear
    BY <1>3 DEF Clear
<1>4. CASE RunClear
    BY <1>4 DEF RunClear, Emptied
<1>5. CASE StorageRestart
    BY <1>5 DEF StorageRestart
<1>6. CASE UNCHANGED storageVars
    BY <1>6 DEF storageVars
<1> QED BY <1>1, <1>2, <1>3, <1>4, <1>5, <1>6 DEF StorageNext

\* localstorage.go: for any items and any number of waiting clears, an item bolt accepts keeps
\* what was last set, through restarts, unless a clear could reach it.
THEOREM StorageCorrect == StorageSpec => [](LostOnlyByClear /\ StorageTypeOK)
<1>1. StorageInv => LostOnlyByClear /\ StorageTypeOK
    BY DEF StorageInv
<1> QED BY <1>1, StorageInvInit, StorageInvNext, PTL DEF StorageSpec
-----------------------------------------------------------------------------
(***************************************************************************)
(* SessionFeed.  A connection counts from the moment it has its list,      *)
(* before it is among the subscribers: until then no event is published,   *)
(* since it holds subscribersLocker, so that what changes meanwhile is     *)
(* still to come.                                                          *)
(***************************************************************************)

\* The connections that have a list.
HasList(w) == w \in subscribed \/ (subscribing = w /\ toList)

\* FeedComplete and DeletionsReach for them.
Complete ==
    \A w \in Subscribers : HasList(w) =>
        \A s \in listed : s \in toldOf[w] \/ pending[<<"updated", s>>] > 0
DeletionsKnown ==
    \A w \in Subscribers : HasList(w) =>
        \A s \in inList[w] \cap deletedBy :
            s \in toldGone[w] \/ pending[<<"deleted", s>>] > 0

\* A session that has been deleted never comes back.
NoneBack == listed \cap deletedBy = {}

\* Only the connection in handleSubscribe can be about to be subscribed.
ListOfHolder == toList => subscribing # Nobody

FeedInv == FeedTypeOK /\ ListOfHolder /\ NoneBack /\ Complete /\ DeletionsKnown

LEMMA FeedInvInit == FeedInit => FeedInv
<1> SUFFICES ASSUME FeedInit PROVE FeedInv
    OBVIOUS
<1>1. Cardinality(FeedSessions) \in Nat
    BY FeedAssumption, FS_CardinalityType
<1>2. FeedTypeOK
    <2>1. pending \in [Events -> 0..MaxPending]
        BY FeedAssumption DEF FeedInit
    <2>2. counted \in 0..Cardinality(FeedSessions)
        BY <1>1 DEF FeedInit
    <2>3. {inList, toldOf, toldGone} \subseteq [Subscribers -> SUBSET FeedSessions]
        BY DEF FeedInit
    <2> QED BY <2>1, <2>2, <2>3 DEF FeedInit, FeedTypeOK
<1>3. ListOfHolder /\ NoneBack /\ Complete /\ DeletionsKnown
    BY FeedAssumption DEF FeedInit, ListOfHolder, NoneBack, Complete, DeletionsKnown, HasList
<1> QED BY <1>2, <1>3 DEF FeedInv

LEMMA FeedTypes == FeedTypeOK /\ [FeedNext]_feedVars => FeedTypeOK'
<1> SUFFICES ASSUME FeedTypeOK, [FeedNext]_feedVars PROVE FeedTypeOK'
    OBVIOUS
<1> USE FeedAssumption DEF FeedTypeOK, Events, storeVars, lockVars, subscriberVars
<1>0. Cardinality(FeedSessions) \in Nat /\ 0 \in 0..Cardinality(FeedSessions)
    <2>1. Cardinality(FeedSessions) \in Nat
        BY FS_CardinalityType
    <2> QED BY <2>1
<1>1. ASSUME NEW s \in FeedSessions, NewSession(s) PROVE FeedTypeOK'
    BY <1>1 DEF NewSession, Emit
<1>2. ASSUME NEW s \in FeedSessions, UpdateSession(s) PROVE FeedTypeOK'
    BY <1>2 DEF UpdateSession, Emit
<1>3. ASSUME NEW s \in FeedSessions, DeleteSession(s) PROVE FeedTypeOK'
    BY <1>3 DEF DeleteSession, Emit
<1>4. ASSUME NEW s \in FeedSessions, ExpireSession(s) PROVE FeedTypeOK'
    BY <1>4 DEF ExpireSession
<1>5. ASSUME NEW s \in FeedSessions, NEW event \in {"updated", "deleted"}, PublishEvent(event, s)
      PROVE  FeedTypeOK'
    <2>1. <<event, s>> \in Events /\ pending[<<event, s>>] - 1 \in 0..MaxPending
        BY <1>5 DEF PublishEvent
    <2>2. pending' \in [Events -> 0..MaxPending]
        BY <1>5, <2>1 DEF PublishEvent
    <2>3. toldOf' \in [Subscribers -> SUBSET FeedSessions]
        BY <1>5 DEF PublishEvent
    <2>4. toldGone' \in [Subscribers -> SUBSET FeedSessions]
        BY <1>5 DEF PublishEvent
    <2> QED BY <1>5, <2>2, <2>3, <2>4 DEF PublishEvent
<1>6. ASSUME NEW w \in Subscribers, CountSessions(w) PROVE FeedTypeOK'
    <2>1. Cardinality(listed) \in Nat /\ Cardinality(listed) <= Cardinality(FeedSessions)
        BY FS_Subset, FS_CardinalityType
    <2>2. counted' \in 0..Cardinality(FeedSessions)
        BY <1>0, <1>6, <2>1 DEF CountSessions
    <2> QED BY <1>6, <2>2 DEF CountSessions
<1>7. ASSUME NEW w \in Subscribers, ListSessions(w) PROVE FeedTypeOK'
    BY <1>7 DEF ListSessions
<1>8. ASSUME NEW w \in Subscribers, ListPanics(w) \/ AddSubscriber(w) \/ Leave(w)
      PROVE  FeedTypeOK'
    <2>1. counted' \in 0..Cardinality(FeedSessions)
        BY <1>8, <1>0 DEF ListPanics, AddSubscriber, Leave
    <2>2. {inList, toldOf, toldGone}' \subseteq [Subscribers -> SUBSET FeedSessions]
        BY <1>8 DEF ListPanics, AddSubscriber, Leave, ForgetTold
    <2> QED BY <1>8, <2>1, <2>2 DEF ListPanics, AddSubscriber, Leave
<1>9. CASE Restart
    <2>1. counted' \in 0..Cardinality(FeedSessions)
        BY <1>9, <1>0 DEF Restart
    <2>2. pending' \in [Events -> 0..MaxPending]
        BY <1>9 DEF Restart
    <2>3. {inList, toldOf, toldGone}' \subseteq [Subscribers -> SUBSET FeedSessions]
        BY <1>9 DEF Restart, ForgetTold
    <2> QED BY <1>9, <2>1, <2>2, <2>3 DEF Restart
<1>10. CASE UNCHANGED feedVars
    BY <1>10 DEF feedVars
<1> QED BY <1>1, <1>2, <1>3, <1>4, <1>5, <1>6, <1>7, <1>8, <1>9, <1>10 DEF FeedNext

LEMMA FeedInvNext == FeedInv /\ [FeedNext]_feedVars => FeedInv'
<1> SUFFICES ASSUME FeedInv, [FeedNext]_feedVars PROVE (ListOfHolder /\ NoneBack /\ Complete /\ DeletionsKnown)'
    BY FeedTypes DEF FeedInv
<1> DEFINE Gaps == ListOfHolder /\ NoneBack /\ Complete /\ DeletionsKnown
<1> USE FeedAssumption
        DEF FeedInv, FeedTypeOK, ListOfHolder, NoneBack, Complete, DeletionsKnown, HasList, Events,
            storeVars, lockVars, subscriberVars
<1>1. ASSUME NEW s \in FeedSessions, NewSession(s) PROVE Gaps'
    BY <1>1 DEF NewSession, Emit
<1>2. ASSUME NEW s \in FeedSessions, UpdateSession(s) PROVE Gaps'
    BY <1>2 DEF UpdateSession, Emit
<1>3. ASSUME NEW s \in FeedSessions, DeleteSession(s) PROVE Gaps'
    BY <1>3 DEF DeleteSession, Emit
<1>4. ASSUME NEW s \in FeedSessions, ExpireSession(s) PROVE Gaps'
    BY <1>4 DEF ExpireSession
<1>5. ASSUME NEW s \in FeedSessions, NEW event \in {"updated", "deleted"}, PublishEvent(event, s)
      PROVE  Gaps'
    <2> USE <1>5 DEF PublishEvent, PublishLock
    <2>1. \A w \in Subscribers : HasList(w)' => w \in subscribed
        OBVIOUS
    <2>2. \A e \in Events : e # <<event, s>> => pending'[e] = pending[e]
        OBVIOUS
    <2>3. NoneBack' /\ ListOfHolder'
        OBVIOUS
    <2>4. ASSUME event = "updated" PROVE Complete' /\ DeletionsKnown'
        <3>1. \A w \in subscribed : toldOf'[w] = toldOf[w] \cup {s}
            BY <2>4
        <3>2. \A x \in FeedSessions : x # s => pending'[<<"updated", x>>] = pending[<<"updated", x>>]
            BY <2>2
        <3>3. \A x \in FeedSessions : pending'[<<"deleted", x>>] = pending[<<"deleted", x>>]
            BY <2>2, <2>4
        <3>4. ASSUME NEW w \in Subscribers, HasList(w)', NEW x \in listed'
              PROVE  x \in toldOf'[w] \/ pending'[<<"updated", x>>] > 0
            <4>1. w \in subscribed /\ x \in listed /\ x \in FeedSessions
                BY <2>1, <3>4
            <4>2. x \in toldOf[w] \/ pending[<<"updated", x>>] > 0
                BY <4>1
            <4> QED BY <3>1, <3>2, <4>1, <4>2
        <3>5. DeletionsKnown'
            BY <2>1, <2>4, <3>3
        <3> HIDE DEF HasList
        <3> QED BY <3>4, <3>5
    <2>5. ASSUME event = "deleted" PROVE Complete' /\ DeletionsKnown'
        <3>1. \A w \in subscribed : toldGone'[w] = toldGone[w] \cup {s}
            BY <2>5
        <3>2. \A x \in FeedSessions : x # s => pending'[<<"deleted", x>>] = pending[<<"deleted", x>>]
            BY <2>2
        <3>3. \A x \in FeedSessions : pending'[<<"updated", x>>] = pending[<<"updated", x>>]
            BY <2>2, <2>5
        <3>4. ASSUME NEW w \in Subscribers, HasList(w)', NEW x \in (inList[w] \cap deletedBy)'
              PROVE  x \in toldGone'[w] \/ pending'[<<"deleted", x>>] > 0
            <4>1. w \in subscribed /\ x \in inList[w] \cap deletedBy /\ x \in FeedSessions
                BY <2>1, <3>4
            <4>2. x \in toldGone[w] \/ pending[<<"deleted", x>>] > 0
                BY <4>1
            <4> QED BY <3>1, <3>2, <4>1, <4>2
        <3>5. Complete'
            BY <2>1, <2>5, <3>3
        <3> HIDE DEF HasList
        <3> QED BY <3>4, <3>5
    <2> QED BY <2>3, <2>4, <2>5
<1>6. ASSUME NEW w \in Subscribers, CountSessions(w) PROVE Gaps'
    <2>1. \A o \in Subscribers : HasList(o)' => o \in subscribed \/ toList
        BY <1>6 DEF CountSessions
    <2> QED BY <1>6, <2>1 DEF CountSessions
<1>7. ASSUME NEW w \in Subscribers, ListSessions(w) PROVE Gaps'
    BY <1>7 DEF ListSessions
<1>8. ASSUME NEW w \in Subscribers, ListPanics(w) \/ AddSubscriber(w) \/ Leave(w) PROVE Gaps'
    <2>1. HasList(w)' => AddSubscriber(w)
        BY <1>8 DEF ListPanics, AddSubscriber, Leave
    <2>2. \A o \in Subscribers \ {w} :
            inList'[o] = inList[o] /\ toldOf'[o] = toldOf[o] /\ toldGone'[o] = toldGone[o]
        BY <1>8 DEF ListPanics, AddSubscriber, Leave, ForgetTold
    <2> QED BY <1>8, <2>1, <2>2 DEF ListPanics, AddSubscriber, Leave
<1>9. CASE Restart
    BY <1>9 DEF Restart
<1>10. CASE UNCHANGED feedVars
    BY <1>10 DEF feedVars
<1> QED BY <1>1, <1>2, <1>3, <1>4, <1>5, <1>6, <1>7, <1>8, <1>9, <1>10 DEF FeedNext

LEMMA FeedAlways == FeedSpec => []FeedInv
BY FeedInvInit, FeedInvNext, PTL DEF FeedSpec

\* main.go 140-146, handlers.go 260-263: for any sessions, subscribers and number of events on
\* their way, a subscriber misses no session of the store, and the variables have their types.
THEOREM FeedCorrect == FeedSpec => [](FeedComplete /\ FeedTypeOK)
<1>1. FeedInv => FeedComplete /\ FeedTypeOK
    BY DEF FeedInv, FeedTypeOK, Complete, HasList, FeedComplete
<1> QED BY <1>1, FeedAlways, PTL

\* main.go 140-146: nor does it keep a session of its list that has been deleted: the deletion
\* has been announced to it, or its announcement is on its way.
THEOREM DeletionsArrive == FeedSpec => []DeletionsReach
<1>1. FeedInv => DeletionsReach
    BY DEF FeedInv, FeedTypeOK, DeletionsKnown, HasList, DeletionsReach
<1> QED BY <1>1, FeedAlways, PTL
-----------------------------------------------------------------------------
(***************************************************************************)
(* All of them in one process.  That a step of Services is one of the      *)
(* service that is the focus and changes nothing of the others is so by    *)
(* the way Services is written; it links the runs, which check Services,   *)
(* to the theorems, which are about each service's own specification.      *)
(***************************************************************************)

LEMMA ServicesInit ==
    Init => OnceInit /\ StorageInit /\ LibInit /\ FeedInit /\ ReloadInit /\ ValidateInit
BY DEF Init

LEMMA ServicesStep ==
    [Next]_<<focus, services>> =>
        /\ [OnceNext]_onceVars /\ [StorageNext]_storageVars /\ [LibNext]_libVars
        /\ [FeedNext]_feedVars /\ [ReloadNext]_confVars /\ [ValidateNext]_validateVars
<1> SUFFICES ASSUME [Next]_<<focus, services>>
             PROVE  /\ OnceNext \/ UNCHANGED onceVars
                    /\ StorageNext \/ UNCHANGED storageVars
                    /\ LibNext \/ UNCHANGED libVars
                    /\ FeedNext \/ UNCHANGED feedVars
                    /\ ReloadNext \/ UNCHANGED confVars
                    /\ ValidateNext \/ UNCHANGED validateVars
    OBVIOUS
<1>1. CASE UNCHANGED <<focus, services>>
    BY <1>1 DEF services
<1>2. CASE OnceActs
    BY <1>2 DEF OnceActs
<1>3. CASE StorageActs
    BY <1>3 DEF StorageActs
<1>4. CASE LibActs
    BY <1>4 DEF LibActs
<1>5. CASE FeedActs
    BY <1>5 DEF FeedActs
<1>6. CASE ReloadActs
    BY <1>6 DEF ReloadActs
<1>7. CASE ValidateActs
    BY <1>7 DEF ValidateActs
<1> QED BY <1>1, <1>2, <1>3, <1>4, <1>5, <1>6, <1>7 DEF Next

\* A behaviour of Services is one of each service's own specification.
LEMMA ServicesCompose ==
    Spec => OnceSpec /\ StorageSpec /\ LibSpec /\ FeedSpec /\ ReloadSpec /\ ValidateSpec
BY ServicesInit, ServicesStep, PTL
DEF Spec, OnceSpec, StorageSpec, LibSpec, FeedSpec, ReloadSpec, ValidateSpec

\* In one process, the variables of each service have their types.
THEOREM ServicesTyped == Spec => []ServicesTypeOK
<1>1. OnceTypeOK /\ StorageTypeOK /\ LibTypeOK /\ FeedTypeOK /\ ReloadTypeOK /\ ValidateTypeOK
        => ServicesTypeOK
    BY DEF ServicesTypeOK
<1> QED
    BY <1>1, ServicesCompose, OnceCorrect, StorageCorrect, LibCorrect, FeedCorrect,
       ReloadCorrect, ValidateTyped, PTL
=============================================================================

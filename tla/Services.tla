------------------------------ MODULE Services ------------------------------
(***************************************************************************)
(* The services of blank-sr that share no variable, in one process: the    *)
(* once ids, the local storage, the library server, the sessions feed, the *)
(* configuration and its validation.                                       *)
(*                                                                         *)
(* Because they share nothing, a behaviour of all of them satisfies a      *)
(* property of one of them exactly if that one's part of the behaviour     *)
(* does.  So a behaviour exercises a single service, its focus.            *)
(*                                                                         *)
(* The code shares two locks: confLocker and wango's subscribersLocker.    *)
(* Each module has what others may do with them.  LibServer waits for both *)
(* and lets others hold them as long as they like; ConfigReload has        *)
(* confLocker with all its users but the library's short read, and of      *)
(* subscribersLocker the subscriptions that wait for confLocker with it;   *)
(* SessionFeed has subscribersLocker for its own topic, and as no event    *)
(* has to be published in it, others may hold it as long as they like.     *)
(***************************************************************************)
EXTENDS Once, LocalStorage, LibServer, SessionFeed, ConfigReload, Config

VARIABLE focus

services == <<onceVars, storageVars, libVars, feedVars, confVars, validateVars>>

Init ==
    /\ focus \in {"once", "storage", "lib", "feed", "reload", "validate"}
    /\ OnceInit /\ StorageInit /\ LibInit /\ FeedInit /\ ReloadInit
    /\ ValidateInit
    /\ focus # "validate" => conf = Nothing

OnceActs ==
    /\ focus = "once" /\ OnceNext
    /\ UNCHANGED <<focus, storageVars, libVars, feedVars, confVars, validateVars>>
StorageActs ==
    /\ focus = "storage" /\ StorageNext
    /\ UNCHANGED <<focus, onceVars, libVars, feedVars, confVars, validateVars>>
LibActs ==
    /\ focus = "lib" /\ LibNext
    /\ UNCHANGED <<focus, onceVars, storageVars, feedVars, confVars, validateVars>>
FeedActs ==
    /\ focus = "feed" /\ FeedNext
    /\ UNCHANGED <<focus, onceVars, storageVars, libVars, confVars, validateVars>>
ReloadActs ==
    /\ focus = "reload" /\ ReloadNext
    /\ UNCHANGED <<focus, onceVars, storageVars, libVars, feedVars, validateVars>>
ValidateActs ==
    /\ focus = "validate" /\ ValidateNext
    /\ UNCHANGED <<focus, onceVars, storageVars, libVars, feedVars, confVars>>

Next == OnceActs \/ StorageActs \/ LibActs \/ FeedActs \/ ReloadActs \/ ValidateActs

\* Each service's own fairness: the actions it names are disabled in the first state, so that
\* it says nothing of a service that is not the focus.
Spec ==
    /\ Init /\ [][Next]_<<focus, services>>
    /\ OnceFairness /\ StorageFairness /\ LibFairness /\ ReloadFairness

\* The variables of each service have their types.
ServicesTypeOK ==
    OnceTypeOK /\ StorageTypeOK /\ LibTypeOK /\ FeedTypeOK /\ ReloadTypeOK /\ ValidateTypeOK
=============================================================================

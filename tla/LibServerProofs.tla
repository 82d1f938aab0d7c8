--------------------------- MODULE LibServerProofs ---------------------------
(***************************************************************************)
(* Proofs about module LibServer: what is served is the file, and a        *)
(* library that is served goes on being served.                            *)
(*                                                                         *)
(* The first needs an invariant that follows the request that has the file *)
(* to itself, called LibAlone, through its steps.                             *)
(***************************************************************************)
EXTENDS LibServer, TLAPS

LibGood == Archives \ BrokenArchives

\* A request that is at work has an archive of its own.
LibPosting == \A u \in Uploaders : libStep[u] # "idle" => upload[u] \in Archives

\* What has happened so far of the request of u, when it has had the file to itself.
LibProgress(u) ==
    /\ lastUpload = upload[u]
    /\ libStep[u] = "write" => libLength = 0
    /\ libStep[u] # "write" => libFile = lastUpload
    /\ libStep[u] = "swap" => libRead[u] = libFile

\* As long as requests have not disturbed each other, one at most has opened the file.
LibAlone ==
    ~libDisturbed =>
        /\ \A u, o \in Uploaders : HasOpened(u) /\ HasOpened(o) => u = o
        /\ \A u \in Uploaders : HasOpened(u) => LibProgress(u)

\* What is there when no request has the file open.
LibAtRest ==
    ~libDisturbed /\ (\A u \in Uploaders : ~HasOpened(u)) =>
        /\ libFile = lastUpload
        /\ libUp /\ libFile \in LibGood => libFS = libFile

\* Requests die with the process.
LibDown == ~libUp => \A u \in Uploaders : libStep[u] = "idle"

LibInv == LibTypeOK /\ LibPosting /\ LibAlone /\ LibAtRest /\ LibDown

LEMMA LibInvInit == LibInit => LibInv
<1> SUFFICES ASSUME LibInit PROVE LibInv
    OBVIOUS
<1> USE LibAssumption DEF LibInit, HasOpened
<1>1. LibTypeOK
    BY DEF LibTypeOK, FileContents
<1>2. LibPosting /\ LibAlone
    BY DEF LibPosting, LibAlone
<1>3. LibAtRest /\ LibDown
    BY DEF LibAtRest, LibGood, LibDown
<1> QED BY <1>1, <1>2, <1>3 DEF LibInv
-----------------------------------------------------------------------------
\* The types survive every step.
LEMMA LibTypes == LibTypeOK /\ LibPosting /\ [LibNext]_libVars => (LibTypeOK /\ LibPosting)'
<1> SUFFICES ASSUME LibTypeOK, LibPosting, [LibNext]_libVars PROVE (LibTypeOK /\ LibPosting)'
    OBVIOUS
<1> USE LibAssumption DEF LibTypeOK, LibPosting, FileContents, LibGoto, libHistory
<1>1. ASSUME NEW u \in Uploaders, NEW a \in Archives, PostLib(u, a)
      PROVE  (LibTypeOK /\ LibPosting)'
    BY <1>1 DEF PostLib
<1>2. ASSUME NEW u \in Uploaders, CreateLib(u) PROVE (LibTypeOK /\ LibPosting)'
    BY <1>2 DEF CreateLib
<1>3. ASSUME NEW u \in Uploaders, WriteLib(u) PROVE (LibTypeOK /\ LibPosting)'
    BY <1>3 DEF WriteLib
<1>4. ASSUME NEW u \in Uploaders, CreateLibFails(u) \/ WriteLibFails(u)
      PROVE  (LibTypeOK /\ LibPosting)'
    BY <1>4 DEF CreateLibFails, WriteLibFails, LibReturn
<1>5. ASSUME NEW u \in Uploaders, GetForLib(u) \/ PublishLib(u) \/ ReadLib(u)
      PROVE  (LibTypeOK /\ LibPosting)'
    BY <1>5 DEF GetForLib, PublishLib, ReadLib
<1>6. ASSUME NEW u \in Uploaders, SwapLib(u) PROVE (LibTypeOK /\ LibPosting)'
    BY <1>6 DEF SwapLib, LibReturn, MayOpen
<1>7. CASE LibCrash
    BY <1>7 DEF LibCrash
<1>8. CASE LibStart
    BY <1>8 DEF LibStart, MayOpen
<1>9. ASSUME NEW l \in {"confLocker", "subscribersLocker"}, OthersLock(l) \/ OthersUnlock(l)
      PROVE  (LibTypeOK /\ LibPosting)'
    BY <1>9 DEF OthersLock, OthersUnlock
<1>10. CASE UNCHANGED libVars
    BY <1>10 DEF libVars
<1> QED BY <1>1, <1>2, <1>3, <1>4, <1>5, <1>6, <1>7, <1>8, <1>9, <1>10 DEF LibNext, Serve

LEMMA LibInvNext == LibInv /\ [LibNext]_libVars => LibInv'
<1> SUFFICES ASSUME LibInv, [LibNext]_libVars PROVE (LibAlone /\ LibAtRest /\ LibDown)'
    BY LibTypes DEF LibInv
<1> USE LibAssumption DEF LibInv, LibTypeOK, FileContents, LibGoto, libHistory, HasOpened
<1>1. ASSUME NEW u \in Uploaders, NEW a \in Archives, PostLib(u, a)
      PROVE  (LibAlone /\ LibAtRest /\ LibDown)'
    <2> USE <1>1 DEF PostLib
    <2>1. \A o \in Uploaders : HasOpened(o)' <=> HasOpened(o)
        OBVIOUS
    <2>2. \A o \in Uploaders : HasOpened(o) => (LibProgress(o)' <=> LibProgress(o))
        BY DEF LibProgress
    <2>3. LibAlone'
        BY <2>1, <2>2 DEF LibAlone
    <2>4. LibAtRest'
        BY <2>1 DEF LibAtRest
    <2> QED BY <2>3, <2>4 DEF LibDown
<1>2. ASSUME NEW u \in Uploaders, CreateLib(u) PROVE (LibAlone /\ LibAtRest /\ LibDown)'
    <2> USE <1>2 DEF CreateLib
    <2>1. HasOpened(u)' /\ \A o \in Uploaders \ {u} : HasOpened(o)' <=> HasOpened(o)
        OBVIOUS
    <2>2. libDisturbed' <=> \E o \in Uploaders \ {u} : HasOpened(o)
        OBVIOUS
    <2>3. ~libDisturbed' => LibProgress(u)'
        BY DEF LibProgress
    <2>4. LibAlone'
        BY <2>1, <2>2, <2>3 DEF LibAlone
    <2>5. LibAtRest'
        BY <2>1 DEF LibAtRest
    <2> QED BY <2>4, <2>5 DEF LibDown
<1>3. ASSUME NEW u \in Uploaders, WriteLib(u) PROVE (LibAlone /\ LibAtRest /\ LibDown)'
    <2> USE <1>3 DEF WriteLib
    <2>1. \A o \in Uploaders : HasOpened(o)' <=> HasOpened(o)
        OBVIOUS
    <2>2. ~libDisturbed => libLength = 0 /\ lastUpload = upload[u]
        BY DEF LibAlone, LibProgress
    <2>3. upload[u] \in Archives
        BY DEF LibPosting
    <2>4. ~libDisturbed => LibProgress(u)'
        BY <2>2, <2>3 DEF LibProgress
    <2>5. LibAlone'
        BY <2>1, <2>4 DEF LibAlone
    <2>6. LibAtRest'
        BY <2>1 DEF LibAtRest
    <2> QED BY <2>5, <2>6 DEF LibDown
<1>4. ASSUME NEW u \in Uploaders, CreateLibFails(u) \/ WriteLibFails(u)
      PROVE  (LibAlone /\ LibAtRest /\ LibDown)'
    <2>1. CASE WriteLibFails(u)
        BY <2>1 DEF WriteLibFails, LibReturn, LibAlone, LibAtRest, LibDown
    <2>2. CASE CreateLibFails(u)
        <3> USE <2>2 DEF CreateLibFails, LibReturn
        <3>1. \A o \in Uploaders : HasOpened(o)' <=> HasOpened(o)
            OBVIOUS
        <3>2. \A o \in Uploaders : HasOpened(o) => (LibProgress(o)' <=> LibProgress(o))
            BY DEF LibProgress
        <3>3. LibAlone'
            BY <3>1, <3>2 DEF LibAlone
        <3>4. LibAtRest'
            BY <3>1 DEF LibAtRest
        <3> QED BY <3>3, <3>4 DEF LibDown
    <2> QED BY <1>4, <2>1, <2>2
<1>5. ASSUME NEW u \in Uploaders, GetForLib(u) \/ PublishLib(u) \/ ReadLib(u)
      PROVE  (LibAlone /\ LibAtRest /\ LibDown)'
    <2> USE <1>5 DEF GetForLib, PublishLib, ReadLib
    <2>1. \A o \in Uploaders : HasOpened(o)' <=> HasOpened(o)
        OBVIOUS
    <2>2. ~libDisturbed => LibProgress(u)'
        BY DEF LibAlone, LibProgress
    <2>3. LibAlone'
        BY <2>1, <2>2 DEF LibAlone
    <2>4. LibAtRest'
        BY <2>1 DEF LibAtRest
    <2> QED BY <2>3, <2>4 DEF LibDown
<1>6. ASSUME NEW u \in Uploaders, SwapLib(u) PROVE (LibAlone /\ LibAtRest /\ LibDown)'
    <2> USE <1>6 DEF SwapLib, LibReturn
    <2>1. ~HasOpened(u)' /\ \A o \in Uploaders \ {u} : HasOpened(o)' <=> HasOpened(o)
        OBVIOUS
    <2>2. ~libDisturbed => \A o \in Uploaders : ~HasOpened(o)'
        BY <2>1 DEF LibAlone
    <2>3. ~libDisturbed => libFile = lastUpload /\ libRead[u] = libFile
        BY DEF LibAlone, LibProgress
    <2>4. libRead[u] \in LibGood => libFS' = libRead[u]
        BY DEF LibGood, MayOpen, MayFail
    <2>5. LibAlone'
        BY <2>2 DEF LibAlone
    <2>6. LibAtRest'
        BY <2>3, <2>4 DEF LibAtRest
    <2> QED BY <2>5, <2>6 DEF LibDown
<1>7. CASE LibCrash
    <2> USE <1>7 DEF LibCrash
    <2>1. \A o \in Uploaders : ~HasOpened(o)'
        OBVIOUS
    <2>2. LibAlone'
        BY <2>1 DEF LibAlone
    <2>3. ~libDisturbed' => libFile = lastUpload
        BY DEF LibAlone, LibAtRest, LibProgress
    <2>4. LibAtRest'
        BY <2>3 DEF LibAtRest
    <2> QED BY <2>2, <2>4 DEF LibDown
<1>8. CASE LibStart
    <2> USE <1>8 DEF LibStart
    <2>1. libFile \in LibGood => libFS' = libFile
        BY DEF LibGood, MayOpen, MayFail
    <2> QED BY <2>1 DEF LibAlone, LibAtRest, LibDown, LibProgress
<1>9. ASSUME NEW l \in {"confLocker", "subscribersLocker"}, OthersLock(l) \/ OthersUnlock(l)
      PROVE  (LibAlone /\ LibAtRest /\ LibDown)'
    BY <1>9 DEF OthersLock, OthersUnlock, LibAlone, LibAtRest, LibDown, LibProgress
<1>10. CASE UNCHANGED libVars
    BY <1>10 DEF libVars, LibAlone, LibAtRest, LibDown, LibProgress
<1> QED BY <1>1, <1>2, <1>3, <1>4, <1>5, <1>6, <1>7, <1>8, <1>9, <1>10 DEF LibNext, Serve
-----------------------------------------------------------------------------
\* main.go 180-217, 292-317: for any archives and any number of requests at a time, what is served
\* at rest is the last post, if it had the file to itself and is a zip file.
THEOREM LibCorrect == LibSpec => [](ServedIsFile /\ LibTypeOK)
<1>1. LibInv => ServedIsFile /\ LibTypeOK
    BY DEF LibInv, LibAtRest, HasOpened, ServedIsFile, GetLib, LibGood
<1> QED BY <1>1, LibInvInit, LibInvNext, PTL DEF LibSpec

\* main.go 186-190: a post never takes the library away, whatever it is and whatever
\* happens to the file.
THEOREM LibStaysServed == LibSpec => StaysServed
<1>1. LibNext => (libUp /\ libUp' /\ libFS # NoArchive => libFS' # NoArchive)
    <2> SUFFICES ASSUME LibNext, libUp, libUp', libFS # NoArchive PROVE libFS' # NoArchive
        OBVIOUS
    <2>1. ASSUME NEW u \in Uploaders, SwapLib(u) PROVE libFS' # NoArchive
        BY <2>1, LibAssumption DEF SwapLib, MayOpen
    <2>2. ASSUME NEW u \in Uploaders, Serve(u), ~SwapLib(u) PROVE libFS' # NoArchive
        BY <2>2 DEF Serve, CreateLib, CreateLibFails, WriteLib, WriteLibFails, GetForLib,
                    PublishLib, ReadLib
    <2>3. ASSUME NEW u \in Uploaders, NEW a \in Archives, PostLib(u, a) PROVE libFS' # NoArchive
        BY <2>3 DEF PostLib
    <2>4. ~LibCrash /\ ~LibStart
        BY DEF LibCrash, LibStart
    <2>5. ASSUME NEW l \in {"confLocker", "subscribersLocker"}, OthersLock(l) \/ OthersUnlock(l)
          PROVE  libFS' # NoArchive
        BY <2>5 DEF OthersLock, OthersUnlock
    <2> QED BY <2>1, <2>2, <2>3, <2>4, <2>5 DEF LibNext
<1> QED BY <1>1, PTL DEF LibSpec, StaysServed
=============================================================================

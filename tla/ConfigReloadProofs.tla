------------------------- MODULE ConfigReloadProofs -------------------------
(***************************************************************************)
(* Proofs about module ConfigReload: the file, the configuration in memory *)
(* and the settings agree, the next start finds a whole file, and the      *)
(* cached jwtTTL is that of the setting.                                   *)
(*                                                                         *)
(* The invariant follows the request that has had the file to itself since *)
(* it opened it through its steps: what it has done to the file, the       *)
(* settings and the configuration so far.                                  *)
(***************************************************************************)
EXTENDS ConfigReload, TLAPS

\* What the settings are when those of a configuration have been loaded over others.
CommonGiven(p) == CommonOf[p] \in {common, Unset}
TtlGiven(p) == TtlOf[p] \in {ttl, Unset}

\* A request that is at work has a configuration of its own.
Posting == \A k \in Posters : confStep[k] # "idle" => posted[k] \in Posts

\* Nothing goes on in a process that is down, and nothing is left in its memory.
Down ==
    ~srUp =>
        /\ \A k \in Posters : confStep[k] = "idle"
        /\ \A r \in Readers : waiting[r] = "nothing"
        /\ ~stuck /\ jwtTTL = Unset /\ common = DefaultCommon /\ ttl = DefaultTtl

ReloadShape == ReloadTypeOK /\ Posting /\ Down

\* What the request of k has done, when it has had the file to itself.
Progress(k) ==
    /\ lastPost = posted[k]
    /\ confStep[k] = "write" => confFile = EmptyConf /\ confLength = 0
    /\ confStep[k] # "write" => confFile = posted[k]
    /\ confStep[k] \notin {"write", "providers", "common"} => CommonGiven(posted[k])
    /\ confStep[k] \in {"validate", "take", "publish"} => TtlGiven(posted[k])
    /\ confStep[k] \in {"take", "publish"} => config = posted[k]

\* As long as requests have not disturbed each other, one at most has opened the file.
Alone ==
    ~confDisturbed =>
        /\ \A k, o \in Posters : HasOpenedConf(k) /\ HasOpenedConf(o) => k = o
        /\ \A k \in Posters : HasOpenedConf(k) => Progress(k)

\* What is there when no request has the file open.
AtRest ==
    ~confDisturbed /\ (\A k \in Posters : ~HasOpenedConf(k)) =>
        /\ confFile = lastPost
        /\ srUp /\ ~stuck =>
            /\ config = lastPost
            /\ lastPost \in Posts => CommonGiven(lastPost) /\ TtlGiven(lastPost)

ReloadInv == ReloadShape /\ Alone /\ AtRest /\ FileWhole /\ CacheFresh

LEMMA ReloadInvInit == ReloadInit => ReloadInv
<1> SUFFICES ASSUME ReloadInit PROVE ReloadInv
    OBVIOUS
<1> USE ReloadAssumption DEF ReloadInit, HasOpenedConf
<1>1. ReloadTypeOK
    <2>1. common \in Settings \ {Unset} /\ ttl \in Ttls \ {Unset} /\ jwtTTL \in Ttls \ MalformedTtl
        BY DEF Settings, Ttls
    <2>2. confStep \in [Posters -> Steps] /\ waiting \in [Readers -> {"nothing", "ttl", "subscription"}]
        BY DEF Steps
    <2>3. {published, confDisturbed, panicked} \subseteq BOOLEAN
        OBVIOUS
    <2>4. posted \in [Posters -> Posts \cup {NoFile}] /\ confLength \in Nat /\ postsMade \in 0..MaxPosts
        OBVIOUS
    <2> QED BY <2>1, <2>2, <2>3, <2>4, Zenon DEF ReloadTypeOK
<1>2. Posting /\ Down /\ Alone
    BY DEF Posting, Down, Alone
<1>3. AtRest /\ FileWhole /\ CacheFresh
    BY DEF AtRest, FileWhole, CacheFresh
<1> QED BY <1>1, <1>2, <1>3 DEF ReloadInv, ReloadShape
-----------------------------------------------------------------------------
(* Types, and a process that is down *)

LEMMA ShapeNext == ReloadShape /\ [ReloadNext]_confVars => ReloadShape'
<1> SUFFICES ASSUME ReloadShape, [ReloadNext]_confVars PROVE ReloadShape'
    OBVIOUS
<1> USE ReloadAssumption
        DEF ReloadShape, ReloadTypeOK, Posting, Down, Goto, Steps, serverState, fileState, requests,
            confHistory
<1>1. ASSUME NEW k \in Posters, NEW p \in Posts, PostConfig(k, p) PROVE ReloadShape'
    BY <1>1 DEF PostConfig
<1>2. ASSUME NEW k \in Posters, OpenConfig(k) PROVE ReloadShape'
    BY <1>2 DEF OpenConfig, Truncated, HasOpenedConf
<1>3. ASSUME NEW k \in Posters, WriteConfig(k) PROVE ReloadShape'
    BY <1>3 DEF WriteConfig
<1>4. ASSUME NEW k \in Posters,
             OpenConfigFails(k) \/ WriteConfigFails(k) \/ AskProviders(k) \/ TakeConfig(k)
      PROVE  ReloadShape'
    BY <1>4 DEF OpenConfigFails, WriteConfigFails, AskProviders, TakeConfig
<1>5. ASSUME NEW k \in Posters, LoadCommonSettings(k) PROVE ReloadShape'
    <2>1. posted[k] \in Posts
        BY <1>5 DEF LoadCommonSettings
    <2>2. common' \in Settings \ {Unset}
        BY <1>5, <2>1 DEF LoadCommonSettings, Overridden, Settings
    <2> QED BY <1>5, <2>2 DEF LoadCommonSettings
<1>6. ASSUME NEW k \in Posters, LoadServerSettings(k) PROVE ReloadShape'
    <2>1. posted[k] \in Posts
        BY <1>6 DEF LoadServerSettings
    <2>2. ttl' \in Ttls \ {Unset} /\ jwtTTL' \in Ttls \ MalformedTtl
        BY <1>6, <2>1 DEF LoadServerSettings, Overridden, CacheAfter, Ttls
    <2> QED BY <1>6, <2>2 DEF LoadServerSettings
<1>7. ASSUME NEW k \in Posters, SwapConfig(k) \/ SwapPanics(k) PROVE ReloadShape'
    BY <1>7 DEF SwapConfig, SwapPanics
<1>8. ASSUME NEW k \in Posters, PublishConfig(k) PROVE ReloadShape'
    BY <1>8 DEF PublishConfig
<1>9. ASSUME NEW r \in Readers, AskTtl(r) \/ AskConfig(r) PROVE ReloadShape'
    BY <1>9 DEF AskTtl, AskConfig, Ask
<1>10. ASSUME NEW r \in Readers, JWTTTL(r) PROVE ReloadShape'
    BY <1>10 DEF JWTTTL
<1>11. ASSUME NEW r \in Readers, GetConfig(r) PROVE ReloadShape'
    BY <1>11 DEF GetConfig
<1>12. CASE CrashConfig
    <2>1. common' \in Settings \ {Unset} /\ ttl' \in Ttls \ {Unset} /\ jwtTTL' \in Ttls \ MalformedTtl
        BY <1>12 DEF CrashConfig, Settings, Ttls
    <2> QED BY <1>12, <2>1 DEF CrashConfig
<1>13. CASE StartConfig
    <2>1. common' \in Settings \ {Unset}
        BY <1>13 DEF StartConfig, Overridden, Settings
    <2>2. ttl' \in Ttls \ {Unset}
        BY <1>13 DEF StartConfig, Overridden, Ttls
    <2> QED BY <1>13, <2>1, <2>2 DEF StartConfig
<1>14. CASE UNCHANGED confVars
    BY <1>14 DEF confVars
<1> QED
    BY <1>1, <1>2, <1>3, <1>4, <1>5, <1>6, <1>7, <1>8, <1>9, <1>10, <1>11, <1>12, <1>13, <1>14
    DEF ReloadNext, Reload
-----------------------------------------------------------------------------
(* Requests and the file *)

\* A request that is alone and stays at work carries Alone and AtRest with it.
LEMMA AloneMoves ==
    ASSUME Alone, NEW k \in Posters, HasOpenedConf(k), HasOpenedConf(k)',
           \A o \in Posters \ {k} : HasOpenedConf(o)' <=> HasOpenedConf(o),
           ~confDisturbed' => ~confDisturbed /\ Progress(k)'
    PROVE  Alone' /\ AtRest'
BY DEF Alone, AtRest

\* A step that changes nothing Progress and AtRest speak of, for the requests that have
\* opened the file, leaves both as they are.
LEMMA NothingMoves ==
    ASSUME Alone, AtRest,
           \A o \in Posters : HasOpenedConf(o)' <=> HasOpenedConf(o),
           \A o \in Posters : HasOpenedConf(o) => /\ confStep'[o] = confStep[o]
                                                  /\ posted'[o] = posted[o],
           UNCHANGED <<fileState, srUp, config, common, ttl, stuck, lastPost, confDisturbed>>
    PROVE  Alone' /\ AtRest'
<1>1. \A o \in Posters : HasOpenedConf(o) => (Progress(o)' <=> Progress(o))
    BY DEF Progress, CommonGiven, TtlGiven, fileState
<1>2. Alone'
    BY <1>1 DEF Alone
<1>3. AtRest'
    BY DEF AtRest, CommonGiven, TtlGiven, fileState
<1> QED BY <1>2, <1>3

LEMMA RequestsNext == ReloadShape /\ Alone /\ AtRest /\ [ReloadNext]_confVars => (Alone /\ AtRest)'
<1> SUFFICES ASSUME ReloadShape, Alone, AtRest, [ReloadNext]_confVars PROVE Alone' /\ AtRest'
    OBVIOUS
<1> USE ReloadAssumption
        DEF ReloadShape, ReloadTypeOK, Posting, Goto, Steps, serverState, fileState, requests,
            confHistory
<1>1. ASSUME NEW k \in Posters, NEW p \in Posts, PostConfig(k, p) PROVE Alone' /\ AtRest'
    BY <1>1, NothingMoves DEF PostConfig, HasOpenedConf
<1>2. ASSUME NEW k \in Posters, OpenConfig(k) PROVE Alone' /\ AtRest'
    <2> USE <1>2 DEF OpenConfig
    <2>1. HasOpenedConf(k)' /\ \A o \in Posters \ {k} : HasOpenedConf(o)' <=> HasOpenedConf(o)
        BY DEF HasOpenedConf
    <2>2. confDisturbed' <=> \E o \in Posters \ {k} : HasOpenedConf(o)
        OBVIOUS
    <2>3. ~confDisturbed' => Progress(k)'
        BY DEF Progress, Truncated
    <2> QED BY <2>1, <2>2, <2>3 DEF Alone, AtRest
<1>3. ASSUME NEW k \in Posters,
             \/ WriteConfig(k) \/ WriteConfigFails(k) \/ AskProviders(k) \/ LoadCommonSettings(k)
             \/ LoadServerSettings(k) \/ SwapConfig(k) \/ TakeConfig(k)
      PROVE  Alone' /\ AtRest'
    <2>1. /\ HasOpenedConf(k) /\ HasOpenedConf(k)'
          /\ \A o \in Posters \ {k} : HasOpenedConf(o)' <=> HasOpenedConf(o)
        BY <1>3
        DEF HasOpenedConf, WriteConfig, WriteConfigFails, AskProviders, LoadCommonSettings,
            LoadServerSettings, SwapConfig, TakeConfig
    <2>2. posted[k] \in Posts /\ posted' = posted
        BY <1>3
        DEF WriteConfig, WriteConfigFails, AskProviders, LoadCommonSettings, LoadServerSettings,
            SwapConfig, TakeConfig
    <2>3. ~confDisturbed => Progress(k)
        BY <2>1 DEF Alone
    <2>4. CASE WriteConfig(k)
        <3>1. ~confDisturbed => confLength = 0
            BY <2>3, <2>4 DEF Progress, WriteConfig
        <3>2. ~confDisturbed => confFile' = posted[k]
            BY <2>2, <2>4, <3>1 DEF WriteConfig
        <3>3. ~confDisturbed' => ~confDisturbed /\ Progress(k)'
            BY <2>2, <2>3, <2>4, <3>2 DEF Progress, WriteConfig
        <3> QED BY <2>1, <3>3, AloneMoves
    <2>5. CASE WriteConfigFails(k)
        BY <2>1, <2>5, AloneMoves DEF WriteConfigFails
    <2>6. CASE AskProviders(k) \/ TakeConfig(k)
        <3>1. ~confDisturbed' => ~confDisturbed /\ Progress(k)'
            BY <2>2, <2>3, <2>6 DEF Progress, AskProviders, TakeConfig, CommonGiven, TtlGiven
        <3> QED BY <2>1, <3>1, AloneMoves
    <2>7. CASE LoadCommonSettings(k)
        <3>1. CommonGiven(posted[k])'
            BY <2>2, <2>7 DEF LoadCommonSettings, CommonGiven, Overridden
        <3>2. ~confDisturbed' => ~confDisturbed /\ Progress(k)'
            BY <2>2, <2>3, <2>7, <3>1 DEF Progress, LoadCommonSettings
        <3> QED BY <2>1, <3>2, AloneMoves
    <2>8. CASE LoadServerSettings(k)
        <3>1. TtlGiven(posted[k])'
            BY <2>2, <2>8 DEF LoadServerSettings, TtlGiven, Overridden
        <3>2. CommonGiven(posted[k])' <=> CommonGiven(posted[k])
            BY <2>2, <2>8 DEF LoadServerSettings, CommonGiven
        <3>3. ~confDisturbed' => ~confDisturbed /\ Progress(k)'
            BY <2>2, <2>3, <2>8, <3>1, <3>2 DEF Progress, LoadServerSettings
        <3> QED BY <2>1, <3>3, AloneMoves
    <2>9. CASE SwapConfig(k)
        <3>1. ~confDisturbed' => ~confDisturbed /\ Progress(k)'
            BY <2>2, <2>3, <2>9 DEF Progress, SwapConfig, CommonGiven, TtlGiven
        <3> QED BY <2>1, <3>1, AloneMoves
    <2> QED BY <1>3, <2>4, <2>5, <2>6, <2>7, <2>8, <2>9
<1>4. ASSUME NEW k \in Posters, SwapPanics(k) \/ PublishConfig(k) PROVE Alone' /\ AtRest'
    <2>1. /\ HasOpenedConf(k) /\ ~HasOpenedConf(k)'
          /\ \A o \in Posters \ {k} : HasOpenedConf(o)' <=> HasOpenedConf(o)
        BY <1>4 DEF HasOpenedConf, SwapPanics, PublishConfig
    <2>2. ~confDisturbed => Progress(k) /\ \A o \in Posters : ~HasOpenedConf(o)'
        BY <2>1 DEF Alone
    <2>3. Alone'
        BY <1>4, <2>2 DEF Alone, SwapPanics, PublishConfig
    <2>4. ~confDisturbed => confFile = lastPost
        BY <1>4, <2>2 DEF Progress, SwapPanics, PublishConfig
    <2>5. CASE SwapPanics(k)
        <3>1. stuck' /\ UNCHANGED <<confFile, lastPost, confDisturbed>>
            BY <2>5 DEF SwapPanics
        <3> QED BY <2>3, <2>4, <3>1 DEF AtRest
    <2>6. CASE PublishConfig(k)
        <3>1. ~confDisturbed => config = lastPost /\ CommonGiven(lastPost) /\ TtlGiven(lastPost)
            BY <2>2, <2>6 DEF Progress, PublishConfig
        <3>2. UNCHANGED <<confFile, lastPost, confDisturbed, config, common, ttl>>
            BY <2>6 DEF PublishConfig
        <3> QED BY <2>3, <2>4, <3>1, <3>2 DEF AtRest, CommonGiven, TtlGiven
    <2> QED BY <1>4, <2>3, <2>5, <2>6
<1>5. ASSUME NEW r \in Readers, AskTtl(r) \/ AskConfig(r) \/ JWTTTL(r) \/ GetConfig(r)
      PROVE  Alone' /\ AtRest'
    BY <1>5, NothingMoves DEF AskTtl, AskConfig, Ask, JWTTTL, GetConfig, HasOpenedConf
<1>6. CASE CrashConfig
    <2>1. \A o \in Posters : ~HasOpenedConf(o)'
        BY <1>6 DEF CrashConfig, HasOpenedConf
    <2>2. ~confDisturbed' => ~confDisturbed /\ confFile' = confFile /\ lastPost' = lastPost
        BY <1>6 DEF CrashConfig
    <2>3. ~confDisturbed' => \A k \in Posters : confStep[k] # "write"
        BY <1>6 DEF CrashConfig
    <2>4. ~confDisturbed' => confFile = lastPost
        BY <2>2, <2>3 DEF Alone, AtRest, Progress
    <2> QED BY <1>6, <2>1, <2>2, <2>4 DEF Alone, AtRest, CrashConfig
<1>7. CASE StartConfig
    <2>1. \A o \in Posters : ~HasOpenedConf(o) /\ ~HasOpenedConf(o)'
        BY <1>7 DEF StartConfig, Down, HasOpenedConf
    <2>2. confFile \in Posts => CommonGiven(confFile)' /\ TtlGiven(confFile)'
        BY <1>7 DEF StartConfig, CommonGiven, TtlGiven, Overridden
    <2> QED BY <1>7, <2>1, <2>2 DEF Alone, AtRest, StartConfig, CommonGiven, TtlGiven
<1>8. CASE UNCHANGED confVars
    BY <1>8, NothingMoves DEF confVars, HasOpenedConf
<1>9. ASSUME NEW k \in Posters, OpenConfigFails(k) PROVE Alone' /\ AtRest'
    BY <1>9 DEF OpenConfigFails, Alone, AtRest
<1> QED BY <1>1, <1>2, <1>3, <1>4, <1>5, <1>6, <1>7, <1>8, <1>9 DEF ReloadNext, Reload
-----------------------------------------------------------------------------
(* A whole file, and a cache that is fresh *)

LEMMA FileWholeNext == ReloadShape /\ Alone /\ FileWhole /\ [ReloadNext]_confVars => FileWhole'
<1> SUFFICES ASSUME ReloadShape, Alone, FileWhole, [ReloadNext]_confVars PROVE FileWhole'
    OBVIOUS
<1> USE ReloadAssumption
        DEF ReloadShape, ReloadTypeOK, Posting, FileWhole, Goto, Steps, serverState, fileState,
            requests, confHistory
<1>1. ASSUME NEW k \in Posters, NEW p \in Posts, PostConfig(k, p) PROVE FileWhole'
    BY <1>1 DEF PostConfig
<1>2. ASSUME NEW k \in Posters, OpenConfig(k) PROVE FileWhole'
    BY <1>2 DEF OpenConfig
<1>3. ASSUME NEW k \in Posters, WriteConfig(k) PROVE FileWhole'
    <2>1. posted[k] \in Posts /\ posted[k] \notin {EmptyConf, TornConf}
        BY <1>3 DEF WriteConfig
    <2>2. ~confDisturbed => confLength = 0
        BY <1>3 DEF WriteConfig, Alone, HasOpenedConf, Progress
    <2>3. ~confDisturbed => confFile' = posted[k]
        BY <1>3, <2>1, <2>2 DEF WriteConfig
    <2> QED BY <1>3, <2>1, <2>3 DEF WriteConfig
<1>4. ASSUME NEW k \in Posters, OpenConfigFails(k) \/ WriteConfigFails(k) PROVE FileWhole'
    BY <1>4 DEF OpenConfigFails, WriteConfigFails
<1>5. ASSUME NEW k \in Posters,
             \/ AskProviders(k) \/ LoadCommonSettings(k) \/ LoadServerSettings(k) \/ SwapConfig(k)
             \/ SwapPanics(k) \/ TakeConfig(k) \/ PublishConfig(k)
      PROVE  FileWhole'
    BY <1>5
    DEF AskProviders, LoadCommonSettings, LoadServerSettings, SwapConfig, SwapPanics, TakeConfig,
        PublishConfig
<1>6. ASSUME NEW r \in Readers, AskTtl(r) \/ AskConfig(r) \/ JWTTTL(r) \/ GetConfig(r)
      PROVE  FileWhole'
    BY <1>6 DEF AskTtl, AskConfig, Ask, JWTTTL, GetConfig
<1>7. CASE CrashConfig
    BY <1>7 DEF CrashConfig
<1>8. CASE StartConfig
    BY <1>8 DEF StartConfig
<1>9. CASE UNCHANGED confVars
    BY <1>9 DEF confVars
<1> QED BY <1>1, <1>2, <1>3, <1>4, <1>5, <1>6, <1>7, <1>8, <1>9 DEF ReloadNext, Reload

LEMMA CacheFreshNext == ReloadShape /\ CacheFresh /\ [ReloadNext]_confVars => CacheFresh'
<1> SUFFICES ASSUME ReloadShape, CacheFresh, [ReloadNext]_confVars PROVE CacheFresh'
    OBVIOUS
<1> USE DEF ReloadShape, CacheFresh, Goto, serverState, fileState, requests, confHistory
<1>1. ASSUME NEW k \in Posters, NEW p \in Posts, PostConfig(k, p) PROVE CacheFresh'
    BY <1>1 DEF PostConfig
<1>2. ASSUME NEW k \in Posters, LoadServerSettings(k) PROVE CacheFresh'
    BY <1>2 DEF LoadServerSettings, Overridden, CacheAfter
<1>3. ASSUME NEW k \in Posters, Reload(k), ~LoadServerSettings(k) PROVE CacheFresh'
    BY <1>3
    DEF Reload, OpenConfig, OpenConfigFails, WriteConfig, WriteConfigFails, AskProviders, LoadCommonSettings,
        SwapConfig, SwapPanics, TakeConfig, PublishConfig
<1>4. ASSUME NEW r \in Readers, AskTtl(r) \/ AskConfig(r) \/ GetConfig(r) PROVE CacheFresh'
    BY <1>4 DEF AskTtl, AskConfig, Ask, GetConfig
<1>5. ASSUME NEW r \in Readers, JWTTTL(r) PROVE CacheFresh'
    BY <1>5 DEF JWTTTL
<1>6. CASE CrashConfig
    BY <1>6 DEF CrashConfig
<1>7. CASE StartConfig
    BY <1>7 DEF StartConfig, Down
<1>8. CASE UNCHANGED confVars
    BY <1>8 DEF confVars
<1> QED BY <1>1, <1>2, <1>3, <1>4, <1>5, <1>6, <1>7, <1>8 DEF ReloadNext
-----------------------------------------------------------------------------
LEMMA ReloadInvNext == ReloadInv /\ [ReloadNext]_confVars => ReloadInv'
BY ShapeNext, RequestsNext, FileWholeNext, CacheFreshNext DEF ReloadInv

\* process.go 44-66: for any configurations and any number of posts, readers and crashes, file,
\* memory and settings agree at rest after a post that had the file to itself.
THEOREM ReloadCorrect == ReloadSpec => [](FileIsConfig /\ ReloadTypeOK)
<1>1. ReloadInv => FileIsConfig /\ ReloadTypeOK
    BY DEF ReloadInv, ReloadShape, AtRest, HasOpenedConf, FileIsConfig, CommonGiven, TtlGiven
<1> QED BY <1>1, ReloadInvInit, ReloadInvNext, PTL DEF ReloadSpec

\* process.go 50-56: the next start finds a whole file, unless posts overlap, a write fails or
\* the process dies while it writes.
THEOREM NextStartFindsFile == ReloadSpec => []FileWhole
<1>1. ReloadInv => FileWhole
    BY DEF ReloadInv
<1> QED BY <1>1, ReloadInvInit, ReloadInvNext, PTL DEF ReloadSpec

\* settings.go 21-51: no interleaving of posts, readers and restarts leaves a jwtTTL in the cache
\* that is not that of the setting.
THEOREM CacheIsFresh == ReloadSpec => []CacheFresh
<1>1. ReloadInv => CacheFresh
    BY DEF ReloadInv
<1> QED BY <1>1, ReloadInvInit, ReloadInvNext, PTL DEF ReloadSpec
=============================================================================

---------------------------- MODULE ConfigReload ----------------------------
(***************************************************************************)
(* How blank-sr loads its configuration at start and replaces it on POST   *)
(* /config (src/config/process.go, settings.go, src/main.go), up to what   *)
(* Validate makes of the stores, which is module Config.                   *)
(*                                                                         *)
(* ReloadConfig runs in the goroutine of its request.  It truncates and    *)
(* writes config.json under no lock, asks the providers, loads the common  *)
(* and the server settings and swaps the configuration in one critical     *)
(* section of confLocker each, and publishes under no lock again.  So two  *)
(* posts interleave at every step, and a crash may come between any two.   *)
(*                                                                         *)
(* A task of a migration that is null in the posted JSON is a nil pointer  *)
(* Validate follows.  The panic is recovered by the HTTP handler, and      *)
(* confLocker stays locked.                                                *)
(***************************************************************************)
EXTENDS Integers

CONSTANTS Posters,      \* bound: goroutines that serve a POST at a time
          Posts,        \* configurations they post
          NullTask,     \* those of them with a null migration task
          PostSize,     \* length of each as JSON
          CommonOf,     \* the common settings each gives, or Unset
          TtlOf,        \* the jwtTtl of the server settings each gives, or Unset
          MalformedTtl, \* values of jwtTtl that are no time
          DefaultCommon, DefaultTtl,  \* makeDefaultSettings
          Unset,
          NoFile, EmptyConf, TornConf,
          Readers,      \* goroutines that call JWTTTL or config.Get
          MaxPosts      \* bound: posts in a behaviour

ASSUME ReloadAssumption ==
    /\ NullTask \subseteq Posts
    /\ PostSize \in [Posts -> Nat \ {0}]
    /\ DOMAIN CommonOf = Posts /\ DOMAIN TtlOf = Posts
    /\ {NoFile, EmptyConf, TornConf} \cap Posts = {} /\ NoFile \notin {EmptyConf, TornConf}
    /\ Unset \notin {DefaultCommon, DefaultTtl} \cup MalformedTtl
    /\ MaxPosts \in Nat

VARIABLES
    confFile,   \* config.json
    confLength, \* its length
    srUp,       \* the process runs
    config,     \* the configuration in memory
    common,     \* commonSettings
    ttl,        \* serverSettings.JWTTTL
    jwtTTL,     \* serverSettings.jwtTTL, the cache of its parsed value, or Unset
    stuck,      \* confLocker is locked for ever
    posted,     \* the configuration each request posts
    confStep,   \* where each request is
    tookLatest, \* requests whose copy of the configuration is still that in memory
    waiting,    \* what each reader waits for
    published,  \* the configuration in memory has been published
    lastPost,   \* the configuration of the last request, if it has had the file to itself
    confDisturbed,  \* posts have overlapped, or a write has failed or been cut short,
                    \* since a post last had the file to itself
    panicked,   \* Validate has panicked in this process
    postsMade

serverState == <<config, common, ttl, jwtTTL, stuck, panicked>>
fileState == <<confFile, confLength>>
requests == <<posted, confStep, tookLatest, waiting>>
confHistory == <<published, lastPost, confDisturbed>>
confVars == <<fileState, srUp, serverState, requests, confHistory, postsMade>>

Settings == {CommonOf[p] : p \in Posts} \cup {DefaultCommon}
Ttls == {TtlOf[p] : p \in Posts} \cup {DefaultTtl, Unset}
Steps == {"idle", "open", "write", "providers", "common", "server", "validate", "take", "publish"}

ReloadTypeOK ==
    /\ confFile \in Posts \cup {NoFile, EmptyConf, TornConf} /\ confLength \in Nat
    /\ srUp \in BOOLEAN /\ stuck \in BOOLEAN
    /\ config \in Posts \cup {NoFile}
    /\ common \in Settings \ {Unset} /\ ttl \in Ttls \ {Unset}
    /\ jwtTTL \in Ttls \ MalformedTtl
    /\ posted \in [Posters -> Posts \cup {NoFile}]
    /\ confStep \in [Posters -> Steps]
    /\ tookLatest \subseteq Posters
    /\ waiting \in [Readers -> {"nothing", "ttl", "subscription"}]
    /\ lastPost \in Posts \cup {NoFile}
    /\ {published, confDisturbed, panicked} \subseteq BOOLEAN
    /\ postsMade \in 0..MaxPosts

ReloadInit ==
    /\ confFile = NoFile /\ confLength = 0
    /\ srUp = TRUE /\ stuck = FALSE
    /\ config = NoFile
    /\ common = DefaultCommon /\ ttl = DefaultTtl /\ jwtTTL = Unset
    /\ posted = [k \in Posters |-> NoFile]
    /\ confStep = [k \in Posters |-> "idle"]
    /\ tookLatest = {}
    /\ waiting = [r \in Readers |-> "nothing"]
    /\ published = TRUE
    /\ lastPost = NoFile
    /\ confDisturbed = FALSE
    /\ postsMade = 0 /\ panicked = FALSE

Goto(k, from, to) ==
    /\ srUp /\ confStep[k] = from
    /\ confStep' = [confStep EXCEPT ![k] = to]
    /\ posted' = IF to = "idle" THEN [posted EXCEPT ![k] = NoFile] ELSE posted
    /\ UNCHANGED <<waiting, srUp>>
-----------------------------------------------------------------------------
(* ReloadConfig: the file *)

\* postConfigHandler, once the body has been decoded.
PostConfig(k, p) ==
    /\ srUp /\ confStep[k] = "idle"
    /\ postsMade < MaxPosts
    /\ postsMade' = postsMade + 1
    /\ posted' = [posted EXCEPT ![k] = p]
    /\ confStep' = [confStep EXCEPT ![k] = "open"]
    /\ UNCHANGED <<fileState, srUp, serverState, tookLatest, waiting, confHistory>>

HasOpenedConf(k) == confStep[k] \notin {"idle", "open"}

Truncated_Not == UNCHANGED fileState
\* What opening the file does to it.
Truncated == confFile' = EmptyConf /\ confLength' = 0

OpenConfig(k) ==
    /\ Goto(k, "open", "write")
    /\ Truncated
    /\ confDisturbed' = (\E o \in Posters \ {k} : HasOpenedConf(o))
    /\ lastPost' = IF confDisturbed' THEN NoFile ELSE posted[k]
    /\ UNCHANGED <<serverState, tookLatest, published, postsMade>>

WriteConfig(k) ==
    /\ Goto(k, "write", "providers")
    /\ LET size == PostSize[posted[k]] IN
        IF size < confLength
        THEN confFile' = TornConf /\ UNCHANGED confLength
        ELSE confFile' = posted[k] /\ confLength' = size
    /\ UNCHANGED <<serverState, tookLatest, confHistory, postsMade>>

\* WriteFile may fail before it has opened the file, or in the middle of its write: either is
\* logged, and the configuration is loaded all the same.
OpenConfigFails(k) ==
    /\ Goto(k, "open", "providers")
    /\ confDisturbed' = TRUE /\ lastPost' = NoFile
    /\ UNCHANGED <<fileState, serverState, tookLatest, published, postsMade>>

WriteConfigFails(k) ==
    /\ Goto(k, "write", "providers")
    /\ confFile' = TornConf
    /\ confDisturbed' = TRUE /\ lastPost' = NoFile
    /\ UNCHANGED <<confLength, serverState, tookLatest, published, postsMade>>
-----------------------------------------------------------------------------
(* ReloadConfig: the memory *)

\* loadFromProviders dials with confLocker held: whatever they add is part of the post.
AskProviders(k) ==
    /\ ~stuck
    /\ Goto(k, "providers", "common")
    /\ UNCHANGED <<fileState, serverState, tookLatest, confHistory, postsMade>>

\* json.Unmarshal into the structure in use: what is not given keeps its value.
Overridden(old, given) == IF given = Unset THEN old ELSE given

LoadCommonSettings_LocksOut(k) ==
    /\ ~stuck
    /\ Goto(k, "common", "server")
    /\ common' = Overridden(common, CommonOf[posted[k]])
    /\ stuck' = (CommonOf[posted[k]] = Unset)
    /\ UNCHANGED <<fileState, config, ttl, jwtTTL, panicked, tookLatest, confHistory, postsMade>>

LoadCommonSettings(k) ==
    /\ ~stuck
    /\ Goto(k, "common", "server")
    /\ common' = Overridden(common, CommonOf[posted[k]])
    /\ UNCHANGED <<fileState, config, ttl, jwtTTL, stuck, panicked, tookLatest, confHistory, postsMade>>

\* A post without a jwtTtl may have no server settings at all: the function returns before it
\* comes to the cache.
CacheAfter(k) == IF TtlOf[posted[k]] = Unset THEN {jwtTTL, Unset} ELSE {Unset}

LoadServerSettings_Once(k) ==
    /\ ~stuck
    /\ Goto(k, "server", "validate")
    /\ ttl' = IF ttl = DefaultTtl THEN Overridden(ttl, TtlOf[posted[k]]) ELSE ttl
    /\ jwtTTL' \in CacheAfter(k)
    /\ UNCHANGED <<fileState, config, common, stuck, panicked, tookLatest, confHistory, postsMade>>

LoadServerSettings_KeepsCache(k) ==
    /\ ~stuck
    /\ Goto(k, "server", "validate")
    /\ ttl' = Overridden(ttl, TtlOf[posted[k]])
    /\ UNCHANGED <<fileState, config, common, jwtTTL, stuck, panicked, tookLatest, confHistory, postsMade>>

LoadServerSettings(k) ==
    /\ ~stuck
    /\ Goto(k, "server", "validate")
    /\ ttl' = Overridden(ttl, TtlOf[posted[k]])
    /\ jwtTTL' \in CacheAfter(k)
    /\ UNCHANGED <<fileState, config, common, stuck, panicked, tookLatest, confHistory, postsMade>>

\* config = Validate(conf) under confLocker.
SwapConfig(k) ==
    /\ ~stuck /\ posted[k] \notin NullTask
    /\ Goto(k, "validate", "take")
    /\ config' = posted[k]
    /\ published' = FALSE
    /\ tookLatest' = {}
    /\ UNCHANGED <<fileState, common, ttl, jwtTTL, stuck, panicked, lastPost, confDisturbed, postsMade>>

\* Validate panics with the lock held; postConfigHandler recovers.
SwapPanics(k) ==
    /\ ~stuck /\ posted[k] \in NullTask
    /\ Goto(k, "validate", "idle")
    /\ stuck' = TRUE /\ panicked' = TRUE
    /\ UNCHANGED <<fileState, config, common, ttl, jwtTTL, tookLatest, confHistory, postsMade>>

TakeConfig_LeavesIt(k) ==
    /\ IF \E o \in Posters \ {k} : confStep[o] \notin {"idle", "open"}
       THEN Goto(k, "take", "idle") /\ UNCHANGED tookLatest
       ELSE Goto(k, "take", "publish") /\ tookLatest' = tookLatest \cup {k}
    /\ UNCHANGED <<fileState, serverState, confHistory, postsMade>>

\* updated(config) reads the variable after the lock has been released ...
TakeConfig(k) ==
    /\ Goto(k, "take", "publish")
    /\ tookLatest' = tookLatest \cup {k}
    /\ UNCHANGED <<fileState, serverState, confHistory, postsMade>>

Subscribing == \E r \in Readers : waiting[r] = "subscription"

\* ... and its handler publishes that, unless a subscriber holds wango's lock.
PublishConfig(k) ==
    /\ ~Subscribing
    /\ Goto(k, "publish", "idle")
    /\ published' = (published \/ k \in tookLatest)
    /\ tookLatest' = tookLatest \ {k}
    /\ UNCHANGED <<fileState, serverState, lastPost, confDisturbed, postsMade>>
-----------------------------------------------------------------------------
(* Readers *)

Ask(r, what) ==
    /\ srUp /\ waiting[r] = "nothing"
    /\ waiting' = [waiting EXCEPT ![r] = what]
    /\ UNCHANGED <<fileState, srUp, serverState, posted, confStep, tookLatest, confHistory, postsMade>>

\* session.new needs JWTTTL; the second reader of a subscription waits for wango's lock outside.
AskTtl(r) == Ask(r, "ttl")
AskConfig(r) == ~Subscribing /\ Ask(r, "subscription")

\* JWTTTL parses the setting once, and fails each time if it cannot.
JWTTTL(r) ==
    /\ waiting[r] = "ttl" /\ ~stuck
    /\ waiting' = [waiting EXCEPT ![r] = "nothing"]
    /\ jwtTTL' = IF jwtTTL = Unset /\ ttl \notin MalformedTtl THEN ttl ELSE jwtTTL
    /\ UNCHANGED <<fileState, srUp, config, common, ttl, stuck, panicked, posted, confStep, tookLatest,
                   confHistory, postsMade>>

\* configHandler, called with wango's subscribersLocker held.
GetConfig(r) ==
    /\ waiting[r] = "subscription" /\ ~stuck
    /\ waiting' = [waiting EXCEPT ![r] = "nothing"]
    /\ UNCHANGED <<fileState, srUp, serverState, posted, confStep, tookLatest, confHistory,
                   postsMade>>
-----------------------------------------------------------------------------
(* Crash and start: the memory is lost, and starts from makeDefaultSettings *)

CrashConfig ==
    /\ srUp
    /\ srUp' = FALSE
    /\ confStep' = [k \in Posters |-> "idle"]
    /\ posted' = [k \in Posters |-> NoFile]
    /\ waiting' = [r \in Readers |-> "nothing"]
    /\ tookLatest' = {}
    /\ IF \E k \in Posters : confStep[k] = "write"
       THEN confFile' \in {confFile, TornConf} /\ confDisturbed' = TRUE /\ lastPost' = NoFile
       ELSE UNCHANGED <<confFile, confDisturbed, lastPost>>
    /\ config' = NoFile /\ stuck' = FALSE /\ panicked' = FALSE /\ published' = TRUE
    /\ common' = DefaultCommon /\ ttl' = DefaultTtl /\ jwtTTL' = Unset
    /\ UNCHANGED <<confLength, postsMade>>

\* Init: with a file that does not parse, or that Validate panics on, there is no start.
StartConfig ==
    /\ ~srUp
    /\ confFile \in {NoFile} \cup (Posts \ NullTask)
    /\ srUp' = TRUE
    /\ config' = confFile
    /\ IF confFile = NoFile
       THEN UNCHANGED <<common, ttl>>
       ELSE /\ common' = Overridden(common, CommonOf[confFile])
            /\ ttl' = Overridden(ttl, TtlOf[confFile])
    /\ UNCHANGED <<fileState, jwtTTL, stuck, panicked, requests, confHistory, postsMade>>

Reload(k) ==
    \/ OpenConfig(k) \/ OpenConfigFails(k) \/ WriteConfig(k) \/ WriteConfigFails(k)
    \/ AskProviders(k)
    \/ LoadCommonSettings(k) \/ LoadServerSettings(k) \/ SwapConfig(k) \/ SwapPanics(k)
    \/ TakeConfig(k) \/ PublishConfig(k)

ReloadNext ==
    \/ \E k \in Posters, p \in Posts : PostConfig(k, p)
    \/ \E k \in Posters : Reload(k)
    \/ \E r \in Readers : AskTtl(r) \/ AskConfig(r) \/ JWTTTL(r) \/ GetConfig(r)
    \/ CrashConfig
    \/ StartConfig

\* Goroutines that can go on do so, and Go's RWMutex lets the readers that wait when a writer
\* unlocks go before the next writer: a publisher is not shut out by subscribers for ever.
ReloadFairness ==
    /\ \A k \in Posters : WF_confVars(Reload(k)) /\ SF_confVars(PublishConfig(k))
    /\ \A r \in Readers : WF_confVars(JWTTTL(r) \/ GetConfig(r))

ReloadSpec == ReloadInit /\ [][ReloadNext]_confVars /\ ReloadFairness
-----------------------------------------------------------------------------
\* What ReloadConfig and Init are for: when no post is at work, the last one had the file to
\* itself, and confLocker is not lost, the configuration in memory and the settings it
\* gives are those of the file, which is the last one posted.
FileIsConfig ==
    srUp /\ ~stuck /\ ~confDisturbed /\ (\A k \in Posters : confStep[k] = "idle") =>
        /\ confFile = lastPost /\ config = lastPost
        /\ confFile \in Posts => /\ CommonOf[confFile] \in {common, Unset}
                                 /\ TtlOf[confFile] \in {ttl, Unset}

\* The next start finds a file that parses, unless a post is writing it, posts have
\* overlapped, or a write has failed or been cut short by a crash.
FileWhole ==
    confFile \in {EmptyConf, TornConf} =>
        confDisturbed \/ \E k \in Posters : confStep[k] = "write"

\* settings.go:21: a cached jwtTTL is that of the setting in force, however calls of JWTTTL
\* and posts interleave.
CacheFresh == jwtTTL \in {ttl, Unset}

\* config.OnUpdate in main.go:148: once the posts end, the configuration in memory has been
\* sent to the subscribers of "config", even if posts have overlapped and read
\* each other's; a crash, or a post with a null task, excepted.
AnnouncedLatest == ~published ~> published \/ ~srUp \/ panicked

\* getters.go, settings.go: a reader of the configuration is answered, so that session.new and
\* subscriptions never hang, again a post with a null task excepted.
ReadersServed == \A r \in Readers : waiting[r] # "nothing" ~> waiting[r] = "nothing" \/ panicked
=============================================================================

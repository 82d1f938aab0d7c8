------------------------------- MODULE Config -------------------------------
(***************************************************************************)
(* What blank-sr makes of the stores of a configuration: Validate and its  *)
(* helpers in src/config/process.go, after the stores of the providers     *)
(* have been added.                                                        *)
(*                                                                         *)
(* Validate walks over Go maps, whose order is random, twice.  The first   *)
(* pass normalises the properties of each store and drops a store with an  *)
(* invalid one.  The second drops a store with a reference to a store that *)
(* the first has dropped, and loads the default stores into the others:    *)
(* in place, for a store that is copied shares its maps with the original, *)
(* which other stores may still read.                                      *)
(*                                                                         *)
(* Of a property, the attributes are kept that decide whether it is valid, *)
(* and those that are merged one by one in different ways.  An unset       *)
(* number is {} and a set one {n}; mask "cleared" is the empty string that *)
(* clearStringParams leaves, which counts as set.                          *)
(***************************************************************************)
EXTENDS Integers, Sequences, FiniteSets, Functions

CONSTANTS FileConfs,   \* configurations posted or read from the file
          CustomConfs, \* what the providers return
          NotANumber   \* any other value of min or max

\* A task of a migration; of its script, whether there is one.
Tasks == [version : Int, script : BOOLEAN]

\* A store, whatever its properties, filters and access.
IsStore(store) ==
    /\ store = [type |-> store.type, props |-> store.props, filters |-> store.filters,
                access |-> store.access, migration |-> store.migration]
    /\ store.migration \in Seq(Tasks)

ASSUME ConfigAssumption ==
    \A c \in FileConfs \cup CustomConfs : \A s \in DOMAIN c : IsStore(c[s])

VARIABLES
    conf,      \* the argument of Validate: store name -> store
    loaded,    \* loadFromProviders has been called
    seen,      \* stores the first pass has come to
    checked,   \* _conf
    firstPass, \* _conf as the first pass left it
    linked,    \* stores the second pass has come to
    result     \* what Validate returns

validateVars == <<conf, loaded, seen, checked, firstPass, linked, result>>

DefaultOfType == [process |-> "_defaultProcess", notification |-> "_defaultNotifications",
                  single |-> "_defaultSingle"]
DefaultStores == {"_default", "_defaultCampaign"} \cup
                 {DefaultOfType[t] : t \in DOMAIN DefaultOfType}

StoreTypes == {"directory", "process", "map", "workspace", "campaign", "notification", "single",
               "file", "proxy"}

\* Types of properties validateProps passes over, and the references.
Unexamined == {"widget", "action", "file", "fileList", "password", "any", "virtual/client"}
RefTypes == {"ref", "refList", "virtualRefList"}
Objects == {"object", "objectList"}

\* The default values a type takes, besides none and an expression: a number is a float64, as
\* JSON has it, and only the providers can return a time.
DefaultsOf == [int |-> {"number"}, float |-> {"number"}, bool |-> {"flag"}, string |-> {"text"},
               uuid |-> {"text"}, date |-> {"time"}, dateOnly |-> {"time"}, ref |-> {"text"},
               refList |-> {"list"}]

\* For each group of attributes, the types that keep it.
Scalars == {"int", "float", "bool", "string", "uuid", "date", "dateOnly", "virtual"}
KeepString == {"string", "uuid"}
KeepNumber == {"int", "float", "date", "dateOnly"}
KeepRef == RefTypes \cup {"comments"}
KeepObject == {"ref", "refList", "comments"} \cup Objects
PropTypes == Scalars \cup RefTypes \cup Objects \cup {"comments"}

ValidateTypeOK ==
    /\ loaded \in BOOLEAN
    /\ seen \subseteq DOMAIN conf
    /\ DOMAIN firstPass \subseteq seen /\ DOMAIN checked = DOMAIN firstPass
    /\ linked \subseteq DOMAIN checked /\ DOMAIN result \subseteq linked
    /\ \A s \in DOMAIN checked : checked[s].type \in StoreTypes

Nothing == [s \in {} |-> s]

ValidateInit ==
    /\ conf \in FileConfs
    /\ loaded = FALSE
    /\ seen = {} /\ linked = {}
    /\ checked = Nothing /\ firstPass = Nothing /\ result = Nothing

With(f, x, v) == [y \in DOMAIN f \cup {x} |-> IF y = x THEN v ELSE f[y]]
-----------------------------------------------------------------------------
(* The providers *)

\* loadFromProviders; mergeWith takes over no attribute that is kept here.
LoadFromProviders ==
    /\ ~loaded
    /\ loaded' = TRUE
    /\ \/ \E custom \in CustomConfs :
            conf' = [s \in DOMAIN conf \cup DOMAIN custom |->
                        IF s \in DOMAIN conf THEN conf[s] ELSE custom[s]]
       \/ UNCHANGED conf   \* a provider that cannot be reached is passed over
    /\ UNCHANGED <<seen, checked, firstPass, linked, result>>
-----------------------------------------------------------------------------
(* The first pass: validateProps *)

Number(n) == IF n = {} THEN 0 ELSE CHOOSE x \in n : TRUE

\* checkMinMaxParams: an unset limit counts as 0, and a limit must be a number.
MinMaxValid(p) ==
    LET min == Number(p.min)
        max == Number(p.max)
    IN  /\ NotANumber \notin p.min \cup p.max
        /\ (min = 0 /\ max = 0) \/ min <= max

LengthsValid(p) ==
    /\ p.minLength >= 0 /\ p.maxLength >= 0
    /\ p.minLength # 0 /\ p.maxLength # 0 => p.minLength <= p.maxLength

TypeOf(p) == IF p.type = "" THEN "string" ELSE p.type

\* One property, parseObjects aside.
Valid(p) ==
    LET type == TypeOf(p) IN
    /\ type \in Unexamined \cup PropTypes
    /\ type \in DOMAIN DefaultsOf => p.default \in DefaultsOf[type] \cup {"unset", "expression"}
    /\ type \in {"int", "float"} => MinMaxValid(p)
    /\ type \in {"string", "uuid"} => LengthsValid(p)
    /\ type \in RefTypes => p.store # ""
    /\ type = "virtualRefList" => p.source

PropsValid(props) ==
    \A n \in DOMAIN props :
        /\ Valid(props[n])
        /\ props[n].type \in Objects =>
            \A m \in DOMAIN props[n].props :
                Valid(props[n].props[m]) /\ props[n].props[m].type \notin Objects

\* The clear...Params calls for its type.
Normal(p) ==
    LET type == TypeOf(p) IN
    IF type \in Unexamined THEN p
    ELSE [p EXCEPT
        !.type = type,
        !.default = IF type \in {"virtual", "virtualRefList"} THEN "unset" ELSE @,
        !.mask = IF type \in KeepString THEN @ ELSE "cleared",
        !.minLength = IF type \in KeepString \cup {"objectList"} THEN @ ELSE 0,
        !.maxLength = IF type \in KeepString \cup {"objectList"} THEN @ ELSE 0,
        !.min = IF type \in KeepNumber THEN @ ELSE {},
        !.max = IF type \in KeepNumber THEN @ ELSE {},
        !.store = IF type \in KeepRef THEN @ ELSE "",
        !.props = IF type \in KeepObject THEN @ ELSE Nothing]

NormalProps(props) ==
    [n \in DOMAIN props |->
        LET p == Normal(props[n]) IN
        IF p.type \in Objects
        THEN [p EXCEPT !.props = [m \in DOMAIN @ |-> Normal(@[m])]]
        ELSE p]

IdProp == [type |-> "string", default |-> "unset", min |-> {}, max |-> {}, minLength |-> 0,
           maxLength |-> 0, mask |-> "unset", store |-> "", source |-> FALSE,
           configurable |-> FALSE, props |-> Nothing]

\* The type and the properties with which a store goes into validateProps.
Typed(store) ==
    [store EXCEPT
        !.type = IF @ \in StoreTypes THEN @ ELSE "directory",
        !.props = IF store.type \in {"map", "workspace"} THEN Nothing
                  ELSE IF store.type = "single" THEN With(@, "_id", IdProp) ELSE @]

CheckStore(s) ==
    /\ loaded /\ s \in DOMAIN conf \ seen
    /\ seen' = seen \cup {s}
    /\ LET store == Typed(conf[s]) IN
        checked' = IF PropsValid(store.props)
                   THEN With(checked, s, [store EXCEPT !.props = NormalProps(@)])
                   ELSE checked
    /\ firstPass' = checked'
    /\ UNCHANGED <<conf, loaded, linked, result>>
-----------------------------------------------------------------------------
(* The second pass *)

RefsOf(props) ==
    LET inner == UNION {{props[n].props[m] : m \in DOMAIN props[n].props} : n \in DOMAIN props}
        all == inner \cup {props[n] : n \in DOMAIN props}
    IN  {p.store : p \in {q \in all : q.type \in RefTypes}}

RefsLive_InResult(s) == RefsOf(checked[s].props) \subseteq DOMAIN result \cup (DOMAIN checked \ linked)
RefsLive(s) == RefsOf(checked[s].props) \subseteq DOMAIN checked

\* LoadDefaultIntoProp, for a property the store has: what it sets overrides the default.
Overlay(own, default) ==
    [default EXCEPT
        !.type = IF own.type = "" THEN @ ELSE own.type,
        !.default = IF own.default = "unset" THEN @ ELSE own.default,
        !.min = IF own.min = {} THEN @ ELSE own.min,
        !.max = IF own.max = {} THEN @ ELSE own.max,
        !.minLength = IF own.minLength = 0 THEN @ ELSE own.minLength,
        !.maxLength = IF own.maxLength = 0 THEN @ ELSE own.maxLength,
        !.mask = IF own.mask = "unset" THEN @ ELSE own.mask,
        !.store = IF own.store = "" THEN @ ELSE own.store]

LoadDefaults(store, default) ==
    [store EXCEPT !.props =
        [n \in DOMAIN @ \cup DOMAIN default.props |->
            IF n \notin DOMAIN default.props THEN @[n]
            ELSE IF n \in DOMAIN @ /\ default.props[n].configurable
                 THEN Overlay(@[n], default.props[n])
                 ELSE default.props[n]]]

\* A filter is a function from its attributes to their values, "" when unset.
MergeFilters(store, default) ==
    [store EXCEPT !.filters =
        [f \in DOMAIN @ \cup DOMAIN default.filters |->
            IF f \notin DOMAIN default.filters THEN @[f]
            ELSE IF f \notin DOMAIN @ THEN default.filters[f]
            ELSE [a \in DOMAIN @[f] |-> IF @[f][a] = "" THEN default.filters[f][a] ELSE @[f][a]]]]

MergeAccess(store, default) ==
    [store EXCEPT !.access = IF @ = {} THEN default.access ELSE @]

LoadDirectory(store) ==
    IF "_default" \notin DOMAIN checked THEN store
    ELSE LoadDefaults(MergeFilters(store, checked["_default"]), checked["_default"])

LoadTyped(store) ==
    IF store.type \notin DOMAIN DefaultOfType \/ DefaultOfType[store.type] \notin DOMAIN checked
    THEN store
    ELSE LET default == checked[DefaultOfType[store.type]] IN
         IF store.type = "notification"
         THEN LoadDefaults(MergeAccess(store, default), default)
         ELSE LoadDefaults(MergeFilters(store, default), default)

Merged_DefaultsToo(s) == LoadTyped(LoadDirectory(checked[s]))
Merged(s) == IF s \in DefaultStores THEN checked[s] ELSE LoadTyped(LoadDirectory(checked[s]))

SortedTasks_Not(tasks) == {tasks}
\* sort.Slice promises no order of tasks of the same version.
SortedTasks(tasks) ==
    {order \in {[i \in DOMAIN tasks |-> tasks[p[i]]] : p \in Bijection(DOMAIN tasks, DOMAIN tasks)} :
        \A i, j \in DOMAIN tasks : i < j => order[i].version <= order[j].version}

\* The loop from the last task to the first compares the version of each with that of the task
\* after it, removed or not; prevVer starts with -99.
NextVersion(tasks, i) == IF i = Len(tasks) THEN -99 ELSE tasks[i + 1].version
Runnable(tasks) == {i \in DOMAIN tasks : tasks[i].script /\ tasks[i].version # NextVersion(tasks, i)}

\* The tasks at some positions, in their order.
Rank(S, i) == Cardinality({j \in S : j <= i})
Only(tasks, S) == [n \in 1..Cardinality(S) |-> tasks[CHOOSE i \in S : Rank(S, i) = n]]

Pruned(tasks) == Only(tasks, Runnable(tasks))

LinkStore(s) ==
    /\ loaded /\ seen = DOMAIN conf /\ s \in DOMAIN checked \ linked
    /\ linked' = linked \cup {s}
    /\ IF RefsLive(s)
       THEN \E tasks \in SortedTasks(checked[s].migration) :
                LET store == [Merged(s) EXCEPT !.migration = Pruned(tasks)] IN
                /\ result' = With(result, s, store)
                /\ checked' = [checked EXCEPT ![s].props = store.props, ![s].filters = store.filters]
       ELSE UNCHANGED <<result, checked>>
    /\ UNCHANGED <<conf, loaded, seen, firstPass>>

ValidateNext ==
    \/ LoadFromProviders
    \/ \E s \in DOMAIN conf : CheckStore(s) \/ LinkStore(s)

ValidateSpec == ValidateInit /\ [][ValidateNext]_validateVars
-----------------------------------------------------------------------------
Validated == loaded /\ seen = DOMAIN conf /\ linked = DOMAIN checked

\* process.go:187-246: whatever the order of the walk, the stores that stay are those with
\* valid properties that refer only to stores with valid properties.
Survivors ==
    Validated =>
        LET valid == {s \in DOMAIN conf : PropsValid(Typed(conf[s]).props)} IN
        DOMAIN result = {s \in valid : RefsOf(NormalProps(Typed(conf[s]).props)) \subseteq valid}

\* The default stores that Validate loads into s.
IsTypedDefault(d, s) == result[s].type \in DOMAIN DefaultOfType /\ d = DefaultOfType[result[s].type]
IsDefault(d, s) == d = "_default" \/ IsTypedDefault(d, s)

\* config.go:174, of configurable: "admin may override the settings of the property", and of no
\* other.  A property that a default store fixes is in every store as that default store
\* declares it, whatever the store says and in whatever order the stores are walked,
\* unless the default store of its type, which is loaded after _default, has it too.
FixedDefaults ==
    Validated =>
        \A s \in DOMAIN result \ DefaultStores : \A d \in DOMAIN firstPass :
            IsDefault(d, s) =>
                \A n \in DOMAIN firstPass[d].props :
                    /\ ~firstPass[d].props[n].configurable
                    /\ \A e \in DOMAIN firstPass :
                        e # d /\ IsTypedDefault(e, s) => n \notin DOMAIN firstPass[e].props
                    => result[s].props[n] = firstPass[d].props[n]

\* process.go:290-318: the tasks that stay run in ascending order, one for each version,
\* all with a script; and a version all of whose tasks have one is not lost, unless it is
\* -99, with which prevVer starts.
MigrationsExact ==
    Validated =>
        \A s \in DOMAIN result :
            LET given == {conf[s].migration[i] : i \in DOMAIN conf[s].migration}
                kept == result[s].migration
            IN  /\ \A i \in DOMAIN kept : kept[i] \in given /\ kept[i].script
                /\ \A i, j \in DOMAIN kept : i < j => kept[i].version < kept[j].version
                /\ \A t \in given :
                    t.version # -99 /\ (\A u \in given : u.version = t.version => u.script) =>
                        \E i \in DOMAIN kept : kept[i] = t
=============================================================================

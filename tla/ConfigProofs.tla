---------------------------- MODULE ConfigProofs ----------------------------
(***************************************************************************)
(* Proofs about module Config, for every configuration and every order in  *)
(* which Validate walks over the stores: which stores stay, what a default *)
(* store fixes in them, and which migrations are left.                     *)
(***************************************************************************)
EXTENDS Config, FiniteSetTheorems, FunctionTheorems, SequenceTheorems, TLAPS

(***************************************************************************)
(* Migrations.  A task that is kept is found at its rank among those kept. *)
(* Ranks are different and go from 1 to their number, so each is taken.    *)
(***************************************************************************)

LEMMA Finite ==
    ASSUME NEW n \in Nat, NEW S \in SUBSET (1..n)
    PROVE  IsFiniteSet(S) /\ Cardinality(S) \in Nat
<1>1. IsFiniteSet(1..n)
    BY FS_Interval
<1>2. IsFiniteSet(S)
    BY <1>1, FS_Subset
<1> QED BY <1>2, FS_CardinalityType

LEMMA Ranks ==
    ASSUME NEW n \in Nat, NEW S \in SUBSET (1..n)
    PROVE  /\ Cardinality(S) \in Nat
           /\ \A i \in S : Rank(S, i) \in 1..Cardinality(S)
           /\ \A i, j \in S : i < j => Rank(S, i) < Rank(S, j)
           /\ \A i, j \in S : Rank(S, i) = Rank(S, j) => i = j
           /\ \A r \in 1..Cardinality(S) : \E i \in S : Rank(S, i) = r
<1> DEFINE Upto(i) == {j \in S : j <= i}
<1>0. \A i \in S : i \in Int
    OBVIOUS
<1>1. IsFiniteSet(S) /\ Cardinality(S) \in Nat
    BY Finite
<1>2. \A i \in S : IsFiniteSet(Upto(i)) /\ Rank(S, i) = Cardinality(Upto(i))
    BY <1>1, FS_Subset DEF Rank
<1>3. ASSUME NEW i \in S
      PROVE  Rank(S, i) \in 1..Cardinality(S) /\ Rank(S, i) \in Int
  <2>1. Upto(i) \in SUBSET S /\ i \in Upto(i)
      OBVIOUS
  <2> HIDE DEF Upto
  <2>2. IsFiniteSet(Upto(i)) /\ Cardinality(Upto(i)) <= Cardinality(S)
      BY <1>1, <2>1, FS_Subset
  <2>3. Cardinality(Upto(i)) # 0 /\ Cardinality(Upto(i)) \in Nat
      BY <2>1, <2>2, FS_EmptySet, FS_CardinalityType
  <2> QED BY <1>1, <1>2, <2>2, <2>3
<1>4. ASSUME NEW i \in S, NEW j \in S, i < j
      PROVE  Rank(S, i) < Rank(S, j)
  <2>1. i \in Int /\ j \in Int
      BY <1>0
  <2>2. ASSUME NEW k \in Upto(i) PROVE k \in Upto(j)
    <3>1. k \in S /\ k <= i /\ k \in Int
        BY <1>0
    <3> QED BY <1>4, <2>1, <3>1
  <2>3. j \in Upto(j) /\ j \notin Upto(i)
      BY <1>4, <2>1
  <2>4. IsFiniteSet(Upto(j)) /\ Rank(S, i) = Cardinality(Upto(i)) /\ Rank(S, j) = Cardinality(Upto(j))
      BY <1>2
  <2> HIDE DEF Upto
  <2>5. Upto(i) \in SUBSET Upto(j) /\ Upto(i) # Upto(j)
      BY <2>2, <2>3
  <2>6. Cardinality(Upto(i)) <= Cardinality(Upto(j)) /\ Cardinality(Upto(i)) # Cardinality(Upto(j))
      BY <2>4, <2>5, FS_Subset
  <2> QED BY <1>3, <2>4, <2>6
<1>5. ASSUME NEW i \in S, NEW j \in S, Rank(S, i) = Rank(S, j)
      PROVE  i = j
  <2>1. ~(i < j) /\ ~(j < i)
      BY <1>3, <1>4, <1>5
  <2> QED BY <1>0, <2>1
<1>6. \A r \in 1..Cardinality(S) : \E i \in S : Rank(S, i) = r
  <2> DEFINE f == [i \in S |-> Rank(S, i)]
             T == 1..Cardinality(S)
  <2>1. f \in [S -> T]
      BY <1>3
  <2>2. f \in Injection(S, T)
      BY <1>5, <2>1 DEF Injection, IsInjective
  <2>3. IsFiniteSet(T) /\ Cardinality(T) = Cardinality(S)
      BY <1>1, FS_Interval
  <2>4. f \in Surjection(S, T)
      BY <2>2, <2>3, FS_Injection
  <2> QED BY <2>4 DEF Surjection
<1> QED BY <1>1, <1>3, <1>4, <1>5, <1>6

\* Only keeps the tasks at the given positions, all of them and in their order.
LEMMA OnlyExact ==
    ASSUME NEW tasks \in Seq(Tasks), NEW n \in Nat, NEW S \in SUBSET (1..n)
    PROVE  /\ DOMAIN Only(tasks, S) = 1..Cardinality(S)
           /\ \A r \in DOMAIN Only(tasks, S) : \E i \in S :
                Rank(S, i) = r /\ Only(tasks, S)[r] = tasks[i]
           /\ \A i \in S : \E r \in DOMAIN Only(tasks, S) : Only(tasks, S)[r] = tasks[i]
<1> DEFINE At(r) == CHOOSE i \in S : Rank(S, i) = r
<1>1. \A r \in 1..Cardinality(S) : At(r) \in S /\ Rank(S, At(r)) = r
    BY Ranks
<1>2. \A i \in S : Rank(S, i) \in 1..Cardinality(S) /\ At(Rank(S, i)) = i
  <2> SUFFICES ASSUME NEW i \in S
               PROVE  Rank(S, i) \in 1..Cardinality(S) /\ At(Rank(S, i)) = i
      OBVIOUS
  <2>1. Rank(S, i) \in 1..Cardinality(S)
      BY Ranks
  <2>2. At(Rank(S, i)) \in S /\ Rank(S, At(Rank(S, i))) = Rank(S, i)
      BY <1>1, <2>1
  <2> QED BY <2>1, <2>2, Ranks
<1>3. Only(tasks, S) = [r \in 1..Cardinality(S) |-> tasks[At(r)]]
    BY DEF Only
<1> HIDE DEF At
<1> QED BY <1>1, <1>2, <1>3

\* The last of the positions in a set.
LEMMA LastPosition ==
    ASSUME NEW n \in Nat, NEW S \in SUBSET (1..n), S # {}
    PROVE  \E i \in S : \A j \in S : j <= i
<1>1. IsFiniteSet(S) /\ Cardinality(S) \in Nat /\ Cardinality(S) # 0
    BY Finite, FS_EmptySet
<1>2. PICK i \in S : Rank(S, i) = Cardinality(S)
    BY <1>1, Ranks
<1>3. {j \in S : j <= i} = S
    BY <1>1, <1>2, FS_Subset DEF Rank
<1> QED BY <1>3

\* SortedTasks puts the tasks into order, and neither adds nor loses one.
LEMMA SortedExact ==
    ASSUME NEW given \in Seq(Tasks), NEW tasks \in SortedTasks(given)
    PROVE  /\ tasks \in Seq(Tasks)
           /\ \A i, j \in DOMAIN tasks : i < j => tasks[i].version <= tasks[j].version
           /\ {tasks[i] : i \in DOMAIN tasks} = {given[i] : i \in DOMAIN given}
<1> DEFINE n == Len(given)
<1>1. n \in Nat /\ DOMAIN given = 1..n /\ \A i \in 1..n : given[i] \in Tasks
    BY LenProperties, ElementOfSeq
<1>2. PICK p \in Bijection(1..n, 1..n) : tasks = [i \in 1..n |-> given[p[i]]]
    BY <1>1 DEF SortedTasks
<1>3. p \in [1..n -> 1..n] /\ \A j \in 1..n : \E i \in 1..n : p[i] = j
    BY <1>2 DEF Bijection, Injection, Surjection
<1>4. tasks \in [1..n -> Tasks]
    BY <1>1, <1>2, <1>3
<1>5. tasks \in Seq(Tasks)
    BY <1>1, <1>4, SeqDef
<1>6. {tasks[i] : i \in DOMAIN tasks} = {given[i] : i \in DOMAIN given}
    BY <1>1, <1>2, <1>3
<1> QED BY <1>5, <1>6 DEF SortedTasks

\* What MigrationsExact says of a store, once its tasks are in order.
LEMMA PrunedExact ==
    ASSUME NEW tasks \in Seq(Tasks),
           \A i, j \in DOMAIN tasks : i < j => tasks[i].version <= tasks[j].version
    PROVE  /\ \A r \in DOMAIN Pruned(tasks) :
                Pruned(tasks)[r] \in {tasks[i] : i \in DOMAIN tasks} /\ Pruned(tasks)[r].script
           /\ \A q, r \in DOMAIN Pruned(tasks) :
                q < r => Pruned(tasks)[q].version < Pruned(tasks)[r].version
           /\ \A t \in {tasks[i] : i \in DOMAIN tasks} :
                /\ t.version # -99
                /\ \A i \in DOMAIN tasks : tasks[i].version = t.version => tasks[i].script
                => \E r \in DOMAIN Pruned(tasks) : Pruned(tasks)[r] = t
<1> DEFINE n == Len(tasks)
           S == Runnable(tasks)
           kept == Pruned(tasks)
<1>0. n \in Nat
    BY LenProperties
<1>1. n \in Nat /\ DOMAIN tasks = 1..n /\ \A i \in 1..n : tasks[i] \in Tasks
    BY LenProperties, ElementOfSeq
<1>2. S \in SUBSET (1..n)
    BY <1>1 DEF Runnable
<1>3. /\ DOMAIN kept = 1..Cardinality(S)
      /\ \A r \in DOMAIN kept : \E i \in S : Rank(S, i) = r /\ kept[r] = tasks[i]
      /\ \A i \in S : \E r \in DOMAIN kept : kept[r] = tasks[i]
  <2>1. kept = Only(tasks, S)
      BY DEF Pruned
  <2> HIDE DEF n, S, kept
  <2>2. DOMAIN Only(tasks, S) = 1..Cardinality(S)
      BY <1>0, <1>2, OnlyExact
  <2>3. ASSUME NEW r \in DOMAIN Only(tasks, S)
        PROVE  \E i \in S : Rank(S, i) = r /\ Only(tasks, S)[r] = tasks[i]
      BY <1>0, <1>2, OnlyExact
  <2>4. ASSUME NEW i \in S
        PROVE  \E r \in DOMAIN Only(tasks, S) : Only(tasks, S)[r] = tasks[i]
      BY <1>0, <1>2, OnlyExact
  <2> QED BY <2>1, <2>2, <2>3, <2>4
<1>4. \A i \in 1..n : i \in S <=> tasks[i].script /\ tasks[i].version # NextVersion(tasks, i)
    BY <1>1 DEF Runnable
<1>5. \A i \in 1..n : tasks[i].version \in Int
    BY <1>1 DEF Tasks
<1> HIDE DEF S, kept
<1>6. ASSUME NEW r \in DOMAIN kept
      PROVE  kept[r] \in {tasks[i] : i \in DOMAIN tasks} /\ kept[r].script
    BY <1>1, <1>2, <1>3, <1>4
<1>7. ASSUME NEW q \in DOMAIN kept, NEW r \in DOMAIN kept, q < r
      PROVE  kept[q].version < kept[r].version
  <2>1. PICK i \in S : Rank(S, i) = q /\ kept[q] = tasks[i]
      BY <1>3
  <2>2. PICK j \in S : Rank(S, j) = r /\ kept[r] = tasks[j]
      BY <1>3
  <2>3. i \in 1..n /\ j \in 1..n
      BY <1>2
  <2>4. q \in Int /\ r \in Int
      BY <1>1, <1>2, <1>3, Finite
  <2>5. i < j
    <3>1. j < i => r < q
        BY <1>1, <1>2, <2>1, <2>2, Ranks
    <3> QED BY <1>7, <2>1, <2>2, <2>3, <2>4, <3>1
  <2>6. i + 1 \in 1..n /\ i # n /\ i < i + 1
      BY <1>0, <2>3, <2>5
  <2>7. tasks[i].version # tasks[i + 1].version
      BY <1>4, <2>3, <2>6 DEF NextVersion
  <2>8. tasks[i].version <= tasks[i + 1].version
      BY <1>1, <2>3, <2>6
  <2>9. tasks[i + 1].version <= tasks[j].version
    <3>1. CASE i + 1 = j
        BY <1>5, <2>3, <3>1
    <3>2. CASE i + 1 < j
        BY <1>1, <2>3, <2>6, <3>2
    <3> QED BY <2>3, <2>5, <3>1, <3>2
  <2> QED BY <1>5, <2>1, <2>2, <2>3, <2>6, <2>7, <2>8, <2>9
<1>8. ASSUME NEW t \in {tasks[i] : i \in DOMAIN tasks}, t.version # -99,
             \A i \in DOMAIN tasks : tasks[i].version = t.version => tasks[i].script
      PROVE  \E r \in DOMAIN kept : kept[r] = t
  <2> DEFINE Same == {i \in 1..n : tasks[i].version = t.version}
  <2>1. PICK k \in 1..n : t = tasks[k]
      BY <1>1
  <2>2. Same \in SUBSET (1..n) /\ Same # {}
      BY <2>1
  <2>3. PICK i \in Same : \A j \in Same : j <= i
    <3> HIDE DEF Same
    <3> QED BY <1>1, <2>2, LastPosition
  <2>4. i \in 1..n /\ tasks[i].version = t.version /\ tasks[i].script /\ t.script
      BY <1>1, <1>8, <2>1, <2>3
  <2>5. tasks[i].version # NextVersion(tasks, i)
    <3>1. CASE i = n
        BY <1>8, <2>4, <3>1 DEF NextVersion
    <3>2. CASE i # n
      <4>1. i + 1 \in 1..n /\ ~(i + 1 <= i)
        <5>1. i \in Int /\ n \in Int /\ 1 <= i /\ i <= n /\ i # n
            BY <1>0, <2>4, <3>2
        <5> QED BY <5>1
      <4>2. i + 1 \notin Same
          BY <2>3, <4>1
      <4> QED BY <2>4, <3>2, <4>1, <4>2 DEF NextVersion
    <3> QED BY <3>1, <3>2
  <2>6. tasks[i] = t
      BY <1>1, <2>1, <2>4 DEF Tasks
  <2> QED BY <1>3, <1>4, <2>4, <2>5, <2>6
<1> QED BY <1>6, <1>7, <1>8 DEF kept
-----------------------------------------------------------------------------
(***************************************************************************)
(* Merging.  What a default store fixes is what it declares, and all else  *)
(* of a store but its properties, filters and access stays.                *)
(***************************************************************************)

LEMMA TypedStore ==
    ASSUME NEW store, IsStore(store)
    PROVE  /\ IsStore(Typed(store)) /\ Typed(store).migration = store.migration
           /\ Typed(store).type \in StoreTypes
<1>1. PICK props : Typed(store) =
            [store EXCEPT !.type = IF store.type \in StoreTypes THEN store.type ELSE "directory",
                          !.props = props]
    BY DEF Typed
<1>2. "directory" \in StoreTypes
    BY DEF StoreTypes
<1> QED BY <1>1, <1>2 DEF IsStore

LEMMA DefaultsLoaded ==
    ASSUME NEW store, IsStore(store), NEW default
    PROVE  LET merged == LoadDefaults(store, default) IN
           /\ IsStore(merged) /\ merged.type = store.type /\ merged.migration = store.migration
           /\ DOMAIN merged.props = DOMAIN store.props \cup DOMAIN default.props
           /\ \A n \in DOMAIN default.props :
                ~default.props[n].configurable => merged.props[n] = default.props[n]
           /\ \A n \in DOMAIN store.props \ DOMAIN default.props : merged.props[n] = store.props[n]
<1> DEFINE merged == LoadDefaults(store, default)
<1>1. /\ IsStore(merged) /\ merged.type = store.type /\ merged.migration = store.migration
      /\ merged.props = [n \in DOMAIN store.props \cup DOMAIN default.props |->
            IF n \notin DOMAIN default.props THEN store.props[n]
            ELSE IF n \in DOMAIN store.props /\ default.props[n].configurable
                 THEN Overlay(store.props[n], default.props[n])
                 ELSE default.props[n]]
    BY DEF LoadDefaults, IsStore
<1> QED BY <1>1

LEMMA OthersMerged ==
    ASSUME NEW store, IsStore(store), NEW default, NEW merged,
           merged = MergeFilters(store, default) \/ merged = MergeAccess(store, default)
    PROVE  /\ IsStore(merged) /\ merged.type = store.type /\ merged.migration = store.migration
           /\ merged.props = store.props
<1>1. CASE merged = MergeFilters(store, default)
    BY <1>1 DEF MergeFilters, IsStore
<1>2. CASE merged = MergeAccess(store, default)
    BY <1>2 DEF MergeAccess, IsStore
<1> QED BY <1>1, <1>2

\* One default store, with whatever else is merged before its properties.
LEMMA OneDefault ==
    ASSUME NEW store, IsStore(store), NEW default, NEW merged,
           \/ merged = LoadDefaults(MergeFilters(store, default), default)
           \/ merged = LoadDefaults(MergeAccess(store, default), default)
    PROVE  /\ IsStore(merged) /\ merged.type = store.type /\ merged.migration = store.migration
           /\ DOMAIN merged.props = DOMAIN store.props \cup DOMAIN default.props
           /\ \A n \in DOMAIN default.props :
                ~default.props[n].configurable => merged.props[n] = default.props[n]
           /\ \A n \in DOMAIN store.props \ DOMAIN default.props : merged.props[n] = store.props[n]
<1>1. PICK mid : /\ mid = MergeFilters(store, default) \/ mid = MergeAccess(store, default)
                 /\ merged = LoadDefaults(mid, default)
    OBVIOUS
<1>2. /\ IsStore(mid) /\ mid.type = store.type /\ mid.migration = store.migration
      /\ mid.props = store.props
    BY <1>1, OthersMerged
<1> QED BY <1>1, <1>2, DefaultsLoaded

\* The default store of type t.
TypedDefault(d, t) == t \in DOMAIN DefaultOfType /\ d = DefaultOfType[t]

LEMMA MergedExact ==
    ASSUME NEW s \in DOMAIN checked \ DefaultStores, IsStore(checked[s])
    PROVE  LET merged == Merged(s)
               type == checked[s].type
           IN  /\ IsStore(merged) /\ merged.type = type
               /\ merged.migration = checked[s].migration
               /\ \A d \in DOMAIN checked : d = "_default" \/ TypedDefault(d, type) =>
                    \A n \in DOMAIN checked[d].props :
                        /\ ~checked[d].props[n].configurable
                        /\ \A e \in DOMAIN checked :
                            e # d /\ TypedDefault(e, type) => n \notin DOMAIN checked[e].props
                        => merged.props[n] = checked[d].props[n]
<1> DEFINE mid == LoadDirectory(checked[s])
           type == checked[s].type
           e == DefaultOfType[type]
<1>1. /\ IsStore(mid) /\ mid.type = type /\ mid.migration = checked[s].migration
      /\ "_default" \in DOMAIN checked =>
            \A n \in DOMAIN checked["_default"].props :
                /\ n \in DOMAIN mid.props
                /\ ~checked["_default"].props[n].configurable
                    => mid.props[n] = checked["_default"].props[n]
  <2>1. CASE "_default" \notin DOMAIN checked
      BY <2>1 DEF LoadDirectory
  <2>2. CASE "_default" \in DOMAIN checked
    <3> DEFINE default == checked["_default"]
    <3>1. mid = LoadDefaults(MergeFilters(checked[s], default), default)
        BY <2>2 DEF LoadDirectory
    <3> HIDE DEF mid, default
    <3>2. /\ IsStore(mid) /\ mid.type = type /\ mid.migration = checked[s].migration
          /\ DOMAIN mid.props = DOMAIN checked[s].props \cup DOMAIN default.props
          /\ \A n \in DOMAIN default.props :
                ~default.props[n].configurable => mid.props[n] = default.props[n]
        BY <3>1, OneDefault
    <3> QED BY <3>2 DEF default
  <2> QED BY <2>1, <2>2
<1>2. Merged(s) = LoadTyped(mid)
    BY DEF Merged
<1>3. "_default" # e \/ type \notin DOMAIN DefaultOfType
    BY DEF DefaultOfType
<1>4. CASE type \notin DOMAIN DefaultOfType \/ e \notin DOMAIN checked
  <2>1. Merged(s) = mid
      BY <1>1, <1>2, <1>4 DEF LoadTyped
  <2> QED BY <1>1, <1>4, <2>1 DEF TypedDefault
<1>5. CASE type \in DOMAIN DefaultOfType /\ e \in DOMAIN checked
  <2>1. \/ Merged(s) = LoadDefaults(MergeFilters(mid, checked[e]), checked[e])
        \/ Merged(s) = LoadDefaults(MergeAccess(mid, checked[e]), checked[e])
      BY <1>1, <1>2, <1>5 DEF LoadTyped
  <2> HIDE DEF mid
  <2>2. /\ IsStore(Merged(s)) /\ Merged(s).type = mid.type /\ Merged(s).migration = mid.migration
        /\ \A n \in DOMAIN checked[e].props :
            ~checked[e].props[n].configurable => Merged(s).props[n] = checked[e].props[n]
        /\ \A n \in DOMAIN mid.props \ DOMAIN checked[e].props : Merged(s).props[n] = mid.props[n]
      BY <1>1, <2>1, OneDefault
  <2>3. ASSUME NEW d \in DOMAIN checked, d = "_default" \/ TypedDefault(d, type),
               NEW n \in DOMAIN checked[d].props, ~checked[d].props[n].configurable,
               \A x \in DOMAIN checked :
                   x # d /\ TypedDefault(x, type) => n \notin DOMAIN checked[x].props
        PROVE  Merged(s).props[n] = checked[d].props[n]
    <3>1. CASE d = e
        BY <2>2, <2>3, <3>1
    <3>2. CASE d # e
      <4>1. d = "_default" /\ n \notin DOMAIN checked[e].props
          BY <1>5, <2>3, <3>2 DEF TypedDefault
      <4> QED BY <1>1, <2>2, <2>3, <4>1
    <3> QED BY <3>1, <3>2
  <2> QED BY <1>1, <2>2, <2>3
<1> QED BY <1>4, <1>5
-----------------------------------------------------------------------------
(***************************************************************************)
(* The walks.  The first depends on conf alone.  The second changes a      *)
(* store in place, but the others see of it only its name, and of a        *)
(* default store its properties, which do not change.                      *)
(***************************************************************************)

\* A valid store as the first pass leaves it.
First(s) == [Typed(conf[s]) EXCEPT !.props = NormalProps(@)]

Walked ==
    /\ loaded \in BOOLEAN /\ (seen # {} => loaded)
    /\ \A s \in DOMAIN conf : IsStore(conf[s])
    /\ seen \subseteq DOMAIN conf
    /\ DOMAIN firstPass = {s \in seen : PropsValid(Typed(conf[s]).props)}
    /\ \A s \in DOMAIN firstPass : firstPass[s] = First(s)

\* What the second pass may have done to s.
InPlace(s) ==
    /\ IsStore(checked[s])
    /\ checked[s].type = firstPass[s].type /\ checked[s].migration = firstPass[s].migration
    /\ s \notin linked => checked[s] = firstPass[s]
    /\ s \in DefaultStores => checked[s].props = firstPass[s].props

Linked ==
    /\ DOMAIN checked = DOMAIN firstPass
    /\ linked \subseteq DOMAIN checked /\ (linked # {} => seen = DOMAIN conf)
    /\ \A s \in DOMAIN checked : InPlace(s)
    /\ DOMAIN result = {s \in linked : RefsOf(firstPass[s].props) \subseteq DOMAIN firstPass}

\* The stores d fix in s what they declare, as FixedDefaults says.
FixedIn(s) ==
    \A d \in DOMAIN firstPass : d = "_default" \/ TypedDefault(d, firstPass[s].type) =>
        \A n \in DOMAIN firstPass[d].props :
            /\ ~firstPass[d].props[n].configurable
            /\ \A e \in DOMAIN firstPass :
                e # d /\ TypedDefault(e, firstPass[s].type) => n \notin DOMAIN firstPass[e].props
            => result[s].props[n] = firstPass[d].props[n]

Linking(s) ==
    /\ result[s].type = firstPass[s].type
    /\ s \notin DefaultStores => FixedIn(s)
    /\ \E tasks \in SortedTasks(conf[s].migration) : result[s].migration = Pruned(tasks)

Results == \A s \in DOMAIN result : Linking(s)

ValidateInv == Walked /\ Linked /\ Results

LEMMA ValidateInvInit == ValidateInit => ValidateInv
BY ConfigAssumption
DEF ValidateInit, ValidateInv, Walked, Linked, Results, Nothing

LEMMA FirstStore ==
    ASSUME NEW s \in DOMAIN conf, IsStore(conf[s])
    PROVE  /\ IsStore(First(s)) /\ First(s).migration = conf[s].migration
           /\ First(s).type = Typed(conf[s]).type /\ First(s).type \in StoreTypes
           /\ First(s).props = NormalProps(Typed(conf[s]).props)
<1> DEFINE store == Typed(conf[s])
<1>1. IsStore(store) /\ store.migration = conf[s].migration /\ store.type \in StoreTypes
    BY TypedStore
<1>2. First(s) = [store EXCEPT !.props = NormalProps(store.props)]
    BY DEF First
<1> HIDE DEF store
<1>3. /\ IsStore(First(s)) /\ First(s).migration = store.migration /\ First(s).type = store.type
      /\ First(s).props = NormalProps(store.props)
    BY <1>1, <1>2 DEF IsStore
<1> QED BY <1>1, <1>3 DEF store

LEMMA LoadFromProvidersInv == ValidateInv /\ LoadFromProviders => ValidateInv'
<1> SUFFICES ASSUME ValidateInv, LoadFromProviders PROVE ValidateInv'
    OBVIOUS
<1>1. seen = {} /\ loaded'
    BY DEF ValidateInv, Walked, LoadFromProviders
<1>2. /\ DOMAIN firstPass = {} /\ DOMAIN checked = {} /\ linked = {} /\ DOMAIN result = {}
    BY <1>1 DEF ValidateInv, Walked, Linked
<1>3. UNCHANGED <<seen, checked, firstPass, linked, result>>
    BY DEF LoadFromProviders
<1>4. \A s \in DOMAIN conf' : IsStore(conf'[s])
    BY ConfigAssumption DEF LoadFromProviders, ValidateInv, Walked
<1>5. Walked'
    BY <1>1, <1>2, <1>3, <1>4 DEF Walked, LoadFromProviders
<1>6. Linked'
    BY <1>2, <1>3 DEF Linked
<1>7. Results'
    BY <1>2, <1>3 DEF Results
<1> QED BY <1>5, <1>6, <1>7 DEF ValidateInv

LEMMA CheckStoreInv == ASSUME NEW s \in DOMAIN conf, ValidateInv, CheckStore(s) PROVE ValidateInv'
<1> DEFINE valid == PropsValid(Typed(conf[s]).props)
<1>1. /\ loaded /\ s \notin seen /\ seen' = seen \cup {s}
      /\ UNCHANGED <<conf, loaded, linked, result>> /\ firstPass' = checked'
    BY DEF CheckStore
<1>2. linked = {} /\ DOMAIN result = {}
    BY <1>1 DEF ValidateInv, Linked
<1>3. checked' = IF valid THEN With(checked, s, First(s)) ELSE checked
    BY DEF CheckStore, First
<1>4. DOMAIN checked = DOMAIN firstPass /\ s \notin DOMAIN checked
    BY <1>1 DEF ValidateInv, Linked, Walked
<1>5. \A x \in DOMAIN checked : checked[x] = First(x) /\ x \in DOMAIN conf
    BY <1>2, <1>4 DEF ValidateInv, Linked, InPlace, Walked
<1>6. \A x \in DOMAIN conf : First(x)' = First(x)
    BY <1>1 DEF First
<1>7. /\ DOMAIN checked' = {x \in seen' : PropsValid(Typed(conf[x]).props)}
      /\ \A x \in DOMAIN checked' : checked'[x] = First(x) /\ x \in DOMAIN conf
  <2>1. DOMAIN checked = {x \in seen : PropsValid(Typed(conf[x]).props)}
      BY <1>4 DEF ValidateInv, Walked
  <2>2. CASE valid
    <3>1. checked' = [y \in DOMAIN checked \cup {s} |-> IF y = s THEN First(s) ELSE checked[y]]
        BY <1>3, <2>2 DEF With
    <3> QED BY <1>1, <1>5, <2>1, <2>2, <3>1
  <2>3. CASE ~valid
      BY <1>1, <1>3, <1>5, <2>1, <2>3
  <2> QED BY <2>2, <2>3
<1>8. Walked'
    BY <1>1, <1>6, <1>7 DEF Walked, ValidateInv
<1>9. Linked'
  <2>1. \A x \in DOMAIN checked' : InPlace(x)'
      BY <1>1, <1>2, <1>7, FirstStore DEF InPlace, ValidateInv, Walked
  <2> QED BY <1>1, <1>2, <2>1 DEF Linked
<1>10. Results'
    BY <1>1, <1>2 DEF Results
<1> QED BY <1>8, <1>9, <1>10 DEF ValidateInv

LEMMA LinkStoreInv == ASSUME NEW s \in DOMAIN conf, ValidateInv, LinkStore(s) PROVE ValidateInv'
<1>1. /\ seen = DOMAIN conf /\ s \in DOMAIN checked /\ s \notin linked
      /\ linked' = linked \cup {s} /\ UNCHANGED <<conf, loaded, seen, firstPass>>
    BY DEF LinkStore
<1>2. /\ DOMAIN checked = DOMAIN firstPass /\ checked[s] = firstPass[s] /\ IsStore(checked[s])
      /\ \A x \in DOMAIN checked : InPlace(x)
      /\ DOMAIN result = {x \in linked : RefsOf(firstPass[x].props) \subseteq DOMAIN firstPass}
    BY <1>1 DEF ValidateInv, Linked, InPlace
<1>3. firstPass[s] = First(s) /\ First(s).migration = conf[s].migration
    BY <1>1, <1>2, FirstStore DEF ValidateInv, Walked
<1>4. Walked'
    BY <1>1 DEF Walked, ValidateInv, First
<1>5. RefsLive(s) <=> RefsOf(firstPass[s].props) \subseteq DOMAIN firstPass
    BY <1>2 DEF RefsLive
<1>6. CASE ~RefsLive(s)
  <2>1. UNCHANGED <<result, checked>>
      BY <1>6 DEF LinkStore
  <2>2. Linked'
    <3>1. \A x \in DOMAIN checked : InPlace(x)'
        BY <1>1, <1>2, <2>1 DEF InPlace
    <3>2. DOMAIN result' =
            {x \in linked' : RefsOf(firstPass'[x].props) \subseteq DOMAIN firstPass'}
        BY <1>1, <1>2, <1>5, <1>6, <2>1
    <3> QED BY <1>1, <2>1, <3>1, <3>2 DEF Linked, ValidateInv
  <2>3. Results'
      BY <1>1, <2>1 DEF Results, Linking, FixedIn, ValidateInv
  <2> QED BY <1>4, <2>2, <2>3 DEF ValidateInv
<1>7. CASE RefsLive(s)
  <2>1. PICK tasks \in SortedTasks(checked[s].migration) :
            LET store == [Merged(s) EXCEPT !.migration = Pruned(tasks)] IN
            /\ result' = With(result, s, store)
            /\ checked' = [checked EXCEPT ![s].props = store.props, ![s].filters = store.filters]
      BY <1>7 DEF LinkStore
  <2> DEFINE store == [Merged(s) EXCEPT !.migration = Pruned(tasks)]
  <2>2. /\ IsStore(Merged(s)) /\ Merged(s).type = checked[s].type
        /\ s \in DefaultStores => Merged(s) = checked[s]
    <3>1. CASE s \in DefaultStores
        BY <1>2, <3>1 DEF Merged
    <3>2. CASE s \notin DefaultStores
        BY <1>1, <1>2, <3>2, MergedExact
    <3> QED BY <3>1, <3>2
  <2>3. /\ store.type = firstPass[s].type /\ store.props = Merged(s).props
        /\ store.migration = Pruned(tasks)
      BY <1>2, <2>2 DEF IsStore
  <2>0. /\ result' = With(result, s, store)
        /\ checked' = [checked EXCEPT ![s].props = store.props, ![s].filters = store.filters]
      BY <2>1
  <2> HIDE DEF store
  <2>4. /\ result' = [x \in DOMAIN result \cup {s} |-> IF x = s THEN store ELSE result[x]]
        /\ checked' = [x \in DOMAIN checked |->
                IF x = s THEN [checked[s] EXCEPT !.props = store.props, !.filters = store.filters]
                ELSE checked[x]]
    <3>1. result' = [x \in DOMAIN result \cup {s} |-> IF x = s THEN store ELSE result[x]]
        BY <2>0 DEF With
    <3> DEFINE once == [checked EXCEPT ![s].props = store.props]
    <3>2. /\ DOMAIN once = DOMAIN checked
          /\ \A x \in DOMAIN checked :
                once[x] = IF x = s THEN [checked[s] EXCEPT !.props = store.props] ELSE checked[x]
        BY <1>1
    <3>3. checked' = [once EXCEPT ![s].filters = store.filters]
        BY <2>0
    <3> HIDE DEF once
    <3>4. checked' = [x \in DOMAIN checked |->
                IF x = s THEN [once[s] EXCEPT !.filters = store.filters] ELSE checked[x]]
        BY <1>1, <3>2, <3>3
    <3>5. [once[s] EXCEPT !.filters = store.filters] =
            [checked[s] EXCEPT !.props = store.props, !.filters = store.filters]
        BY <1>1, <3>2
    <3> QED BY <3>1, <3>4, <3>5
  <2>5. Linked'
    <3>1. ASSUME NEW x \in DOMAIN checked PROVE InPlace(x)'
      <4>1. CASE x = s
        <5>1. checked'[s] = [checked[s] EXCEPT !.props = store.props, !.filters = store.filters]
            BY <1>1, <2>4
        <5>2. /\ IsStore(checked'[s]) /\ checked'[s].type = checked[s].type
              /\ checked'[s].migration = checked[s].migration /\ checked'[s].props = store.props
            BY <1>2, <5>1 DEF IsStore
        <5>3. s \in DefaultStores => checked'[s].props = firstPass[s].props
            BY <1>2, <2>2, <2>3, <5>2
        <5> QED BY <1>1, <1>2, <4>1, <5>2, <5>3 DEF InPlace
      <4>2. CASE x # s
          BY <1>1, <1>2, <2>4, <4>2 DEF InPlace
      <4> QED BY <4>1, <4>2
    <3>2. DOMAIN checked' = DOMAIN checked /\ DOMAIN result' = DOMAIN result \cup {s}
        BY <2>4
    <3>3. DOMAIN result' =
            {x \in linked' : RefsOf(firstPass'[x].props) \subseteq DOMAIN firstPass'}
        BY <1>1, <1>2, <1>5, <1>7, <3>2
    <3> QED BY <1>1, <3>1, <3>2, <3>3 DEF Linked, ValidateInv
  <2>6. s \notin DefaultStores => FixedIn(s)'
    <3> SUFFICES ASSUME s \notin DefaultStores PROVE FixedIn(s)'
        OBVIOUS
    <3>1. result'[s].props = Merged(s).props /\ firstPass[s].type = checked[s].type
        BY <1>2, <2>3, <2>4
    <3>2. \A d \in DOMAIN firstPass :
            d = "_default" \/ TypedDefault(d, firstPass[s].type) =>
                d \in DOMAIN checked /\ checked[d].props = firstPass[d].props
        BY <1>2 DEF InPlace, DefaultStores, TypedDefault
    <3> QED BY <1>1, <1>2, <3>1, <3>2, MergedExact DEF FixedIn
  <2>7. Linking(s)'
      BY <1>1, <1>2, <1>3, <2>1, <2>3, <2>4, <2>6 DEF Linking
  <2>8. ASSUME NEW x \in DOMAIN result, x # s PROVE Linking(x)'
      BY <1>1, <2>4, <2>8 DEF Linking, FixedIn, ValidateInv, Results
  <2>9. Results'
      BY <2>4, <2>7, <2>8 DEF Results
  <2> QED BY <1>4, <2>5, <2>9 DEF ValidateInv
<1> QED BY <1>6, <1>7

LEMMA ValidateInvNext == ValidateInv /\ [ValidateNext]_validateVars => ValidateInv'
<1> SUFFICES ASSUME ValidateInv, [ValidateNext]_validateVars PROVE ValidateInv'
    OBVIOUS
<1>1. CASE UNCHANGED validateVars
    BY <1>1
    DEF validateVars, ValidateInv, Walked, Linked, Results, First, InPlace, Linking, FixedIn
<1> QED BY <1>1, LoadFromProvidersInv, CheckStoreInv, LinkStoreInv DEF ValidateNext

LEMMA ValidateAlways == ValidateSpec => []ValidateInv
BY ValidateInvInit, ValidateInvNext, PTL DEF ValidateSpec
-----------------------------------------------------------------------------
(* What Validate promises *)

\* The passes go over what there is, and a store that stays has a type the code knows.
THEOREM ValidateTyped == ValidateSpec => []ValidateTypeOK
<1>1. ASSUME ValidateInv PROVE ValidateTypeOK
  <2>1. \A s \in DOMAIN checked : checked[s].type \in StoreTypes
      BY <1>1, FirstStore DEF ValidateInv, Walked, Linked, InPlace
  <2>2. DOMAIN firstPass \subseteq seen /\ DOMAIN result \subseteq linked
      BY <1>1 DEF ValidateInv, Walked, Linked
  <2> QED BY <1>1, <2>1, <2>2 DEF ValidateTypeOK, ValidateInv, Walked, Linked
<1> QED BY <1>1, ValidateAlways, PTL

\* process.go:187-246: for any configuration and any order of the two walks, the stores that stay
\* are those with valid properties that refer only to stores with valid properties.
THEOREM SurvivorsExact == ValidateSpec => []Survivors
<1>1. ASSUME ValidateInv, Validated PROVE Survivors
  <2>1. DOMAIN firstPass = {s \in DOMAIN conf : PropsValid(Typed(conf[s]).props)}
      BY <1>1 DEF Validated, ValidateInv, Walked
  <2>2. DOMAIN result = {s \in DOMAIN firstPass :
                            RefsOf(firstPass[s].props) \subseteq DOMAIN firstPass}
      BY <1>1 DEF Validated, ValidateInv, Linked
  <2>3. \A s \in DOMAIN firstPass : firstPass[s].props = NormalProps(Typed(conf[s]).props)
      BY <1>1, <2>1, FirstStore DEF ValidateInv, Walked
  <2> QED BY <2>1, <2>2, <2>3 DEF Survivors
<1>2. ValidateInv => Survivors
    BY <1>1 DEF Survivors
<1> QED BY <1>2, ValidateAlways, PTL

\* process.go:248-287, 352-491: for any default stores and any order of the walks, a store has
\* the properties that its default stores fix as they declare them.
THEOREM DefaultsFixed == ValidateSpec => []FixedDefaults
<1>1. ASSUME ValidateInv PROVE FixedDefaults
  <2>1. \A s \in DOMAIN result \ DefaultStores : result[s].type = firstPass[s].type /\ FixedIn(s)
      BY <1>1 DEF ValidateInv, Results, Linking
  <2> QED BY <2>1 DEF FixedDefaults, IsDefault, IsTypedDefault, FixedIn, TypedDefault
<1> QED BY <1>1, ValidateAlways, PTL

\* process.go:290-318: for any tasks, however the sort orders those of one version, what is left
\* ascends, has scripts, and has every version that is not -99 and all of whose tasks have one.
THEOREM MigrationsKept == ValidateSpec => []MigrationsExact
<1>1. ASSUME ValidateInv, NEW s \in DOMAIN result
      PROVE  LET given == {conf[s].migration[i] : i \in DOMAIN conf[s].migration}
                 kept == result[s].migration
             IN  /\ \A i \in DOMAIN kept : kept[i] \in given /\ kept[i].script
                 /\ \A i, j \in DOMAIN kept : i < j => kept[i].version < kept[j].version
                 /\ \A t \in given :
                     t.version # -99 /\ (\A u \in given : u.version = t.version => u.script) =>
                         \E i \in DOMAIN kept : kept[i] = t
  <2> DEFINE migration == conf[s].migration
             given == {migration[i] : i \in DOMAIN migration}
             kept == result[s].migration
  <2>1. migration \in Seq(Tasks)
      BY <1>1 DEF ValidateInv, Walked, Linked, IsStore
  <2>2. PICK tasks \in SortedTasks(migration) : kept = Pruned(tasks)
      BY <1>1 DEF ValidateInv, Results, Linking
  <2> HIDE DEF migration
  <2>3. /\ tasks \in Seq(Tasks)
        /\ \A i, j \in DOMAIN tasks : i < j => tasks[i].version <= tasks[j].version
        /\ {tasks[i] : i \in DOMAIN tasks} = given
      BY <2>1, SortedExact
  <2> HIDE DEF given
  <2>4. /\ \A i \in DOMAIN kept : kept[i] \in given /\ kept[i].script
        /\ \A i, j \in DOMAIN kept : i < j => kept[i].version < kept[j].version
      BY <2>2, <2>3, PrunedExact
  <2>5. ASSUME NEW t \in given, t.version # -99,
               \A u \in given : u.version = t.version => u.script
        PROVE  \E i \in DOMAIN kept : kept[i] = t
    <3>1. \A i \in DOMAIN tasks : tasks[i] \in given
        BY <2>3
    <3> QED BY <2>2, <2>3, <2>5, <3>1, PrunedExact
  <2> QED BY <2>4, <2>5 DEF given, migration
<1>2. ValidateInv => MigrationsExact
    BY <1>1 DEF MigrationsExact
<1> QED BY <1>2, ValidateAlways, PTL
=============================================================================

# A verification development of blank-sr

blank-sr is the service registry of the Blank platform: one Go process that the other
services of an installation connect to over WAMP (web sockets). It keeps the list of
services, a distributed mutex, the users' sessions, the configuration of the stores, a
small shared key/value map and the library archives. Everything a client does is an RPC;
the vendored WAMP server (`wango`) runs **every call in a goroutine of its own**, runs the
close callback of a lost connection while calls of that connection may still be in flight,
and does not recover a panic of a call, which then ends the process. (A subscription and the
close callback run in the goroutine of the web socket, where `net/http` recovers a panic: only
that connection is lost.) Most of what can go wrong in this program comes
from those three facts, and that is what the models are about.

## 1. Inventory

Paths are relative to `src/`.

| Component | State | Operations | What makes it correct |
|---|---|---|---|
| Distributed mutex, `sync/mutex.go` | `lockers`, `lockersCounters`, `owners2Lockers`, one channel per locker, all but the channels under `mutexLocker` | `Lock`, `Unlock`, `UnlockForOwner` | mutual exclusion; a lost connection leaves nothing locked; the receive inside `mutexLocker` never blocks; every `Lock` is served; lockers are deleted exactly when unused |
| Service registry, `registry/registry.go` with the callbacks of `main.go` | `services` under `locker`; the subscribers of the topic `registry` | `Register`, `Unregister`, `GetAll`, create and delete handlers, publish | a lost connection's services go, the others stay; every change reaches every subscriber; a lost router's client connections are wiped |
| Session store, `sessionstore/sessionstore.go` | `sessions` under `locker`, each `Session` under its own lock, the bolt bucket `__sessions` | `New`, `AddSubscription`, `DeleteConnection`, `DeleteSubscription`, `Delete`, `DeleteAllForUser`, `DeleteAllConnections`, watcher, `Init` | a session is never lost and a deleted one never comes back, through crashes too; map and database agree; nothing panics |
| Once, `sync/once.go` | `oncers` under `onceLocker`, one timer per id | `Once` | one winner per id and minute |
| Configuration, `config/` | `config` under `confLocker`, `config.json`, cached settings | `Init`, `ReloadConfig`, `Validate`, `Get`, `JWTTTL` | which stores stay, and what they get from the default stores, does not depend on the order of Go's maps; file and memory agree after a post that had the file to itself, and the configuration in memory gets published; a crash between posts does not prevent the next start |
| Local storage, `localstorage/localstorage.go` | a bolt bucket, under a lock | `GetItem`, `SetItem`, `RemoveItem`, `Clear`, which only starts a goroutine | an item stays until it is removed, unless a `Clear` is under way; a `Clear` works in the end |
| Session feed, `main.go` 140-146, `handlers.go` 259-265, `GetAll` | the subscribers of the topic `sessions`, the goroutines of events not yet published | `GetAll` on subscription, the update and delete handlers, publish | no gap between the list a subscriber gets and the events that follow |
| Library and assets, `main.go`, `handlers.go` | `lib.zip`, `assets.zip`, in-memory file systems | post and get | what is served is the last post; a published update is visible |
| RSA keys, `sessionstore.go` 437-524 | key pair, three files | load or generate at start | tokens can be signed after any start |
| bolt wrapper `bdb/`, WAMP server `vendor/.../wango`, helpers | a database; connections and subscribers | used by the others | see the components that use them |

How they interact: `main.go` wires the callbacks. Losing a connection calls
`registry.Unregister` and then `sync.UnlockForOwner`; unregistering a router starts
`sessionstore.DeleteAllConnections` in a goroutine; changes of the registry, the sessions
and the configuration are published to the subscribers of a topic, each message from a
goroutine of its own. A subscription is answered with a snapshot while wango holds
`subscribersLocker`.

Hard behaviours: calls that fetched an object before it was deleted and use it after; callbacks
that overtake calls; reads that happen after the lock of the change was released; a crash
between a write to the database and one to the map; a channel receive inside a critical
section; a panic in the goroutine of a call, which ends the process. `PROJECT.json` lists them
one by one under `hazards`, with the line where each bites.

## 2. Plan

The most important behaviour came first, and every item is done:

1. `LockService` (abstract) and `Mutex` (detailed), `MCMutex`; `MutexProofs`, `MutexSafety`.
2. `Registry` with wango's subscriptions, `MCRegistry`; `RegistryProofs`.
3. `SessionStore` with its database, crashes and panics, `MCSessionStore`;
   `SessionStoreProofs`.
4. `Config`: what `Validate` makes of the stores, over every order of its maps;
   `ConfigProofs`.
5. `ConfigReload`: concurrent posts, the file, crash and restart, the panic with `confLocker`
   held; `ConfigReloadProofs`.
6. `Once` and `LocalStorage`, small modules with a clock and with a crash;
   `ServicesProofs`.
7. `LibServer`: concurrent posts, publish before reload; `LibServerProofs`.
8. `SessionFeed`: the session store as its subscribers see it, proved in `ServicesProofs`.
9. `Services`, which puts 4 to 8 side by side for one run, `MCServices`.
10. The proof that `Mutex` implements `LockService`, in `MutexSafety`.
11. `SessionService`, the one-copy store that `SessionStore` implements, and the proof of it, in
    `SessionStoreProofs`.

What could follow: the events of `SessionFeed` as part of `SessionService`; the version number
`__v` of sessions; a model of the three key files.

## 3. The modules and the code

### Mutex and LockService

`Lock` takes the locker of an id from the map under `mutexLocker`, counts itself, leaves the
critical section and *then* sends to the locker's channel of capacity 1; `Unlock` receives
inside the critical section. The model keeps those steps apart:

| Code | Action |
|---|---|
| `sync.lock` call arrives; critical section of `Lock` | `CallLock`; `LockFound`, `LockNew` |
| `l.ch <- struct{}{}` | `SendBuffer`, `SendQueue`, `SendHandOff` to a blocked receiver |
| `Unlock` | `UnlockNotFound`, or `UnlockReceive` (the receive, three cases of a Go channel) and `UnlockFinish` (counter, list, map) |
| `UnlockForOwner` | `UnlockForOwnerBegin`, then `...Receive`/`...Count` for each entry, `...End`; `...Panic` for the nil locker |
| web socket opened, lost | `Connect`, `Drop` |

`mutexLocker` is a variable only while it is held over a step that may block (the receive);
critical sections without such a step are one action. The channel's buffer holds the name of
the client whose token it is: a ghost, no action reads it. A list of ids per owner is kept
as the number of entries of each id, since the code only appends, removes all entries of an
id, or visits all of them.

`Environment` says what clients may do beyond locking and then unlocking: be dropped with a
call in flight, share a connection *and* an id, or unlock what they do not hold. The data
structure's own invariants (`CounterExact`, `NoOrphanWaiter`) hold in every environment; the
promises to clients hold for `Environment = {}`, and `LockService` states them as an abstract
specification: requests, grants, hand-over, and a connection whose clients finish at once.

### Registry

`services` is kept as the number of entries of each type and connection: order and contents
are only read by `FSAddress`, which has no caller. The content of a snapshot is its version,
the number of changes so far. `CallRegister`/`Register` are the arrival of the call and the
locked append; `ReadAll` and `Publish` are the two halves of the handlers of `main.go`
122-138, one in the goroutine of the call, one in a goroutine of its own, which for a router
runs `Wipe` first. `Subscribe`/`Subscribed` are the two ends of wango's
`handleSubscribe`, which holds `subscribersLocker` in between and keeps `Publish` and `Close`
out. `Close` is the loss of the connection up to the callback, `Unregister` the callback.
`routed` stands for the connections the session store lists on behalf of a router.

### SessionStore

Every call of `New` makes a different member of `Sessions`; `Key` gives the API key it uses,
so two sessions with one key model a key that the caller reuses. A worker is the goroutine of
one update call:

| Code | Action |
|---|---|
| `New` | `New` |
| `GetByAPIKey` in the handler | `Fetch` |
| `s.Lock()` and the search in `s.Connections` | `LockSession` |
| the assignment to `s.Connections`, or the early return | `Change`, `NotSubscribed` |
| `copySession`: `len`, then the elements | `Measure`, `Copy` |
| `db.Save`, and `len` of the second `copySession` | `Write` |
| the second `copySession`'s elements, for the event; `s.Unlock()` | `CopyEvent` |
| `Delete`: the record, then the map | `DeleteByKey` or `DeleteAllForUser`, `DeleteFromDb`, `DeleteFromMap` |
| `DeleteAllConnections` under `locker` | `StartWipe`, and for each session `WipeClear`, `WipeMeasure`, `WipeCopy`, `WipeWrite` |
| `clearRottenSessions`, `loadSessions` | `ClearRotten`, `Start` |
| index out of range in either copy, or in a cut | `Panic`: the process is gone |

`DeleteAllConnections` does not take the sessions' own locks, so the wipe interleaves with
every step of a worker. A slice is read and written atomically here: torn slice headers are
not modelled, the length that is stale when the elements are read is. The assignment of
`AddSubscription` reads the list once more before it appends: with a wipe in between, `Change`
appends to the list that was searched or to the emptied one. The TTL passes at any
moment (`Expire`); `ClearRotten` and `New` are one action each because `locker` is held
throughout and each of their database steps commutes with the other goroutines' steps.

With `Environment = {}` calls on one session do not overlap, except updates with updates and
deletions with deletions; the three flags let deletions, wipes and reused keys overlap.

`SessionService` says what the store then promises: one copy of each session, which `Make`,
`Expire`, `Remove`, `Wipe` and `Restart` change in one step each, and which an update changes
between `Ask` and `Answer`, exactly as it was asked to, so that no update undoes another. The
refinement mapping is at the end of `SessionStore`. The copy is the database without the
expired sessions (`SavedSessions`), as that is what survives a crash; an update takes effect in
the step that saves it, a deletion in the one that deletes the record, and what happens in the
map alone is a stutter, as is the copy for the event after the save. A session's expiry hides
it at once, although its record stays until the watcher comes, and although an update in flight
may write it once more after that.

### SessionFeed

Of the store only the set of its sessions matters here. `NewSession`, `UpdateSession`,
`DeleteSession` and `ExpireSession` change it and start the goroutine of an event (the watcher
of expired sessions starts none). A subscription is three steps with `subscribersLocker` held:
`CountSessions` (the first line of `GetAll`, before it takes `locker`), `ListSessions`, and
`AddSubscriber`; a subscriber may subscribe again. `ListPanics` is the other way the list may
end, when there are more sessions by then and the index runs off the slice: `net/http` recovers
the panic, the locks are released by their defers, and the subscribing connection is lost, alone.
`PublishEvent` needs `subscribersLocker` too. `Restart` is the loss of the process.

### Once and LocalStorage

`CallOnce` is a call that wins (a refused one leaves no trace), `Forget` the timer's function,
which may run late, `OnceTick` the clock: a minute is `Minute` ticks. `OnceRestart` loses map and
timers.

Every transaction of bolt is one action on `stored`: `SetItem`, `RemoveItem`. `Clear` answers at
once and counts one more goroutine in `clearing`; `RunClear` is that goroutine, and
`StorageRestart` loses it. Keys bolt refuses (`Unstorable`) are reported as saved, since
`bdb.Save` shadows its error. `lastSet`, `threatened` and `doomed` are history.

### LibServer

A request goes through `PostLib`, `CreateLib` or `CreateLibFails` (`os.Create`), `WriteLib` or
`WriteLibFails`, `GetForLib` (`config.Get`, which waits for `confLocker`), `PublishLib` (which
waits for `subscribersLocker`), `ReadLib`, `SwapLib`; `LibCrash` and `LibStart` frame the process.
`OthersLock` and `OthersUnlock` are the rest of the program, which may hold either lock at any
time and for ever. No lock covers
the file, so two requests interleave at every step. A file is its content and its length: an
archive written over a longer one leaves that one's end behind (`TornFile`), and the zip reader
may or may not open that. `/assets` runs the same code on a file of its own.

### ConfigReload

A post goes through `PostConfig`, `OpenConfig` and `WriteConfig` (under no lock),
`AskProviders`, `LoadCommonSettings`, `LoadServerSettings`, `SwapConfig` (one critical section
of `confLocker` each), `TakeConfig` (the read of `config` after the unlock) and
`PublishConfig`. A file that cannot be opened (`OpenConfigFails`) or written
(`WriteConfigFails`) is logged, and the post goes on. A post without server settings leaves the
cached lifetime as it is (`CacheAfter`). `SwapPanics` is `Validate` following a null migration
task with `confLocker` held: the HTTP handler recovers, `stuck` stays. `AskTtl`/`JWTTTL` and
`AskConfig`/`GetConfig` are the readers, the second with `subscribersLocker` held.
`CrashConfig` and `StartConfig` are the process: no start with a file that does not parse or
that `Validate` panics on.

### Config

`LoadFromProviders` adds their stores; `CheckStore` is one iteration of the first loop of
`Validate`, `LinkStore` one of the second, in any order, since both range over maps. `Valid`
and `Normal` are `validateProps` and the `check...`/`clear...Params` helpers, `Overlay`,
`LoadDefaults`, `MergeFilters` and `MergeAccess` the merge helpers, `SortedTasks` and `Pruned`
the migrations. The loop that removes tasks from the slice while it walks it from its end
decides on each task by itself, since `prevVer` is the version of the task after it whether
that one stays or not: `Runnable` are the positions that stay, `Only` puts them together. A
merge changes the maps that the other stores still read, which is why `LinkStore` writes
`checked` as well as `result`. Of a property the attributes are kept that decide whether it is
valid and those that are merged in different ways.

### Services

The services `Once`, `LocalStorage`, `LibServer`, `SessionFeed`, `ConfigReload` and `Config` have
no variable in common. A behaviour of all of them together violates a property of one exactly if
its projection on that one does, so `Services` lets each behaviour exercise one service, its
`focus`, and TLC visits the sum of their state spaces and not the product. Two locks
of the code are shared by them, and each module has what the others may do with them:
`LibServer` waits for `confLocker` and wango's `subscribersLocker`, which others may hold as long
as they like (`othersHold`); `ConfigReload` has `confLocker` with all its users but the library's
short read, and of `subscribersLocker` the subscriptions that wait for `confLocker` with it;
`SessionFeed` has `subscribersLocker` for its own topic, and since only safety is stated of it,
others may hold that lock as long as they like.

## 4. The runs

| Run | Question | Instance |
|---|---|---|
| `mutex_disciplined` | Do disciplined clients get what `LockService` promises? Also: no blocked receive, no leftovers of a lost connection, lists exact, no deadlock. | 4 clients, two of them on one of 3 connections, 2 ids, 2 lockers |
| `mutex_served` | Is every `sync.lock` served? | 3 clients on their own connections, 1 id, fairness |
| `mutex_any` | Do counters and lockers stay right whatever clients and network do? | 3 clients, 2 connections, 2 ids, all flags |
| `mutex_dropped` (violation) | Is there mutual exclusion when connections are lost with calls in flight? | as above, one flag |
| `mutex_shared` (violation) | Does a lost connection unlock everything when its clients share an id? | as above, one flag |
| `registry_orderly` | Do lost services go, changes arrive, lost routers get wiped? | 2 services, 1 watcher, 2 types, fairness |
| `registry_any` | Do open connections keep their services, and is no update lost, in any order? | the same, each may register both types and be lost at any time |
| `registry_ghost` (violation) | Does `Unregister` remove everything of a lost connection? | the same |
| `sessions_separate` | Is deletion final, do map and database agree, is a wipe complete, does nothing panic, and is the whole an implementation of `SessionService`, when calls on one session do not overlap? | 3 sessions, 2 keys (one reused), 2 workers, 1 crash |
| `sessions_overlapping` | Is no session lost, and is an expired one gone in the end, whatever overlaps? | 2 sessions in turn under one key, 1 worker, 1 crash, any panics, fairness |
| `sessions_resurrected` (violation) | Is a deleted session gone when an update was in flight? | the same |
| `services` | Each service in turn: one winner per id, no lost item, the archive posted is the one served, no gap in the sessions feed, file and memory agree after posts and crashes, readers are answered, and `Validate` keeps, merges and prunes what it should. | 2 ids, items, uploads, posters, sessions; 1 subscriber, 1 reader; 3 archives and 3 configurations; some 900 configurations to validate |

Why the bounds are enough to be interesting. Two clients of one connection and two of
others are needed for the cases in which the owner of a lock and its user differ; with two ids
a list has an entry to keep and one to remove; two lockers are needed for a locker to be
deleted and made again while an old one is still referred to. Two providers of which both may
be routers let a change race with a change, and a watcher that subscribes at any moment
races with both. Two sessions under one key are the reuse of a key, the third gives a wipe
and `DeleteAllForUser` a second session (it and the first differ only in name, which `Alike` uses:
they have different keys and one user); two workers contend for a session's lock; one crash
is enough to make everything that is only in memory disappear at any point. `MaxEntries`,
`MaxRegister`, `MaxDeletes` and `MaxCrashes` bound what is unbounded in the code; each is a
guard of the action it bounds.

In `services`, `Minute = 3` leaves a timer the time to be late by a tick, and by more. Two
goroutines of `clear`, uploads or posts at once show every overlap of two; a third post comes
after both. One archive is longer than the others, so that a short one written over it is torn,
and one is no zip file; one configuration gives all settings, one a `jwtTtl` that is no time,
one none and a null task. Limits of a property may be no numbers (`NotANumber`). `MaxPending =
2` lets an event overtake one of its own kind. `SomeConfs` holds, for each store type that
matters, every property that is invalid in one way (`Singles`), references to stores that are
dropped or lead to one (`Chains`), two default stores with the same property (`Layers`) and all
migrations of up to three tasks (`Migrations`), among whose versions is -99, the value
`prevVer` starts with.

`CHECK_DEADLOCK FALSE` is given where the system may really stop: after the bound of
connections or sessions is used up, or (`mutex_any`) when a stray unlock blocks inside
`mutexLocker`.

In `services` nothing has to be called at all, so that a behaviour may stop.

What the violations show:

* `mutex_dropped`: a connection is lost while one of its `Lock` calls waits in the send. The
  owner's list names the id, so `UnlockForOwner` receives the token of the client that holds
  it: the waiting call or a third one gets in beside the holder.
* `mutex_shared`: `Unlock` removes *all* entries of the id from the owner's list. When two
  clients of one connection use the id, the second one's lock is no longer listed and
  survives the loss of the connection.
* `registry_ghost`: `unregister` returns after one entry, and a `register` call in flight
  appends after it: the service of a closed connection stays listed.
* `sessions_resurrected`: `Save` writes whatever has happened to the session meanwhile.

### Fairness

`mutex_served`: goroutines that can run do run (weak fairness of every step of a call);
acquiring `mutexLocker` is strongly fair because a `sync.Mutex` hands itself over to a waiter
after one millisecond (its starvation mode). Clients are trusted to unlock what they hold,
without which nobody could be served. `registry_orderly`: the same, with strong fairness for
`Publish`, which needs wango's `subscribersLocker`. `sessions_overlapping`: the watcher ticks
every minute and gets `locker` in turn (strong), a wipe goes on, and a process that is gone
is started again. No client has to call anything. `services`: a timer that has run out and a
goroutine that has been started run in the end, and a request that has begun goes on (weak);
`PublishConfig` is strongly fair, as wango's lock is an `RWMutex`, which lets the readers that
wait when a writer unlocks go first. Readers of the configuration run when `confLocker` is
free. A post to the library waits as long as others hold the locks it needs, and nothing makes
them leave: `ChangeServed` begins after the last of these waits. `SessionFeed` states safety only.

## 5. The proofs

`MutexProofs` proves for any constants that satisfy the two assumptions of `Mutex`, in every
environment, that `TypeOK`, `CounterExact` and `NoOrphanWaiter` are invariants. The induction
needs three more facts, and their conjunction is `IInv`: `QueueShape` (a client in the
queue of a locker is blocked in a send to that locker, and is there once), `HolderShape` (who holds
`mutexLocker`, and for what, agrees with that holder's control state) and `LockersInjective`
(no locker belongs to two ids). `CounterExact` counts the waiting calls of an id: the proof
follows each call into and out of the set `Waiters(id)` and uses the library's facts on
cardinalities. `NoOrphanWaiter` follows from it: a counter that reaches 0 leaves no waiter.

`MutexSafety` proves, under `Environment = {}`, `Exclusion` (mutual exclusion), `NeverBlocks`
(the receive inside `mutexLocker` finds a token) and `Cleanup` (a lost connection leaves no
token and no entry). Its invariant `DInv` adds to `IInv`: `Calls` (clients of one connection
that are busy want different ids), `Tokens` (a token in a channel belongs to a client that
holds or unlocks the id, or to a connection that is being closed; a client that holds an id
has its token; a receive in progress has got one) and `Entries` (the list of an open
connection has exactly the ids its calls use, each once, that of a closing connection only
ids whose token it has, and the copy the range loop visits is the part not yet unlocked).
Exclusion is then that the channel has one place.

`MutexSafety` ends with two theorems from `DInv`, again under `Environment = {}`.
`Implements` is the refinement: initial states map to initial states, and each step of `Mutex`
is a step of `LockService` or a stutter. `Phase` (the abstract state of a client) and `Want` do
not change but for the clients a step moves; the lemmas `AsRequest`, `AsGrant`, `AsFinish` and
`AsTakeBack` say what has to be shown for each kind of abstract step, `AsStutter` for the others.
`ListsExact` says that a list has its owner's ids when no call is in flight.

`RegistryProofs`. `OpenIsKept` and `NoUpdateLost` hold in every environment, `NoGhostLeft` for
`Environment = {}`. `KeptUntilClosed` extends `OpenKept` to connections still on their way;
`UpdateInv` adds that nobody has read or sent more than there is (`NoneNewer`) and that a
connection in `handleSubscribe` has read the current registry or a handler is still coming;
`OneEach` says what disciplined connections register.

`SessionStoreProofs`. `SessionTypes` holds in every environment. `NoSessionLost` (no session that
`New` returned is lost, crashes included) needs only that keys in use are not reused: its
invariant adds to `Filed` (what is stored under a key has that key) that nobody else works on
the key of a current session (`SoleUser`). The others hold for `Environment = {}`, where calls
on one session do not overlap but updates with updates and deletions with deletions.
`DeletionIsFinal`: whoever deletes is alone (`Apart`), and nobody works on what is deleted
(`GoneForGood`). `NeverPanicked` and `WipeIsComplete`: one worker per session past its lock
(`Locked`), none beside a wipe (`WipeAlone`), so what has been read is still current (`SeenFresh`,
`WipeFresh`), and what the wipe has passed is clean (`StaleGone`). `MapIsSaved`: who works on a
session finds it in the map or there is nothing left to find (`Held`), and apart from the steps
between a change and its save, map and record are equal (`Agrees`).

`ImplementsService`, for `Environment = {}` too, is the refinement of `SessionService`. Its
invariant `Serving` adds to the invariants above how far map and database may differ: a listed
session is the one saved under its key, if any is (`Mine`), and it is saved unless it expired or
is being deleted (`InDb`); what a worker will save is what its call makes of what is saved
(`Intent`, which needs that one worker is past the lock); who deletes was asked to (`Asked`); the
wipe saves an empty list (`WipedEmpty`). Each step is then one of `SessionService` or a stutter,
in a lemma for each. For a session that has expired meanwhile, `ExpiredUnsaved` says that a late
save changes nothing: there was nothing left to lose under its key.

`ConfigProofs`, for any stores in `config.json` and from the providers (`ConfigAssumption` says
only that they are stores). Induction over data is not needed, since what is pruned is defined
position by position. The invariant `ValidateInv` relates the three maps while they are
walked: `Walked` says of the first pass which of the visited stores stay (`SurvivorsExact`) and
what it makes of each; `Linked` says that a store not yet linked is as the first pass left it,
and that the properties of default stores always are, which is why the order does not matter
(`DefaultsFixed`); `Results` that the migrations of a linked store are those of `conf`, sorted and
pruned. `MigrationsKept` rests on lemmas about `Rank` and `Only`: the rank counts the members of a
set of positions up to one of them, is strictly increasing, and so numbers them in their order;
of a version whose tasks all have a script, the last task stays.

`LibServerProofs`, `ConfigReloadProofs`. Both follow the request that has had the file to itself
since it opened it: it is alone, has done what its step says, and leaves file, memory and history
equal (`LibAlone`, `LibProgress`, `LibAtRest`; `Alone`, `Progress`, `AtRest`). From that follow
`LibCorrect`, `ReloadCorrect` and `NextStartFindsFile`; `LibStaysServed` (an action property) and
`CacheIsFresh` need less.

`ServicesProofs`. `OnceCorrect`: an id not in the map was won a minute ago or more
(`FreeIsOld`), and a timer has as many ticks left as its id's minute (`TimersExact`).
`StorageCorrect`: while a goroutine of `clear` waits, every item is threatened. `FeedCorrect` and
`DeletionsArrive`: a subscriber counts from the moment it has its list (`HasList`), although it is
not subscribed yet, since no event is published until it is. These and the modules above are about
the specification of a service by itself. The run checks `Services`, in which by construction one
service acts and the others stand still; the lemma `ServicesCompose` says so, and `ServicesTyped`
uses it to state the six type invariants of the run's specification, which is why the run does not
check them.

The assumptions on constants say that some sets are finite, that bounds are natural numbers, that
functions have the domains they are used on, that a file that is posted is not empty, and that the
marks for nothing (`None`, `Free`, `NoArchive`, `Unset` and so on) are none of the values they are
told from. Every instance the runs check satisfies them, as TLC confirms.

Only model-checked: liveness (`LockGranted`, `UpdateReaches`, `LostRouterWiped`,
`ExpiredCleared`, `FreedAgain`, `ClearWorks`, `ChangeServed`, `AnnouncedLatest`,
`ReadersServed`). `ENABLED`, fairness and induction over data are out of the provers' reach.
Every other property of a passing run is proved for every value of the constants, in the
environments named above.

## 6. What is not modelled, and what to know of the code

Not modelled:

* The contents of services, sessions and subscriptions beyond what properties tell apart; the
  field `__v`; subscriptions within a connection; the order in which published messages arrive
  (each is sent by its own goroutine, so the code orders nothing).
* Failing writes of sessions to bolt: nothing in the code reacts to them.
* Data races below the granularity of one read or write of a variable, except the stale
  length in `copySession`. `GetAll`'s list of live pointers is marshalled without a lock: at
  worst the process aborts, which the crashes of `SessionStore` and `SessionFeed` allow at any
  point.
* The providers' data: `Config` adds some stores, `ConfigReload` takes them for part of a post.
* `NODE_ENV=DEV`, with which `Init` goes on without a configuration when `config.json` does not
  parse, where it otherwise ends the process.
* RSA keys, JWT contents, JSON, HTTP: no state of their own after the start.
* `utils/array`, `utils/rgx` and the query functions of `bdb`, which the service never calls;
  heartbeats and encodings of wango.

The code does these things, and the models do them too; a maintainer may not expect them:

* `min` without `max` is rejected unless `min` is 0 or less, as an unset limit counts as 0
  (`MinMaxValid`), and so is a limit that is no `float64`; integers that a provider does not
  return as `float64` are no default.
* References are checked against the stores the *first* pass kept. A store that is dropped by
  the second pass may stay referred to, and a merged property may be invalid or refer to
  nothing.
* A migration task with a script is dropped when one of its version without a script comes
  later; a last task of version -99 is taken for a duplicate (`Pruned`).
* `_defaultNotifications` merges access lists and not filters; `_defaultCampaign` is never
  loaded.
* Concurrent posts, or a crash during one, can leave a torn `config.json`, and the next start
  ends there; `FileWhole` excludes exactly these cases.
* A post with a null migration task panics with `confLocker` held: posts, `session.new` and
  subscriptions to `config` hang from then on, a hanging subscription keeps
  `subscribersLocker`, so that nothing is published any more, and the next start panics on the
  file too. A post to `/lib` then replaces its file and hangs before it has loaded it. A post of
  JSON `null` panics at `process.go` 89 when a provider has a store to add,
  after the file has been overwritten, but with its unlock deferred; it is not modelled.
* A setting that a post does not give keeps its old value until the restart, when it becomes
  the default.
* Expired sessions leave without a `deleted` event.
* An item set after `clear` has returned may be wiped by it.

# starlette-web in TLA+

A verification project for starlette-web, an asynchronous web framework on top of
Starlette: TLA+ models of its concurrent components, TLC configurations that check
them on small instances, and proofs, checked by TLAPS, that hold for every instance.
Paths are relative to `src/starlette_web/` unless they begin with `docs/`.

## The system

One process runs one event loop (anyio over asyncio) in which requests, websocket
connections and background tasks interleave at every `await`. Several processes share a
database, a cache directory, a Redis server or a crontab. The components:

| Component | State | Operations | Hard to test |
|---|---|---|---|
| File lock, `common/files/filelock.py` | a lock file (existence, mtime, pickled timeout); per object the flags and the timeouts it has seen | enter, poll, create, take over, release, finalise | several processes, crash at any point, leases that lapse, finalisers |
| File cache, `common/files/cache.py` | one file per key, a manager lock | get, set, delete, clear, keys, on one or many keys | operations that outlive the one-second manager lease, a crash inside |
| Caches, `common/caches`, `contrib/redis/cache.py`, `redislock.py` | a dictionary with deadlines, or Redis keys; a key per named lock | the same; enter and leave a lock | per-key locking in the many-key calls, lost replies, expired locks |
| Channels, `common/channels`, `contrib/{redis,postgres}/channel_layers.py` | subscribers per group, a manager lock, the layer's subscriptions, the event in flight | publish, subscribe, iterate, leave, connect, disconnect | subscriber set changing under the listener, cancellation, lost connections, exits that raise |
| Authentication, `contrib/auth` | accounts, sessions with a rotating refresh token, invitations | sign-in, refresh, sign-out, sign-up, invite, reset, use | overlapping transactions on one row |
| HTTP endpoint, `common/http/base_endpoint.py` | the transaction of the request | authenticate, permissions, handler, commit, rollback, respond | failure between commit and response, a commit whose answer is lost |
| Database access, `common/database` | connections, rows | filter, get, create, update, get-or-create | look first, write later |
| WebSocket endpoint, `common/ws/base_endpoint.py` | a task group per connection | connect, receive, background handlers, disconnect | one failing handler cancels the rest, clean-up inside a cancelled scope |
| Constance, `contrib/constance` | dynamic settings in a table | get, mget, set | concurrent first write of a key |
| Scheduler, `contrib/scheduler` | the crontab | add, remove, show, run | read, change and write back without a lock |
| Start-up and settings, `common/app.py`, `common/conf` | registered apps, lazy settings | initialise, check, start, stop | partial registration |
| Permissions, utilities, camelCase, passwords, renderers, email, admin, apispec, static files, commands | little or none | pure functions, or glue | - |

They meet at few places. The file cache guards its operations with a file lock, and both
it and the Redis cache hand named locks to applications. A websocket handler subscribes to
a channel and is cancelled with its connection, which is how a channel loses subscribers at
arbitrary points. An HTTP endpoint wraps every handler in a database transaction, which is
what the authentication views rely on.

What makes each of them correct: a lock has one holder whose lease has not lapsed, and a lock
that is free can be had; a subscriber gets every event of its group after its subscription,
once and in order, and the layer is subscribed exactly to the groups somebody listens to,
while it is connected; a refresh token works once, and a session that is closed stays closed;
no request waits forever; a cache answers what was last stored under a key and has not
expired; a websocket connection ends with all its handlers, leaves nothing registered and
loses no error. `PROJECT.json` lists the hazards, each at its line, with the properties that
cover it or the reason none does yet.

## Modules

| Module | Models |
|---|---|
| `LeaseLock` | the abstract lock with a lease: what any named lock of the framework promises |
| `FileLock` | `FileLock` of `filelock.py`, with its properties and the mapping to `LeaseLock` |
| `FileLockInvariant` | the inductive invariants of `FileLock`, for agreed timeouts and for any |
| `FileLockProofs` | the theorems about `FileLock` |
| `Channel` | `Channel` and `Subscriber` with the in-memory, Redis and PostgreSQL layers |
| `ChannelInvariant` | the inductive invariant of `Channel` |
| `ChannelProofs` | the theorems about `Channel` |
| `AuthSessions` | the sessions of an account, and the request transactions that read and write them |
| `AuthSessionsInvariant` | the inductive invariant of `AuthSessions` |
| `AuthSessionsProofs` | the theorems about `AuthSessions` |
| `KeyValueStore` | the abstract store with deadlines: what every cache, and constance, promises |
| `StoreCalls` | what the four stores share: entries, the clock, the calls their callers are in |
| `FileCache` | `FileCache` of `common/files/cache.py`, on top of `LeaseLock` |
| `LocalMemoryCache` | `LocalMemoryCache` of `common/caches/local_memory.py` |
| `RedisCache` | `RedisCache` of `contrib/redis/cache.py`, with the server and the connection |
| `ConstanceDatabase` | the database backend of `contrib/constance`, with `async_create_or_update` |
| `Stores` | the four together, each mapped to `KeyValueStore`, with the properties |
| `StoresInvariant` | the inductive invariant of `Stores` |
| `StoresProofs` | its proof, and the theorems about errors and cancellation |
| `StoresPromiseProofs` | the theorems that each store keeps the promise of `KeyValueStore` |
| `RedisLock` | `RedisLock` of `contrib/redis/redislock.py`, with the mapping to `LeaseLock` |
| `RedisLockProofs` | the theorems about `RedisLock` |
| `WSEndpoint` | one connection to a `BaseWSEndpoint`, with its properties and inductive invariant |
| `WSEndpointProofs` | the theorems about `WSEndpoint` |
| `MCFileLock`, `MCChannel`, `MCAuthSessions`, `MCStores`, `MCWSEndpoint` | the instances TLC checks |

`Stores` composes the four stores and, through `FileCache`, the abstract lock; `FileLock`
and `RedisLock` are each shown to implement that lock.

### FileLock

`file` is the lock file; its `mtime` counts clock ticks of the file system, its content is
the timeout of whoever wrote it (`written` is false between `open` and `write`), and `writer`
is history that no action looks at. `pc` places each lock object: `Enter` is the start of
`__aenter__`; one turn of the loop in `_acquire` is `FindBusy`, `FindFree`, `TakeOver` (lines
112-134) or `FindCorrupt` (an empty file that cannot be unpickled); `Create` and `Write` are
`open` and `pickle.dump`; `Resume` is `__aenter__` going on after the event. `Leave` is the
end of the body, and a turn of `_release` is `ReleaseOwn`, `ReleaseForeign` or
`ReleaseMissing`; `ExitTimeout` is `EXIT_MAX_DELAY`. `GiveUp` is everything that can cut a
wait short, `WriteLost` the end of an acquisition whose file a finaliser elsewhere has
unlinked while it was being made. `Finalize` and `FinalUnlink` are the two system calls of
`__del__`, which takes no lock. `Crash` stops a process anywhere; the manager lock is an
`flock` and dies with it.

The manager lock is not a variable: its critical sections contain no `await`, so each is one
step, except while the file is made, where a finaliser elsewhere can come between the two
system calls. `ManagerFree` says who has it then.

### Channel

`subscribers`, `lock` (the manager lock) and `layerSubs` are the hub's; `listener`, `event`
and `pending` are the listener's loop: it takes an event off `wire`, takes the lock, copies
the subscribers of the group (`Snapshot`), lets go, and hands the event to each over an
unbuffered stream (`Deliver`) until all have it (`Sent`) or one has gone (`SendFails`).
`subscribe()` is a path through `pc`: the first subscriber of a group awaits the layer under
the lock (`StartGroup`, `GroupStarted`), the last to leave does the same in reverse
(`StopGroup`, `GroupStopped`). `CancelJoin` and `LeaveTimeout` cut them short;
`SubscribeFails` and `UnsubscribeFails` are errors of the layer, which may have taken the
call or not (`CallBreaks`); a `finally` clause that raises leaves its subscriber in `raised`.
The initial state chooses the layer. With Redis, a SUBSCRIBE is a command on its way to the
server (`commands`, `ServerCommand`) and takes effect after `subscribe()` has returned; the
other two take effect at once.

`link` is the connection of the layer. `ConnectionLost` takes what has not arrived with it.
Redis: the listener ends when it has read what had arrived (`ListenerCloses`), and the next
call of `PubSub` connects again (`Reconnect`) and subscribes to what it remembers, which is
what `layerSubs` holds of a lost connection; it may include groups whose UNSUBSCRIBE had no
answer yet. PostgreSQL: the listener stays where it is, on a stream that nothing comes from,
alive; calls of the layer raise. `ListenerFails` is any other error of `next_published`.

The block ends in one of two ways. `Close` cancels the listener and disconnects the layer.
`CloseRaises` is an exit in which the task group raises, because the listener failed or was
cancelled together with the block: `disconnect()` is not reached, and the layer stays as it
was; so it may when `disconnect()` itself fails. `Open` then finds it so. On Redis it goes on
where it was, with the old groups and what was on the wire; the in-memory layer has a new
stream and the old groups; PostgreSQL has a new connection, while the old one (`left`) goes on
handing its events (`late`) to the same layer (`LeftoverPasses`). Left out are a `connect()`
that fails, payload checks and serialisation.

### AuthSessions

`rows`, `open` and `token` are the committed rows of `auth_sessions`: which exist, which have
`is_active`, and their `refresh_token`. Every request in `req` goes through the queries of
its view one at a time: `FindUser` and `FindSession` are `authenticate_user`, `Match` is the
second look of `RefreshTokenAPIView.post` with the comparison, `Reread` and `Update` are
`_update_session`, `Create` is `_create_session`, `FindToClose` and `SetInactive` are
`SignOutAPIView.delete`. Reads see what is committed (READ COMMITTED, the default of
PostgreSQL; within a request nothing keeps the rows of an earlier read alive, so each query
returns fresh ones). An UPDATE takes the row lock and keeps it to the end of the transaction
(`writer`). `Commit`, `Rollback` and `Respond` are `BaseHTTPEndpoint.dispatch`: the response
is sent after the commit, and `ResponseLost` is a client that is gone by then. `Raise` is an
expired token or any error of the database up to a COMMIT that it refuses. When the answer to
COMMIT is lost (`CommitBreaks`) the client is sent an error, and the server commits
(`CommitLate`) or rolls back (`RollbackLate`) afterwards; `CloseFails` is an error in closing
the session after the commit. Tokens that such requests have committed are in `unsent`.

The administrator's forms are those of a third-party package over the views of
`contrib/auth/admin.py`: `Disable` and `Enable` set `is_active` of the account, `EditSession`
writes back a session with `is_active` as the administrator likes and the refresh token as it
was when the form was opened. `Forms` says which forms are in use. `DeleteAccount` is
`delete_users_cascade`, after which updates find no row. `late` has, for each request, what
was over before it began; what an administrator restores is struck from it, since the
request is then in time again.

### The stores

`KeyValueStore` is the promise: a method takes effect at one moment between its call and its
return, on all its keys together (`TakeEffect`); a `set` holds until its deadline and not
longer; a method that fails has taken effect or has not (`Fail`). No backend keeps all of it.
What each gives up is named in `Weakness` of module `Stores`:

| Backend | Gives up |
|---|---|
| `FileCache` | *partial*: a `set` or `delete` that fails may have reached some of its keys, and leave one file that cannot be read: a crash, a full disk, or a value that the serializer refuses once the file is open |
| `LocalMemoryCache` | *piecemeal*: `get_many` and `set_many` go key by key; the other methods are atomic |
| `RedisCache` | *late*: a command whose caller was given an error, or was cancelled, may take effect afterwards |
| constance, database | *late*: a COMMIT whose caller was given an error, or was cancelled, may take effect afterwards |

*Piecemeal* contradicts the documentation (finding 5); the others contradict nothing it says.

`backend`, chosen at the start, is the setting that names the store. `store` is the entry
under each key, and `call` what each caller is doing: which method, on which keys, which of
them are still to do, and what has been found so far. The mapping reads off `call` how much
of a method has taken effect. Reads and writes of one key and of many are one action per
key or one for all of them, as the code has it: `FileGet`, `FileList`, `FileOpen`,
`FileWrite`, `FileDelete` and `FileClear` are single system calls, since another process may
act between two of them; `MemoryGet` and `MemorySet` are the critical sections of one key;
`Execute` is one command, or one MULTI/EXEC, of the Redis server; the constance actions are
single statements. There UPDATE or INSERT and COMMIT are steps of their own: what was written
and not committed is seen by nobody and keeps other writers of the row waiting
(`NoOtherWriter`). `ConstanceLose` is a caller that learns nothing of its COMMIT, which then
happens (`ConstanceCommit`) or does not (`ConstanceFail`).

`FileCache` takes its manager lock from `LeaseLock`, the abstract lock, not from `FileLock`:
that is what the refinement of `FileLock` is for. One behaviour of `FileLock` that its
refinement excludes by assumption, the waiter whose finaliser takes a lease away, is put back
in `WaitCut`. So is the file of the lock that its maker left empty (`CrashEntering`, finding
2): from then on every method raises (`LockUnreadable`). Two callers can thus be inside
together, after a lease of one second has lapsed or was taken away. `overlap` records that,
and `before` the files as they were when a writer was let in: the promise sees those until
the writer is through with its last file, and what is on disk from then on. While callers
overlap nothing is promised; when the last of them has left, everything is again.

The value of a file that was not written to its end is `Broken`. `FileOpen` empties the file;
`FileTear` writes its deadline, if it has one; `FileWrite` adds the value. In between the
process can die, or the serializer or the disk refuse (`FileWriteFails`). An empty file
cannot expire, since it has no deadline, so `keys` lists it; a `get` of it raises.
`BodyRefused` is a key too long, or a system call that fails, between two files of a method.
A method that fails through its key, its value, the file system or the manager lock does so
in `refused`, or while it waits; `ErrorsHaveCause` says that there is one other reason for it
to raise, and `CancelledNeverTears` that such a file is never the work of a cancellation,
which can strike a `set_many` only between two files.

### RedisLock

`key` is the lock's key in the server, and at once the lease: whose token it holds and since
when. Entering is redis-py's, used as `SET NX PX` repeated until it succeeds; leaving is the
script that deletes the key if it still has the token, sent in a shielded task that
`EXIT_MAX_DELAY` may cut short. Every command and its reply are separate steps, so a SET can
succeed for a caller that has given up (`GiveUp` in `granted`), and a script can run after
its caller has an error (`Drop`, then `LuaRelease`) or never (`Vanish`).

### WSEndpoint

`host` is the task of the connection, inside `dispatch`; `task` has one background task for
each message that was accepted. `cancelled` is the cancel scope of the task group. What an
`await` is interrupted by is nondeterministic: in `registering` and `handling` a task may go
on, fail (`Fail`) or, once the scope is cancelled, be interrupted (`Cancelled`). A failure goes
through `_handle_background_task_exception`, which raises unless a subclass silences it, and
is itself an `await` that can be interrupted (`failing`, `FailureHandled`). In
`undoing`, the `finally` block, it is shielded, and ends by itself (`Undo`) or by an
exception of the hook or of `fail_after` (`GiveUp`), which then replaces what was `pending`.
A task that leaves with anything but a plain return cancels the scope (`Ends`): a
cancellation as well, since only a cancelled scope produces one. A task that had not begun
when the scope was cancelled still runs up to its first `await`, as in anyio 3.6 on asyncio,
so it begins to register and is unregistered like the others. `raised` says that `dispatch`
will raise. Authentication and permissions have one outcome, `Accept` or `Reject`; the latter
leaves `dispatch` without `on_disconnect`.

## Runs

| Run | Instance | Shows |
|---|---|---|
| `filelock_lease` | 3 objects, all may crash, timeout 1, clock to 3 | mutual exclusion of unlapsed leases; the inductive invariant of the proofs; every behaviour is one of `LeaseLock` |
| `filelock_abandon` | 2 objects whose waits and releases may be cut short, clock to 2, fairness | what `__aexit__` and the finaliser leave behind; only a finaliser can remove the file of an unlapsed lease; a free lock is taken; `__aexit__` ends; the inductive invariant of the proofs about that |
| `filelock_finaliser` | 3 objects, no lease ever lapses, one may give up | **violated** `MutualExclusion`, see findings |
| `filelock_corrupt` | one object may crash | **violated** `WaitEndsInAcquiring`, see findings |
| `channel_fanout` | 3 layers, 2 subscribers of one group, 3 events, the channel entered twice, cancellation of subscriptions and of the block, lost connections, calls of the layer that fail or outlast `EXIT_MAX_DELAY` | order, nothing missed, no gaps (in-memory layer; a broker passes nothing on while a group is not subscribed), the layer follows the subscribers while it is connected, the lock is not left behind; the inductive invariant of the proofs |
| `channel_live` | 3 layers, 2 subscribers in 2 groups, 2 events, calls of the layer that fail or outlast `EXIT_MAX_DELAY`, cancellation, fairness | events arrive, in order and at their own group only; a failed channel closes |
| `channel_leaving` | 2 subscribers in one group, in-memory layer, no faults | **violated** `LeavingIsHarmless`, see findings |
| `auth_rotation` | 2 requests at a time, 2 sessions, 3 refresh tokens, the forms of accounts and of sessions | a token that was replaced, or a session that was closed, before a request began gives it nothing, nor does a disabled account; open sessions have an owner; nothing uncommitted is handed out; locks of rows are held for a COMMIT only; the inductive invariant of the proofs |
| `auth_signout` | 2 requests, 2 tokens | **violated** `SignedOutStaysOut`, see findings |
| `stores_promise` | 4 backends, 2 callers, 2 keys, timeouts 0 and none, clock to 1, a manager lease of 1 | each store is the abstract one, short of its weakness; methods raise only for a cause; no cancellation leaves a broken file; the inductive invariant of the proofs |
| `stores_atomic` | the in-memory cache | **violated** `MemoryIsAtomic`, see findings |
| `ws_connection` | 3 messages, one with a handler that never ends, fairness | registrations are undone, errors surface, the connection ends; the inductive invariant of the proofs |

**Bounds.** Three lock objects are a holder, the one that takes over from it and one more
that meets the traces of both; three ticks let two leases lapse one after the other. Three
events show an order and a gap in it; two subscribers that share a group are each the first
and the last of it in turn; in the liveness run each has a group of its own, so that one
holds up the listener, or the manager lock, for the other, and their events are told apart;
entering the channel twice shows what a failure leaves behind. The liveness run has no lost
connections: of one that is lost nothing is promised. Two requests overlap, or one comes late
for what the other did, and three tokens let a token be replaced by one that was itself made
before; the theorems are about any number of requests. The actions that count (`Tick`,
`Publish`, `Open`, and `Begin` for the tokens) carry the bounds in their guards. Permutations
of lock objects, of requests and session ids, and of the two subscribers that share a group
are symmetries; the liveness runs use none. Deadlock is checked for `FileLock`, where the
finaliser always leaves a step or a new entry, and for the stores, where a caller can always
begin another method; the others end when their bounded work is done, a websocket connection
by its nature.

Of the stores, two callers with two keys show one method between two steps of another, and
half of a many-key method; who else is there could only repeat what the second does. One tick
is enough for an entry, and for the manager's lease, to lapse while a method is under way:
the timeout 0 stands for any that is over before the next tick, and constance has none. The
caches store one value, which differs from what is absent, expired and broken; settings have
two, since `_object_needs_update` compares values. What reaches a file of the cache when its
writer dies is nothing, the deadline alone, or all of it; a part of the value counts as the
deadline alone. `is_file` and the call after it in `_sync_get` and `_sync_delete` are one
step, empty lists of keys are left out, and so are the names of files that are not the
cache's. Three messages give a connection one task that fails, one that is interrupted and
one that has not begun.

**Fairness.** Weak fairness of a task says that the event loop runs it. Of `FileLock` nothing
more is assumed: the manager lock is polled without a queue, so an object may lose every
race, and `Progress` says only that *somebody* takes a free lock. `anyio.Lock` is first come,
first served, and the channel's critical sections end, so whoever waits for it gets it. Of
`AuthSessions` no liveness is claimed: `LocksAreLive` says instead that nobody holds a row's
lock and waits for another. Nothing makes a client begin a request, a process crash, or the
body of a subscriber end; the body of an `async with` lock does end. Of a connection, the
host goes on when it can, a task that was spawned starts, a cancelled scope interrupts its
tasks, and `EXIT_MAX_DELAY` bounds the clean-up; a handler need neither end nor fail, and a
client need not leave.

## Findings

1. `filelock.py:145`: an object that waits remembers the mtime of the file it waits for, and
   `__del__` unlinks a file whose mtime the object remembers, without the manager lock. When
   it gives up and is collected, the file of the present holder is gone, and a third object
   enters beside it. (`filelock_finaliser`)
2. `filelock.py:123`: a process that dies between `open` and the write leaves an empty file,
   and every later `__aenter__` raises instead of waiting for the timeout and taking over.
   (`filelock_corrupt`)
3. `channels/base.py:66`: the listener sends to a copy of the subscribers. One that leaves
   before taking its event makes `send` raise, which kills the listener and fails the channel
   for all subscribers. (`channel_leaving`)
4. `contrib/auth/views.py:93`: a refresh that passed its checks before a sign-out committed
   sets `is_active` again; the session it signed out of is open, with new tokens.
   (`auth_signout`)
5. `caches/local_memory.py:83`: `async_set_many` and `async_get_many` take the lock once per
   key, so that another task can see half of a `set_many`, where `docs/receipts/channels.md:96`
   says that "all operations in caches are atomic". (`stores_atomic`)

Three more disagreements are described as hazards and have no run of their own. When the
listener has failed, or is cancelled together with the block, `__aexit__` of the task group
raises (`channels/base.py:40`) and `disconnect()` in the lines after it is not reached: the
layer stays connected and subscribed after the block (`CloseRaises`), though
`docs/receipts/channels.md:86` says that it is there "for the whole duration of `async with`
block". Entered again, a PostgreSQL layer has two connections that hand it the same events,
so `InOrder` speaks of a channel that has left none behind. Objects that
use *different* timeouts for one lock name remember a timeout by mtime alone, so that a file
created in the same tick by another object is judged by the wrong timeout and mutual
exclusion fails; the theorems therefore assume one timeout per name. A subscription that is
cancelled before it is in the subscriber set runs the clean-up that removes it from the set,
and raises `KeyError` in place of the cancellation (the point `raised` of `Channel`).

## Proofs

Every safety property that a passing run checks is also a theorem, for every value of the
constants that the named assumptions of the modules allow.

`FileLockProofs` proves, for any set of objects, any timeouts and any bound on the clock,
with crashes and with waits and releases cut short:

- `TypeCorrect`: `Spec => []TypeOK`;
- `ExitLeavesNothing` (`LeavesNothingBehind`) and `FinaliserLeavesNothing`
  (`FinaliserCleansUp`): what `__aexit__` and `__del__` leave on disk;
- `OnlyFinalisersRob` (`OnlyFinaliserRobs`), if all objects ask for the same timeout
  (`AgreedTimeout`; it may be 0): with different ones, an object that remembers another
  timeout for the same mtime takes over a lease in force.

The argument for the second is `CleanInv`: an object forgets only when it has removed the
file, or has seen by the mtime that it is another's, so a file that is still there is known
to its writer unless the process died since (`OwnFileInv`). That needs `MakerInv`: while an
object makes the file nobody else does, though a finaliser may unlink it from under its
hands. For the third, `AgreedInv` adds that a holder knows no file younger than its own and
that the present file is not older (`TimesInv`), so whoever releases a file it knows holds by
that very mtime. It cannot say that it is the *same* file: two files of one tick are alike.

When no wait is cut short it proves more:

- `InductiveInvariant`: `Spec => []IInv`,
- `Excludes`: `Spec => []MutualExclusion`, and
- `Implements`: `Spec => ImplementsLease` (each step of `FileLock` is a step of `LeaseLock`
  or leaves its variables alone), under two assumptions that are stated in the theorems:
  `SameTimeout` (all objects of the name use one timeout T, not 0) and `NoAbandonment` (no
  wait is cut short). Without either, TLC finds a counterexample (finding 1, and the mixed
  timeouts above), so the assumptions are needed. Crashes are allowed throughout.

Mutual exclusion is not inductive: nothing in it says why the file of another object cannot
be mistaken for one's own. `IInv` adds, in the order in which the argument needs it:
`MakingInv`, one object at a time makes the file; `FileInv`, a file that is written carries
T and is not younger than the clock; `StoredInv`, the mtimes an object remembers are those
of this file or of earlier ones; `IdleInv`, an object that is out remembers nothing that
could match the file; and `HolderInv`, the file of a holder is still there with its mtime, or
the lease has lapsed and every file since is strictly younger. The last step is where T # 0
comes in: a take-over needs a lapsed lease, so its file has a later mtime, and the late
holder's `_sync_release` cannot take it for its own. `InductiveInvariant` proves that IInv
holds initially and is kept, one step per action; TLC checks IInv as an invariant too. For
the refinement, a written file is the lease and the objects that hold are the holders.

`ChannelProofs` proves, for any set of subscribers and groups, any layer and faults and any
number of events: `LockNeverLeaks` (`LockIsLive`), `LayerFollowsSubscribers`
(`LayerFollows`), `OrderIsKept` (`InOrder`), `MemoryLeavesNoGaps` (`NoGaps`),
`NothingIsMissed` (`NothingMissed`) and `ChannelTypes`. All follow from one invariant,
`ChannelInv`, in the order in which its parts support each other. `LockInv`: whoever is in a
call of the layer has the manager lock, and a closed channel has nothing left. `MembersInv`:
who iterates is in the set of its group, and a group in a call of the layer is empty. With
both, a set of subscribers and what the layer passes on can differ only by the group of the
lock holder and those whose calls broke off (`LayerInv`); on Redis that is about the last
command on its way to the server, not about the server. It is two facts, as two things
disturb them: that groups with subscribers are passed on survives a Redis connection that is
lost and made again, and an exit that never disconnects; that no others are survives neither
a reconnection, which brings back what was being unsubscribed, nor a call that breaks off.
`LeftInv` says that only PostgreSQL leaves connections behind. `OrderInv` places every event:
what a subscriber has is older than what the listener is at work on, which is older than what
is on the wire, and a subscriber that still `Awaits` the present event does not have it. All
of this order is given up while a connection of an earlier entry is left, since that puts its
events in anywhere; what remains is that they are events of the past, for whoever gets them.
`MemoryInv` sharpens this for the in-memory layer: of what was taken off the wire since its
last event, a subscriber lacks at most the one the listener is handing out. `NothingMissed`
carries itself, given the others; the step that matters is `Snapshot`, where the copy of the
set contains whoever iterates.

`StoresProofs` proves, for any callers, keys, values, timeouts, lease of the manager lock and
bound on the clock, `StoresInvariance` (`Spec => []StoresInv`) and from it `StoresTypes`,
`FailuresHaveCause` (`ErrorsHaveCause`) and `CancellationLeavesWholeFiles`
(`CancelledNeverTears`). `StoresInv` has a part for each backend; the one that carries weight
is `FileInv`: while leases do not overlap there is one holder of the manager lock, and what
it has found so far it could as well find now (`ReadingInv`), or the files are as they were
when it was let in, but for those it is through with, and the one it has opened and not
written to its end (`ChangingInv`, `AtInv`).

`StoresPromiseProofs` proves the refinements, step by step: `MemoryKeeps`, `RedisKeeps`,
`ConstanceKeeps` and `FileKeeps`. For the in-memory cache, a method on one key, `keys`,
`delete` and `clear` take effect in their only step, `get_many` and `set_many` key by key.
For Redis every command takes effect in `Execute`, for its caller or after it. For constance,
a `set` that finds the value already there takes effect when it looks, else when it commits,
for its caller or after it; one that raises by itself has met, on its INSERT, the row it had
not found, and has changed nothing (`SettingInv`). For files, the promise sees nothing of a
method until it is through with its last file, when by `FileInv` all of it takes effect at
once; a method that leaves or crashes before that is the promise's `FailPartly`, with the
keys it was through with and at most one torn file (`FileTear` is invisible until then).
Steps from or to a state with `overlap` are exempt, as the property says, and the invariant
holds again afterwards because `before` and `overlap` are reset when the last of the callers
has left.

`AuthSessionsProofs` proves, for any finite set of requests, any session ids and tokens and
without further assumptions, that what was over before a request began gives it nothing
(`ReplacedBuysNothing`, `ClosedStaysClosed`, `DisabledIsLockedOut`) and that, while the
account is there, clients have only what was committed (`CommittedBeforeGiven`); that an open
session has an owner (`OwnersOfSessions`); that the lock of a row is held for a COMMIT only
(`RowLocksAreLive`), so that no two requests wait for one another; and `TypeCorrect`. Each of
the first four says something about the end of a request that depends on what the others of
the account, and its administrator, did since it began, so none is inductive. `AuthInv` adds
where every request is in its view (`StageInv`), that a token in the making is nobody else's
and no client has it (`FreshInv`), and with that `LateInv`: a request that came too late has
not got past the check that stops it. That is kept because a commit writes a token that no
client has, so it cannot bring back the one a late refresh presents, nor open the session for
it; the comparison in `RefreshTokenAPIView` is what closes the window, not `is_active`. What
an administrator writes with a form can bring both back, for which `late` makes the
exception. `CommitInv` says that rows go only with the account, so that `_update_session`
writes something while it is there. `OwnerInv` says why sessions have owners, of every token
that was ever committed, since an administrator may put an old one back: it is in a request
that is about to respond, or was sent, or its request failed after COMMIT had been sent and
the client was sent that error. It needs no row lock, since whoever writes over it is about
to respond in its turn. `RowsInv` and `BoundInv` are what types need: rows have tokens that
were made, and a request that may make one has a number put by. `Invariant` proves `Spec =>
[]AuthInv`, one step per action.

`WSEndpointProofs` proves, for any set of messages, `NoneLeftRegistered`
(`RegistrationsUndone`) and `EveryErrorSurfaces` (`ErrorsSurface`). Both speak of the end of
a connection only. The inductive invariant `WSInv` carries them there: `EndsUndone` says that
a task ends only by way of its unregistration, and the host after its tasks; `Accounted`
that for whatever went wrong either the group has been told (`raised`) or some task in its
`finally` block has the error pending. The step that matters is `GiveUp`, where an error of
the clean-up replaces a pending one: both count as raised, so nothing is lost.

`RedisLockProofs` proves, for any instances, timeouts and bound on the clock (`LockConstants`,
which says no more than what the constants are), `Exclusion`: no two instances are inside
with both timeouts still running, and `ImplementsLease`: `RedisLock` is `LeaseLock`. No
assumption like those about `FileLock` is needed, as the token tells the leases apart. The
invariant `KeyIsLease` says that the key is that of any holder whose timeout is running; a
late script finds another token and does nothing. `RedisLock` has no run of its own: what it
claims is what the theorems state.

Only model-checked: liveness (`Progress`, `ExitCompletes`, `Delivered`, `FailureEnds`,
`ConnectionEnds`), for which TLAPS has no rules of fairness here; and the
counterexamples of the five runs that expect one. Of `FileLock`, mutual exclusion with waits
that are cut short is not a theorem because it is false (finding 1).

## Not modelled, and the plan

In this order:

1. Proofs: that callers of `FileCache` share the manager lock only after a lease has lapsed
   or a cut wait has taken it away, which ties `overlap` to `LeaseLock`.
2. Invitations and sign-up as a sibling of `AuthSessions` (unique rows, email before commit),
   in its runs.
3. A publisher that is itself a subscriber, in the runs of `Channel`; then `WSEndpoint`
   composed with `Channel`, as the actor behind its `Leave` and `CancelJoin`.
4. The scheduler: jobs added to and removed from a crontab that others edit too.
5. Permissions and the Redis pattern matcher as operators against reference definitions.

Not modelled of the channels: a `connect()` that fails, and a PostgreSQL notification that
finds its stream closed, which reaches nobody.

Not modelled of the caches: the registry that makes them (`cache_handler.py`), the sharing of
one instance by two aliases of a class, the named locks of the in-memory cache (one
`anyio.Lock` for all names, a stub), and serialisation.

Left out for good: rendering, parsing and schema validation, the admin interface and the API
documentation (no state of their own), password hashing, static files and management commands
(sequential tools), email delivery (depends on the sender class an application brings).

------------------------------ MODULE StoreCalls ------------------------------
(***************************************************************************)
(* What FileCache, LocalMemoryCache, RedisCache and the database backend   *)
(* of constance have in common: entries with a deadline and callers that   *)
(* await one method at a time (common/caches/base.py).  In one behaviour   *)
(* there is one backend.                                                   *)
(***************************************************************************)
EXTENDS Naturals, FiniteSets

CONSTANTS
    Callers,         \* the tasks that use the store
    Keys,
    Values,
    CacheValues,     \* those that are put in a cache; a setting may have any
    Timeouts,        \* the timeouts given to set and set_many, in ticks:
                     \* 0 for one that is shorter than a tick, and Infinity
    Infinity,        \* math.inf, and timeout=None
    Nothing,         \* None
    Present,         \* a key listed by keys()
    Broken,          \* the value of a file that was not written to its end
    Nobody,
    MaxTime,         \* bound on the clock
    ManagerTimeout,  \* FileCache._manager_lock_timeout, in ticks
    Backends         \* the backends to look at

VARIABLES
    backend,   \* the BACKEND of the settings
    now,       \* the clock of the backend
    store,     \* files, dict, server or table: the entry under each key
    call,      \* the call each caller is in
    lease,     \* the manager lock of FileCache: its lease in force,
    holding,   \*   and who was granted it and has not left
    corrupt,   \*   whether its file was left empty by a process that died,
    before,    \* history: store when the present holder was granted the lock
    overlap    \* history: two callers have been in the manager lock at once, and
               \*   not all of them have left it

vars == <<backend, now, store, call, lease, holding, corrupt, before, overlap>>

managerVars == <<lease, holding, corrupt, before, overlap>>

Time == 0 .. MaxTime

\* The entries are those of the promise.
KV == INSTANCE KeyValueStore WITH weak <- {}, content <- store, calls <- call

Absent == KV!Absent

BrokenEntry == KV!BrokenEntry

IsBroken(e) == e.value = Broken

Entries == {Absent} \cup
    [value: Values \cup {Broken}, deadline: Nat \cup {Infinity}]

\* deadline < time.time()
Expired(e) == KV!Expired(e)

\* What a get answers for entry e, and whether keys lists it.
Find(e) == IF e = Absent \/ Expired(e) THEN Nothing ELSE e.value

List(e) == IF e = Absent \/ Expired(e) THEN Nothing ELSE Present

Stages == {"waiting",   \* for the manager lock of FileCache
           "running",   \* with that lock, or without need of one
           "writing",   \* a file is open for writing, and not written to its end
           "found",     \* constance has found the row
           "missing",   \*   or has found none
           "committing", \* it has changed or added the row, and is about to commit
           "raising",   \* an exception is on its way out
           "refused",   \* so is one of the file system or of the serializer
           "cut",       \* so is a cancellation
           "lost",      \* the caller has an error, the server not yet a command
           "done"}      \* about to return

Idle == [stage |-> "idle"]

NoAnswer == [k \in Keys |-> Nothing]

Calls == [stage: Stages, op: KV!Kinds, keys: SUBSET Keys, todo: SUBSET Keys,
          at: Keys \cup {Nothing}, value: Values \cup {Nothing},
          timeout: Timeouts \cup {Infinity}, began: Time,
          answer: [Keys -> Values \cup {Present, Nothing}]]

Doing(c, stage) == call[c].stage = stage

Goto(c, stage) == call' = [call EXCEPT ![c].stage = stage]

Ready(c, ops) == Doing(c, "running") /\ call[c].op \in ops

\* The keys in K are done with, `found' is what was under them.
Pass(c, K, found, stage) ==
    call' = [call EXCEPT
               ![c].todo = @ \ K,
               ![c].answer = [k \in Keys |-> IF k \in K THEN found[k] ELSE @[k]],
               ![c].stage = stage]

\* What set puts under a key now.
NewEntry(c) == [value |-> call[c].value,
                deadline |-> KV!Deadline(now, call[c].timeout)]

\* The store when e[k] is put under each k in K.
With(K, e) == [k \in Keys |-> IF k \in K THEN e[k] ELSE store[k]]

-----------------------------------------------------------------------------
\* A task calls a method: get, set or delete with one key, their _many variants
\* with several, keys and clear for all of them.  has_key is a get whose value
\* nobody looks at.
Enter(c, stage, kinds, values, timeouts) ==
    /\ call[c] = Idle
    /\ \E op \in kinds, K \in (SUBSET Keys) \ {{}}, v \in values \cup {Nothing},
          d \in timeouts \cup {Infinity} :
         /\ op \in {"keys", "clear"} => K = Keys
         /\ IF op = "set" THEN v # Nothing /\ d \in timeouts
                          ELSE v = Nothing /\ d = Infinity
         /\ call' = [call EXCEPT ![c] =
                [stage |-> stage, op |-> op, keys |-> K, todo |-> K,
                 at |-> Nothing, value |-> v, timeout |-> d, began |-> now,
                 answer |-> NoAnswer]]
    /\ UNCHANGED <<backend, now, store>> /\ UNCHANGED managerVars

\* It ends, with a result or with an error.
Stop(c) == call' = [call EXCEPT ![c] = Idle]

\* The method returns.
Return(c) ==
    /\ Doing(c, "done")
    /\ Stop(c)
    /\ UNCHANGED <<backend, now, store>> /\ UNCHANGED managerVars
=============================================================================

------------------------------- MODULE Stores -------------------------------
(***************************************************************************)
(* The key-value stores of starlette-web, each against the promise of      *)
(* KeyValueStore.  The settings pick one of them.                          *)
(***************************************************************************)
EXTENDS FileCache, LocalMemoryCache, RedisCache, ConstanceDatabase

ASSUME StoresAssumption ==
    /\ MaxTime \in Nat
    /\ Timeouts \subseteq Nat \cup {Infinity}
    /\ Infinity \notin Nat
    /\ CacheValues \subseteq Values
    /\ {Nothing, Present, Broken} \cap Values = {}
    /\ Nothing \notin {Present, Broken} \cup Keys
    /\ Nobody \notin Callers
    /\ Backends \subseteq {"file", "memory", "redis", "constance"}

TypeOK ==
    /\ backend \in Backends
    /\ store \in [Keys -> Entries]
    /\ call \in [Callers -> {Idle} \cup Calls]
    /\ Manager!LeaseTypeOK
    /\ corrupt \in BOOLEAN
    /\ before \in [Keys -> Entries]
    /\ overlap \in BOOLEAN

Init ==
    /\ backend \in Backends
    /\ Manager!LeaseInit
    /\ store = [k \in Keys |-> Absent]
    /\ call = [c \in Callers |-> Idle]
    /\ corrupt = FALSE
    /\ before = Nowhere
    /\ overlap = FALSE

Tick ==
    /\ Manager!LeaseTick
    /\ UNCHANGED <<backend, store, call, corrupt, before, overlap>>

Step(c) ==
    \/ FileCacheStep(c) \/ LocalMemoryStep(c) \/ RedisStep(c) \/ ConstanceStep(c)
    \/ Return(c)

Next ==
    \/ \E c \in Callers : Step(c)
    \/ \E k \in Keys : RedisEvict(k)
    \/ Tick

Spec == Init /\ [][Next]_vars

-----------------------------------------------------------------------------
Weakness == [file |-> {"partial"}, memory |-> {"piecemeal"},
             redis |-> {"late"}, constance |-> {"late"}]

\* A writer in the manager lock that is not through.
ChangeInBody == \E c \in holding : Changes(call[c].op) /\ Unfinished(c)

\* What the promise knows of a call.  A method of FileCache counts when it
\* is through with its last file.
CallSeen(c) ==
    IF call[c] = Idle THEN [status |-> "idle"]
    ELSE LET inBody == backend = "file" /\ Unfinished(c) IN
         [status |-> IF Doing(c, "lost") THEN "failed" ELSE "running",
          op |-> call[c].op,
          todo |-> IF inBody THEN call[c].keys ELSE call[c].todo,
          value |-> call[c].value,
          timeout |-> call[c].timeout,
          began |-> call[c].began,
          answer |-> IF inBody THEN NoAnswer ELSE call[c].answer]

Promise == INSTANCE KeyValueStore WITH
    weak <- Weakness[backend],
    content <- IF ChangeInBody THEN before ELSE store,
    calls <- [c \in Callers |-> CallSeen(c)]

\* FileCache keeps the promise of KeyValueStore, but for its weakness, and but
\* for the time when two methods are in the manager lock at once, as a lease of
\* one second and a cancelled wait allow.  When the last of them has left, it
\* keeps the promise again.
FileKeepsPromise ==
    /\ Promise!StoreInit
    /\ [][ backend = "file" => overlap \/ overlap' \/ Promise!StoreNext
         ]_(Promise!storeVars)

\* LocalMemoryCache keeps it, except that get_many and set_many go key by key.
MemoryKeepsPromise ==
    /\ Promise!StoreInit
    /\ [][ backend = "memory" => Promise!StoreNext ]_(Promise!storeVars)

\* A get_many of LocalMemoryCache that counts when it is through with its last key.
WholeCall(c) ==
    IF Doing(c, "running") /\ call[c].op = "get"
    THEN [CallSeen(c) EXCEPT !.todo = call[c].keys, !.answer = NoAnswer]
    ELSE CallSeen(c)

WholePromise == INSTANCE KeyValueStore WITH
    weak <- {},
    content <- store,
    calls <- [c \in Callers |-> WholeCall(c)]

\* docs/receipts/channels.md: "all operations in caches are atomic".  LocalMemoryCache
\* would then keep the promise as it stands.
MemoryIsAtomic ==
    /\ WholePromise!StoreInit
    /\ [][ backend = "memory" => WholePromise!StoreNext ]_(WholePromise!storeVars)

\* RedisCache keeps it, except that a command whose caller has been given an
\* error may take effect afterwards.
RedisKeepsPromise ==
    /\ Promise!StoreInit
    /\ [][ backend = "redis" => Promise!StoreNext ]_(Promise!storeVars)

\* The database backend of constance keeps it, though async_create_or_update
\* looks first and writes later: a set never ends quietly without its effect.  One
\* that ends with an error may have its effect afterwards, if it was committing.
ConstanceKeepsPromise ==
    /\ Promise!StoreInit
    /\ [][ backend = "constance" => Promise!StoreNext ]_(Promise!storeVars)

\* What a caller of FileCache is told when neither its key, nor its value, nor the
\* file system, nor the manager lock is at fault: a get meets a file that was not
\* written to its end, or a walk over the files meets another one in the lock.
\* And with constance: the row that a setting wanted to create is there by now.
ErrorsHaveCause ==
    \A c \in Callers : Doing(c, "raising") =>
        IF backend = "file"
        THEN \/ overlap
             \/ call[c].op = "get" /\ \E k \in call[c].keys : IsBroken(store[k])
        ELSE \A k \in call[c].keys : store[k] # Absent

\* Cancellation leaves whole files behind, though perhaps not all of them:
\* _sync_set has no checkpoint between open and write.
CancelledNeverTears ==
    \A c \in Callers : Doing(c, "cut") /\ Changes(call[c].op) /\ ~overlap =>
        \A k \in Keys : IsBroken(store[k]) => store[k] = before[k]
=============================================================================

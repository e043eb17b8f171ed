--------------------------- MODULE LocalMemoryCache ---------------------------
(***************************************************************************)
(* common/caches/local_memory.py: LocalMemoryCache.  Its manager lock is   *)
(* never held across an await, so each critical section is one step; what  *)
(* the lock adds is a point where the method can be cancelled.             *)
(***************************************************************************)
EXTENDS StoreCalls

MemoryEnter(c) ==
    backend = "memory" /\ Enter(c, "running", KV!Kinds, CacheValues, Timeouts)

OnMemory(c, ops) ==
    /\ backend = "memory"
    /\ Ready(c, ops)
    /\ UNCHANGED <<backend, now>> /\ UNCHANGED managerVars

\* The last key ends the method.
NextStage(c, k) == IF call[c].todo = {k} THEN "done" ELSE "running"

\* async_get, async_has_key, and each round of async_get_many: an expired entry
\* is removed.
MemoryGet(c, k) ==
    /\ OnMemory(c, {"get"}) /\ k \in call[c].todo
    /\ store' = IF Expired(store[k]) THEN [store EXCEPT ![k] = Absent] ELSE store
    /\ Pass(c, {k}, [j \in {k} |-> Find(store[j])], NextStage(c, k))

\* Defect: _expire_info keeps the deadline of an entry that is overwritten.
MemorySetValue(c, k) ==
    /\ OnMemory(c, {"set"}) /\ k \in call[c].todo
    /\ store' = [store EXCEPT ![k] =
                   IF @ = Absent THEN NewEntry(c)
                                 ELSE [value |-> call[c].value, deadline |-> @.deadline]]
    /\ Pass(c, {k}, NoAnswer, NextStage(c, k))

\* async_set, and each round of async_set_many.
MemorySet(c, k) ==
    /\ OnMemory(c, {"set"}) /\ k \in call[c].todo
    /\ store' = [store EXCEPT ![k] = NewEntry(c)]
    /\ Pass(c, {k}, NoAnswer, NextStage(c, k))

\* async_delete, async_delete_many, async_clear
MemoryDelete(c) ==
    /\ OnMemory(c, {"delete", "clear"})
    /\ store' = With(call[c].todo, [k \in Keys |-> Absent])
    /\ Pass(c, call[c].todo, NoAnswer, "done")

\* async_keys, which does without the lock
MemoryKeys(c) ==
    /\ OnMemory(c, {"keys"})
    /\ Pass(c, Keys, [k \in Keys |-> List(store[k])], "done")
    /\ UNCHANGED store

\* The method is cancelled when it asks for the lock.
MemoryCut(c) ==
    /\ OnMemory(c, KV!Kinds \ {"keys"})
    /\ Stop(c)
    /\ UNCHANGED store

LocalMemoryStep(c) ==
    \/ MemoryEnter(c)
    \/ \E k \in Keys : MemoryGet(c, k) \/ MemorySet(c, k)
    \/ MemoryDelete(c) \/ MemoryKeys(c) \/ MemoryCut(c)
=============================================================================

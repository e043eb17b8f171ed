----------------------------- MODULE RedisCache -----------------------------
(***************************************************************************)
(* contrib/redis/cache.py: RedisCache.  Each method is one command to the  *)
(* server, or one MULTI/EXEC; the server runs it in one step.  What can    *)
(* happen on the way: the connection breaks or the caller is cancelled,    *)
(* with the command not sent, still under way, or done.                    *)
(***************************************************************************)
EXTENDS StoreCalls

RedisEnter(c) ==
    backend = "redis" /\ Enter(c, "running", KV!Kinds, CacheValues, Timeouts)

OnServer(c) ==
    /\ backend = "redis"
    /\ Doing(c, "running") \/ Doing(c, "lost")
    /\ UNCHANGED <<backend, now>> /\ UNCHANGED managerVars

\* The result reaches the caller if it still waits for one.
Result(c) == IF Doing(c, "lost") THEN "lost" ELSE "done"

Read(c, found) ==
    Pass(c, call[c].todo, found, Result(c)) /\ UNCHANGED store

Change(c, e) ==
    Pass(c, call[c].todo, NoAnswer, Result(c)) /\ store' = With(call[c].todo, e)

\* Defect: a pipeline without MULTI/EXEC.
ExecuteOneByOne(c) ==
    /\ OnServer(c)
    /\ \E k \in call[c].todo :
         /\ call[c].op = "set"
         /\ store' = With({k}, [j \in Keys |-> NewEntry(c)])
         /\ Pass(c, {k}, NoAnswer,
                 IF call[c].todo = {k} THEN Result(c) ELSE call[c].stage)

\* GET, MGET, EXISTS, KEYS, SET, MSET, several SET in MULTI/EXEC, DEL, FLUSHDB
Execute(c) ==
    /\ OnServer(c)
    /\ call[c].todo # {}
    /\ \/ call[c].op = "get" /\ Read(c, [k \in Keys |-> Find(store[k])])
       \/ call[c].op = "keys" /\ Read(c, [k \in Keys |-> List(store[k])])
       \/ call[c].op = "set" /\ Change(c, [k \in Keys |-> NewEntry(c)])
       \/ call[c].op \in {"delete", "clear"} /\ Change(c, [k \in Keys |-> Absent])

\* reraise_exception: the command never reaches the server, or is refused, as
\* one whose px = int(timeout * 1000) is 0.
NoCommand(c) ==
    /\ OnServer(c)
    /\ Stop(c)
    /\ UNCHANGED store

\* reraise_exception, or cancellation, while the command is still under way.
LoseConnection(c) ==
    /\ OnServer(c) /\ Doing(c, "running")
    /\ Goto(c, "lost")
    /\ UNCHANGED store

\* The server drops an expired key.
RedisEvict(k) ==
    /\ backend = "redis"
    /\ store[k] # Absent /\ Expired(store[k])
    /\ store' = [store EXCEPT ![k] = Absent]
    /\ UNCHANGED <<backend, now, call>> /\ UNCHANGED managerVars

RedisStep(c) ==
    RedisEnter(c) \/ Execute(c) \/ NoCommand(c) \/ LoseConnection(c)
=============================================================================

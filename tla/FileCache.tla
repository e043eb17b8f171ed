------------------------------ MODULE FileCache ------------------------------
(***************************************************************************)
(* common/files/cache.py: FileCache keeps one file per key and runs every  *)
(* method inside one manager lock, a FileLock with a lease of a second.    *)
(* Of that lock only what LeaseLock says is used, and what FileLock adds   *)
(* to it: a wait that is cut short can take the lease of somebody else     *)
(* with it.                                                                *)
(*                                                                         *)
(* Callers may live in several processes.  Between them every system call  *)
(* that changes a file is a step; within one process only the checkpoints  *)
(* are, and cancellation strikes nowhere else.                             *)
(***************************************************************************)
EXTENDS StoreCalls

Manager == INSTANCE LeaseLock WITH
    Instances <- Callers, Timeout <- [c \in Callers |-> ManagerTimeout]

Changes(op) == op \in {"set", "delete", "clear"}

\* A method that has files to see to.
Unfinished(c) == Doing(c, "running") => call[c].todo # {}

Nowhere == [k \in Keys |-> Absent]

\* before is kept from the grant of a method that changes files until it leaves.
Remember(c) ==
    before' = IF overlap' \/ ~Changes(call[c].op) THEN Nowhere ELSE store

FileEnter(c) ==
    backend = "file" /\ Enter(c, "waiting", KV!Kinds, CacheValues, Timeouts)

\* The names that iterdir gives async_keys and async_clear; other methods are
\* told theirs.
NamesFor(c) ==
    IF call[c].op \in {"keys", "clear"} THEN {k \in Keys : store[k] # Absent}
                                        ELSE call[c].keys

StartBody(c) ==
    call' = [call EXCEPT ![c].stage = "running", ![c].todo = NamesFor(c)]

\* Defect: the manager lock is not waited for.
GrantedAtOnce(c) ==
    /\ backend = "file"
    /\ Doing(c, "waiting")
    /\ holding' = holding \cup {c}
    /\ UNCHANGED <<now, lease, corrupt, overlap>>
    /\ Remember(c)
    /\ StartBody(c)
    /\ UNCHANGED <<backend, store>>

\* Defect: the directory is not read again once the lock is there.
GrantedStale(c) ==
    /\ backend = "file"
    /\ Doing(c, "waiting")
    /\ Manager!Grant(c)
    /\ overlap' = (overlap \/ holding # {})
    /\ Remember(c)
    /\ Goto(c, "running")
    /\ UNCHANGED <<backend, store, corrupt>>

\* _get_manager_lock().__aenter__ returns; a walk over the files begins.
Granted(c) ==
    /\ backend = "file"
    /\ Doing(c, "waiting")
    /\ ~corrupt
    /\ Manager!Grant(c)
    /\ overlap' = (overlap \/ holding # {})
    /\ Remember(c)
    /\ StartBody(c)
    /\ UNCHANGED <<backend, store, corrupt>>

\* blocking_timeout, cancellation, or the end of its process, while c waits; the
\* finaliser of its lock may then unlink a lock file that c has looked at, whosever
\* it is.
WaitCut(c) ==
    /\ backend = "file"
    /\ Doing(c, "waiting")
    /\ Stop(c)
    /\ lease' \in {lease, Manager!NoLease}
    /\ UNCHANGED <<backend, now, store, holding, corrupt, before, overlap>>

\* The process of c dies when it has opened the file of the lock and not written it.
CrashEntering(c) ==
    /\ backend = "file"
    /\ Doing(c, "waiting")
    /\ ~corrupt /\ ~Manager!InForce
    /\ Stop(c)
    /\ corrupt' = TRUE
    /\ lease' = Manager!NoLease
    /\ UNCHANGED <<backend, now, store, holding, before, overlap>>

\* From then on pickle.loads of that file raises in every __aenter__, and nobody
\* removes the file.
LockUnreadable(c) ==
    /\ backend = "file"
    /\ Doing(c, "waiting")
    /\ corrupt
    /\ Stop(c)
    /\ UNCHANGED <<backend, now, store>> /\ UNCHANGED managerVars

-----------------------------------------------------------------------------
InBody(c, op, k) ==
    /\ backend = "file"
    /\ Ready(c, {op})
    /\ k \in call[c].todo
    /\ UNCHANGED <<backend, now>> /\ UNCHANGED managerVars

\* Defect: an empty file passes for a value.
FileGetAnything(c, k) ==
    /\ InBody(c, "get", k)
    /\ Pass(c, {k}, [j \in {k} |-> Find(store[j])], "running")
    /\ UNCHANGED store

\* _sync_get.  What was not written to its end cannot be unpickled.
FileGet(c, k) ==
    /\ InBody(c, "get", k)
    /\ IF IsBroken(store[k]) /\ ~Expired(store[k])
       THEN Goto(c, "raising")
       ELSE Pass(c, {k}, [j \in {k} |-> Find(store[j])], "running")
    /\ UNCHANGED store

\* The walk of async_keys.  A file that is gone by now cannot be opened.
FileList(c, k) ==
    /\ InBody(c, "keys", k)
    /\ IF store[k] = Absent
       THEN Goto(c, "raising")
       ELSE Pass(c, {k}, [j \in {k} |-> List(store[j])], "running")
    /\ UNCHANGED store

\* _sync_set: open(path, "wb") makes an empty file.
FileOpen(c, k) ==
    /\ InBody(c, "set", k)
    /\ store' = [store EXCEPT ![k] = BrokenEntry]
    /\ call' = [call EXCEPT ![c].stage = "writing", ![c].at = k,
                            ![c].todo = @ \ {k}]

\* Part of the content reaches the file: the deadline, which is written first.
FileTear(c) ==
    /\ backend = "file"
    /\ Doing(c, "writing") /\ call[c].timeout # Infinity
    /\ store[call[c].at] = BrokenEntry
    /\ store' = [store EXCEPT ![call[c].at] =
                     [NewEntry(c) EXCEPT !.value = Broken]]
    /\ UNCHANGED <<backend, now, call>> /\ UNCHANGED managerVars

\* The serializer refuses the value, or the disk is full.
FileWriteFails(c) ==
    /\ backend = "file"
    /\ Doing(c, "writing")
    /\ Goto(c, "refused")
    /\ UNCHANGED <<backend, now, store>> /\ UNCHANGED managerVars

\* _sync_set: the content reaches the file, or one that another caller in the
\* lock has unlinked since.
FileWrite(c) ==
    /\ backend = "file"
    /\ Doing(c, "writing")
    /\ \/ store[call[c].at] # Absent
          /\ store' = [store EXCEPT ![call[c].at] = NewEntry(c)]
       \/ overlap /\ UNCHANGED store
    /\ call' = [call EXCEPT ![c].stage = "running", ![c].at = Nothing]
    /\ UNCHANGED <<backend, now>> /\ UNCHANGED managerVars

\* _sync_delete
FileDelete(c, k) ==
    /\ InBody(c, "delete", k)
    /\ store' = [store EXCEPT ![k] = Absent]
    /\ call' = [call EXCEPT ![c].todo = @ \ {k}]

\* The walk of async_clear.  A file that is gone by now cannot be unlinked.
FileClear(c, k) ==
    /\ InBody(c, "clear", k)
    /\ store' = [store EXCEPT ![k] = Absent]
    /\ IF store[k] = Absent THEN Goto(c, "raising")
                            ELSE call' = [call EXCEPT ![c].todo = @ \ {k}]

\* Defect: a checkpoint while the file is open.
BodyCutAnywhere(c) ==
    /\ backend = "file"
    /\ Doing(c, "running") \/ Doing(c, "writing")
    /\ call[c].op \in {"get", "keys", "set"}
    /\ Goto(c, "cut")
    /\ UNCHANGED <<backend, now, store>> /\ UNCHANGED managerVars

\* Cancellation, or the blocking timeout, strikes at a checkpoint of get_many,
\* set_many or keys.
BodyCut(c) ==
    /\ backend = "file"
    /\ Ready(c, {"get", "keys", "set"})
    /\ call[c].todo # {}
    /\ Goto(c, "cut")
    /\ UNCHANGED <<backend, now, store>> /\ UNCHANGED managerVars

\* _key_name refuses a key of more than 155 bytes, or the system call for the next
\* file fails.
BodyRefused(c) ==
    /\ backend = "file"
    /\ Ready(c, KV!Kinds)
    /\ call[c].todo # {}
    /\ Goto(c, "refused")
    /\ UNCHANGED <<backend, now, store>> /\ UNCHANGED managerVars

-----------------------------------------------------------------------------
Forget ==
    /\ before' = Nowhere
    /\ overlap' = (overlap /\ holding' # {})

\* The end of async with, and of the method: it returns, or the exception or the
\* cancellation goes on to its caller.  The lock is given back, unless EXIT_MAX_DELAY cut
\* the attempt short.
Leave(c) ==
    /\ backend = "file"
    /\ ~Unfinished(c) \/ Doing(c, "raising") \/ Doing(c, "refused") \/ Doing(c, "cut")
    /\ c \in holding
    /\ Stop(c)
    /\ Manager!GiveBack(c) \/ Manager!Vanish(c)
    /\ Forget
    /\ UNCHANGED <<backend, store, corrupt>>

\* The process of c dies in the middle of it all.
Crash(c) ==
    /\ backend = "file"
    /\ c \in holding
    /\ Stop(c)
    /\ Manager!Vanish(c)
    /\ Forget
    /\ UNCHANGED <<backend, store, corrupt>>

FileCacheStep(c) ==
    \/ FileEnter(c) \/ Granted(c) \/ WaitCut(c) \/ CrashEntering(c) \/ LockUnreadable(c)
    \/ \E k \in Keys :
         FileGet(c, k) \/ FileList(c, k) \/ FileOpen(c, k)
           \/ FileDelete(c, k) \/ FileClear(c, k)
    \/ FileTear(c) \/ FileWrite(c) \/ FileWriteFails(c)
    \/ BodyCut(c) \/ BodyRefused(c) \/ Leave(c) \/ Crash(c)
=============================================================================

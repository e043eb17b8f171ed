------------------------------ MODULE FileLock ------------------------------
(***************************************************************************)
(* common/files/filelock.py: FileLock, the asynchronous lock that          *)
(* FileCache hands out for cache.lock(name) and guards its own operations  *)
(* with.  (The scheduler uses another one.)  Whoever creates a file holds  *)
(* the lock, its modification time says since when, its content for how    *)
(* long, and removing it gives the lock back.  Every look at the file is   *)
(* taken inside a manager lock (flock, tried once and polled), except the  *)
(* one of the finaliser __del__.                                           *)
(*                                                                         *)
(* The instances may live in one process or in several.  The code between  *)
(* two awaits runs in one step, unless a finaliser in another process can  *)
(* come between its system calls: making the file is two steps (open,      *)
(* write), and so is the finaliser (getmtime, unlink).                     *)
(***************************************************************************)
EXTENDS Naturals

CONSTANTS
    Instances,   \* the FileLock objects that contend for one file
    Timeout,     \* Timeout[i]: the timeout i was made with
    Infinity,    \* math.inf, for timeout=None
    Unseen,      \* the value of _stored_file_ts.get(ts) for an absent ts
    Nobody,      \* the writer of a file that does not exist
    MayAbandon,  \* the instances whose wait can be cut short: blocking_timeout,
                 \* cancellation, EXIT_MAX_DELAY
    MayCrash,    \* the instances whose process can die
    MaxTime      \* bound on the clock

ASSUME FileLockAssumption ==
    /\ MaxTime \in Nat
    /\ Infinity \notin Nat
    /\ Unseen \notin Nat \cup {Infinity}
    /\ Nobody \notin Instances
    /\ Timeout \in [Instances -> Nat \cup {Infinity}]
    /\ MayAbandon \subseteq Instances
    /\ MayCrash \subseteq Instances

VARIABLES
    now,           \* time.time(), in ticks of the file system's mtime
    file,          \* the lock file
    pc,            \* where each instance is
    storedFileTs,  \* _stored_file_ts: the timeouts seen, by mtime
    isAcquired,    \* _is_acquired
    cancelCalled,  \* cancel_called of the task group's scope
    since          \* history: the mtime of the file an instance holds by

vars == <<now, file, pc, storedFileTs, isAcquired, cancelCalled, since>>

Time == 0 .. MaxTime

Timeouts == Nat \cup {Infinity}

\* The writer field is history as well: a FileLock does not know who wrote.
NoFile == [exists |-> FALSE, mtime |-> 0, written |-> FALSE,
           timeout |-> 0, writer |-> Nobody]

Files == [exists: BOOLEAN, mtime: Time, written: BOOLEAN,
          timeout: Timeouts, writer: Instances \cup {Nobody}]

Points == {"unused",      \* not entered since it was made
           "acquiring",   \* in __aenter__, polling
           "creating",    \* in _sync_acquire, about to open the file
           "writing",     \* in _sync_acquire, the file is open and empty
           "signalled",   \* _acquire_event is set, __aenter__ has yet to resume
           "inside",      \* in the body of async with
           "exiting",     \* in _release, polling
           "returned",    \* async with ended without a lock error
           "failed",      \* async with raised
           "finalizing"}  \* in __del__, between getmtime and unlink

TypeOK ==
    /\ now \in Time
    /\ file \in Files
    /\ pc \in [Instances -> Points]
    /\ storedFileTs \in [Instances -> [Time -> Timeouts \cup {Unseen}]]
    /\ isAcquired \in [Instances -> BOOLEAN]
    /\ cancelCalled \in [Instances -> BOOLEAN]
    /\ since \in [Instances -> Time]

NothingStored == [ts \in Time |-> Unseen]

Init ==
    /\ now = 0
    /\ file = NoFile
    /\ pc = [i \in Instances |-> "unused"]
    /\ storedFileTs = [i \in Instances |-> NothingStored]
    /\ isAcquired = [i \in Instances |-> FALSE]
    /\ cancelCalled = [i \in Instances |-> FALSE]
    /\ since = [i \in Instances |-> 0]

-----------------------------------------------------------------------------
\* The manager lock is held across two steps only while a file is being made;
\* flock frees it when the process dies.
ManagerFree == \A j \in Instances : pc[j] \notin {"creating", "writing"}

Lapsed(ts, d) == d # Infinity /\ ts + d <= now

Goto(i, point) == pc' = [pc EXCEPT ![i] = point]

\* Defect: without the finally clause, only the flag is reset.
ForgetFlagOnly(i) ==
    /\ isAcquired' = [isAcquired EXCEPT ![i] = FALSE]
    /\ UNCHANGED storedFileTs

\* The finally clause of _sync_release.
Forget(i) ==
    /\ storedFileTs' = [storedFileTs EXCEPT ![i] = NothingStored]
    /\ isAcquired' = [isAcquired EXCEPT ![i] = FALSE]

\* ts in self._stored_file_ts
Knows(i, ts) == storedFileTs[i][ts] # Unseen

\* What i takes the timeout of the present file to be: what it remembers for
\* this mtime, or else what it reads.
TimeoutSeen(i) == IF Knows(i, file.mtime) THEN storedFileTs[i][file.mtime]
                                          ELSE file.timeout

\* The moment an instance looks at the lock file: it is polling, its _acquire
\* has not returned at once, and the manager lock is free.
Polls(i) == pc[i] = "acquiring" /\ ~isAcquired[i] /\ ManagerFree

-----------------------------------------------------------------------------
\* __aenter__ up to the wait for the acquire event.
Enter(i) ==
    /\ pc[i] \in {"unused", "returned", "failed"}
    /\ Goto(i, "acquiring")
    /\ cancelCalled' = [cancelCalled EXCEPT ![i] = FALSE]
    /\ UNCHANGED <<now, file, storedFileTs, isAcquired, since>>

\* _sync_acquire: somebody holds the lock; remember the timeout of the file.
FindBusy(i) ==
    /\ Polls(i)
    /\ file.exists /\ (Knows(i, file.mtime) \/ file.written)
    /\ ~Lapsed(file.mtime, TimeoutSeen(i))
    /\ storedFileTs' = [storedFileTs EXCEPT ![i][file.mtime] = TimeoutSeen(i)]
    /\ UNCHANGED <<now, file, pc, isAcquired, cancelCalled, since>>

\* _sync_acquire: the file was never written; unpickling it is not an OSError.
FindCorrupt(i) ==
    /\ Polls(i)
    /\ file.exists /\ ~Knows(i, file.mtime) /\ ~file.written
    /\ Goto(i, "failed")
    /\ UNCHANGED <<now, file, storedFileTs, isAcquired, cancelCalled, since>>

\* Defect: the expiry test is forgotten.
TakeOverUnexpired(i) ==
    /\ Polls(i)
    /\ file.exists /\ (Knows(i, file.mtime) \/ file.written)
    /\ file' = NoFile
    /\ Forget(i)
    /\ Goto(i, "creating")
    /\ UNCHANGED <<now, cancelCalled, since>>

\* _sync_acquire: the lease in the file has lapsed; remove it and go on.
TakeOver(i) ==
    /\ Polls(i)
    /\ file.exists /\ (Knows(i, file.mtime) \/ file.written)
    /\ Lapsed(file.mtime, TimeoutSeen(i))
    /\ file' = NoFile
    /\ Forget(i)
    /\ Goto(i, "creating")
    /\ UNCHANGED <<now, cancelCalled, since>>

FindFree(i) ==
    /\ Polls(i)
    /\ ~file.exists
    /\ Goto(i, "creating")
    /\ UNCHANGED <<now, file, storedFileTs, isAcquired, cancelCalled, since>>

\* open(self._name, "wb+")
Create(i) ==
    /\ pc[i] = "creating"
    /\ file' = [exists |-> TRUE, mtime |-> now, written |-> FALSE,
                timeout |-> 0, writer |-> i]
    /\ Goto(i, "writing")
    /\ UNCHANGED <<now, storedFileTs, isAcquired, cancelCalled, since>>

\* Defect: getmtime before the write.
WriteStatsEarly(i) ==
    /\ pc[i] = "writing"
    /\ file.exists
    /\ file' = [exists |-> TRUE, mtime |-> now, written |-> TRUE,
                timeout |-> Timeout[i], writer |-> file.writer]
    /\ storedFileTs' = [storedFileTs EXCEPT ![i][file.mtime] = Timeout[i]]
    /\ since' = [since EXCEPT ![i] = now]
    /\ Goto(i, "signalled")
    /\ UNCHANGED <<now, isAcquired, cancelCalled>>

\* Defect: the mtime is set to the deadline.
WriteDeadline(i) ==
    /\ pc[i] = "writing"
    /\ file.exists
    /\ file' = [exists |-> TRUE, mtime |-> now + Timeout[i], written |-> TRUE,
                timeout |-> Timeout[i], writer |-> file.writer]
    /\ storedFileTs' = [storedFileTs EXCEPT ![i][now] = Timeout[i]]
    /\ since' = [since EXCEPT ![i] = now]
    /\ Goto(i, "signalled")
    /\ UNCHANGED <<now, isAcquired, cancelCalled>>

\* write, flush, fsync, getmtime; then the acquire event is set.
Write(i) ==
    /\ pc[i] = "writing"
    /\ file.exists
    /\ file' = [exists |-> TRUE, mtime |-> now, written |-> TRUE,
                timeout |-> Timeout[i], writer |-> file.writer]
    /\ storedFileTs' = [storedFileTs EXCEPT ![i][now] = Timeout[i]]
    /\ since' = [since EXCEPT ![i] = now]
    /\ Goto(i, "signalled")
    /\ UNCHANGED <<now, isAcquired, cancelCalled>>

\* Defect: the manager lock is not released on the way of an OSError.
WriteLostKeepsLock(i) ==
    /\ pc[i] = "writing"
    /\ ~file.exists
    /\ UNCHANGED vars

\* The file was unlinked under i's hands: getmtime raises OSError, i polls on.
WriteLost(i) ==
    /\ pc[i] = "writing"
    /\ ~file.exists
    /\ Goto(i, "acquiring")
    /\ UNCHANGED <<now, file, storedFileTs, isAcquired, cancelCalled, since>>

\* __aenter__ returns.
Resume(i) ==
    /\ pc[i] = "signalled"
    /\ isAcquired' = [isAcquired EXCEPT ![i] = TRUE]
    /\ Goto(i, "inside")
    /\ UNCHANGED <<now, file, storedFileTs, cancelCalled, since>>

\* __aenter__ is cancelled while it waits, perhaps with the event already set.
GiveUp(i) ==
    /\ i \in MayAbandon
    /\ pc[i] \in {"acquiring", "signalled"}
    /\ isAcquired' = [isAcquired EXCEPT ![i] = FALSE]
    /\ Goto(i, "failed")
    /\ UNCHANGED <<now, file, storedFileTs, cancelCalled, since>>

\* The body ends, by itself (raised = FALSE) or with an exception, its own or
\* the cancellation at the blocking deadline, which the scope still carries.
Leave(i, raised) ==
    /\ pc[i] = "inside"
    /\ cancelCalled' = [cancelCalled EXCEPT ![i] = raised]
    /\ Goto(i, "exiting")
    /\ UNCHANGED <<now, file, storedFileTs, isAcquired, since>>

\* The end of __aexit__.
Exited(i) == Goto(i, IF cancelCalled[i] THEN "failed" ELSE "returned")

\* _release, the file is i's: remove it.
ReleaseOwn(i) ==
    /\ pc[i] = "exiting" /\ ManagerFree
    /\ file.exists /\ Knows(i, file.mtime)
    /\ file' = NoFile
    /\ Forget(i)
    /\ Exited(i)
    /\ UNCHANGED <<now, cancelCalled, since>>

\* Defect: the mtime is not looked at.
ReleaseAnyFile(i) ==
    /\ pc[i] = "exiting" /\ ManagerFree
    /\ file.exists /\ ~Knows(i, file.mtime)
    /\ file' = NoFile
    /\ Forget(i)
    /\ Exited(i)
    /\ UNCHANGED <<now, cancelCalled, since>>

\* _release, another instance has the lock by now: leave its file alone.
ReleaseForeign(i) ==
    /\ pc[i] = "exiting" /\ ManagerFree
    /\ file.exists /\ ~Knows(i, file.mtime)
    /\ Forget(i)
    /\ Exited(i)
    /\ UNCHANGED <<now, file, cancelCalled, since>>

\* _release, there is no file: getmtime raises OSError and _release tries again.
ReleaseMissing(i) ==
    /\ pc[i] = "exiting" /\ ManagerFree
    /\ ~file.exists
    /\ Forget(i)
    /\ UNCHANGED <<now, file, pc, cancelCalled, since>>

\* Defect: the delay only covers the wait for the manager lock.
ExitTimeoutWhileAcquired(i) ==
    /\ pc[i] = "exiting"
    /\ isAcquired[i] /\ i \in MayAbandon
    /\ Exited(i)
    /\ UNCHANGED <<now, file, storedFileTs, isAcquired, cancelCalled, since>>

\* EXIT_MAX_DELAY is over: a _release that finds no file has nothing else to
\* end it; one that starves on the manager lock is an abandoned wait.
ExitTimeout(i) ==
    /\ pc[i] = "exiting"
    /\ ~isAcquired[i] \/ i \in MayAbandon
    /\ Exited(i)
    /\ UNCHANGED <<now, file, storedFileTs, isAcquired, cancelCalled, since>>

\* Defect: __del__ does nothing unless the object counts as acquired.
FinalizeIfAcquired(i) ==
    /\ pc[i] \in {"unused", "returned", "failed"}
    /\ IF isAcquired[i] /\ file.exists /\ Knows(i, file.mtime)
       THEN /\ Goto(i, "finalizing")
            /\ UNCHANGED <<storedFileTs, isAcquired>>
       ELSE /\ Goto(i, "unused")
            /\ Forget(i)
    /\ UNCHANGED <<now, file, cancelCalled, since>>

\* __del__ when the last reference goes: getmtime, without the manager lock.
Finalize(i) ==
    /\ pc[i] \in {"unused", "returned", "failed"}
    /\ IF file.exists /\ Knows(i, file.mtime)
       THEN /\ Goto(i, "finalizing")
            /\ UNCHANGED <<storedFileTs, isAcquired>>
       ELSE /\ Goto(i, "unused")
            /\ Forget(i)
    /\ UNCHANGED <<now, file, cancelCalled, since>>

\* __del__, the unlink.  The slot is free for a new object.
FinalUnlink(i) ==
    /\ pc[i] = "finalizing"
    /\ file' = NoFile
    /\ Forget(i)
    /\ Goto(i, "unused")
    /\ UNCHANGED <<now, cancelCalled, since>>

\* The process of i dies without running __aexit__ or __del__.
Crash(i) ==
    /\ i \in MayCrash
    /\ pc[i] # "unused"
    /\ Forget(i)
    /\ Goto(i, "unused")
    /\ UNCHANGED <<now, file, cancelCalled, since>>

Tick ==
    /\ now < MaxTime
    /\ now' = now + 1
    /\ UNCHANGED <<file, pc, storedFileTs, isAcquired, cancelCalled, since>>

Acquiring(i) ==
    \/ FindBusy(i) \/ FindCorrupt(i) \/ TakeOver(i) \/ FindFree(i)
    \/ Create(i) \/ Write(i) \/ WriteLost(i) \/ Resume(i)

Releasing(i) ==
    ReleaseOwn(i) \/ ReleaseForeign(i) \/ ReleaseMissing(i) \/ ExitTimeout(i)

Next ==
    \/ \E i \in Instances :
         \/ Enter(i) \/ Acquiring(i) \/ GiveUp(i)
         \/ \E raised \in BOOLEAN : Leave(i, raised)
         \/ Releasing(i) \/ Finalize(i) \/ FinalUnlink(i) \/ Crash(i)
    \/ Tick

Spec == Init /\ [][Next]_vars

-----------------------------------------------------------------------------
\* i has been given the lock and has not given it back.
Holding(i) == \/ pc[i] \in {"signalled", "inside"}
              \/ pc[i] = "exiting" /\ isAcquired[i]

HoldsLease(i) == Holding(i) /\ ~Lapsed(since[i], Timeout[i])

\* Weak fairness only: every task runs, the body of async with ends.  Nothing is
\* assumed of who wins the race for the manager lock.
Fairness == \A i \in Instances :
    /\ WF_vars(Acquiring(i))
    /\ WF_vars(\E raised \in BOOLEAN : Leave(i, raised))
    /\ WF_vars(Releasing(i))
    /\ WF_vars(ExitTimeout(i))
    /\ WF_vars(FinalUnlink(i))

FairSpec == Spec /\ Fairness

-----------------------------------------------------------------------------
\* The lease of the present file has not lapsed.
InForce == file.written /\ ~Lapsed(file.mtime, file.timeout)

\* "named locks (mutexes)", docs/receipts/caching.md: while the lease of a
\* holder has not lapsed, no other instance has the lock.
MutualExclusion ==
    \A i, j \in Instances : HoldsLease(i) /\ HoldsLease(j) => i = j

\* __aexit__ that ends without an error leaves no file of its own behind, so
\* the next acquirer need not wait for a timeout; unless EXIT_MAX_DELAY cut it
\* short, when the object still counts as acquired.
LeavesNothingBehind ==
    \A i \in Instances : pc[i] = "returned" /\ ~isAcquired[i] => file.writer # i

\* What __del__ is for: once an object is collected, its file is gone, however
\* its wait ended, unless its process died.
FinaliserCleansUp ==
    \A i \in Instances \ MayCrash : pc[i] = "unused" => file.writer # i

\* A file whose lease has not lapsed goes away only when an instance that was
\* granted the lock at that very mtime gives it back, or in a finaliser.
\* _sync_release looks at the mtime for this; it cannot tell two files of one
\* tick apart.
OnlyFinaliserRobs ==
    [][ InForce /\ file' # file
          => \E i \in Instances :
               \/ Holding(i) /\ since[i] = file.mtime /\ ~Holding(i)'
               \/ pc[i] = "finalizing" /\ pc'[i] = "unused" ]_vars

\* A wait that nothing cuts short ends in acquiring the lock, never in an error:
\* "Timeout for lock has expired, so we acquire it."
WaitEndsInAcquiring ==
    [][ \A i \in Instances \ MayAbandon :
          pc[i] = "acquiring" => pc'[i] # "failed" ]_vars

\* The retry loop of _acquire: a lock that is free, or whose lease has lapsed, is
\* taken while somebody goes on waiting for it (by whom is left to the race for
\* the manager lock).  An object entered again after EXIT_MAX_DELAY cut its
\* release short still counts as acquired, and waits for an event nobody sets.
Progress ==
    \A i \in Instances :
        pc[i] = "acquiring" /\ ~isAcquired[i] /\ ~InForce
            ~> InForce \/ pc[i] # "acquiring"

\* EXIT_MAX_DELAY: __aexit__ ends even when the file of the instance is gone or
\* others keep the manager lock busy.
ExitCompletes == \A i \in Instances : pc[i] = "exiting" ~> pc[i] # "exiting"

-----------------------------------------------------------------------------
\* The lock promised to callers, and how the file keeps the promise: a written
\* file is the lease.
Lease == INSTANCE LeaseLock WITH
    lease <- IF file.written THEN [holder |-> file.writer, since |-> file.mtime]
                             ELSE [holder |-> Nobody, since |-> 0],
    holding <- {i \in Instances : Holding(i)}

\* FileLock implements the abstract lock, as long as no wait is cut short.
ImplementsLease == Lease!LeaseSpec
=============================================================================

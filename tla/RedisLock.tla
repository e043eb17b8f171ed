------------------------------ MODULE RedisLock ------------------------------
(***************************************************************************)
(* contrib/redis/redislock.py: RedisLock, the lock that RedisCache hands   *)
(* out for cache.lock(name).  Entering it is left to the lock of redis-py: *)
(* SET NX PX, tried again until it succeeds; leaving it is the code here.  *)
(* The key in the server is the lease.  Each command is one step of the    *)
(* server, and the reply is another step, which may never come.            *)
(***************************************************************************)
EXTENDS Naturals

CONSTANTS
    Instances,  \* the RedisLock objects that contend for one name
    Timeout,    \* Timeout[i]: the timeout i was made with
    Infinity,   \* timeout=None
    Nobody,     \* the holder of a key that is not there
    MaxTime     \* bound on the clock

\* What the theorems need of them.
LockConstants ==
    /\ MaxTime \in Nat
    /\ Infinity \notin Nat
    /\ Nobody \notin Instances
    /\ Timeout \in [Instances -> Nat \cup {Infinity}]

VARIABLES
    now,    \* the clock of the server
    key,    \* the key of the lock: whose token is in it and since when
    pc,     \* where each instance is
    since   \* history: when the server last let an instance in

vars == <<now, key, pc, since>>

Points == {"outside",
           "acquiring",  \* in __aenter__
           "granted",    \* SET has succeeded, the reply is under way
           "inside",     \* in the body; local.token is the token
           "releasing",  \* in __aexit__; the token is forgotten
           "dropped"}    \* __aexit__ has ended, its command has not

NoKey == [holder |-> Nobody, since |-> 0]

TypeOK ==
    /\ now \in Nat
    /\ key \in [holder: Instances \cup {Nobody}, since: Nat]
    /\ pc \in [Instances -> Points]
    /\ since \in [Instances -> Nat]

Init ==
    /\ now = 0
    /\ key = NoKey
    /\ pc = [i \in Instances |-> "outside"]
    /\ since = [i \in Instances |-> 0]

-----------------------------------------------------------------------------
Lapsed(ts, d) == d # Infinity /\ ts + d <= now

InForce == key.holder # Nobody /\ ~Lapsed(key.since, Timeout[key.holder])

Move(i, from, to) == pc[i] = from /\ pc' = [pc EXCEPT ![i] = to]

Enter(i) ==
    /\ Move(i, "outside", "acquiring")
    /\ UNCHANGED <<now, key, since>>

\* SET key token NX PX timeout
SetNX(i) ==
    /\ Move(i, "acquiring", "granted")
    /\ ~InForce
    /\ key' = [holder |-> i, since |-> now]
    /\ since' = [since EXCEPT ![i] = now]
    /\ UNCHANGED now

\* super().__aenter__() returns.
Acquired(i) ==
    /\ Move(i, "granted", "inside")
    /\ UNCHANGED <<now, key, since>>

\* __aenter__ raises CacheLockError, or is cancelled.  The token of a SET that
\* succeeded all the same is lost.
GiveUp(i) ==
    /\ Move(i, "acquiring", "outside") \/ Move(i, "granted", "outside")
    /\ UNCHANGED <<now, key, since>>

\* __aexit__ forgets the token and sends the script.
Exit(i) ==
    /\ Move(i, "inside", "releasing")
    /\ UNCHANGED <<now, key, since>>

\* lua_release: delete the key if it has the token.
LuaRelease(i) ==
    /\ Move(i, "releasing", "outside") \/ Move(i, "dropped", "outside")
    /\ key' = IF key.holder = i THEN NoKey ELSE key
    /\ UNCHANGED <<now, since>>

\* EXIT_MAX_DELAY, or an error that becomes a CacheLockError, while the script
\* is under way.
Drop(i) ==
    /\ Move(i, "releasing", "dropped")
    /\ UNCHANGED <<now, key, since>>

\* The script never reaches the server, or the process dies inside.  Nobody has
\* the token any more.
Vanish(i) ==
    /\ Move(i, "inside", "outside") \/ Move(i, "releasing", "outside")
         \/ Move(i, "dropped", "outside")
    /\ UNCHANGED <<now, key, since>>

\* The server drops a key whose PX is over.
KeyExpires ==
    /\ key.holder # Nobody /\ ~InForce
    /\ key' = NoKey
    /\ UNCHANGED <<now, pc, since>>

Tick ==
    /\ now < MaxTime
    /\ now' = now + 1
    /\ UNCHANGED <<key, pc, since>>

Step(i) ==
    \/ Enter(i) \/ SetNX(i) \/ Acquired(i) \/ GiveUp(i)
    \/ Exit(i) \/ LuaRelease(i) \/ Drop(i) \/ Vanish(i)

Next == (\E i \in Instances : Step(i)) \/ KeyExpires \/ Tick

Spec == Init /\ [][Next]_vars

-----------------------------------------------------------------------------
\* The instances whose token the server was given and not told to forget.
Holding == {i \in Instances : pc[i] \notin {"outside", "acquiring"}}

\* An instance in the body whose timeout is not over is alone there.
MutualExclusion ==
    \A i, j \in Instances :
        /\ pc[i] = "inside" /\ ~Lapsed(since[i], Timeout[i])
        /\ pc[j] = "inside" /\ ~Lapsed(since[j], Timeout[j])
        => i = j

\* The key is that of any holder whose timeout is not over.
KeyIsLease ==
    \A i \in Holding :
        ~Lapsed(since[i], Timeout[i]) => key = [holder |-> i, since |-> since[i]]

Lease == INSTANCE LeaseLock WITH lease <- key, holding <- Holding
=============================================================================

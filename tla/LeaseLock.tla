----------------------------- MODULE LeaseLock -----------------------------
(***************************************************************************)
(* What a named lock of starlette-web promises to the code that uses it,   *)
(* whatever the backend: at any time there is at most one lease; a lease   *)
(* lasts for the timeout its holder asked for; until it has lapsed nobody  *)
(* else is granted the lock, and afterwards anybody may be.  A holder that *)
(* stays inside past its lease has lost the lock without being told, and   *)
(* leaving then must not disturb the lease of its successor.               *)
(***************************************************************************)
EXTENDS Naturals

CONSTANTS
    Instances,  \* the lock objects that contend for one name
    Timeout,    \* Timeout[i]: for how long i may keep the lock
    Infinity,   \* the timeout of a lock taken without one
    Nobody,     \* the holder of a lease nobody has
    MaxTime     \* bound on the clock
\* What they must satisfy is assumed where the module is instantiated.

VARIABLES
    now,        \* the clock
    lease,      \* the lease in force: who has it and since when
    holding     \* the instances between being granted the lock and leaving

leaseVars == <<now, lease, holding>>

Time == 0 .. MaxTime

NoLease == [holder |-> Nobody, since |-> 0]

LeaseTypeOK ==
    /\ now \in Time
    /\ lease \in [holder: Instances \cup {Nobody}, since: Time]
    /\ holding \subseteq Instances

LeaseInit ==
    /\ now = 0
    /\ lease = NoLease
    /\ holding = {}

\* A lease taken at ts for d has run out.
Lapsed(ts, d) == d # Infinity /\ ts + d <= now

InForce == lease.holder # Nobody /\ ~Lapsed(lease.since, Timeout[lease.holder])

-----------------------------------------------------------------------------
Grant(i) ==
    /\ i \notin holding
    /\ ~InForce
    /\ lease' = [holder |-> i, since |-> now]
    /\ holding' = holding \cup {i}
    /\ UNCHANGED now

\* A holder leaves.  It gives its lease back if it still has it; the lease of
\* a successor stays.
GiveBack(i) ==
    /\ i \in holding
    /\ holding' = holding \ {i}
    /\ lease' = IF lease.holder = i THEN NoLease ELSE lease
    /\ UNCHANGED now

\* A holder dies, or gives up trying to give the lease back: the lease stays
\* in force until it lapses.
Vanish(i) ==
    /\ i \in holding
    /\ holding' = holding \ {i}
    /\ UNCHANGED <<now, lease>>

\* The trace of a lapsed lease is wiped.
Expire ==
    /\ lease.holder # Nobody
    /\ ~InForce
    /\ lease' = NoLease
    /\ UNCHANGED <<now, holding>>

LeaseTick ==
    /\ now < MaxTime
    /\ now' = now + 1
    /\ UNCHANGED <<lease, holding>>

LeaseNext ==
    \/ \E i \in Instances : Grant(i) \/ GiveBack(i) \/ Vanish(i)
    \/ Expire
    \/ LeaseTick

LeaseSpec == LeaseInit /\ [][LeaseNext]_leaseVars
=============================================================================

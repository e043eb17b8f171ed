--------------------------- MODULE RedisLockProofs ---------------------------
(***************************************************************************)
(* Proofs about RedisLock, for any number of instances, any timeouts and   *)
(* any length of time.                                                     *)
(***************************************************************************)
EXTENDS RedisLock, TLAPS

LockInv == TypeOK /\ KeyIsLease

LEMMA InitInv == LockConstants /\ Init => LockInv
BY DEF LockConstants, Init, LockInv, TypeOK, Points, KeyIsLease, Holding, NoKey

\* Every action keeps the variables where they belong.
LEMMA TypeStep == LockConstants /\ TypeOK /\ [Next]_vars => TypeOK'
<1> SUFFICES ASSUME LockConstants, TypeOK, [Next]_vars
             PROVE  TypeOK'
  OBVIOUS
<1> USE DEF LockConstants, TypeOK, Points
<1>1. ASSUME NEW i \in Instances, Step(i)
      PROVE  TypeOK'
  BY <1>1 DEF Step, Enter, SetNX, Acquired, GiveUp, Exit, LuaRelease, Drop, Vanish,
              Move, NoKey
<1>2. CASE KeyExpires
  BY <1>2 DEF KeyExpires, NoKey
<1>3. CASE Tick
  BY <1>3 DEF Tick
<1>4. CASE UNCHANGED vars
  BY <1>4 DEF vars
<1> QED
  BY <1>1, <1>2, <1>3, <1>4 DEF Next

\* Only SetNX makes a holder; whoever is one stays alone until the timeout is
\* over, because SET NX is refused until then and only the token deletes the key.
LEMMA KeyStep == LockConstants /\ LockInv /\ [Next]_vars => KeyIsLease'
<1> SUFFICES ASSUME LockConstants, LockInv, [Next]_vars,
                    NEW i \in Holding', ~Lapsed(since[i], Timeout[i])'
             PROVE  key' = [holder |-> i, since |-> since'[i]]
  BY DEF KeyIsLease
<1> USE DEF LockConstants, LockInv, TypeOK, Points, KeyIsLease, Holding
<1>1. ASSUME NEW j \in Instances, SetNX(j)
      PROVE  key' = [holder |-> i, since |-> since'[i]]
  <2>1. CASE i = j
    BY <1>1, <2>1 DEF SetNX
  <2>2. CASE i # j
    <3>1. i \in Holding /\ ~Lapsed(since[i], Timeout[i])
      BY <1>1, <2>2 DEF SetNX, Move, Lapsed
    <3>2. InForce
      BY <3>1 DEF InForce
    <3> QED
      BY <1>1, <3>2 DEF SetNX
  <2> QED
    BY <2>1, <2>2
<1>2. ASSUME NEW j \in Instances, Enter(j) \/ Acquired(j) \/ GiveUp(j) \/ Exit(j)
                                    \/ Drop(j) \/ Vanish(j)
      PROVE  key' = [holder |-> i, since |-> since'[i]]
  BY <1>2 DEF Enter, Acquired, GiveUp, Exit, Drop, Vanish, Move, Lapsed
<1>3. ASSUME NEW j \in Instances, LuaRelease(j)
      PROVE  key' = [holder |-> i, since |-> since'[i]]
  BY <1>3 DEF LuaRelease, Move, Lapsed
<1>4. CASE KeyExpires
  BY <1>4 DEF KeyExpires, InForce, Lapsed
<1>5. CASE Tick
  BY <1>5 DEF Tick, Lapsed
<1>6. CASE UNCHANGED vars
  BY <1>6 DEF vars, Lapsed
<1> QED
  BY <1>1, <1>2, <1>3, <1>4, <1>5, <1>6 DEF Next, Step

\* The inductive invariant of the lock.
THEOREM Invariant ==
    ASSUME LockConstants
    PROVE  Spec => []LockInv
<1>1. LockInv /\ [Next]_vars => LockInv'
  BY TypeStep, KeyStep DEF LockInv
<1>2. Init => LockInv
  BY InitInv
<1> QED
  BY <1>1, <1>2, PTL DEF Spec

\* While the timeout of a holder is not over nobody else is in the body, unless
\* its own timeout is.
THEOREM Exclusion ==
    ASSUME LockConstants
    PROVE  Spec => []MutualExclusion
<1>1. LockInv => MutualExclusion
  <2> SUFFICES ASSUME LockInv,
                      NEW i \in Instances, NEW j \in Instances,
                      pc[i] = "inside", ~Lapsed(since[i], Timeout[i]),
                      pc[j] = "inside", ~Lapsed(since[j], Timeout[j])
               PROVE  i = j
    BY DEF MutualExclusion
  <2>1. i \in Holding /\ j \in Holding
    BY DEF Holding
  <2>2. key.holder = i /\ key.holder = j
    BY <2>1 DEF LockInv, KeyIsLease
  <2> QED
    BY <2>2
<1> QED
  BY <1>1, Invariant, PTL

\* RedisLock is the lock of LeaseLock: replies that are lost, scripts that come
\* late and keys that expire are all things that lock allows.
THEOREM ImplementsLease ==
    ASSUME LockConstants
    PROVE  Spec => Lease!LeaseSpec
<1>1. Init => Lease!LeaseInit
  BY DEF Init, Lease!LeaseInit, Lease!NoLease, NoKey, Holding
<1>2. LockInv /\ [Next]_vars => [Lease!LeaseNext]_(Lease!leaseVars)
  <2> SUFFICES ASSUME LockInv, [Next]_vars
               PROVE  [Lease!LeaseNext]_(Lease!leaseVars)
    OBVIOUS
  <2> USE DEF LockInv, TypeOK, Points, Holding, Lease!LeaseNext, Lease!leaseVars
  <2>1. ASSUME NEW i \in Instances, SetNX(i)
        PROVE  Lease!Grant(i)
    BY <2>1 DEF SetNX, Move, Lease!Grant, InForce, Lapsed, Lease!InForce, Lease!Lapsed
  <2>2. ASSUME NEW i \in Instances, LuaRelease(i)
        PROVE  Lease!GiveBack(i)
    BY <2>2 DEF LuaRelease, Move, NoKey, Lease!GiveBack, Lease!NoLease
  <2>3. ASSUME NEW i \in Instances, Vanish(i) \/ (pc[i] = "granted" /\ GiveUp(i))
        PROVE  Lease!Vanish(i)
    BY <2>3 DEF Vanish, GiveUp, Move, Lease!Vanish
  <2>4. ASSUME NEW i \in Instances,
               Enter(i) \/ Acquired(i) \/ Exit(i) \/ Drop(i)
                 \/ (pc[i] # "granted" /\ GiveUp(i))
        PROVE  [Lease!LeaseNext]_(Lease!leaseVars)
    BY <2>4 DEF Enter, Acquired, Exit, Drop, GiveUp, Move
  <2>5. CASE KeyExpires
    BY <2>5 DEF KeyExpires, NoKey, InForce, Lapsed,
                Lease!Expire, Lease!NoLease, Lease!InForce, Lease!Lapsed
  <2>6. CASE Tick
    BY <2>6 DEF Tick, Lease!LeaseTick
  <2>7. CASE UNCHANGED vars
    BY <2>7 DEF vars
  <2>8. ASSUME NEW i \in Instances, Step(i)
        PROVE  [Lease!LeaseNext]_(Lease!leaseVars)
    <3> HIDE DEF LockInv, TypeOK, Points, Holding, Lease!leaseVars
    <3>1. CASE SetNX(i)
      BY <2>1, <3>1
    <3>2. CASE LuaRelease(i)
      BY <2>2, <3>2
    <3>3. CASE Vanish(i) \/ (pc[i] = "granted" /\ GiveUp(i))
      BY <2>3, <3>3
    <3>4. CASE Enter(i) \/ Acquired(i) \/ Exit(i) \/ Drop(i)
                 \/ (pc[i] # "granted" /\ GiveUp(i))
      BY <2>4, <3>4
    <3> QED
      BY <2>8, <3>1, <3>2, <3>3, <3>4 DEF Step
  <2> QED
    BY <2>5, <2>6, <2>7, <2>8 DEF Next
<1> QED
  BY <1>1, <1>2, Invariant, PTL DEF Spec, Lease!LeaseSpec
=============================================================================

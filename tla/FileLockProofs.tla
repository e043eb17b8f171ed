--------------------------- MODULE FileLockProofs ---------------------------
(***************************************************************************)
(* Proofs about FileLock, for any number of instances, any timeouts that   *)
(* the theorems allow and any bound on the clock.                          *)
(***************************************************************************)
EXTENDS FileLockInvariant, TLAPS

LEMMA ForgetType ==
    ASSUME TypeOK, NEW i \in Instances, Forget(i)
    PROVE  /\ storedFileTs' \in [Instances -> [Time -> Timeouts \cup {Unseen}]]
           /\ isAcquired' \in [Instances -> BOOLEAN]
  BY DEF TypeOK, Forget, NothingStored

LEMMA ExitedType ==
    ASSUME TypeOK, NEW i \in Instances, Exited(i)
    PROVE  pc' \in [Instances -> Points]
  BY DEF TypeOK, Exited, Goto, Points

LEMMA NoFileType == NoFile \in Files
  BY FileLockAssumption DEF NoFile, Files, Time, Timeouts

LEMMA TimeoutSeenType ==
    ASSUME TypeOK, NEW i \in Instances
    PROVE  /\ file.mtime \in Time
           /\ TimeoutSeen(i) \in Timeouts
  BY DEF TypeOK, Files, TimeoutSeen, Knows

\* Every variable keeps its type, for any timeouts and with every wait
\* interruptible: what each step of filelock.py assigns is of the right sort.
THEOREM TypeCorrect == Spec => []TypeOK
<1>1. Init => TypeOK
  BY FileLockAssumption, NoFileType
     DEF Init, TypeOK, NothingStored, Time, Points
<1>2. ASSUME TypeOK, [Next]_vars
      PROVE  TypeOK'
  <2> USE <1>2
  <2>1. ASSUME NEW i \in Instances, Enter(i)
        PROVE  TypeOK'
    BY <2>1 DEF Enter, Goto, TypeOK, Points
  <2>2. ASSUME NEW i \in Instances, FindBusy(i)
        PROVE  TypeOK'
    BY <2>2, TimeoutSeenType DEF FindBusy, TypeOK
  <2>3. ASSUME NEW i \in Instances, FindCorrupt(i)
        PROVE  TypeOK'
    BY <2>3 DEF FindCorrupt, Goto, TypeOK, Points
  <2>4. ASSUME NEW i \in Instances, TakeOver(i)
        PROVE  TypeOK'
    BY <2>4, ForgetType, NoFileType DEF TakeOver, Goto, TypeOK, Points
  <2>5. ASSUME NEW i \in Instances, FindFree(i)
        PROVE  TypeOK'
    BY <2>5 DEF FindFree, Goto, TypeOK, Points
  <2>6. ASSUME NEW i \in Instances, Create(i)
        PROVE  TypeOK'
    BY <2>6 DEF Create, Goto, TypeOK, Points, Files, Timeouts
  <2>7. ASSUME NEW i \in Instances, Write(i)
        PROVE  TypeOK'
    BY <2>7, FileLockAssumption DEF Write, Goto, TypeOK, Points, Files, Timeouts
  <2>8. ASSUME NEW i \in Instances, WriteLost(i)
        PROVE  TypeOK'
    BY <2>8 DEF WriteLost, Goto, TypeOK, Points
  <2>9. ASSUME NEW i \in Instances, Resume(i)
        PROVE  TypeOK'
    BY <2>9 DEF Resume, Goto, TypeOK, Points
  <2>10. ASSUME NEW i \in Instances, GiveUp(i)
         PROVE  TypeOK'
    BY <2>10 DEF GiveUp, Goto, TypeOK, Points
  <2>11. ASSUME NEW i \in Instances, NEW raised \in BOOLEAN, Leave(i, raised)
         PROVE  TypeOK'
    BY <2>11 DEF Leave, Goto, TypeOK, Points
  <2>12. ASSUME NEW i \in Instances, Releasing(i)
         PROVE  TypeOK'
    <3>1. CASE ReleaseOwn(i)
      BY <3>1, ForgetType, ExitedType, NoFileType DEF ReleaseOwn, TypeOK
    <3>2. CASE ReleaseForeign(i)
      BY <3>2, ForgetType, ExitedType DEF ReleaseForeign, TypeOK
    <3>3. CASE ReleaseMissing(i)
      BY <3>3, ForgetType DEF ReleaseMissing, TypeOK
    <3>4. CASE ExitTimeout(i)
      BY <3>4, ExitedType DEF ExitTimeout, TypeOK
    <3> QED
      BY <2>12, <3>1, <3>2, <3>3, <3>4 DEF Releasing
  <2>13. ASSUME NEW i \in Instances, Finalize(i)
         PROVE  TypeOK'
    BY <2>13, ForgetType DEF Finalize, Goto, TypeOK, Points
  <2>14. ASSUME NEW i \in Instances, FinalUnlink(i)
         PROVE  TypeOK'
    BY <2>14, ForgetType, NoFileType DEF FinalUnlink, Goto, TypeOK, Points
  <2>15. ASSUME NEW i \in Instances, Crash(i)
         PROVE  TypeOK'
    BY <2>15, ForgetType DEF Crash, Goto, TypeOK, Points
  <2>16. CASE Tick
    BY <2>16, FileLockAssumption DEF Tick, TypeOK, Time
  <2>17. CASE UNCHANGED vars
    BY <2>17 DEF vars, TypeOK
  <2> QED
    BY <2>1, <2>2, <2>3, <2>4, <2>5, <2>6, <2>7, <2>8, <2>9, <2>10, <2>11,
       <2>12, <2>13, <2>14, <2>15, <2>16, <2>17 DEF Next, Acquiring
<1> QED
  BY <1>1, <1>2, PTL DEF Spec

-----------------------------------------------------------------------------
(***************************************************************************)
(* Mutual exclusion.  A file is told from another by its mtime alone, so   *)
(* the argument is about times: a file made after a lease lapsed is        *)
(* strictly younger than that lease (timeouts are not 0), hence a late     *)
(* holder does not know the mtime of its successor's file and leaves it    *)
(* alone; and nobody else removes a file before its lease lapses, because  *)
(* every entry of _stored_file_ts says T.                                  *)
(***************************************************************************)
NoAbandonment == MayAbandon = {}

\* With one timeout for all, what an instance takes for the timeout of a file
\* it may read is T, whether it remembers it or reads it.
LEMMA TimeoutSeenIsT ==
    ASSUME TypeOK, FileInv, StoredInv, NEW i \in Instances,
           Knows(i, file.mtime) \/ file.written
    PROVE  TimeoutSeen(i) = T
  BY TimeoutSeenType DEF TimeoutSeen, FileInv, StoredInv

\* The five parts of the invariant are inductive together: one timeout for all and no
\* wait that is cut short are enough for the mtimes in _stored_file_ts to tell a
\* holder's file from every other.
THEOREM InductiveInvariant ==
    ASSUME NoAbandonment, SameTimeout
    PROVE  Spec => []IInv
<1>1. Init => IInv
  BY FileLockAssumption, NoFileType
     DEF Init, IInv, TypeOK, NothingStored, Time, Points, NoFile, Knows, Holding,
         MakingInv, FileInv, StoredInv, IdleInv, HolderInv
<1>2. ASSUME IInv, [Next]_vars, TypeOK'
      PROVE  IInv'
  <2> USE <1>2, SameTimeout, NoAbandonment, FileLockAssumption
      DEF SameTimeout, AgreedTimeout, NoAbandonment, IInv, Time, Timeouts
  <2>1. ASSUME NEW i \in Instances, Enter(i)
        PROVE  MakingInv' /\ FileInv' /\ StoredInv' /\ IdleInv' /\ HolderInv'
    <3>1. MakingInv'
      BY <2>1 DEF Enter, TypeOK, Goto, Points, MakingInv
    <3>2. FileInv' /\ StoredInv'
      BY <2>1 DEF Enter, TypeOK, FileInv, StoredInv, Knows
    <3>3. IdleInv'
      BY <2>1 DEF Enter, TypeOK, Goto, Points, IdleInv, Knows
    <3>4. HolderInv'
      BY <2>1 DEF Enter, TypeOK, Goto, Points, HolderInv, Holding, Knows, Lapsed
    <3> QED
      BY <3>1, <3>2, <3>3, <3>4
  <2>2. ASSUME NEW i \in Instances, FindBusy(i)
        PROVE  MakingInv' /\ FileInv' /\ StoredInv' /\ IdleInv' /\ HolderInv'
    <3>1. storedFileTs' = [storedFileTs EXCEPT ![i][file.mtime] = T]
      BY <2>2, TimeoutSeenIsT DEF FindBusy
    <3>2. MakingInv' /\ FileInv'
      BY <2>2 DEF FindBusy, MakingInv, FileInv
    <3>3. StoredInv'
      BY <2>2, <3>1 DEF FindBusy, TypeOK, Files, FileInv, StoredInv, Knows
    <3>4. IdleInv'
      BY <2>2, <3>1 DEF FindBusy, Polls, TypeOK, IdleInv, Knows
    <3>5. HolderInv'
      BY <2>2, <3>1 DEF FindBusy, Polls, TypeOK, HolderInv, Holding, Knows, Lapsed
    <3> QED
      BY <3>1, <3>2, <3>3, <3>4, <3>5
  <2>3. ASSUME NEW i \in Instances, FindCorrupt(i)
        PROVE  MakingInv' /\ FileInv' /\ StoredInv' /\ IdleInv' /\ HolderInv'
    <3>1. MakingInv'
      BY <2>3 DEF FindCorrupt, Polls, TypeOK, Goto, Points, MakingInv
    <3>2. FileInv' /\ StoredInv'
      BY <2>3 DEF FindCorrupt, Polls, TypeOK, FileInv, StoredInv, Knows
    <3>3. IdleInv'
      BY <2>3 DEF FindCorrupt, Polls, TypeOK, Goto, Points, IdleInv, StoredInv,
             FileInv, Files, Knows
    <3>4. HolderInv'
      BY <2>3 DEF FindCorrupt, Polls, TypeOK, Goto, Points, HolderInv, Holding, Knows,
             Lapsed
    <3> QED
      BY <3>1, <3>2, <3>3, <3>4
  <2>4. ASSUME NEW i \in Instances, TakeOver(i)
        PROVE  MakingInv' /\ FileInv' /\ StoredInv' /\ IdleInv' /\ HolderInv'
    <3>1. Lapsed(file.mtime, T)
      BY <2>4, TimeoutSeenIsT DEF TakeOver
    <3>2. MakingInv'
      BY <2>4 DEF TakeOver, Polls, ManagerFree, TypeOK, Goto, Points, MakingInv, NoFile
    <3>3. FileInv' /\ StoredInv'
      BY <2>4 DEF Forget, NothingStored, TakeOver, NoFile, TypeOK, FileInv, StoredInv,
             Knows
    <3>4. IdleInv'
      BY <2>4 DEF Forget, NothingStored, TakeOver, Polls, NoFile, TypeOK, Goto, Points,
             IdleInv, Knows
    <3>5. HolderInv'
      BY <2>4, <3>1 DEF Forget, NothingStored, TakeOver, Polls, NoFile, TypeOK, Goto,
             Points, HolderInv, Holding, Knows, Lapsed
    <3> QED
      BY <3>1, <3>2, <3>3, <3>4, <3>5
  <2>5. ASSUME NEW i \in Instances, FindFree(i)
        PROVE  MakingInv' /\ FileInv' /\ StoredInv' /\ IdleInv' /\ HolderInv'
    <3>1. MakingInv'
      BY <2>5 DEF FindFree, Polls, ManagerFree, TypeOK, Goto, Points, MakingInv
    <3>2. FileInv' /\ StoredInv'
      BY <2>5 DEF FindFree, Polls, TypeOK, FileInv, StoredInv, Knows
    <3>3. IdleInv'
      BY <2>5 DEF FindFree, Polls, TypeOK, Goto, Points, IdleInv, Knows
    <3>4. HolderInv'
      BY <2>5 DEF FindFree, Polls, TypeOK, Goto, Points, HolderInv, Holding, Knows,
             Lapsed
    <3> QED
      BY <3>1, <3>2, <3>3, <3>4
  <2>6. ASSUME NEW i \in Instances, Create(i)
        PROVE  MakingInv' /\ FileInv' /\ StoredInv' /\ IdleInv' /\ HolderInv'
    <3>1. ~file.exists /\ ~file.written
      BY <2>6 DEF Create, MakingInv, FileInv
    <3>2. MakingInv'
      BY <2>6 DEF Create, TypeOK, Goto, Points, MakingInv
    <3>3. FileInv' /\ StoredInv'
      BY <2>6 DEF Create, TypeOK, FileInv, StoredInv, Knows
    <3>4. IdleInv'
      BY <2>6 DEF Create, TypeOK, Goto, Points, IdleInv, StoredInv, Knows
    <3>5. HolderInv'
      BY <2>6, <3>1 DEF Create, TypeOK, Goto, Points, HolderInv, Holding, Knows, Lapsed
    <3> QED
      BY <3>1, <3>2, <3>3, <3>4, <3>5
  <2>7. ASSUME NEW i \in Instances, Write(i)
        PROVE  MakingInv' /\ FileInv' /\ StoredInv' /\ IdleInv' /\ HolderInv'
    <3>1. file.exists /\ ~file.written /\ file.writer = i
      BY <2>7 DEF Write, MakingInv
    <3>2. MakingInv'
      BY <2>7 DEF Write, TypeOK, Goto, Points, MakingInv
    <3>3. FileInv' /\ StoredInv'
      BY <2>7, <3>1 DEF Write, TypeOK, Files, FileInv, StoredInv, Knows
    <3>4. IdleInv'
      BY <2>7, <3>1 DEF Write, TypeOK, Goto, Points, Files, IdleInv, FileInv, Knows
    <3>5. HolderInv'
      BY <2>7, <3>1 DEF Write, TypeOK, Goto, Points, Files, HolderInv, FileInv,
             StoredInv, Holding, Knows, Lapsed
    <3> QED
      BY <3>1, <3>2, <3>3, <3>4, <3>5
  <2>8. ASSUME NEW i \in Instances, WriteLost(i)
        PROVE  MakingInv' /\ FileInv' /\ StoredInv' /\ IdleInv' /\ HolderInv'
    BY <2>8 DEF WriteLost, MakingInv
  <2>9. ASSUME NEW i \in Instances, Resume(i)
        PROVE  MakingInv' /\ FileInv' /\ StoredInv' /\ IdleInv' /\ HolderInv'
    <3>1. MakingInv'
      BY <2>9 DEF Resume, TypeOK, Goto, Points, MakingInv
    <3>2. FileInv' /\ StoredInv'
      BY <2>9 DEF Resume, TypeOK, FileInv, StoredInv, Knows
    <3>3. IdleInv'
      BY <2>9 DEF Resume, TypeOK, Goto, Points, IdleInv, Knows
    <3>4. HolderInv'
      BY <2>9 DEF Resume, TypeOK, Goto, Points, HolderInv, Holding, Knows, Lapsed
    <3> QED
      BY <3>1, <3>2, <3>3, <3>4
  <2>10. ASSUME NEW i \in Instances, GiveUp(i)
         PROVE  MakingInv' /\ FileInv' /\ StoredInv' /\ IdleInv' /\ HolderInv'
    BY <2>10 DEF GiveUp
  <2>11. ASSUME NEW i \in Instances, NEW raised \in BOOLEAN, Leave(i, raised)
         PROVE  MakingInv' /\ FileInv' /\ StoredInv' /\ IdleInv' /\ HolderInv'
    <3>1. MakingInv'
      BY <2>11 DEF Leave, TypeOK, Goto, Points, MakingInv
    <3>2. FileInv' /\ StoredInv'
      BY <2>11 DEF Leave, TypeOK, FileInv, StoredInv, Knows
    <3>3. IdleInv'
      BY <2>11 DEF Leave, TypeOK, Goto, Points, IdleInv, Knows
    <3>4. HolderInv'
      BY <2>11 DEF Leave, TypeOK, Goto, Points, HolderInv, Holding, Knows, Lapsed
    <3> QED
      BY <3>1, <3>2, <3>3, <3>4
  <2>12. ASSUME NEW i \in Instances, ReleaseOwn(i)
         PROVE  MakingInv' /\ FileInv' /\ StoredInv' /\ IdleInv' /\ HolderInv'
    <3>1. isAcquired[i]
      BY <2>12 DEF ReleaseOwn, IdleInv, Knows, NothingStored, TypeOK, Files
    <3>2. file.writer = i \/ Lapsed(file.mtime, T)
      BY <2>12, <3>1 DEF ReleaseOwn, HolderInv, Holding, Files, TypeOK, Lapsed
    <3>3. MakingInv'
      BY <2>12 DEF ReleaseOwn, Exited, ManagerFree, TypeOK, Goto, Points, MakingInv,
             NoFile
    <3>4. FileInv' /\ StoredInv'
      BY <2>12 DEF Forget, NothingStored, ReleaseOwn, NoFile, TypeOK, FileInv,
             StoredInv, Knows
    <3>5. IdleInv'
      BY <2>12 DEF Forget, NothingStored, ReleaseOwn, Exited, NoFile, TypeOK, Goto,
             Points, IdleInv, Knows
    <3>6. HolderInv'
      BY <2>12, <3>2 DEF Forget, NothingStored, ReleaseOwn, Exited, NoFile, TypeOK,
             Goto, Points, HolderInv, Holding, Knows, Lapsed
    <3> QED
      BY <3>1, <3>2, <3>3, <3>4, <3>5, <3>6
  <2>13. ASSUME NEW i \in Instances, ReleaseForeign(i)
         PROVE  MakingInv' /\ FileInv' /\ StoredInv' /\ IdleInv' /\ HolderInv'
    <3>1. MakingInv'
      BY <2>13 DEF ReleaseForeign, Exited, TypeOK, Goto, Points, MakingInv
    <3>2. FileInv' /\ StoredInv'
      BY <2>13 DEF Forget, NothingStored, ReleaseForeign, TypeOK, FileInv, StoredInv,
             Knows
    <3>3. IdleInv'
      BY <2>13 DEF Forget, NothingStored, ReleaseForeign, Exited, TypeOK, Goto, Points,
             IdleInv, Knows
    <3>4. HolderInv'
      BY <2>13 DEF Forget, NothingStored, ReleaseForeign, Exited, TypeOK, Goto, Points,
             HolderInv, Holding, Knows, Lapsed
    <3> QED
      BY <3>1, <3>2, <3>3, <3>4
  <2>14. ASSUME NEW i \in Instances, ReleaseMissing(i)
         PROVE  MakingInv' /\ FileInv' /\ StoredInv' /\ IdleInv' /\ HolderInv'
    <3>1. MakingInv'
      BY <2>14 DEF ReleaseMissing, TypeOK, Goto, Points, MakingInv
    <3>2. FileInv' /\ StoredInv'
      BY <2>14 DEF Forget, NothingStored, ReleaseMissing, TypeOK, FileInv, StoredInv,
             Knows
    <3>3. IdleInv'
      BY <2>14 DEF Forget, NothingStored, ReleaseMissing, TypeOK, Goto, Points,
             IdleInv, Knows
    <3>4. HolderInv'
      BY <2>14 DEF Forget, NothingStored, ReleaseMissing, TypeOK, Goto, Points,
             HolderInv, Holding, Knows, Lapsed
    <3> QED
      BY <3>1, <3>2, <3>3, <3>4
  <2>15. ASSUME NEW i \in Instances, ExitTimeout(i)
         PROVE  MakingInv' /\ FileInv' /\ StoredInv' /\ IdleInv' /\ HolderInv'
    <3>1. MakingInv'
      BY <2>15 DEF ExitTimeout, Exited, TypeOK, Goto, Points, MakingInv
    <3>2. FileInv' /\ StoredInv'
      BY <2>15 DEF ExitTimeout, Exited, TypeOK, FileInv, StoredInv, Knows
    <3>3. IdleInv'
      BY <2>15 DEF ExitTimeout, Exited, TypeOK, Goto, Points, IdleInv, Knows,
             NothingStored
    <3>4. HolderInv'
      BY <2>15 DEF ExitTimeout, Exited, TypeOK, Goto, Points, HolderInv, Holding,
             Knows, Lapsed
    <3> QED
      BY <3>1, <3>2, <3>3, <3>4
  <2>16. ASSUME NEW i \in Instances, Finalize(i)
         PROVE  MakingInv' /\ FileInv' /\ StoredInv' /\ IdleInv' /\ HolderInv'
    <3>1. ~(file.exists /\ Knows(i, file.mtime))
      <4>1. file.mtime \in Time
        BY DEF TypeOK, Files
      <4>2. CASE pc[i] = "failed"
        BY <4>1, <4>2 DEF IdleInv
      <4>3. CASE pc[i] # "failed"
        BY <2>16, <4>1, <4>3 DEF Finalize, IdleInv, Knows, NothingStored
      <4> QED
        BY <4>2, <4>3
    <3>2. Goto(i, "unused") /\ Forget(i) /\ UNCHANGED <<now, file, cancelCalled, since>>
      BY <2>16, <3>1 DEF Finalize
    <3>3. pc[i] \in {"unused", "returned", "failed"}
      BY <2>16 DEF Finalize
    <3>4. MakingInv'
      BY <3>2, <3>3 DEF TypeOK, Goto, Points, MakingInv
    <3>5. FileInv' /\ StoredInv'
      BY <3>2 DEF Forget, NothingStored, TypeOK, FileInv, StoredInv, Knows
    <3>6. IdleInv'
      BY <3>2 DEF Forget, NothingStored, TypeOK, Goto, Points, IdleInv, Knows
    <3>7. HolderInv'
      BY <3>2, <3>3 DEF Forget, NothingStored, TypeOK, Goto, Points, HolderInv,
             Holding, Knows, Lapsed
    <3> QED
      BY <3>1, <3>2, <3>3, <3>4, <3>5, <3>6, <3>7
  <2>17. ASSUME NEW i \in Instances, FinalUnlink(i)
         PROVE  MakingInv' /\ FileInv' /\ StoredInv' /\ IdleInv' /\ HolderInv'
    BY <2>17 DEF FinalUnlink, IdleInv
  <2>18. ASSUME NEW i \in Instances, Crash(i)
         PROVE  MakingInv' /\ FileInv' /\ StoredInv' /\ IdleInv' /\ HolderInv'
    <3>1. MakingInv'
      BY <2>18 DEF Crash, TypeOK, Goto, Points, MakingInv
    <3>2. FileInv' /\ StoredInv'
      BY <2>18 DEF Forget, NothingStored, Crash, TypeOK, FileInv, StoredInv, Knows
    <3>3. IdleInv'
      BY <2>18 DEF Forget, NothingStored, Crash, TypeOK, Goto, Points, IdleInv, Knows
    <3>4. HolderInv'
      BY <2>18 DEF Forget, NothingStored, Crash, TypeOK, Goto, Points, HolderInv,
             Holding, Knows, Lapsed
    <3> QED
      BY <3>1, <3>2, <3>3, <3>4
  <2>19. CASE Tick
    <3>1. MakingInv' /\ FileInv' /\ StoredInv'
      BY <2>19 DEF Tick, TypeOK, Files, MakingInv, FileInv, StoredInv, Knows
    <3>2. IdleInv' /\ HolderInv'
      BY <2>19 DEF Tick, TypeOK, IdleInv, HolderInv, Holding, Knows, Lapsed
    <3> QED
      BY <3>1, <3>2
  <2>20. CASE UNCHANGED vars
    BY <2>20 DEF vars, MakingInv, FileInv, StoredInv, IdleInv, HolderInv, Holding,
                 Knows, Lapsed
  <2> QED
    BY <2>1, <2>2, <2>3, <2>4, <2>5, <2>6, <2>7, <2>8, <2>9, <2>10, <2>11, <2>12,
       <2>13, <2>14, <2>15, <2>16, <2>17, <2>18, <2>19, <2>20
       DEF Next, Acquiring, Releasing
<1> QED
  BY <1>1, <1>2, TypeCorrect, PTL DEF Spec

\* Two instances never both have the lock with leases that have not lapsed, for
\* any number of instances and crashes, when all ask for the same timeout and no
\* wait is cut short: what "named locks (mutexes)" says of FileLock.
THEOREM Excludes ==
    ASSUME NoAbandonment, SameTimeout
    PROVE  Spec => []MutualExclusion
<1>1. ASSUME IInv
      PROVE  MutualExclusion
  <2> SUFFICES ASSUME NEW i \in Instances, NEW j \in Instances,
                      HoldsLease(i), HoldsLease(j)
               PROVE  i = j
    BY DEF MutualExclusion
  <2>1. file.writer = i /\ file.writer = j
    BY <1>1, SameTimeout DEF IInv, HolderInv, HoldsLease, SameTimeout, AgreedTimeout
  <2> QED
    BY <2>1
<1> QED
  BY <1>1, InductiveInvariant, PTL

-----------------------------------------------------------------------------
(***************************************************************************)
(* FileLock implements LeaseLock.  Making the file is invisible until it   *)
(* is written, which grants the lease; taking over a lapsed file wipes the *)
(* lapsed lease; everything an instance does after it lost the lock leaves *)
(* the lease alone.                                                        *)
(***************************************************************************)
LeaseOf == IF file.written THEN [holder |-> file.writer, since |-> file.mtime]
                           ELSE [holder |-> Nobody, since |-> 0]

Holders == {i \in Instances : Holding(i)}

LEMMA Stutters ==
    ASSUME now' = now, LeaseOf' = LeaseOf, Holders' = Holders
    PROVE  UNCHANGED Lease!leaseVars
  BY DEF Lease!leaseVars, LeaseOf, Holders

LEMMA Vanishes ==
    ASSUME NEW i \in Holders, now' = now, LeaseOf' = LeaseOf, Holders' = Holders \ {i}
    PROVE  Lease!LeaseNext
  BY DEF Lease!LeaseNext, Lease!Vanish, LeaseOf, Holders

\* Every step of FileLock is a step of the abstract lock or changes nothing of
\* it: an application may reason with LeaseLock instead of files and mtimes, when
\* all ask for the same timeout and no wait is cut short.
THEOREM Implements ==
    ASSUME NoAbandonment, SameTimeout
    PROVE  Spec => ImplementsLease
<1>1. Init => Lease!LeaseInit
  BY DEF Init, NoFile, Holding, Lease!LeaseInit, Lease!NoLease
<1>2. ASSUME IInv, [Next]_vars
      PROVE  [Lease!LeaseNext]_(Lease!leaseVars)
  <2> USE <1>2, SameTimeout, NoAbandonment, FileLockAssumption
      DEF SameTimeout, AgreedTimeout, NoAbandonment
  <2> TypeOK /\ MakingInv /\ FileInv /\ StoredInv /\ IdleInv /\ HolderInv
    BY DEF IInv
  <2>1. ASSUME NEW i \in Instances,
               \/ Enter(i) \/ FindBusy(i) \/ FindCorrupt(i) \/ FindFree(i)
               \/ WriteLost(i) \/ Resume(i) \/ \E raised \in BOOLEAN : Leave(i, raised)
               \/ ExitTimeout(i) \/ Finalize(i)
        PROVE  UNCHANGED Lease!leaseVars
    <3>1. now' = now /\ file' = file
      BY <2>1 DEF Enter, FindBusy, FindCorrupt, FindFree, WriteLost, Resume, Leave,
                  ExitTimeout, Finalize, IdleInv
    <3>2. Holders' = Holders
      BY <2>1 DEF Holders, Holding, TypeOK, Goto, Exited, Forget, IdleInv, Polls,
                  Enter, FindBusy, FindCorrupt, FindFree, WriteLost, Resume, Leave,
                  ExitTimeout, Finalize
    <3> QED
      BY <3>1, <3>2, Stutters DEF LeaseOf
  <2>2. ASSUME NEW i \in Instances, Create(i)
        PROVE  UNCHANGED Lease!leaseVars
    <3>1. LeaseOf' = LeaseOf
      BY <2>2 DEF Create, LeaseOf, MakingInv, FileInv
    <3>2. Holders' = Holders
      BY <2>2 DEF Create, Holders, Holding, TypeOK, Goto
    <3> QED
      BY <2>2, <3>1, <3>2, Stutters DEF Create
  <2>3. ASSUME NEW i \in Instances, Write(i)
        PROVE  Lease!LeaseNext
    <3>1. LeaseOf.holder = Nobody /\ file.writer = i
      BY <2>3 DEF Write, LeaseOf, MakingInv
    <3>2. LeaseOf' = [holder |-> i, since |-> now]
      BY <2>3, <3>1 DEF Write, LeaseOf
    <3>3. i \notin Holders /\ Holders' = Holders \cup {i}
      BY <2>3 DEF Write, Holders, Holding, TypeOK, Goto
    <3>4. Lease!Grant(i)
      BY <2>3, <3>1, <3>2, <3>3
         DEF Write, Lease!Grant, Lease!InForce, LeaseOf, Holders
    <3> QED
      BY <3>4 DEF Lease!LeaseNext
  <2>4. ASSUME NEW i \in Instances, TakeOver(i)
        PROVE  [Lease!LeaseNext]_(Lease!leaseVars)
    <3>1. Lapsed(file.mtime, T)
      BY <2>4, TimeoutSeenIsT DEF TakeOver
    <3>2. now' = now /\ file' = NoFile
      BY <2>4 DEF TakeOver
    <3>3. Holders' = Holders
      BY <2>4 DEF TakeOver, Polls, Holders, Holding, TypeOK, Goto, Forget
    <3>4. CASE file.written
      <4>1. LeaseOf.holder \in Instances /\ Lapsed(LeaseOf.since, Timeout[LeaseOf.holder])
        BY <3>1, <3>4 DEF LeaseOf, FileInv
      <4>2. LeaseOf' = [holder |-> Nobody, since |-> 0]
        BY <3>2 DEF LeaseOf, NoFile
      <4>3. Lease!Expire
        BY <3>2, <3>3, <4>1, <4>2
           DEF Lease!Expire, Lease!InForce, Lease!NoLease, Lease!Lapsed, Lapsed,
               LeaseOf, Holders
      <4> QED
        BY <4>3 DEF Lease!LeaseNext
    <3>5. CASE ~file.written
      BY <3>2, <3>3, <3>5, Stutters DEF LeaseOf, NoFile
    <3> QED
      BY <3>4, <3>5
  <2>5. ASSUME NEW i \in Instances, ReleaseOwn(i)
        PROVE  Lease!LeaseNext
    <3>1. file.mtime \in Time
      BY DEF TypeOK, Files
    <3>2. i \in Holders
      BY <2>5, <3>1 DEF ReleaseOwn, Holders, Holding, IdleInv, Knows, NothingStored, TypeOK
    <3>3. file.written /\ file.writer = i
      BY <2>5, <3>1, <3>2 DEF ReleaseOwn, Holders, HolderInv, TypeOK, Time
    <3>4. Holders' = Holders \ {i}
      BY <2>5 DEF ReleaseOwn, Holders, Holding, TypeOK, Exited, Goto, Forget
    <3>5. LeaseOf' = [holder |-> Nobody, since |-> 0] /\ LeaseOf.holder = i
      BY <2>5, <3>3 DEF ReleaseOwn, LeaseOf, NoFile
    <3>6. Lease!GiveBack(i)
      BY <2>5, <3>2, <3>4, <3>5
         DEF ReleaseOwn, Lease!GiveBack, Lease!NoLease, LeaseOf, Holders
    <3> QED
      BY <3>6 DEF Lease!LeaseNext
  <2>6. ASSUME NEW i \in Instances, ReleaseForeign(i) \/ ReleaseMissing(i) \/ Crash(i)
        PROVE  [Lease!LeaseNext]_(Lease!leaseVars)
    <3>1. now' = now /\ LeaseOf' = LeaseOf
      BY <2>6 DEF ReleaseForeign, ReleaseMissing, Crash, LeaseOf
    <3>2. Holders' = Holders \ {i}
      BY <2>6 DEF ReleaseForeign, ReleaseMissing, Crash, Holders, Holding, TypeOK,
                  Exited, Goto, Forget
    <3> QED
      BY <3>1, <3>2, Vanishes, Stutters
  <2>7. CASE Tick
    <3>1. LeaseOf' = LeaseOf /\ Holders' = Holders
      BY <2>7 DEF Tick, LeaseOf, Holders, Holding
    <3>2. Lease!LeaseTick
      BY <2>7, <3>1 DEF Tick, Lease!LeaseTick, LeaseOf, Holders
    <3> QED
      BY <3>2 DEF Lease!LeaseNext
  <2>8. CASE UNCHANGED vars
    <3>1. now' = now /\ LeaseOf' = LeaseOf /\ Holders' = Holders
      BY <2>8 DEF vars, LeaseOf, Holders, Holding
    <3> QED
      BY <3>1, Stutters
  <2>9. ASSUME NEW i \in Instances, GiveUp(i) \/ FinalUnlink(i)
        PROVE  FALSE
    BY <2>9 DEF GiveUp, FinalUnlink, IdleInv
  <2> QED
    BY <2>1, <2>2, <2>3, <2>4, <2>5, <2>6, <2>7, <2>8, <2>9
       DEF Next, Acquiring, Releasing
<1> QED
  BY <1>1, <1>2, InductiveInvariant, PTL DEF Spec, ImplementsLease, Lease!LeaseSpec

-----------------------------------------------------------------------------
(***************************************************************************)
(* What is left behind.  Nobody forgets a file of its own that is there:   *)
(* whatever forgets has removed the file, or has seen that it is another's *)
(* by its mtime.  This needs no assumption about timeouts, waits that are  *)
(* cut short or processes that die.                                        *)
(***************************************************************************)

\* The two ways through __del__.
FinalizeFound(i) ==
    /\ pc[i] \in {"unused", "returned", "failed"}
    /\ file.exists /\ Knows(i, file.mtime)
    /\ Goto(i, "finalizing")
    /\ UNCHANGED <<now, file, storedFileTs, isAcquired, cancelCalled, since>>

FinalizeNothing(i) ==
    /\ pc[i] \in {"unused", "returned", "failed"}
    /\ ~(file.exists /\ Knows(i, file.mtime))
    /\ Goto(i, "unused")
    /\ Forget(i)
    /\ UNCHANGED <<now, file, cancelCalled, since>>

LEMMA FinalizeCases ==
    ASSUME NEW i \in Instances, Finalize(i)
    PROVE  FinalizeFound(i) \/ FinalizeNothing(i)
  BY DEF Finalize, FinalizeFound, FinalizeNothing

\* Making the file stays with one instance.
LEMMA MakerStep ==
    ASSUME CleanInv, TypeOK', [Next]_vars
    PROVE  MakerInv'
<1> USE FileLockAssumption DEF TypeOK, Files, Time, Timeouts, NoFile, NothingStored,
        Knows, Goto, CleanInv, MakerInv
<1>1. ASSUME NEW i \in Instances, Enter(i)
      PROVE  MakerInv'
  BY <1>1 DEF Enter
<1>2. ASSUME NEW i \in Instances, FindBusy(i)
      PROVE  MakerInv'
  BY <1>2, TimeoutSeenType DEF FindBusy, Polls, ManagerFree
<1>3. ASSUME NEW i \in Instances, FindCorrupt(i)
      PROVE  MakerInv'
  BY <1>3 DEF FindCorrupt, Polls, ManagerFree
<1>4. ASSUME NEW i \in Instances, TakeOver(i)
      PROVE  MakerInv'
  BY <1>4 DEF TakeOver, Polls, ManagerFree, Forget
<1>5. ASSUME NEW i \in Instances, FindFree(i)
      PROVE  MakerInv'
  BY <1>5 DEF FindFree, Polls, ManagerFree
<1>6. ASSUME NEW i \in Instances, Create(i)
      PROVE  MakerInv'
  BY <1>6 DEF Create
<1>7. ASSUME NEW i \in Instances, Write(i)
      PROVE  MakerInv'
  BY <1>7 DEF Write
<1>8. ASSUME NEW i \in Instances, WriteLost(i)
      PROVE  MakerInv'
  BY <1>8 DEF WriteLost
<1>9. ASSUME NEW i \in Instances, Resume(i)
      PROVE  MakerInv'
  BY <1>9 DEF Resume
<1>10. ASSUME NEW i \in Instances, GiveUp(i)
      PROVE  MakerInv'
  BY <1>10 DEF GiveUp
<1>11. ASSUME NEW i \in Instances, NEW raised \in BOOLEAN, Leave(i, raised)
      PROVE  MakerInv'
  BY <1>11 DEF Leave
<1>12. ASSUME NEW i \in Instances, ReleaseOwn(i)
      PROVE  MakerInv'
  BY <1>12 DEF ReleaseOwn, ManagerFree, Forget, Exited
<1>13. ASSUME NEW i \in Instances, ReleaseForeign(i)
      PROVE  MakerInv'
  BY <1>13 DEF ReleaseForeign, ManagerFree, Forget, Exited
<1>14. ASSUME NEW i \in Instances, ReleaseMissing(i)
      PROVE  MakerInv'
  BY <1>14 DEF ReleaseMissing, ManagerFree, Forget, Exited
<1>15. ASSUME NEW i \in Instances, ExitTimeout(i)
      PROVE  MakerInv'
  BY <1>15 DEF ExitTimeout, Exited
<1>16. ASSUME NEW i \in Instances, Finalize(i)
      PROVE  MakerInv'
  <2>1. ASSUME FinalizeFound(i) PROVE  MakerInv'
    BY <2>1 DEF FinalizeFound
  <2>2. ASSUME FinalizeNothing(i) PROVE  MakerInv'
    BY <2>2 DEF FinalizeNothing, Forget
  <2> QED
    BY <1>16, <2>1, <2>2, FinalizeCases
<1>17. ASSUME NEW i \in Instances, FinalUnlink(i)
      PROVE  MakerInv'
  BY <1>17 DEF FinalUnlink, Forget
<1>18. ASSUME NEW i \in Instances, Crash(i)
      PROVE  MakerInv'
  BY <1>18 DEF Crash, Forget
<1>19. ASSUME Tick
      PROVE  MakerInv'
  BY <1>19 DEF Tick, Lapsed
<1>20. ASSUME UNCHANGED vars
      PROVE  MakerInv'
  BY <1>20 DEF vars
<1> QED
  BY <1>1, <1>2, <1>3, <1>4, <1>5, <1>6, <1>7, <1>8, <1>9, <1>10, <1>11, <1>12, <1>13,
     <1>14, <1>15, <1>16, <1>17, <1>18, <1>19, <1>20 DEF Next, Acquiring, Releasing

\* Whoever forgets has no file.
LEMMA OwnFileStep ==
    ASSUME CleanInv, TypeOK', [Next]_vars
    PROVE  OwnFileInv'
<1> USE FileLockAssumption DEF TypeOK, Files, Time, Timeouts, NoFile, NothingStored,
        Knows, Goto, CleanInv, MakerInv, OwnFileInv, ForgottenInv
<1>1. ASSUME NEW i \in Instances, Enter(i)
      PROVE  OwnFileInv'
  BY <1>1 DEF Enter
<1>2. ASSUME NEW i \in Instances, FindBusy(i)
      PROVE  OwnFileInv'
  BY <1>2, TimeoutSeenType DEF FindBusy, Polls, ManagerFree
<1>3. ASSUME NEW i \in Instances, FindCorrupt(i)
      PROVE  OwnFileInv'
  BY <1>3 DEF FindCorrupt, Polls, ManagerFree
<1>4. ASSUME NEW i \in Instances, TakeOver(i)
      PROVE  OwnFileInv'
  BY <1>4 DEF TakeOver, Polls, ManagerFree, Forget
<1>5. ASSUME NEW i \in Instances, FindFree(i)
      PROVE  OwnFileInv'
  BY <1>5 DEF FindFree, Polls, ManagerFree
<1>6. ASSUME NEW i \in Instances, Create(i)
      PROVE  OwnFileInv'
  BY <1>6 DEF Create
<1>7. ASSUME NEW i \in Instances, Write(i)
      PROVE  OwnFileInv'
  BY <1>7 DEF Write
<1>8. ASSUME NEW i \in Instances, WriteLost(i)
      PROVE  OwnFileInv'
  BY <1>8 DEF WriteLost
<1>9. ASSUME NEW i \in Instances, Resume(i)
      PROVE  OwnFileInv'
  BY <1>9 DEF Resume
<1>10. ASSUME NEW i \in Instances, GiveUp(i)
      PROVE  OwnFileInv'
  BY <1>10 DEF GiveUp
<1>11. ASSUME NEW i \in Instances, NEW raised \in BOOLEAN, Leave(i, raised)
      PROVE  OwnFileInv'
  BY <1>11 DEF Leave
<1>12. ASSUME NEW i \in Instances, ReleaseOwn(i)
      PROVE  OwnFileInv'
  BY <1>12 DEF ReleaseOwn, ManagerFree, Forget, Exited
<1>13. ASSUME NEW i \in Instances, ReleaseForeign(i)
      PROVE  OwnFileInv'
  BY <1>13 DEF ReleaseForeign, ManagerFree, Forget, Exited
<1>14. ASSUME NEW i \in Instances, ReleaseMissing(i)
      PROVE  OwnFileInv'
  BY <1>14 DEF ReleaseMissing, ManagerFree, Forget, Exited
<1>15. ASSUME NEW i \in Instances, ExitTimeout(i)
      PROVE  OwnFileInv'
  BY <1>15 DEF ExitTimeout, Exited
<1>16. ASSUME NEW i \in Instances, Finalize(i)
      PROVE  OwnFileInv'
  <2>1. ASSUME FinalizeFound(i) PROVE  OwnFileInv'
    BY <2>1 DEF FinalizeFound
  <2>2. ASSUME FinalizeNothing(i) PROVE  OwnFileInv'
    BY <2>2 DEF FinalizeNothing, Forget
  <2> QED
    BY <1>16, <2>1, <2>2, FinalizeCases
<1>17. ASSUME NEW i \in Instances, FinalUnlink(i)
      PROVE  OwnFileInv'
  BY <1>17 DEF FinalUnlink, Forget
<1>18. ASSUME NEW i \in Instances, Crash(i)
      PROVE  OwnFileInv'
  BY <1>18 DEF Crash, Forget
<1>19. ASSUME Tick
      PROVE  OwnFileInv'
  BY <1>19 DEF Tick, Lapsed
<1>20. ASSUME UNCHANGED vars
      PROVE  OwnFileInv'
  BY <1>20 DEF vars
<1> QED
  BY <1>1, <1>2, <1>3, <1>4, <1>5, <1>6, <1>7, <1>8, <1>9, <1>10, <1>11, <1>12, <1>13,
     <1>14, <1>15, <1>16, <1>17, <1>18, <1>19, <1>20 DEF Next, Acquiring, Releasing

\* The flag _is_acquired is reset with the rest.
LEMMA ForgottenStep ==
    ASSUME CleanInv, TypeOK', [Next]_vars
    PROVE  ForgottenInv'
<1> USE FileLockAssumption DEF TypeOK, Files, Time, Timeouts, NoFile, NothingStored,
        Knows, Goto, CleanInv, ForgottenInv
<1>1. ASSUME NEW i \in Instances, Enter(i)
      PROVE  ForgottenInv'
  BY <1>1 DEF Enter
<1>2. ASSUME NEW i \in Instances, FindBusy(i)
      PROVE  ForgottenInv'
  BY <1>2, TimeoutSeenType DEF FindBusy, Polls, ManagerFree
<1>3. ASSUME NEW i \in Instances, FindCorrupt(i)
      PROVE  ForgottenInv'
  BY <1>3 DEF FindCorrupt, Polls, ManagerFree
<1>4. ASSUME NEW i \in Instances, TakeOver(i)
      PROVE  ForgottenInv'
  BY <1>4 DEF TakeOver, Polls, ManagerFree, Forget
<1>5. ASSUME NEW i \in Instances, FindFree(i)
      PROVE  ForgottenInv'
  BY <1>5 DEF FindFree, Polls, ManagerFree
<1>6. ASSUME NEW i \in Instances, Create(i)
      PROVE  ForgottenInv'
  BY <1>6 DEF Create
<1>7. ASSUME NEW i \in Instances, Write(i)
      PROVE  ForgottenInv'
  BY <1>7 DEF Write
<1>8. ASSUME NEW i \in Instances, WriteLost(i)
      PROVE  ForgottenInv'
  BY <1>8 DEF WriteLost
<1>9. ASSUME NEW i \in Instances, Resume(i)
      PROVE  ForgottenInv'
  BY <1>9 DEF Resume
<1>10. ASSUME NEW i \in Instances, GiveUp(i)
      PROVE  ForgottenInv'
  BY <1>10 DEF GiveUp
<1>11. ASSUME NEW i \in Instances, NEW raised \in BOOLEAN, Leave(i, raised)
      PROVE  ForgottenInv'
  BY <1>11 DEF Leave
<1>12. ASSUME NEW i \in Instances, ReleaseOwn(i)
      PROVE  ForgottenInv'
  BY <1>12 DEF ReleaseOwn, ManagerFree, Forget, Exited
<1>13. ASSUME NEW i \in Instances, ReleaseForeign(i)
      PROVE  ForgottenInv'
  BY <1>13 DEF ReleaseForeign, ManagerFree, Forget, Exited
<1>14. ASSUME NEW i \in Instances, ReleaseMissing(i)
      PROVE  ForgottenInv'
  BY <1>14 DEF ReleaseMissing, ManagerFree, Forget, Exited
<1>15. ASSUME NEW i \in Instances, ExitTimeout(i)
      PROVE  ForgottenInv'
  BY <1>15 DEF ExitTimeout, Exited
<1>16. ASSUME NEW i \in Instances, Finalize(i)
      PROVE  ForgottenInv'
  <2>1. ASSUME FinalizeFound(i) PROVE  ForgottenInv'
    BY <2>1 DEF FinalizeFound
  <2>2. ASSUME FinalizeNothing(i) PROVE  ForgottenInv'
    BY <2>2 DEF FinalizeNothing, Forget
  <2> QED
    BY <1>16, <2>1, <2>2, FinalizeCases
<1>17. ASSUME NEW i \in Instances, FinalUnlink(i)
      PROVE  ForgottenInv'
  BY <1>17 DEF FinalUnlink, Forget
<1>18. ASSUME NEW i \in Instances, Crash(i)
      PROVE  ForgottenInv'
  BY <1>18 DEF Crash, Forget
<1>19. ASSUME Tick
      PROVE  ForgottenInv'
  BY <1>19 DEF Tick, Lapsed
<1>20. ASSUME UNCHANGED vars
      PROVE  ForgottenInv'
  BY <1>20 DEF vars
<1> QED
  BY <1>1, <1>2, <1>3, <1>4, <1>5, <1>6, <1>7, <1>8, <1>9, <1>10, <1>11, <1>12, <1>13,
     <1>14, <1>15, <1>16, <1>17, <1>18, <1>19, <1>20 DEF Next, Acquiring, Releasing

\* Nobody but a process that died has forgotten a file of its own that is there,
\* whatever the timeouts, the waits that are cut short and the finalisers.
THEOREM CleanInvariance == Spec => []CleanInv
<1>1. Init => CleanInv
  BY FileLockAssumption, NoFileType
     DEF Init, CleanInv, TypeOK, NothingStored, Time, Points, NoFile, MakerInv, OwnFileInv,
         ForgottenInv
<1>2. CleanInv /\ TypeOK' /\ [Next]_vars => CleanInv'
  BY MakerStep, OwnFileStep, ForgottenStep DEF CleanInv
<1> QED
  BY <1>1, <1>2, TypeCorrect, PTL DEF Spec

\* __aexit__ that ends without an error leaves no file of its own behind, unless
\* EXIT_MAX_DELAY cut it short.
THEOREM ExitLeavesNothing == Spec => []LeavesNothingBehind
<1>1. CleanInv => LeavesNothingBehind
  BY FileLockAssumption
     DEF CleanInv, TypeOK, Files, MakerInv, OwnFileInv, ForgottenInv, Knows, NothingStored,
         LeavesNothingBehind
<1> QED
  BY <1>1, CleanInvariance, PTL

\* Once an object is collected its file is gone, however its wait or its release
\* ended, unless its process died.
THEOREM FinaliserLeavesNothing == Spec => []FinaliserCleansUp
<1>1. CleanInv => FinaliserCleansUp
  BY FileLockAssumption
     DEF CleanInv, TypeOK, Files, MakerInv, OwnFileInv, ForgottenInv, Knows, NothingStored,
         FinaliserCleansUp
<1> QED
  BY <1>1, CleanInvariance, PTL

-----------------------------------------------------------------------------
(***************************************************************************)
(* Who takes a lease away.  With one timeout for all, the file of a lease  *)
(* in force is removed by its holder, or by a finaliser: a take-over reads *)
(* or remembers T and finds the lease lapsed, and a release that knows the *)
(* mtime of the file holds by that very mtime, since it knows no younger   *)
(* file than its own and the present file is not older.                    *)
(***************************************************************************)
\* Files only get younger.
LEMMA TimesStep ==
    ASSUME CleanInv, TimesInv, TypeOK', [Next]_vars
    PROVE  TimesInv'
<1> USE FileLockAssumption DEF TypeOK, Files, Time, Timeouts, NoFile, NothingStored,
        Knows, Goto, CleanInv, MakerInv, ForgottenInv, TimesInv, Holding
<1>1. ASSUME NEW i \in Instances, Enter(i)
      PROVE  TimesInv'
  BY <1>1 DEF Enter
<1>2. ASSUME NEW i \in Instances, FindBusy(i)
      PROVE  TimesInv'
  BY <1>2, TimeoutSeenType DEF FindBusy, Polls, ManagerFree
<1>3. ASSUME NEW i \in Instances, FindCorrupt(i)
      PROVE  TimesInv'
  BY <1>3 DEF FindCorrupt, Polls, ManagerFree
<1>4. ASSUME NEW i \in Instances, TakeOver(i)
      PROVE  TimesInv'
  BY <1>4 DEF TakeOver, Polls, ManagerFree, Forget
<1>5. ASSUME NEW i \in Instances, FindFree(i)
      PROVE  TimesInv'
  BY <1>5 DEF FindFree, Polls, ManagerFree
<1>6. ASSUME NEW i \in Instances, Create(i)
      PROVE  TimesInv'
  BY <1>6 DEF Create
<1>7. ASSUME NEW i \in Instances, Write(i)
      PROVE  TimesInv'
  BY <1>7 DEF Write
<1>8. ASSUME NEW i \in Instances, WriteLost(i)
      PROVE  TimesInv'
  BY <1>8 DEF WriteLost
<1>9. ASSUME NEW i \in Instances, Resume(i)
      PROVE  TimesInv'
  BY <1>9 DEF Resume
<1>10. ASSUME NEW i \in Instances, GiveUp(i)
      PROVE  TimesInv'
  BY <1>10 DEF GiveUp
<1>11. ASSUME NEW i \in Instances, NEW raised \in BOOLEAN, Leave(i, raised)
      PROVE  TimesInv'
  BY <1>11 DEF Leave
<1>12. ASSUME NEW i \in Instances, ReleaseOwn(i)
      PROVE  TimesInv'
  BY <1>12 DEF ReleaseOwn, ManagerFree, Forget, Exited
<1>13. ASSUME NEW i \in Instances, ReleaseForeign(i)
      PROVE  TimesInv'
  BY <1>13 DEF ReleaseForeign, ManagerFree, Forget, Exited
<1>14. ASSUME NEW i \in Instances, ReleaseMissing(i)
      PROVE  TimesInv'
  BY <1>14 DEF ReleaseMissing, ManagerFree, Forget, Exited
<1>15. ASSUME NEW i \in Instances, ExitTimeout(i)
      PROVE  TimesInv'
  BY <1>15 DEF ExitTimeout, Exited
<1>16. ASSUME NEW i \in Instances, Finalize(i)
      PROVE  TimesInv'
  <2>1. ASSUME FinalizeFound(i) PROVE  TimesInv'
    BY <2>1 DEF FinalizeFound
  <2>2. ASSUME FinalizeNothing(i) PROVE  TimesInv'
    BY <2>2 DEF FinalizeNothing, Forget
  <2> QED
    BY <1>16, <2>1, <2>2, FinalizeCases
<1>17. ASSUME NEW i \in Instances, FinalUnlink(i)
      PROVE  TimesInv'
  BY <1>17 DEF FinalUnlink, Forget
<1>18. ASSUME NEW i \in Instances, Crash(i)
      PROVE  TimesInv'
  BY <1>18 DEF Crash, Forget
<1>19. ASSUME Tick
      PROVE  TimesInv'
  BY <1>19 DEF Tick, Lapsed
<1>20. ASSUME UNCHANGED vars
      PROVE  TimesInv'
  BY <1>20 DEF vars
<1> QED
  BY <1>1, <1>2, <1>3, <1>4, <1>5, <1>6, <1>7, <1>8, <1>9, <1>10, <1>11, <1>12, <1>13,
     <1>14, <1>15, <1>16, <1>17, <1>18, <1>19, <1>20 DEF Next, Acquiring, Releasing

\* Every timeout that is written or remembered is T.
LEMMA TimeoutStep ==
    ASSUME CleanInv, AgreedTimeout, TimeoutInv, TypeOK', [Next]_vars
    PROVE  TimeoutInv'
<1> USE FileLockAssumption DEF TypeOK, Files, Time, Timeouts, NoFile, NothingStored,
        Knows, Goto, CleanInv, MakerInv, AgreedTimeout, TimeoutInv, TimeoutSeen
<1>1. ASSUME NEW i \in Instances, Enter(i)
      PROVE  TimeoutInv'
  BY <1>1 DEF Enter
<1>2. ASSUME NEW i \in Instances, FindBusy(i)
      PROVE  TimeoutInv'
  BY <1>2, TimeoutSeenType DEF FindBusy, Polls, ManagerFree
<1>3. ASSUME NEW i \in Instances, FindCorrupt(i)
      PROVE  TimeoutInv'
  BY <1>3 DEF FindCorrupt, Polls, ManagerFree
<1>4. ASSUME NEW i \in Instances, TakeOver(i)
      PROVE  TimeoutInv'
  BY <1>4 DEF TakeOver, Polls, ManagerFree, Forget
<1>5. ASSUME NEW i \in Instances, FindFree(i)
      PROVE  TimeoutInv'
  BY <1>5 DEF FindFree, Polls, ManagerFree
<1>6. ASSUME NEW i \in Instances, Create(i)
      PROVE  TimeoutInv'
  BY <1>6 DEF Create
<1>7. ASSUME NEW i \in Instances, Write(i)
      PROVE  TimeoutInv'
  BY <1>7 DEF Write
<1>8. ASSUME NEW i \in Instances, WriteLost(i)
      PROVE  TimeoutInv'
  BY <1>8 DEF WriteLost
<1>9. ASSUME NEW i \in Instances, Resume(i)
      PROVE  TimeoutInv'
  BY <1>9 DEF Resume
<1>10. ASSUME NEW i \in Instances, GiveUp(i)
      PROVE  TimeoutInv'
  BY <1>10 DEF GiveUp
<1>11. ASSUME NEW i \in Instances, NEW raised \in BOOLEAN, Leave(i, raised)
      PROVE  TimeoutInv'
  BY <1>11 DEF Leave
<1>12. ASSUME NEW i \in Instances, ReleaseOwn(i)
      PROVE  TimeoutInv'
  BY <1>12 DEF ReleaseOwn, ManagerFree, Forget, Exited
<1>13. ASSUME NEW i \in Instances, ReleaseForeign(i)
      PROVE  TimeoutInv'
  BY <1>13 DEF ReleaseForeign, ManagerFree, Forget, Exited
<1>14. ASSUME NEW i \in Instances, ReleaseMissing(i)
      PROVE  TimeoutInv'
  BY <1>14 DEF ReleaseMissing, ManagerFree, Forget, Exited
<1>15. ASSUME NEW i \in Instances, ExitTimeout(i)
      PROVE  TimeoutInv'
  BY <1>15 DEF ExitTimeout, Exited
<1>16. ASSUME NEW i \in Instances, Finalize(i)
      PROVE  TimeoutInv'
  <2>1. ASSUME FinalizeFound(i) PROVE  TimeoutInv'
    BY <2>1 DEF FinalizeFound
  <2>2. ASSUME FinalizeNothing(i) PROVE  TimeoutInv'
    BY <2>2 DEF FinalizeNothing, Forget
  <2> QED
    BY <1>16, <2>1, <2>2, FinalizeCases
<1>17. ASSUME NEW i \in Instances, FinalUnlink(i)
      PROVE  TimeoutInv'
  BY <1>17 DEF FinalUnlink, Forget
<1>18. ASSUME NEW i \in Instances, Crash(i)
      PROVE  TimeoutInv'
  BY <1>18 DEF Crash, Forget
<1>19. ASSUME Tick
      PROVE  TimeoutInv'
  BY <1>19 DEF Tick, Lapsed
<1>20. ASSUME UNCHANGED vars
      PROVE  TimeoutInv'
  BY <1>20 DEF vars
<1> QED
  BY <1>1, <1>2, <1>3, <1>4, <1>5, <1>6, <1>7, <1>8, <1>9, <1>10, <1>11, <1>12, <1>13,
     <1>14, <1>15, <1>16, <1>17, <1>18, <1>19, <1>20 DEF Next, Acquiring, Releasing

\* What an object that agrees on the timeout remembers and what it has written are
\* files up to its own lease, with the timeout T.
THEOREM AgreedInvariance ==
    ASSUME AgreedTimeout
    PROVE  Spec => []AgreedInv
<1>1. Init => TimesInv /\ TimeoutInv
  BY FileLockAssumption
     DEF Init, TimesInv, TimeoutInv, NothingStored, Time, NoFile, Knows, Holding
<1>2. CleanInv /\ TypeOK' /\ TimesInv /\ TimeoutInv /\ [Next]_vars => TimesInv' /\ TimeoutInv'
  BY AgreedTimeout, TimesStep, TimeoutStep
<1> QED
  BY <1>1, <1>2, CleanInvariance, TypeCorrect, PTL DEF Spec, AgreedInv

\* A file whose lease is in force goes away only when its holder gives it back, or
\* in a finaliser, whatever waits are cut short and whatever processes die.
THEOREM OnlyFinalisersRob ==
    ASSUME AgreedTimeout
    PROVE  Spec => OnlyFinaliserRobs
<1> DEFINE Allowed == \E i \in Instances :
             \/ Holding(i) /\ since[i] = file.mtime /\ ~Holding(i)'
             \/ pc[i] = "finalizing" /\ pc'[i] = "unused"
<1>1. ASSUME AgreedInv, [Next]_vars, InForce, file' # file
      PROVE  Allowed
  <2> USE <1>1 DEF AgreedInv, CleanInv
  <2>1. ASSUME NEW i \in Instances, TakeOver(i)
        PROVE  FALSE
    <3>1. TimeoutSeen(i) = T /\ file.timeout = T
      BY <2>1 DEF TypeOK, Files, Time, TimeoutSeen, TimeoutInv, InForce
    <3> QED
      BY <2>1, <3>1 DEF TakeOver, InForce
  <2>2. ASSUME NEW i \in Instances, Create(i) \/ Write(i)
        PROVE  FALSE
    BY <2>2 DEF Create, Write, InForce, MakerInv
  <2>3. ASSUME NEW i \in Instances, ReleaseOwn(i)
        PROVE  Allowed
    <3>1. isAcquired[i] /\ Holding(i)
      BY <2>3 DEF ReleaseOwn, ForgottenInv, Knows, NothingStored, TypeOK, Files, Holding
    <3>2. since[i] = file.mtime
      BY <2>3, <3>1 DEF ReleaseOwn, TimesInv, TypeOK, Files, Time
    <3>3. ~Holding(i)'
      BY <2>3 DEF ReleaseOwn, Exited, Forget, Goto, Holding, TypeOK
    <3> QED
      BY <3>1, <3>2, <3>3
  <2>4. ASSUME NEW i \in Instances, FinalUnlink(i)
        PROVE  Allowed
    BY <2>4 DEF FinalUnlink, Goto, TypeOK
  <2> HIDE DEF Allowed
  <2> QED
    BY <2>1, <2>2, <2>3, <2>4
       DEF Next, Acquiring, Releasing, Enter, FindBusy, FindCorrupt, FindFree, WriteLost,
           Resume, GiveUp, Leave, ReleaseForeign, ReleaseMissing, ExitTimeout, Finalize,
           Crash, Tick, vars
<1>2. AgreedInv /\ [Next]_vars => [InForce /\ file' # file => Allowed]_vars
  BY <1>1
<1> QED
  BY <1>2, AgreedInvariance, PTL DEF Spec, OnlyFinaliserRobs
=============================================================================

------------------------- MODULE FileLockInvariant -------------------------
(***************************************************************************)
(* Why FileLock excludes: the inductive invariant IInv, for lock objects   *)
(* that all ask for the same timeout T and whose waits are never cut       *)
(* short.  And what is true of any lock objects: CleanInv, of the files    *)
(* they leave behind, and AgreedInv, if they ask for the same timeout.     *)
(***************************************************************************)
EXTENDS FileLock

CONSTANT T  \* the timeout the users of the lock name agree on

\* All users of one lock name ask for the same timeout, as FileCache does for
\* its manager lock.
AgreedTimeout == T \in Timeouts /\ \A i \in Instances : Timeout[i] = T
SameTimeout == T # 0 /\ AgreedTimeout

\* At most one instance is making the file, and the file is as far as it is.
MakingInv ==
    /\ \A i, j \in Instances :
         pc[i] \in {"creating", "writing"} /\ pc[j] \in {"creating", "writing"} => i = j
    /\ \A i \in Instances : pc[i] = "creating" => ~file.exists
    /\ \A i \in Instances : pc[i] = "writing" => file.exists /\ ~file.written /\ file.writer = i

FileInv ==
    /\ file.exists => file.mtime <= now
    /\ file.written => /\ file.exists /\ file.timeout = T
                     /\ file.writer \in Instances
    /\ ~file.exists => file = NoFile

\* The entries of _stored_file_ts are of files up to the present one.
StoredInv ==
    \A i \in Instances, ts \in Time : Knows(i, ts) =>
        /\ storedFileTs[i][ts] = T
        /\ ts <= now
        /\ file.exists => ts <= file.mtime

\* An object that can be collected has nothing stored that matches the file.
IdleInv ==
    /\ \A i \in Instances : pc[i] # "finalizing"
    /\ \A i \in Instances : pc[i] = "inside" => isAcquired[i]
    /\ \A i \in Instances : pc[i] \in {"unused", "returned"} => storedFileTs[i] = NothingStored
    /\ \A i \in Instances : pc[i] = "exiting" /\ ~isAcquired[i] => storedFileTs[i] = NothingStored
    /\ \A i \in Instances, ts \in Time : pc[i] = "failed" /\ Knows(i, ts) =>
           ts < now /\ (file.exists => ts < file.mtime)

\* A holder's file is there, or its lease has lapsed and any file is younger
\* than all it knows.
HolderInv ==
    \A i \in Instances : Holding(i) =>
        /\ since[i] <= now
        /\ \A ts \in Time : Knows(i, ts) => ts <= since[i]
        /\ \/ file.written /\ file.writer = i /\ file.mtime = since[i]
           \/ Lapsed(since[i], T) /\ (file.exists => file.mtime > since[i])

IInv == TypeOK /\ MakingInv /\ FileInv /\ StoredInv /\ IdleInv /\ HolderInv

-----------------------------------------------------------------------------
\* One instance at a time makes the file; a finaliser may take it away from it.
MakerInv ==
    /\ \A i, j \in Instances :
         pc[i] \in {"creating", "writing"} /\ pc[j] \in {"creating", "writing"} => i = j
    /\ \A i \in Instances : pc[i] = "creating" => ~file.exists
    /\ \A i \in Instances : pc[i] = "writing" /\ file.exists =>
         ~file.written /\ file.writer = i
    /\ file.written => file.exists
    /\ file.exists <=> file.writer # Nobody

\* Nobody has forgotten a file of its own, unless its process died since it
\* wrote; one that is inside or has left has written since.
OwnFileInv ==
    \A i \in Instances :
        /\ file.writer = i
        /\ i \notin MayCrash \/ pc[i] \in {"signalled", "inside", "exiting", "returned"}
        => pc[i] = "writing" \/ Knows(i, file.mtime)

\* Who does not count as acquired after its body has forgotten everything.
ForgottenInv ==
    /\ \A i \in Instances : pc[i] = "inside" => isAcquired[i]
    /\ \A i \in Instances : pc[i] = "unused" => storedFileTs[i] = NothingStored
    /\ \A i \in Instances : pc[i] \in {"exiting", "returned"} /\ ~isAcquired[i] =>
         storedFileTs[i] = NothingStored

CleanInv == TypeOK /\ MakerInv /\ OwnFileInv /\ ForgottenInv

\* The file is not older than the lease of anybody who has the lock, who knows
\* no younger file than its own.
TimesInv ==
    /\ file.exists => file.mtime <= now
    /\ \A i \in Instances, ts \in Time : Knows(i, ts) => ts <= now
    /\ \A i \in Instances : Holding(i) =>
         /\ since[i] <= now
         /\ \A ts \in Time : Knows(i, ts) => ts <= since[i]
         /\ file.exists => since[i] <= file.mtime

TimeoutInv ==
    /\ file.written => file.timeout = T
    /\ \A i \in Instances, ts \in Time : Knows(i, ts) => storedFileTs[i][ts] = T

AgreedInv == CleanInv /\ TimesInv /\ TimeoutInv
=============================================================================

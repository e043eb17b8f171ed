----------------------------- MODULE MCFileLock -----------------------------
(***************************************************************************)
(* FileLock for TLC: three lock objects (two for liveness) and a clock of  *)
(* a few ticks.  MaxTime alone bounds the state graph.                     *)
(***************************************************************************)
EXTENDS FileLockInvariant, TLC

\* Every instance asks for the same timeout.
MCTimeout == [i \in Instances |-> T]

\* Sound where MayAbandon and MayCrash are all or none of the instances and no
\* liveness is checked.
Symmetry == Permutations(Instances)
=============================================================================

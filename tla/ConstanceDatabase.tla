-------------------------- MODULE ConstanceDatabase --------------------------
(***************************************************************************)
(* contrib/constance/backends/database: DatabaseBackend keeps each setting *)
(* in a row.  set goes through ModelMixin.async_create_or_update, which    *)
(* looks for the row first and writes later, in one READ COMMITTED         *)
(* transaction.  Settings have no deadline and are never deleted.          *)
(* UPDATE or INSERT and COMMIT are awaits of their own: a setting that was *)
(* written and not committed is seen by nobody, and keeps other writers of *)
(* its row waiting.                                                        *)
(***************************************************************************)
EXTENDS StoreCalls

ConstanceEnter(c) ==
    /\ backend = "constance"
    /\ Enter(c, "running", {"get", "set"}, Values, {Infinity})
    /\ call'[c].op = "set" => \E k \in Keys : call'[c].keys = {k}

OnDatabase(c, stage, op) ==
    /\ backend = "constance"
    /\ Doing(c, stage) /\ call[c].op = op
    /\ UNCHANGED <<backend, now>> /\ UNCHANGED managerVars

\* get and mget are one SELECT.
ConstanceGet(c) ==
    /\ OnDatabase(c, "running", "get")
    /\ Pass(c, call[c].todo, [k \in Keys |-> Find(store[k])], "done")
    /\ UNCHANGED store

\* Defect: a row that is there is left alone.
LookAndLeave(c) ==
    /\ OnDatabase(c, "running", "set")
    /\ \E k \in call[c].todo :
         IF store[k] # Absent
         THEN Pass(c, {k}, NoAnswer, "done")
         ELSE Goto(c, "missing")
    /\ UNCHANGED store

\* async_get looks for the row; _object_needs_update: a row that has the value
\* already is left alone.
ConstanceLook(c) ==
    /\ OnDatabase(c, "running", "set")
    /\ \E k \in call[c].todo :
         IF store[k].value = call[c].value
         THEN Pass(c, {k}, NoAnswer, "done")
         ELSE Goto(c, IF store[k] = Absent THEN "missing" ELSE "found")
    /\ UNCHANGED store

\* The transactions whose writes wait for their COMMIT, or for the server to see that
\* their connection is gone.
Writing(c) == Doing(c, "committing") \/ Doing(c, "lost")

NoOtherWriter(c) ==
    \A d \in Callers \ {c} : ~(Writing(d) /\ call[d].todo \cap call[c].todo # {})

\* async_update: UPDATE, which waits for the lock of the row.
ConstanceUpdate(c) ==
    /\ OnDatabase(c, "found", "set")
    /\ NoOtherWriter(c)
    /\ Goto(c, "committing")
    /\ UNCHANGED store

\* async_create: flush.  The primary key refuses a second row, and makes the INSERT
\* wait for another one of the same row.
ConstanceInsert(c) ==
    /\ OnDatabase(c, "missing", "set")
    /\ NoOtherWriter(c)
    /\ Goto(c, IF \E k \in call[c].todo : store[k] # Absent THEN "raising" ELSE "committing")
    /\ UNCHANGED store

\* COMMIT, whether or not its caller still waits for it.
ConstanceCommit(c) ==
    /\ Writing(c) /\ OnDatabase(c, call[c].stage, "set")
    /\ call[c].todo # {}
    /\ store' = With(call[c].todo, [k \in Keys |-> NewEntry(c)])
    /\ Pass(c, call[c].todo, NoAnswer, IF Doing(c, "lost") THEN "lost" ELSE "done")

\* The connection breaks, or the caller is cancelled, while COMMIT is on its way.
ConstanceLose(c) ==
    /\ OnDatabase(c, "committing", "set")
    /\ Goto(c, "lost")
    /\ UNCHANGED store

\* An IntegrityError goes to the caller; an error or a cancellation before the COMMIT,
\* and a COMMIT that the server refuses or never gets, roll back.
ConstanceFail(c) ==
    /\ \E stage \in {"running", "found", "missing", "committing", "raising", "lost"} :
         Doing(c, stage) /\ OnDatabase(c, stage, call[c].op)
    /\ Stop(c)
    /\ UNCHANGED store

ConstanceStep(c) ==
    \/ ConstanceEnter(c) \/ ConstanceGet(c) \/ ConstanceLook(c)
    \/ ConstanceUpdate(c) \/ ConstanceInsert(c)
    \/ ConstanceCommit(c) \/ ConstanceLose(c) \/ ConstanceFail(c)
=============================================================================

--------------------------- MODULE StoresInvariant ---------------------------
(***************************************************************************)
(* Why the stores keep their promise: the inductive invariant of Stores.   *)
(***************************************************************************)
EXTENDS Stores

InCall(c) == call[c] # Idle

\* A call was given its keys when it began.
CallInv(c) ==
    /\ call[c].began <= now
    /\ call[c].keys # {} /\ call[c].todo \subseteq call[c].keys
    /\ call[c].op = "set" => call[c].value \in Values
    /\ call[c].op \in {"keys", "clear"} => call[c].keys = Keys
    /\ Changes(call[c].op) => call[c].answer = NoAnswer
    /\ Doing(c, "done") => call[c].todo = {}

CallsInv == \A c \in Callers : InCall(c) => CallInv(c)

\* Without files there is no manager lock that matters, and nothing is broken.
NoFilesInv ==
    backend # "file" => /\ holding = {}
                        /\ \A k \in Keys : ~IsBroken(store[k])

MemoryInv ==
    backend = "memory" => \A c \in Callers : InCall(c) =>
        /\ Doing(c, "running") \/ Doing(c, "done")
        /\ Doing(c, "running") => call[c].todo # {}
        /\ Doing(c, "running") /\ call[c].op = "keys" => call[c].todo = Keys

RedisInv ==
    backend = "redis" => \A c \in Callers : InCall(c) =>
        Doing(c, "running") \/ Doing(c, "lost") \/ Doing(c, "done")

\* A setting has one row, which stays once it is there.
SettingInv(c) ==
    /\ call[c].op \in {"get", "set"} /\ call[c].timeout = Infinity
    /\ call[c].op = "set" => \E k \in Keys : call[c].keys = {k}
    /\ \/ Doing(c, "running") /\ call[c].todo = call[c].keys
       \/ /\ Doing(c, "found") \/ Doing(c, "missing")
          /\ call[c].op = "set" /\ call[c].todo = call[c].keys
       \/ /\ Doing(c, "committing")
          /\ call[c].op = "set" /\ call[c].todo = call[c].keys
       \/ /\ Doing(c, "lost") /\ call[c].op = "set"
          /\ call[c].todo # {} => call[c].todo = call[c].keys
       \/ /\ Doing(c, "raising") /\ call[c].op = "set"
          /\ \A k \in call[c].keys : store[k] # Absent
       \/ Doing(c, "done")

ConstanceInv ==
    backend = "constance" =>
        /\ \A k \in Keys : store[k] = Absent \/ store[k].deadline = Infinity
        /\ \A c \in Callers : InCall(c) => SettingInv(c)

-----------------------------------------------------------------------------
\* The keys that c is through with.
Through(c, k) == k \in call[c].keys \ call[c].todo

\* A method that reads and has the manager lock for itself: what it has found so
\* far it could as well find now.
ReadingInv(c) ==
    /\ ~Doing(c, "writing")
    /\ \A k \in Keys : IF Through(c, k) THEN call[c].answer[k] \in KV!Answers(call[c], k)
                                        ELSE call[c].answer[k] = Nothing
    /\ call[c].op = "keys" => \A k \in call[c].todo : store[k] # Absent
    /\ Doing(c, "raising") =>
         call[c].op = "get" /\ \E k \in call[c].keys : IsBroken(store[k])

\* One that changes files: they are as they were, or as it will leave them, but
\* for the one that it has opened and not written to its end.
ChangingInv(c) ==
    /\ ~Doing(c, "raising")
    /\ call[c].op = "clear" => \A k \in call[c].todo : store[k] # Absent
    /\ \A k \in Keys :
         IF k = call[c].at THEN store[k] \in KV!Tornings(call[c])
         ELSE IF Through(c, k) THEN store[k] \in KV!Leavings(call[c])
         ELSE store[k] = before[k]

HolderInv(c) == IF Changes(call[c].op) THEN ChangingInv(c) ELSE ReadingInv(c)

Inside(c) ==
    \/ Doing(c, "running") \/ Doing(c, "writing")
    \/ Doing(c, "raising") \/ Doing(c, "refused") \/ Doing(c, "cut")

\* The file that c has opened, and whether it is still at work on it.
AtInv(c) ==
    IF call[c].at = Nothing THEN ~Doing(c, "writing")
    ELSE /\ Doing(c, "writing") \/ Doing(c, "refused")
         /\ call[c].op = "set" /\ Through(c, call[c].at)

FileInv ==
    backend = "file" =>
        /\ \A c \in Callers : c \in holding <=> Inside(c)
        /\ \A c \in Callers : InCall(c) /\ c \notin holding =>
             Doing(c, "waiting") /\ call[c].answer = NoAnswer /\ call[c].at = Nothing
        /\ \A c \in holding : AtInv(c)
        /\ ~overlap => \A c, d \in holding : c = d
        /\ ~overlap => \A c \in holding : HolderInv(c)

StoresInv ==
    /\ TypeOK /\ CallsInv /\ NoFilesInv
    /\ MemoryInv /\ RedisInv /\ ConstanceInv /\ FileInv
=============================================================================

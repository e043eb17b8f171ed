---------------------------- MODULE StoresProofs ----------------------------
(***************************************************************************)
(* Proofs about Stores, for any callers, keys, values and timeouts and any *)
(* bound on the clock.                                                     *)
(***************************************************************************)
EXTENDS StoresInvariant, FiniteSetTheorems, TLAPS

LEMMA IdleIsNoCall == Idle \notin Calls
  BY DEF Idle, Calls, Stages

\* A caller in a call.
LEMMA CallFields ==
    ASSUME TypeOK, NEW c \in Callers, InCall(c)
    PROVE  /\ call[c] \in Calls
           /\ call[c].stage \in Stages /\ call[c].op \in KV!Kinds
           /\ call[c].keys \in SUBSET Keys /\ call[c].todo \in SUBSET Keys
           /\ call[c].at \in Keys \cup {Nothing}
           /\ call[c].value \in Values \cup {Nothing}
           /\ call[c].timeout \in Timeouts \cup {Infinity}
           /\ call[c].began \in Time
           /\ call[c].answer \in [Keys -> Values \cup {Present, Nothing}]
  BY DEF TypeOK, InCall, Calls

LEMMA InCallWhen ==
    ASSUME TypeOK, NEW c \in Callers, NEW stage \in Stages, Doing(c, stage)
    PROVE  InCall(c)
  BY DEF TypeOK, InCall, Doing, Idle, Stages

\* The call of c when it has come a step further: all that is left of it, what it
\* is at work on, and what it has found.
Advanced(c, stage, todo, at, answer) ==
    [stage |-> stage, op |-> call[c].op, keys |-> call[c].keys, todo |-> todo, at |-> at,
     value |-> call[c].value, timeout |-> call[c].timeout, began |-> call[c].began,
     answer |-> answer]

Moves(c, stage, todo, at, answer) ==
    /\ InCall(c)
    /\ stage \in Stages
    /\ todo \in SUBSET Keys
    /\ at \in Keys \cup {Nothing}
    /\ answer \in [Keys -> Values \cup {Present, Nothing}]
    /\ call' = [call EXCEPT ![c] = Advanced(c, stage, todo, at, answer)]

LEMMA MovedCall ==
    ASSUME TypeOK, NEW c \in Callers,
           NEW stage, NEW todo, NEW at, NEW answer, Moves(c, stage, todo, at, answer)
    PROVE  /\ call' \in [Callers -> {Idle} \cup Calls]
           /\ \A d \in Callers \ {c} : call'[d] = call[d]
           /\ InCall(c)'
           /\ call'[c].stage = stage /\ call'[c].todo = todo /\ call'[c].at = at
           /\ call'[c].answer = answer
           /\ call'[c].op = call[c].op /\ call'[c].keys = call[c].keys
           /\ call'[c].value = call[c].value /\ call'[c].timeout = call[c].timeout
           /\ call'[c].began = call[c].began
<1>1. Advanced(c, stage, todo, at, answer) \in Calls
  BY CallFields DEF Moves, Advanced, Calls
<1>2. call'[c] = Advanced(c, stage, todo, at, answer)
  BY DEF Moves, TypeOK
<1> QED
  BY <1>1, <1>2, IdleIsNoCall DEF Moves, TypeOK, InCall, Advanced

\* What the helpers do to a call.
LEMMA GotoMoves ==
    ASSUME TypeOK, NEW c \in Callers, InCall(c), NEW stage \in Stages, Goto(c, stage)
    PROVE  Moves(c, stage, call[c].todo, call[c].at, call[c].answer)
<1>1. [call[c] EXCEPT !.stage = stage]
        = Advanced(c, stage, call[c].todo, call[c].at, call[c].answer)
  BY CallFields DEF Calls, Advanced
<1>2. call' = [call EXCEPT ![c] = [call[c] EXCEPT !.stage = stage]]
  BY DEF Goto
<1> QED
  BY <1>1, <1>2, CallFields DEF Moves

\* The answer when the keys in K are done with.
Answered(c, K, found) == [k \in Keys |-> IF k \in K THEN found[k] ELSE call[c].answer[k]]

LEMMA PassMoves ==
    ASSUME TypeOK, NEW c \in Callers, InCall(c), NEW stage \in Stages, NEW K, NEW found,
           \A k \in K \cap Keys : found[k] \in Values \cup {Present, Nothing},
           Pass(c, K, found, stage)
    PROVE  Moves(c, stage, call[c].todo \ K, call[c].at, Answered(c, K, found))
<1>1. Answered(c, K, found) \in [Keys -> Values \cup {Present, Nothing}]
  BY CallFields DEF Answered
<1> DEFINE x == call[c]
           answer == Answered(c, K, found)
           y == [x EXCEPT !.todo = x.todo \ K]
           z == [y EXCEPT !.answer = answer]
<1>2. call' = [call EXCEPT ![c] = [z EXCEPT !.stage = stage]]
  BY DEF Pass, Answered
<1>3. y = Advanced(c, x.stage, x.todo \ K, x.at, x.answer)
  BY CallFields DEF Calls, Advanced
<1> HIDE DEF y, answer
<1>4. z = Advanced(c, x.stage, x.todo \ K, x.at, answer)
  BY <1>3 DEF Advanced
<1> HIDE DEF z
<1>5. [z EXCEPT !.stage = stage] = Advanced(c, stage, x.todo \ K, x.at, answer)
  BY <1>4 DEF Advanced
<1> QED
  BY <1>1, <1>2, <1>5, CallFields DEF Moves, answer

LEMMA StoppedCall ==
    ASSUME TypeOK, NEW c \in Callers, Stop(c)
    PROVE  /\ call' \in [Callers -> {Idle} \cup Calls]
           /\ \A d \in Callers \ {c} : call'[d] = call[d]
           /\ call'[c] = Idle
  BY DEF TypeOK, Stop

\* c has begun a call.
Begun(c, stage, op, K, v, d) ==
    /\ op \in {"keys", "clear"} => K = Keys
    /\ op = "set" => v # Nothing
    /\ call[c] = Idle
    /\ call' \in [Callers -> {Idle} \cup Calls]
    /\ \A b \in Callers \ {c} : call'[b] = call[b]
    /\ InCall(c)'
    /\ call'[c] = [stage |-> stage, op |-> op, keys |-> K, todo |-> K, at |-> Nothing,
                   value |-> v, timeout |-> d, began |-> now, answer |-> NoAnswer]

LEMMA EnterCall ==
    ASSUME TypeOK, NEW c \in Callers, NEW stage \in Stages, NEW kinds \in SUBSET KV!Kinds,
           NEW values \in SUBSET Values, NEW timeouts \in SUBSET (Timeouts \cup {Infinity}),
           Enter(c, stage, kinds, values, timeouts)
    PROVE  \E op \in kinds, K \in (SUBSET Keys) \ {{}}, v \in values \cup {Nothing},
              d \in timeouts \cup {Infinity} : Begun(c, stage, op, K, v, d)
<1>1. PICK op \in kinds, K \in (SUBSET Keys) \ {{}}, v \in values \cup {Nothing},
           d \in timeouts \cup {Infinity} :
        /\ op \in {"keys", "clear"} => K = Keys
        /\ IF op = "set" THEN v # Nothing /\ d \in timeouts
                         ELSE v = Nothing /\ d = Infinity
        /\ call' = [call EXCEPT ![c] =
              [stage |-> stage, op |-> op, keys |-> K, todo |-> K, at |-> Nothing,
               value |-> v, timeout |-> d, began |-> now, answer |-> NoAnswer]]
  BY DEF Enter
<1> DEFINE new == [stage |-> stage, op |-> op, keys |-> K, todo |-> K, at |-> Nothing,
                   value |-> v, timeout |-> d, began |-> now, answer |-> NoAnswer]
<1>2. new \in Calls
  BY DEF Calls, NoAnswer, TypeOK, Manager!LeaseTypeOK, Manager!Time, Time
<1> HIDE DEF new
<1>3. call'[c] = new /\ call' \in [Callers -> {Idle} \cup Calls]
      /\ \A b \in Callers \ {c} : call'[b] = call[b]
  BY <1>1, <1>2 DEF TypeOK, new
<1>4. call[c] = Idle
  BY DEF Enter
<1> QED
  BY <1>1, <1>2, <1>3, <1>4, IdleIsNoCall DEF Begun, InCall, new

-----------------------------------------------------------------------------
\* How a call fares: what it was given stays.
LEMMA MoveKeepsCalls ==
    ASSUME TypeOK, CallsInv, NEW c \in Callers,
           NEW stage, NEW todo, NEW at, NEW answer, Moves(c, stage, todo, at, answer),
           now' = now, todo \subseteq call[c].keys, stage = "done" => todo = {},
           Changes(call[c].op) => answer = NoAnswer
    PROVE  CallsInv'
<1>1. CallInv(c)'
  <2>1. CallInv(c)
    BY DEF CallsInv, Moves
  <2>2. /\ call'[c].stage = stage /\ call'[c].todo = todo /\ call'[c].answer = answer
        /\ call'[c].op = call[c].op /\ call'[c].keys = call[c].keys
        /\ call'[c].value = call[c].value /\ call'[c].began = call[c].began
    BY MovedCall
  <2> QED
    BY <2>1, <2>2 DEF CallInv, Doing
<1>2. \A d \in Callers \ {c} : call'[d] = call[d]
  BY MovedCall
<1> QED
  BY <1>1, <1>2 DEF CallsInv, CallInv, InCall, Doing

LEMMA StopKeepsCalls ==
    ASSUME TypeOK, CallsInv, NEW c \in Callers, Stop(c), now' = now
    PROVE  CallsInv'
  BY StoppedCall DEF CallsInv, CallInv, InCall, Doing

LEMMA EnterKeepsCalls ==
    ASSUME TypeOK, CallsInv, NEW c \in Callers, NEW stage \in Stages, stage # "done",
           NEW kinds \in SUBSET KV!Kinds,
           NEW values \in SUBSET Values, NEW timeouts \in SUBSET (Timeouts \cup {Infinity}),
           Enter(c, stage, kinds, values, timeouts)
    PROVE  CallsInv'
<1>1. now' = now /\ now \in Nat
  BY DEF Enter, TypeOK, Manager!LeaseTypeOK, Manager!Time
<1>2. PICK op \in kinds, K \in (SUBSET Keys) \ {{}}, v \in values \cup {Nothing},
           d \in timeouts \cup {Infinity} : Begun(c, stage, op, K, v, d)
  BY EnterCall
<1>3. /\ call'[c].stage # "done" /\ call'[c].op = op /\ call'[c].keys = K
      /\ call'[c].todo = K /\ call'[c].value = v /\ call'[c].began = now
      /\ call'[c].answer = NoAnswer
  BY <1>2 DEF Begun
<1>4. CallInv(c)'
  BY <1>1, <1>2, <1>3 DEF Begun, CallInv, Doing, NoAnswer
<1> QED
  BY <1>1, <1>2, <1>4 DEF Begun, CallsInv, CallInv, InCall, Doing

\* Nothing more is done to the answer of a call that changes files.
LEMMA NoMoreAnswer ==
    ASSUME NEW c \in Callers, call[c].answer = NoAnswer, NEW K
    PROVE  Answered(c, K, NoAnswer) = NoAnswer
  BY DEF Answered, NoAnswer

-----------------------------------------------------------------------------
\* Entries.
LEMMA EntryKinds ==
    ASSUME TypeOK, NEW k \in Keys
    PROVE  \/ store[k] = Absent
           \/ /\ IsBroken(store[k]) \/ store[k].value \in Values
              /\ store[k].deadline \in Nat \cup {Infinity}
  BY DEF TypeOK, Entries, IsBroken

LEMMA AbsentIsNone == ~IsBroken(Absent) /\ Absent \in Entries /\ BrokenEntry \in Entries
  BY StoresAssumption
     DEF Absent, BrokenEntry, IsBroken, KV!Absent, KV!BrokenEntry, Entries

LEMMA FoundType ==
    ASSUME TypeOK, NEW k \in Keys, ~IsBroken(store[k]) \/ Expired(store[k])
    PROVE  /\ Find(store[k]) \in Values \cup {Nothing}
           /\ List(store[k]) \in {Present, Nothing}
  BY EntryKinds DEF Find, List

LEMMA NewEntryKind ==
    ASSUME TypeOK, CallsInv, NEW c \in Callers, InCall(c), call[c].op = "set"
    PROVE  /\ NewEntry(c) \in Entries
           /\ NewEntry(c) # Absent /\ ~IsBroken(NewEntry(c))
           /\ NewEntry(c) \in KV!Leavings(call[c])
<1>1. /\ call[c].value \in Values /\ call[c].began <= now
      /\ call[c].timeout \in Nat \cup {Infinity} /\ now \in Nat /\ call[c].began \in Nat
  <2>1. CallInv(c)
    BY DEF CallsInv
  <2>2. call[c].value \in Values /\ call[c].began <= now
    BY <2>1 DEF CallInv
  <2>3. call[c].timeout \in Timeouts \cup {Infinity} /\ call[c].began \in Time
    BY CallFields
  <2>4. now \in Time
    BY DEF TypeOK, Manager!LeaseTypeOK, Manager!Time, Time
  <2>5. MaxTime \in Nat /\ Timeouts \subseteq Nat \cup {Infinity}
    BY StoresAssumption
  <2>6. now \in Nat /\ call[c].began \in Nat
    BY <2>3, <2>4, <2>5 DEF Time
  <2> QED
    BY <2>2, <2>3, <2>5, <2>6
<1>2. KV!Deadline(now, call[c].timeout) \in Nat \cup {Infinity}
  BY <1>1 DEF KV!Deadline
<1>3. now \in call[c].began .. now
  BY <1>1
<1> QED
  BY <1>1, <1>2, <1>3, StoresAssumption
     DEF NewEntry, Entries, Absent, IsBroken, KV!Absent, KV!Leavings

-----------------------------------------------------------------------------
\* A step without files, that leaves the clock alone.
Aside == backend # "file" /\ UNCHANGED <<backend, now>> /\ UNCHANGED managerVars

\* What a call that is not in files may leave in the store.
Tidy == /\ \A k \in Keys : store'[k] \in Entries /\ ~IsBroken(store'[k])
        /\ store' = [k \in Keys |-> store'[k]]

LEMMA UntouchedIsTidy ==
    ASSUME StoresInv, backend # "file", UNCHANGED store
    PROVE  Tidy
  BY DEF StoresInv, NoFilesInv, TypeOK, Tidy

LEMMA WithIsTidy ==
    ASSUME StoresInv, backend # "file", NEW K, NEW e,
           \A k \in K \cap Keys : e[k] \in Entries /\ ~IsBroken(e[k]), store' = With(K, e)
    PROVE  Tidy
  BY DEF StoresInv, NoFilesInv, TypeOK, Tidy, With

\* It leaves most of the invariant alone, too.
LEMMA StepAside ==
    ASSUME StoresInv, Aside, call' \in [Callers -> {Idle} \cup Calls], CallsInv', Tidy,
           MemoryInv', RedisInv', ConstanceInv'
    PROVE  StoresInv'
<1>1. TypeOK'
  BY DEF StoresInv, TypeOK, managerVars, Manager!LeaseTypeOK, Aside, Tidy
<1> QED
  BY <1>1 DEF StoresInv, NoFilesInv, FileInv, managerVars, Aside, Tidy

LEMMA StopAside ==
    ASSUME StoresInv, Aside, NEW c \in Callers, Stop(c), UNCHANGED store
    PROVE  StoresInv'
<1>1. /\ call' \in [Callers -> {Idle} \cup Calls]
      /\ \A d \in Callers : call'[d] = Idle \/ call'[d] = call[d]
  BY StoppedCall DEF StoresInv
<1>2. CallsInv'
  BY StopKeepsCalls DEF StoresInv, Aside
<1>3. MemoryInv' /\ RedisInv'
  BY <1>1 DEF StoresInv, MemoryInv, RedisInv, InCall, Doing, Aside
<1>4. ConstanceInv'
  BY <1>1 DEF StoresInv, ConstanceInv, SettingInv, InCall, Doing, Aside
<1>5. Tidy
  BY UntouchedIsTidy DEF Aside
<1> QED
  BY <1>1, <1>2, <1>3, <1>4, <1>5, StepAside

LEMMA EnterAside ==
    ASSUME StoresInv, Aside, NEW c \in Callers,
           NEW kinds \in SUBSET KV!Kinds,
           NEW values \in SUBSET Values, NEW timeouts \in SUBSET (Timeouts \cup {Infinity}),
           Enter(c, "running", kinds, values, timeouts), ConstanceInv'
    PROVE  StoresInv'
<1>1. PICK op \in kinds, K \in (SUBSET Keys) \ {{}}, v \in values \cup {Nothing},
           d \in timeouts \cup {Infinity} : Begun(c, "running", op, K, v, d)
  BY EnterCall DEF StoresInv, Stages
<1>2. call' \in [Callers -> {Idle} \cup Calls] /\ \A b \in Callers \ {c} : call'[b] = call[b]
  BY <1>1 DEF Begun
<1>3. /\ call'[c].stage = "running" /\ call'[c].op = op /\ call'[c].keys = K
      /\ call'[c].todo = K /\ K # {} /\ (op = "keys" => K = Keys)
  BY <1>1 DEF Begun
<1>4. CallsInv'
  BY EnterKeepsCalls DEF StoresInv, Stages
<1>5. RedisInv'
  BY <1>2, <1>3 DEF StoresInv, RedisInv, InCall, Doing, Aside
<1>7. MemoryInv'
  BY <1>2, <1>3 DEF StoresInv, MemoryInv, InCall, Doing, Aside
<1>6. Tidy
  BY UntouchedIsTidy DEF Aside, Enter
<1> QED
  BY <1>2, <1>4, <1>5, <1>6, <1>7, StepAside

-----------------------------------------------------------------------------
\* LocalMemoryCache
LEMMA MemoryMoves ==
    ASSUME StoresInv, backend = "memory", Aside, NEW c \in Callers,
           NEW stage \in {"running", "done"}, NEW todo, NEW at, NEW answer,
           Moves(c, stage, todo, at, answer), todo \subseteq call[c].todo,
           IF stage = "done" THEN todo = {} ELSE todo # {} /\ call[c].op # "keys",
           Changes(call[c].op) => answer = NoAnswer, Tidy
    PROVE  StoresInv'
<1>1. todo \subseteq call[c].keys
  BY DEF StoresInv, CallsInv, CallInv, Moves
<1>2. CallsInv'
  BY <1>1, MoveKeepsCalls DEF StoresInv, Aside
<1>3. /\ call' \in [Callers -> {Idle} \cup Calls]
      /\ \A d \in Callers \ {c} : call'[d] = call[d]
      /\ call'[c].stage = stage /\ call'[c].todo = todo /\ call'[c].op = call[c].op
  BY MovedCall DEF StoresInv
<1>4. MemoryInv'
  BY <1>3 DEF StoresInv, MemoryInv, InCall, Doing, Aside
<1>5. RedisInv' /\ ConstanceInv'
  BY DEF RedisInv, ConstanceInv, Aside
<1> QED
  BY <1>2, <1>3, <1>4, <1>5, StepAside

LEMMA MemoryKeepsInv ==
    ASSUME StoresInv, NEW c \in Callers, LocalMemoryStep(c)
    PROVE  StoresInv'
<1> USE DEF Aside
<1>1. TypeOK /\ CallsInv /\ NoFilesInv
  BY DEF StoresInv
<1>2. CASE MemoryEnter(c)
  <2>1. Aside /\ ConstanceInv'
    BY <1>2 DEF MemoryEnter, Enter, ConstanceInv
  <2> QED
    BY <1>2, <2>1, StoresAssumption, EnterAside DEF MemoryEnter
<1>3. CASE \E k \in Keys : MemoryGet(c, k)
  <2>1. PICK k \in Keys : MemoryGet(c, k)
    BY <1>3
  <2>2. InCall(c) /\ call[c].todo \in SUBSET Keys /\ NextStage(c, k) \in Stages
    BY <1>1, <2>1, InCallWhen, CallFields DEF MemoryGet, OnMemory, Ready, Stages, NextStage
  <2> DEFINE found == [j \in {k} |-> Find(store[j])]
             left == IF Expired(store[k]) THEN [j \in Keys |-> Absent] ELSE store
  <2>3. \A j \in {k} \cap Keys : found[j] \in Values \cup {Present, Nothing}
    BY <1>1, <2>1, FoundType DEF MemoryGet, OnMemory, NoFilesInv
  <2>4. Pass(c, {k}, found, NextStage(c, k))
    BY <2>1 DEF MemoryGet
  <2> HIDE DEF found
  <2>5. Moves(c, NextStage(c, k), call[c].todo \ {k}, call[c].at, Answered(c, {k}, found))
    BY <1>1, <2>2, <2>3, <2>4, PassMoves
  <2>6. Tidy
    BY <1>1, <2>1, AbsentIsNone DEF MemoryGet, OnMemory, NoFilesInv, TypeOK, Tidy
  <2>7. /\ backend = "memory" /\ Aside /\ k \in call[c].todo /\ call[c].op = "get"
    BY <2>1 DEF MemoryGet, OnMemory, Ready
  <2>8. /\ NextStage(c, k) \in {"running", "done"}
        /\ IF NextStage(c, k) = "done" THEN call[c].todo \ {k} = {}
                                       ELSE call[c].todo \ {k} # {}
    BY <2>7 DEF NextStage
  <2> QED
    BY <2>5, <2>6, <2>7, <2>8, MemoryMoves DEF Changes
<1>4. CASE \E k \in Keys : MemorySet(c, k)
  <2>1. PICK k \in Keys : MemorySet(c, k)
    BY <1>4
  <2>2. InCall(c) /\ call[c].todo \in SUBSET Keys /\ NextStage(c, k) \in Stages
    BY <1>1, <2>1, InCallWhen, CallFields DEF MemorySet, OnMemory, Ready, Stages, NextStage
  <2>3. Moves(c, NextStage(c, k), call[c].todo \ {k}, call[c].at,
              Answered(c, {k}, NoAnswer))
    BY <1>1, <2>1, <2>2, PassMoves DEF MemorySet, NoAnswer
  <2>4. /\ backend = "memory" /\ Aside /\ k \in call[c].todo /\ call[c].op = "set"
    BY <2>1 DEF MemorySet, OnMemory, Ready
  <2>5. Answered(c, {k}, NoAnswer) = NoAnswer
    BY <1>1, <2>2, <2>4, NoMoreAnswer DEF CallsInv, CallInv, Changes
  <2>6. Tidy
    BY <1>1, <2>1, <2>2, <2>4, NewEntryKind DEF MemorySet, NoFilesInv, TypeOK, Tidy
  <2>7. /\ NextStage(c, k) \in {"running", "done"}
        /\ IF NextStage(c, k) = "done" THEN call[c].todo \ {k} = {}
                                       ELSE call[c].todo \ {k} # {}
    BY <2>4 DEF NextStage
  <2> QED
    BY <2>3, <2>4, <2>5, <2>6, <2>7, MemoryMoves
<1>5. CASE MemoryDelete(c)
  <2>1. InCall(c) /\ call[c].todo \in SUBSET Keys /\ "done" \in Stages
    BY <1>1, <1>5, InCallWhen, CallFields DEF MemoryDelete, OnMemory, Ready, Stages
  <2>2. Moves(c, "done", call[c].todo \ call[c].todo, call[c].at,
              Answered(c, call[c].todo, NoAnswer))
    BY <1>1, <1>5, <2>1, PassMoves DEF MemoryDelete, NoAnswer
  <2>3. backend = "memory" /\ Aside /\ Changes(call[c].op)
    BY <1>5 DEF MemoryDelete, OnMemory, Ready, Changes
  <2>4. Answered(c, call[c].todo, NoAnswer) = NoAnswer
    BY <1>1, <2>1, <2>3, NoMoreAnswer DEF CallsInv, CallInv
  <2>5. Tidy
    BY <1>5, <2>3, AbsentIsNone, WithIsTidy DEF MemoryDelete
  <2> QED
    BY <2>2, <2>3, <2>4, <2>5, MemoryMoves
<1>6. CASE MemoryKeys(c)
  <2>1. InCall(c) /\ call[c].todo \in SUBSET Keys /\ "done" \in Stages
    BY <1>1, <1>6, InCallWhen, CallFields DEF MemoryKeys, OnMemory, Ready, Stages
  <2>2. backend = "memory" /\ Aside /\ call[c].op = "keys"
    BY <1>6 DEF MemoryKeys, OnMemory, Ready
  <2> DEFINE found == [k \in Keys |-> List(store[k])]
  <2>3. \A k \in Keys : found[k] \in Values \cup {Present, Nothing}
    BY <1>1, <2>2, FoundType DEF NoFilesInv
  <2>4. Pass(c, Keys, found, "done")
    BY <1>6 DEF MemoryKeys
  <2> HIDE DEF found
  <2>5. Moves(c, "done", call[c].todo \ Keys, call[c].at, Answered(c, Keys, found))
    BY <1>1, <2>1, <2>3, <2>4, PassMoves
  <2>6. Tidy
    BY <1>6, <2>2, UntouchedIsTidy DEF MemoryKeys
  <2>7. call[c].todo \ Keys = {}
    BY <2>1
  <2> QED
    BY <2>2, <2>5, <2>6, <2>7, MemoryMoves DEF Changes
<1>7. CASE MemoryCut(c)
  BY <1>7, StopAside DEF MemoryCut, OnMemory
<1> QED
  BY <1>2, <1>3, <1>4, <1>5, <1>6, <1>7 DEF LocalMemoryStep

-----------------------------------------------------------------------------
\* RedisCache
LEMMA RedisMoves ==
    ASSUME StoresInv, backend = "redis", Aside, NEW c \in Callers,
           NEW stage \in {"running", "lost", "done"}, NEW todo, NEW at, NEW answer,
           Moves(c, stage, todo, at, answer), todo \subseteq call[c].todo,
           stage = "done" => todo = {}, Changes(call[c].op) => answer = NoAnswer, Tidy
    PROVE  StoresInv'
<1>1. todo \subseteq call[c].keys
  BY DEF StoresInv, CallsInv, CallInv, Moves
<1>2. CallsInv'
  BY <1>1, MoveKeepsCalls DEF StoresInv, Aside
<1>3. /\ call' \in [Callers -> {Idle} \cup Calls]
      /\ \A d \in Callers \ {c} : call'[d] = call[d]
      /\ call'[c].stage = stage
  BY MovedCall DEF StoresInv
<1>4. RedisInv'
  BY <1>3 DEF StoresInv, RedisInv, InCall, Doing, Aside
<1>5. MemoryInv' /\ ConstanceInv'
  BY DEF MemoryInv, ConstanceInv, Aside
<1> QED
  BY <1>2, <1>3, <1>4, <1>5, StepAside

\* What is at hand when the server runs the command of c.
LEMMA AtServer ==
    ASSUME StoresInv, NEW c \in Callers, OnServer(c)
    PROVE  /\ backend = "redis" /\ Aside /\ InCall(c)
           /\ call[c].todo \in SUBSET Keys
           /\ Result(c) \in {"lost", "done"} /\ Result(c) \in Stages
<1>1. InCall(c)
  BY InCallWhen DEF StoresInv, OnServer, Stages
<1> QED
  BY <1>1, CallFields DEF StoresInv, OnServer, Aside, Result, Stages

LEMMA ReadMoves ==
    ASSUME StoresInv, NEW c \in Callers, OnServer(c), NEW found,
           \A k \in Keys : found[k] \in Values \cup {Present, Nothing},
           Pass(c, call[c].todo, found, Result(c))
    PROVE  Moves(c, Result(c), {}, call[c].at, Answered(c, call[c].todo, found))
<1>1. /\ InCall(c) /\ Result(c) \in Stages /\ TypeOK
      /\ call[c].todo \ call[c].todo = {}
  BY AtServer DEF StoresInv
<1>2. \A k \in call[c].todo \cap Keys : found[k] \in Values \cup {Present, Nothing}
  OBVIOUS
<1>3. Moves(c, Result(c), call[c].todo \ call[c].todo, call[c].at,
            Answered(c, call[c].todo, found))
  BY <1>1, <1>2, PassMoves
<1> QED
  BY <1>1, <1>3

LEMMA ChangeMoves ==
    ASSUME StoresInv, NEW c \in Callers, OnServer(c), Changes(call[c].op),
           Pass(c, call[c].todo, NoAnswer, Result(c))
    PROVE  Moves(c, Result(c), {}, call[c].at, NoAnswer)
<1>1. InCall(c)
  BY AtServer
<1>2. call[c].answer = NoAnswer
  BY <1>1 DEF StoresInv, CallsInv, CallInv
<1>3. Answered(c, call[c].todo, NoAnswer) = NoAnswer
  BY <1>2, NoMoreAnswer
<1>4. Moves(c, Result(c), {}, call[c].at, Answered(c, call[c].todo, NoAnswer))
  BY ReadMoves DEF NoAnswer
<1> QED
  BY <1>3, <1>4

\* What the store answers.
LEMMA AnswerType ==
    ASSUME StoresInv, backend # "file"
    PROVE  /\ \A k \in Keys : [j \in Keys |-> Find(store[j])][k]
                                \in Values \cup {Present, Nothing}
           /\ \A k \in Keys : [j \in Keys |-> List(store[j])][k]
                                \in Values \cup {Present, Nothing}
  BY FoundType DEF StoresInv, NoFilesInv

LEMMA ExecuteKeepsInv ==
    ASSUME StoresInv, NEW c \in Callers, Execute(c)
    PROVE  StoresInv'
<1> USE DEF Changes
<1>1. OnServer(c)
  BY DEF Execute
<1>2. /\ backend = "redis" /\ backend # "file" /\ Aside /\ InCall(c)
      /\ Result(c) \in {"running", "lost", "done"}
  BY <1>1, AtServer
<1> DEFINE gets == [k \in Keys |-> Find(store[k])]
           lists == [k \in Keys |-> List(store[k])]
           sets == [k \in Keys |-> NewEntry(c)]
           drops == [k \in Keys |-> Absent]
<1>3. CASE call[c].op = "get" /\ Read(c, gets)
  <2>1. Moves(c, Result(c), {}, call[c].at, Answered(c, call[c].todo, gets))
    BY <1>1, <1>2, <1>3, AnswerType, ReadMoves DEF Read
  <2>2. Tidy
    BY <1>2, <1>3, UntouchedIsTidy DEF Read
  <2> QED
    BY <1>2, <1>3, <2>1, <2>2, RedisMoves
<1>4. CASE call[c].op = "keys" /\ Read(c, lists)
  <2>1. Moves(c, Result(c), {}, call[c].at, Answered(c, call[c].todo, lists))
    BY <1>1, <1>2, <1>4, AnswerType, ReadMoves DEF Read
  <2>2. Tidy
    BY <1>2, <1>4, UntouchedIsTidy DEF Read
  <2> QED
    BY <1>2, <1>4, <2>1, <2>2, RedisMoves
<1>5. CASE call[c].op = "set" /\ Change(c, sets)
  <2>1. Moves(c, Result(c), {}, call[c].at, NoAnswer)
    BY <1>1, <1>5, ChangeMoves DEF Change
  <2>2. Tidy
    BY <1>2, <1>5, NewEntryKind, WithIsTidy DEF Change, StoresInv
  <2> QED
    BY <1>2, <1>5, <2>1, <2>2, RedisMoves
<1>6. CASE call[c].op \in {"delete", "clear"} /\ Change(c, drops)
  <2>1. Moves(c, Result(c), {}, call[c].at, NoAnswer)
    BY <1>1, <1>6, ChangeMoves DEF Change
  <2>2. Tidy
    BY <1>2, <1>6, AbsentIsNone, WithIsTidy DEF Change
  <2> QED
    BY <1>2, <1>6, <2>1, <2>2, RedisMoves
<1> QED
  BY <1>3, <1>4, <1>5, <1>6 DEF Execute

LEMMA RedisKeepsInv ==
    ASSUME StoresInv, NEW c \in Callers, RedisStep(c)
    PROVE  StoresInv'
<1>1. CASE RedisEnter(c)
  <2>1. Aside /\ ConstanceInv'
    BY <1>1 DEF RedisEnter, Enter, ConstanceInv, Aside
  <2> QED
    BY <1>1, <2>1, StoresAssumption, EnterAside DEF RedisEnter
<1>2. CASE Execute(c)
  BY <1>2, ExecuteKeepsInv
<1>3. CASE NoCommand(c)
  BY <1>3, AtServer, StopAside DEF NoCommand
<1>4. CASE LoseConnection(c)
  <2>1. /\ backend = "redis" /\ backend # "file" /\ Aside /\ InCall(c) /\ "lost" \in Stages
    BY <1>4, AtServer DEF LoseConnection, Stages
  <2>2. Moves(c, "lost", call[c].todo, call[c].at, call[c].answer)
    BY <1>4, <2>1, GotoMoves DEF LoseConnection, StoresInv
  <2>3. Changes(call[c].op) => call[c].answer = NoAnswer
    BY <2>1 DEF StoresInv, CallsInv, CallInv
  <2>4. Tidy
    BY <1>4, <2>1, UntouchedIsTidy DEF LoseConnection
  <2> QED
    BY <2>1, <2>2, <2>3, <2>4, RedisMoves
<1> QED
  BY <1>1, <1>2, <1>3, <1>4 DEF RedisStep

LEMMA EvictKeepsInv ==
    ASSUME StoresInv, NEW k \in Keys, RedisEvict(k)
    PROVE  StoresInv'
<1>1. Aside /\ backend = "redis" /\ UNCHANGED call
  BY DEF RedisEvict, Aside
<1>2. Tidy
  BY <1>1, AbsentIsNone DEF RedisEvict, StoresInv, NoFilesInv, TypeOK, Tidy, Aside
<1>3. CallsInv' /\ MemoryInv' /\ RedisInv' /\ ConstanceInv'
  BY <1>1 DEF StoresInv, CallsInv, CallInv, MemoryInv, RedisInv, ConstanceInv, InCall,
     Doing, Aside
<1> QED
  BY <1>1, <1>2, <1>3, StepAside DEF StoresInv, TypeOK

-----------------------------------------------------------------------------
\* The database backend of constance
LEMMA ConstanceMoves ==
    ASSUME StoresInv, backend = "constance", Aside, NEW c \in Callers,
           NEW stage, NEW todo, NEW at, NEW answer,
           Moves(c, stage, todo, at, answer), todo \subseteq call[c].todo,
           stage = "done" => todo = {}, Changes(call[c].op) => answer = NoAnswer,
           Tidy, SettingInv(c)',
           \A k \in Keys : \/ store'[k] = store[k]
                           \/ store'[k] # Absent /\ store'[k].deadline = Infinity
    PROVE  StoresInv'
<1>1. todo \subseteq call[c].keys
  BY DEF StoresInv, CallsInv, CallInv, Moves
<1>2. CallsInv'
  BY <1>1, MoveKeepsCalls DEF StoresInv, Aside
<1>3. /\ call' \in [Callers -> {Idle} \cup Calls]
      /\ \A d \in Callers \ {c} : call'[d] = call[d]
  BY MovedCall DEF StoresInv
<1>4. ConstanceInv'
  <2>1. \A k \in Keys : store'[k] = Absent \/ store'[k].deadline = Infinity
    BY DEF StoresInv, ConstanceInv
  <2>2. ASSUME NEW d \in Callers \ {c}, InCall(d)'
        PROVE  SettingInv(d)'
    <3>1. call'[d] = call[d]
      BY <1>3
    <3>2. SettingInv(d) /\ call[d].keys \in SUBSET Keys
      BY <2>2, <3>1, CallFields DEF StoresInv, ConstanceInv, InCall
    <3>3. \A k \in Keys : store[k] # Absent => store'[k] # Absent
      OBVIOUS
    <3> QED
      BY <3>1, <3>2, <3>3 DEF SettingInv, Doing
  <2> QED
    BY <2>1, <2>2 DEF ConstanceInv
<1>5. MemoryInv' /\ RedisInv'
  BY DEF MemoryInv, RedisInv, Aside
<1> QED
  BY <1>2, <1>3, <1>4, <1>5, StepAside

LEMMA AtDatabase ==
    ASSUME StoresInv, NEW c \in Callers, NEW stage \in Stages, NEW op, OnDatabase(c, stage, op)
    PROVE  /\ backend = "constance" /\ Aside /\ InCall(c) /\ SettingInv(c)
           /\ call[c].op = op /\ call[c].todo \in SUBSET Keys
           /\ call[c].keys \in SUBSET Keys /\ TypeOK /\ CallsInv
           /\ stage \in {"running", "found", "missing", "committing"} =>
                call[c].todo = call[c].keys
<1>1. InCall(c)
  BY InCallWhen DEF StoresInv, OnDatabase
<1>2. /\ backend = "constance" /\ Aside /\ call[c].op = op /\ call[c].stage = stage
  BY DEF OnDatabase, Aside, Doing
<1>3. SettingInv(c) /\ TypeOK /\ CallsInv
  BY <1>1, <1>2 DEF StoresInv, ConstanceInv
<1> QED
  BY <1>1, <1>2, <1>3, CallFields DEF SettingInv, Doing

\* A call that has come to its end.
LEMMA ConstanceDone ==
    ASSUME StoresInv, backend = "constance", Aside, NEW c \in Callers, InCall(c),
           NEW at, NEW answer, Moves(c, "done", {}, at, answer),
           Changes(call[c].op) => answer = NoAnswer, Tidy,
           \A k \in Keys : \/ store'[k] = store[k]
                           \/ store'[k] # Absent /\ store'[k].deadline = Infinity
    PROVE  StoresInv'
<1>1. SettingInv(c)
  BY DEF StoresInv, ConstanceInv
<1>2. /\ call'[c].op = call[c].op /\ call'[c].timeout = call[c].timeout
      /\ call'[c].keys = call[c].keys /\ call'[c].stage = "done"
  BY MovedCall DEF StoresInv
<1>3. SettingInv(c)'
  BY <1>1, <1>2 DEF SettingInv, Doing
<1> QED
  BY <1>3, ConstanceMoves

\* The row is about to be written, or nobody waits for that any more.
LEMMA ConstanceWaits ==
    ASSUME StoresInv, NEW c \in Callers, UNCHANGED store,
           NEW stage \in {"found", "missing", "committing"}, OnDatabase(c, stage, "set"),
           NEW next \in {"committing", "lost"}, Goto(c, next)
    PROVE  StoresInv'
<1>1. stage \in Stages /\ next \in Stages
  BY DEF Stages
<1>2. /\ backend = "constance" /\ Aside /\ InCall(c) /\ SettingInv(c)
      /\ call[c].op = "set" /\ TypeOK /\ CallsInv /\ call[c].todo = call[c].keys
  BY <1>1, AtDatabase
<1>3. Moves(c, next, call[c].todo, call[c].at, call[c].answer)
  BY <1>1, <1>2, GotoMoves
<1>4. /\ call'[c].op = call[c].op /\ call'[c].timeout = call[c].timeout
      /\ call'[c].keys = call[c].keys /\ call'[c].todo = call[c].todo
      /\ call'[c].stage = next
  BY <1>2, <1>3, MovedCall
<1>5. SettingInv(c)'
  BY <1>2, <1>4 DEF SettingInv, Doing
<1>6. call[c].answer = NoAnswer
  BY <1>2 DEF CallsInv, CallInv, Changes
<1>7. Tidy
  BY <1>2, UntouchedIsTidy
<1> QED
  BY <1>2, <1>3, <1>5, <1>6, <1>7, ConstanceMoves

\* The row is written.
LEMMA CommitKeepsInv ==
    ASSUME StoresInv, NEW c \in Callers, ConstanceCommit(c)
    PROVE  StoresInv'
<1> DEFINE stage == call[c].stage
           next == IF Doing(c, "lost") THEN "lost" ELSE "done"
<1>1. /\ OnDatabase(c, stage, "set") /\ stage \in {"committing", "lost"}
      /\ store' = With(call[c].todo, [k \in Keys |-> NewEntry(c)])
      /\ Pass(c, call[c].todo, NoAnswer, next)
      /\ stage \in Stages /\ next \in Stages
  BY DEF ConstanceCommit, Writing, Doing, Stages
<1>2. /\ backend = "constance" /\ Aside /\ InCall(c) /\ SettingInv(c)
      /\ call[c].op = "set" /\ call[c].todo \in SUBSET Keys /\ TypeOK /\ CallsInv
  BY <1>1, AtDatabase
<1>3. call[c].answer = NoAnswer
  BY <1>2 DEF CallsInv, CallInv, Changes
<1> HIDE DEF next, stage
<1>4. Moves(c, next, call[c].todo \ call[c].todo, call[c].at,
            Answered(c, call[c].todo, NoAnswer))
  BY <1>1, <1>2, PassMoves DEF NoAnswer
<1>5. Moves(c, next, {}, call[c].at, NoAnswer)
  BY <1>3, <1>4, NoMoreAnswer
<1>6. /\ NewEntry(c) \in Entries /\ ~IsBroken(NewEntry(c)) /\ NewEntry(c) # Absent
      /\ NewEntry(c).deadline = Infinity
  BY <1>2, NewEntryKind DEF SettingInv, NewEntry, KV!Deadline
<1>7. Tidy
  BY <1>1, <1>2, <1>6, WithIsTidy
<1>8. \A k \in Keys : \/ store'[k] = store[k]
                      \/ store'[k] # Absent /\ store'[k].deadline = Infinity
  BY <1>1, <1>6 DEF With
<1>9. /\ call'[c].op = call[c].op /\ call'[c].timeout = call[c].timeout
      /\ call'[c].keys = call[c].keys /\ call'[c].stage = next /\ call'[c].todo = {}
  BY <1>2, <1>5, MovedCall
<1>10. SettingInv(c)'
  BY <1>2, <1>9 DEF SettingInv, Doing, next
<1> QED
  BY <1>2, <1>5, <1>7, <1>8, <1>10, ConstanceMoves

\* It is looked at.
LEMMA LookKeepsInv ==
    ASSUME StoresInv, NEW c \in Callers, ConstanceLook(c)
    PROVE  StoresInv'
<1> USE DEF Changes
<1>1. OnDatabase(c, "running", "set") /\ UNCHANGED store
      /\ {"running", "found", "missing", "done"} \subseteq Stages
  BY DEF ConstanceLook, Stages
<1>2. /\ backend = "constance" /\ Aside /\ InCall(c) /\ SettingInv(c)
      /\ call[c].op = "set" /\ call[c].todo \in SUBSET Keys /\ TypeOK /\ CallsInv
      /\ call[c].todo = call[c].keys
  BY <1>1, AtDatabase
<1>3. PICK k \in Keys : call[c].keys = {k}
  BY <1>2 DEF SettingInv
<1>4. call[c].answer = NoAnswer
  BY <1>2 DEF CallsInv, CallInv
<1>5. Tidy
  BY <1>1, <1>2, UntouchedIsTidy
<1>6. CASE Pass(c, {k}, NoAnswer, "done")
  <2>1. Moves(c, "done", call[c].todo \ {k}, call[c].at, Answered(c, {k}, NoAnswer))
    BY <1>1, <1>2, <1>6, PassMoves DEF NoAnswer
  <2>2. Moves(c, "done", {}, call[c].at, NoAnswer)
    BY <1>2, <1>3, <1>4, <2>1, NoMoreAnswer
  <2> QED
    BY <1>1, <1>2, <1>5, <2>2, ConstanceDone
<1>7. ASSUME NEW stage \in {"found", "missing"}, Goto(c, stage)
      PROVE  StoresInv'
  <2>1. Moves(c, stage, call[c].todo, call[c].at, call[c].answer)
    BY <1>1, <1>2, <1>7, GotoMoves
  <2>2. /\ call'[c].op = call[c].op /\ call'[c].timeout = call[c].timeout
        /\ call'[c].keys = call[c].keys /\ call'[c].todo = call[c].todo
        /\ call'[c].stage = stage
    BY <1>2, <2>1, MovedCall
  <2>3. SettingInv(c)'
    BY <1>2, <2>2 DEF SettingInv, Doing
  <2> QED
    BY <1>1, <1>2, <1>4, <1>5, <2>1, <2>3, ConstanceMoves
<1> QED
  BY <1>2, <1>3, <1>6, <1>7 DEF ConstanceLook

\* A second row is refused.
LEMMA RefusalKeepsInv ==
    ASSUME StoresInv, NEW c \in Callers, OnDatabase(c, "missing", "set"), UNCHANGED store,
           \E k \in call[c].todo : store[k] # Absent, Goto(c, "raising")
    PROVE  StoresInv'
<1>1. "missing" \in Stages /\ "raising" \in Stages
  BY DEF Stages
<1>2. /\ backend = "constance" /\ Aside /\ InCall(c) /\ SettingInv(c)
      /\ call[c].op = "set" /\ call[c].todo \in SUBSET Keys /\ TypeOK /\ CallsInv
      /\ call[c].todo = call[c].keys
  BY <1>1, AtDatabase
<1>3. \A k \in call[c].keys : store[k] # Absent
  BY <1>2 DEF SettingInv
<1>4. call[c].answer = NoAnswer
  BY <1>2 DEF CallsInv, CallInv, Changes
<1>5. Moves(c, "raising", call[c].todo, call[c].at, call[c].answer)
  BY <1>1, <1>2, GotoMoves
<1>6. /\ call'[c].op = call[c].op /\ call'[c].timeout = call[c].timeout
      /\ call'[c].keys = call[c].keys /\ call'[c].stage = "raising"
  BY <1>2, <1>5, MovedCall
<1>7. SettingInv(c)'
  BY <1>2, <1>3, <1>6 DEF SettingInv, Doing
<1>8. Tidy
  BY <1>2, UntouchedIsTidy
<1> QED
  BY <1>2, <1>4, <1>5, <1>7, <1>8, ConstanceMoves

LEMMA ConstanceEnterKeepsInv ==
    ASSUME StoresInv, NEW c \in Callers, ConstanceEnter(c)
    PROVE  StoresInv'
<1>1. backend = "constance" /\ Aside /\ UNCHANGED store
      /\ Enter(c, "running", {"get", "set"}, Values, {Infinity})
      /\ (call'[c].op = "set" => \E k \in Keys : call'[c].keys = {k})
  BY DEF ConstanceEnter, Enter, Aside
<1>2. "running" \in Stages /\ {"get", "set"} \in SUBSET KV!Kinds
  BY DEF Stages, KV!Kinds
<1>3. PICK op \in {"get", "set"}, K \in (SUBSET Keys) \ {{}}, v \in Values \cup {Nothing},
           d \in {Infinity} \cup {Infinity} : Begun(c, "running", op, K, v, d)
  BY <1>1, <1>2, EnterCall DEF StoresInv
<1>4. /\ call'[c].stage = "running" /\ call'[c].op = op /\ call'[c].keys = K
      /\ call'[c].todo = K /\ call'[c].timeout = Infinity
      /\ \A b \in Callers \ {c} : call'[b] = call[b]
  BY <1>3 DEF Begun
<1>5. SettingInv(c)'
  BY <1>1, <1>4 DEF SettingInv, Doing
<1>6. ConstanceInv'
  BY <1>1, <1>4, <1>5 DEF StoresInv, ConstanceInv, SettingInv, InCall, Doing
<1> QED
  BY <1>1, <1>2, <1>6, EnterAside

LEMMA ConstanceKeepsInv ==
    ASSUME StoresInv, NEW c \in Callers, ConstanceStep(c)
    PROVE  StoresInv'
<1>1. CASE ConstanceEnter(c)
  BY <1>1, ConstanceEnterKeepsInv
<1>2. CASE ConstanceGet(c)
  <2>1. OnDatabase(c, "running", "get") /\ "running" \in Stages /\ "done" \in Stages
    BY <1>2 DEF ConstanceGet, Stages
  <2>2. /\ backend = "constance" /\ backend # "file" /\ Aside /\ InCall(c)
        /\ call[c].op = "get" /\ call[c].todo \in SUBSET Keys /\ TypeOK
    BY <2>1, AtDatabase
  <2> DEFINE found == [k \in Keys |-> Find(store[k])]
  <2>3. \A k \in call[c].todo \cap Keys : found[k] \in Values \cup {Present, Nothing}
    BY <2>2, AnswerType
  <2>4. Pass(c, call[c].todo, found, "done") /\ UNCHANGED store
    BY <1>2 DEF ConstanceGet
  <2> HIDE DEF found
  <2>5. Moves(c, "done", call[c].todo \ call[c].todo, call[c].at,
              Answered(c, call[c].todo, found))
    BY <2>1, <2>2, <2>3, <2>4, PassMoves
  <2>6. Moves(c, "done", {}, call[c].at, Answered(c, call[c].todo, found))
    BY <2>5
  <2>7. Tidy
    BY <2>2, <2>4, UntouchedIsTidy
  <2> QED
    BY <2>2, <2>4, <2>6, <2>7, ConstanceDone DEF Changes
<1>3. CASE ConstanceLook(c)
  BY <1>3, LookKeepsInv
<1>4. CASE ConstanceUpdate(c)
  BY <1>4, ConstanceWaits DEF ConstanceUpdate
<1>5. CASE ConstanceInsert(c)
  BY <1>5, ConstanceWaits, RefusalKeepsInv DEF ConstanceInsert
<1>7. CASE ConstanceCommit(c)
  BY <1>7, CommitKeepsInv
<1>8. CASE ConstanceLose(c)
  BY <1>8, ConstanceWaits DEF ConstanceLose
<1>6. CASE ConstanceFail(c)
  <2>1. Aside /\ Stop(c) /\ UNCHANGED store
    BY <1>6 DEF ConstanceFail, OnDatabase, Aside
  <2> QED
    BY <2>1, StopAside
<1> QED
  BY <1>1, <1>2, <1>3, <1>4, <1>5, <1>6, <1>7, <1>8 DEF ConstanceStep

-----------------------------------------------------------------------------
\* FileCache.  Of a method that has the manager lock:
LEMMA AtFiles ==
    ASSUME StoresInv, backend = "file", NEW c \in holding
    PROVE  /\ c \in Callers /\ InCall(c) /\ Inside(c) /\ TypeOK /\ CallsInv
           /\ call[c].keys \in SUBSET Keys /\ call[c].todo \in SUBSET Keys
           /\ call[c].todo \subseteq call[c].keys
           /\ call[c].answer \in [Keys -> Values \cup {Present, Nothing}]
           /\ call[c].at \in Keys \cup {Nothing} /\ call[c].op \in KV!Kinds
           /\ Changes(call[c].op) => call[c].answer = NoAnswer
           /\ call[c].began <= now
           /\ Doing(c, "running") => call[c].at = Nothing
           /\ Doing(c, "writing") => call[c].at # Nothing
           /\ call[c].at # Nothing => call[c].op = "set" /\ Through(c, call[c].at)
           /\ ~overlap => HolderInv(c)
<1>1. /\ c \in Callers /\ Inside(c) /\ TypeOK /\ CallsInv /\ (~overlap => HolderInv(c))
      /\ AtInv(c)
  BY DEF StoresInv, TypeOK, Manager!LeaseTypeOK, FileInv
<1>2. InCall(c)
  BY <1>1, InCallWhen DEF Inside, Stages
<1>3. CallInv(c)
  BY <1>1, <1>2 DEF CallsInv
<1> QED
  BY <1>1, <1>2, <1>3, CallFields DEF CallInv, AtInv, Doing

LEMMA InFiles ==
    ASSUME StoresInv, backend = "file", NEW c \in Callers, NEW stage, Doing(c, stage),
           stage \in {"running", "writing", "raising", "refused", "cut"}
    PROVE  c \in holding
  BY DEF StoresInv, FileInv, Inside, Doing

\* It moves within the lock.
LEMMA FileMoves ==
    ASSUME StoresInv, backend = "file", NEW c \in holding,
           NEW stage \in {"running", "writing", "raising", "refused", "cut"},
           NEW todo, NEW at, NEW answer, Moves(c, stage, todo, at, answer),
           UNCHANGED <<backend, now>>, UNCHANGED managerVars,
           todo \subseteq call[c].keys, Changes(call[c].op) => answer = NoAnswer,
           store' \in [Keys -> Entries],
           IF at = Nothing THEN stage # "writing"
           ELSE /\ stage \in {"writing", "refused"}
                /\ call[c].op = "set" /\ at \in call[c].keys \ todo,
           ~overlap => HolderInv(c)'
    PROVE  StoresInv'
<1>1. c \in Callers /\ TypeOK /\ CallsInv
  BY AtFiles
<1>2. /\ call' \in [Callers -> {Idle} \cup Calls]
      /\ \A d \in Callers \ {c} : call'[d] = call[d]
      /\ call'[c].stage = stage /\ call'[c].todo = todo /\ call'[c].at = at
      /\ call'[c].op = call[c].op /\ call'[c].keys = call[c].keys
  BY <1>1, MovedCall
<1>3. TypeOK'
  BY <1>1, <1>2 DEF TypeOK, managerVars, Manager!LeaseTypeOK
<1>4. CallsInv'
  BY <1>1, MoveKeepsCalls
<1>5. FileInv'
  <2>1. \A d \in Callers : d \in holding' <=> Inside(d)'
    BY <1>1, <1>2 DEF StoresInv, FileInv, Inside, Doing, managerVars
  <2>2. ASSUME NEW d \in Callers, InCall(d)', d \notin holding'
        PROVE  Doing(d, "waiting")' /\ call'[d].answer = NoAnswer /\ call'[d].at = Nothing
    BY <1>2, <2>2 DEF StoresInv, FileInv, InCall, Doing, managerVars
  <2>3. ASSUME NEW d \in holding' PROVE AtInv(d)'
    BY <1>1, <1>2, <2>3 DEF StoresInv, FileInv, AtInv, Doing, Through, managerVars, TypeOK,
       Manager!LeaseTypeOK
  <2>4. ~overlap' => \A d, e \in holding' : d = e
    BY DEF StoresInv, FileInv, managerVars
  <2>5. ~overlap' => \A d \in holding' : HolderInv(d)'
    <3> SUFFICES ASSUME ~overlap', NEW d \in holding' PROVE HolderInv(d)'
      OBVIOUS
    <3>1. d = c /\ ~overlap
      BY <2>4 DEF managerVars
    <3> QED
      BY <3>1
  <2>6. NoAnswer' = NoAnswer
    BY DEF NoAnswer
  <2> QED
    BY <2>1, <2>2, <2>3, <2>4, <2>5, <2>6 DEF FileInv
<1> QED
  BY <1>3, <1>4, <1>5
     DEF StoresInv, NoFilesInv, MemoryInv, RedisInv, ConstanceInv

\* Entries and answers that stay good.
LEMMA SameAnswers ==
    ASSUME NEW c \in Callers, NEW k \in Keys, store'[k] = store[k], now' = now,
           call'[c].op = call[c].op, call'[c].began = call[c].began
    PROVE  KV!Answers(call[c], k)' = KV!Answers(call[c], k)
  BY DEF KV!Answers, KV!Expired, KV!Absent

LEMMA SameLeavings ==
    ASSUME NEW c \in Callers, now' = now, call'[c].op = call[c].op,
           call'[c].value = call[c].value, call'[c].timeout = call[c].timeout,
           call'[c].began = call[c].began
    PROVE  KV!Leavings(call[c])' = KV!Leavings(call[c])
  BY DEF KV!Leavings, KV!Deadline, KV!Absent

LEMMA SameTornings ==
    ASSUME NEW c \in Callers, now' = now, call'[c].op = call[c].op,
           call'[c].value = call[c].value, call'[c].timeout = call[c].timeout,
           call'[c].began = call[c].began
    PROVE  KV!Tornings(call[c])' = KV!Tornings(call[c])
  BY SameLeavings DEF KV!Tornings, KV!BrokenEntry

LEMMA FoundIsAnswer ==
    ASSUME TypeOK, NEW c \in Callers, NEW k \in Keys, call[c].began <= now,
           call[c].began \in Nat
    PROVE  /\ call[c].op = "get" /\ (IsBroken(store[k]) => Expired(store[k])) =>
                Find(store[k]) \in KV!Answers(call[c], k)
           /\ call[c].op = "keys" => List(store[k]) \in KV!Answers(call[c], k)
<1>1. now \in Nat
  BY StoresAssumption DEF TypeOK, Manager!LeaseTypeOK, Manager!Time
<1>2. CASE store[k] = Absent \/ Expired(store[k])
  BY <1>2 DEF Find, List, KV!Answers, Absent, Expired
<1>3. CASE store[k] # Absent /\ ~Expired(store[k])
  <2>1. /\ IsBroken(store[k]) \/ store[k].value \in Values
        /\ store[k].deadline \in Nat \cup {Infinity}
    BY <1>3, EntryKinds
  <2>2. store[k].deadline = Infinity \/ store[k].deadline >= call[c].began
    BY <1>1, <1>3, <2>1 DEF Expired, KV!Expired
  <2> QED
    BY <1>3, <2>1, <2>2 DEF Find, List, KV!Answers, Absent
<1> QED
  BY <1>2, <1>3

\* A method at work on k.
LEMMA AtKey ==
    ASSUME StoresInv, NEW c \in Callers, NEW op, NEW k, InBody(c, op, k)
    PROVE  /\ backend = "file" /\ c \in holding /\ Doing(c, "running")
           /\ call[c].op = op /\ k \in Keys /\ k \in call[c].todo /\ k \in call[c].keys
           /\ InCall(c) /\ TypeOK
           /\ UNCHANGED <<backend, now>> /\ UNCHANGED managerVars
           /\ call[c].began \in Nat /\ call[c].at = Nothing
<1>1. /\ backend = "file" /\ Doing(c, "running") /\ call[c].op = op /\ k \in call[c].todo
      /\ UNCHANGED <<backend, now>> /\ UNCHANGED managerVars
  BY DEF InBody, Ready
<1>2. c \in holding
  BY <1>1, InFiles
<1>3. /\ InCall(c) /\ TypeOK /\ call[c].keys \in SUBSET Keys
      /\ call[c].todo \subseteq call[c].keys /\ call[c].at = Nothing
  BY <1>1, <1>2, AtFiles
<1>4. call[c].began \in Nat
  BY <1>3, CallFields, StoresAssumption DEF Time
<1> QED
  BY <1>1, <1>2, <1>3, <1>4

\* What a method that reads has found of one more key.
LEMMA FoundKeepsInv ==
    ASSUME StoresInv, NEW c \in Callers, NEW op \in {"get", "keys"}, NEW k, InBody(c, op, k),
           NEW a, a \in Values \cup {Present, Nothing}, a \in KV!Answers(call[c], k),
           Pass(c, {k}, [j \in {k} |-> a], "running"), UNCHANGED store
    PROVE  StoresInv'
<1>1. /\ backend = "file" /\ c \in holding /\ Doing(c, "running") /\ InCall(c) /\ TypeOK
      /\ call[c].op = op /\ k \in Keys /\ k \in call[c].todo /\ k \in call[c].keys
      /\ UNCHANGED <<backend, now>> /\ UNCHANGED managerVars /\ "running" \in Stages
      /\ call[c].at = Nothing
  BY AtKey DEF Stages
<1>2. ~Changes(call[c].op)
  BY <1>1 DEF Changes
<1> DEFINE answer == Answered(c, {k}, [j \in {k} |-> a])
<1>3. Moves(c, "running", call[c].todo \ {k}, call[c].at, answer)
  BY <1>1, PassMoves
<1>4. /\ call[c].todo \subseteq call[c].keys /\ call[c].keys \in SUBSET Keys
      /\ ~overlap => HolderInv(c)
  BY <1>1, AtFiles
<1>5. /\ call'[c].stage = "running" /\ call'[c].todo = call[c].todo \ {k}
      /\ call'[c].answer = answer
      /\ call'[c].op = call[c].op /\ call'[c].keys = call[c].keys
      /\ call'[c].began = call[c].began
  BY <1>1, <1>3, MovedCall
<1>6. ASSUME ~overlap PROVE HolderInv(c)'
  <2>1. ReadingInv(c)
    BY <1>2, <1>4, <1>6 DEF HolderInv
  <2>2. ASSUME NEW j \in Keys
        PROVE  IF Through(c, j)' THEN call'[c].answer[j] \in KV!Answers(call[c], j)'
                                 ELSE call'[c].answer[j] = Nothing
    <3>1. KV!Answers(call[c], j)' = KV!Answers(call[c], j)
      BY <1>1, <1>5, SameAnswers
    <3>2. call'[c].answer[j] = IF j = k THEN a ELSE call[c].answer[j]
      BY <1>5 DEF Answered
    <3>3. Through(c, j)' <=> Through(c, j) \/ j = k
      BY <1>1, <1>5 DEF Through
    <3>4. IF Through(c, j) THEN call[c].answer[j] \in KV!Answers(call[c], j)
                           ELSE call[c].answer[j] = Nothing
      BY <2>1 DEF ReadingInv
    <3> QED
      BY <3>1, <3>2, <3>3, <3>4
  <2>3. /\ ~Doing(c, "writing")' /\ ~Doing(c, "raising")'
        /\ call'[c].op = "keys" => \A j \in call'[c].todo : store'[j] # Absent
    BY <1>5, <2>1 DEF ReadingInv, Doing
  <2>4. ReadingInv(c)'
    BY <2>2, <2>3 DEF ReadingInv
  <2> QED
    BY <1>2, <1>5, <2>4 DEF HolderInv, Changes
<1>7. store' \in [Keys -> Entries]
  BY <1>1 DEF TypeOK
<1> HIDE DEF answer
<1> QED
  BY <1>1, <1>2, <1>3, <1>4, <1>6, <1>7, FileMoves

\* What it has met instead.
LEMMA RaiseKeepsInv ==
    ASSUME StoresInv, NEW c \in Callers, NEW op, NEW k, InBody(c, op, k),
           store' \in [Keys -> Entries], Goto(c, "raising"),
           ~overlap => HolderInv(c)'
    PROVE  StoresInv'
<1>1. /\ backend = "file" /\ c \in holding /\ InCall(c) /\ TypeOK /\ call[c].at = Nothing
      /\ UNCHANGED <<backend, now>> /\ UNCHANGED managerVars /\ "raising" \in Stages
  BY AtKey DEF Stages
<1>2. Moves(c, "raising", call[c].todo, call[c].at, call[c].answer)
  BY <1>1, GotoMoves
<1>3. /\ call[c].todo \subseteq call[c].keys
      /\ Changes(call[c].op) => call[c].answer = NoAnswer
  BY <1>1, AtFiles
<1> QED
  BY <1>1, <1>2, <1>3, FileMoves

LEMMA GetKeepsInv ==
    ASSUME StoresInv, NEW c \in Callers, NEW k \in Keys, FileGet(c, k)
    PROVE  StoresInv'
<1>1. InBody(c, "get", k) /\ UNCHANGED store
  BY DEF FileGet
<1>2. /\ backend = "file" /\ c \in holding /\ Doing(c, "running") /\ InCall(c) /\ TypeOK
      /\ call[c].op = "get" /\ k \in call[c].keys /\ call[c].began \in Nat
      /\ UNCHANGED <<backend, now>> /\ UNCHANGED managerVars /\ "raising" \in Stages
  BY <1>1, AtKey DEF Stages
<1>3. CASE IsBroken(store[k]) /\ ~Expired(store[k]) /\ Goto(c, "raising")
  <2>1. Moves(c, "raising", call[c].todo, call[c].at, call[c].answer)
    BY <1>2, <1>3, GotoMoves
  <2>2. /\ call'[c].stage = "raising" /\ call'[c].todo = call[c].todo
        /\ call'[c].answer = call[c].answer /\ call'[c].op = "get"
        /\ call'[c].keys = call[c].keys /\ call'[c].began = call[c].began
    BY <1>2, <2>1, MovedCall
  <2>3. ASSUME ~overlap PROVE HolderInv(c)'
    <3>1. ReadingInv(c)
      BY <1>2, <2>3, AtFiles DEF HolderInv, Changes
    <3>2. \A j \in Keys : KV!Answers(call[c], j)' = KV!Answers(call[c], j)
      BY <1>1, <1>2, <2>2, SameAnswers
    <3>3. ReadingInv(c)'
      BY <1>1, <1>2, <1>3, <2>2, <3>1, <3>2 DEF ReadingInv, Doing, Through, IsBroken
    <3> QED
      BY <2>2, <3>3 DEF HolderInv, Changes
  <2>4. store' \in [Keys -> Entries]
    BY <1>1, <1>2 DEF TypeOK
  <2> QED
    BY <1>1, <1>3, <2>3, <2>4, RaiseKeepsInv
<1>4. CASE /\ ~(IsBroken(store[k]) /\ ~Expired(store[k]))
           /\ Pass(c, {k}, [j \in {k} |-> Find(store[j])], "running")
  <2>1. Find(store[k]) \in Values \cup {Present, Nothing}
    BY <1>2, <1>4, FoundType
  <2>2. call[c].began <= now
    BY <1>2, AtFiles
  <2>3. Find(store[k]) \in KV!Answers(call[c], k)
    BY <1>2, <1>4, <2>2, FoundIsAnswer
  <2>4. [j \in {k} |-> Find(store[j])] = [j \in {k} |-> Find(store[k])]
    OBVIOUS
  <2> DEFINE a == Find(store[k])
  <2>5. Pass(c, {k}, [j \in {k} |-> a], "running")
    BY <1>4, <2>4
  <2> HIDE DEF a
  <2> QED
    BY <1>1, <2>1, <2>3, <2>5, FoundKeepsInv DEF a
<1> QED
  BY <1>3, <1>4 DEF FileGet

LEMMA ListKeepsInv ==
    ASSUME StoresInv, NEW c \in Callers, NEW k \in Keys, FileList(c, k)
    PROVE  StoresInv'
<1>1. InBody(c, "keys", k) /\ UNCHANGED store
  BY DEF FileList
<1>2. /\ backend = "file" /\ c \in holding /\ InCall(c) /\ TypeOK
      /\ call[c].op = "keys" /\ k \in call[c].todo /\ call[c].began \in Nat
  BY <1>1, AtKey
<1>3. CASE store[k] = Absent /\ Goto(c, "raising")
  <2>1. overlap
    <3> SUFFICES ASSUME ~overlap PROVE FALSE
      OBVIOUS
    <3>1. ReadingInv(c)
      BY <1>2, AtFiles DEF HolderInv, Changes
    <3> QED
      BY <1>2, <1>3, <3>1 DEF ReadingInv
  <2>2. store' \in [Keys -> Entries]
    BY <1>1, <1>2 DEF TypeOK
  <2> QED
    BY <1>1, <1>3, <2>1, <2>2, RaiseKeepsInv
<1>4. CASE Pass(c, {k}, [j \in {k} |-> List(store[j])], "running")
  <2>1. List(store[k]) \in Values \cup {Present, Nothing}
    BY DEF List
  <2>2. call[c].began <= now
    BY <1>2, AtFiles
  <2>3. List(store[k]) \in KV!Answers(call[c], k)
    BY <1>2, <2>2, FoundIsAnswer
  <2> DEFINE a == List(store[k])
  <2>4. Pass(c, {k}, [j \in {k} |-> a], "running")
    <3>1. [j \in {k} |-> List(store[j])] = [j \in {k} |-> a]
      OBVIOUS
    <3> QED
      BY <1>4, <3>1
  <2> HIDE DEF a
  <2> QED
    BY <1>1, <2>1, <2>3, <2>4, FoundKeepsInv DEF a
<1> QED
  BY <1>3, <1>4 DEF FileList

\* A method that changes files, and has one more of them changed.
LEMMA OneMoreChanged ==
    ASSUME StoresInv, backend = "file", NEW c \in holding, Changes(call[c].op), ~overlap,
           UNCHANGED <<now, before>>, NEW k \in call[c].keys,
           NEW stage, NEW at,
           Moves(c, stage, call[c].todo \ {k}, at, call[c].answer),
           call[c].at \in {k, Nothing}, stage # "raising",
           \A j \in Keys \ {k} : store'[j] = store[j],
           \/ at = k /\ store'[k] \in KV!Tornings(call[c])
           \/ at = Nothing /\ store'[k] \in KV!Leavings(call[c])
    PROVE  HolderInv(c)'
<1>1. /\ c \in Callers /\ TypeOK /\ call[c].keys \in SUBSET Keys
      /\ call[c].todo \subseteq call[c].keys /\ ChangingInv(c)
  BY AtFiles DEF HolderInv
<1>2. /\ call'[c].stage = stage /\ call'[c].todo = call[c].todo \ {k} /\ call'[c].at = at
      /\ call'[c].op = call[c].op /\ call'[c].keys = call[c].keys
      /\ call'[c].value = call[c].value /\ call'[c].timeout = call[c].timeout
      /\ call'[c].began = call[c].began
  BY <1>1, MovedCall
<1>3. /\ KV!Leavings(call[c])' = KV!Leavings(call[c])
      /\ KV!Tornings(call[c])' = KV!Tornings(call[c])
  BY <1>1, <1>2, SameLeavings, SameTornings
<1>4. ASSUME NEW j \in Keys
      PROVE  IF j = call'[c].at THEN store'[j] \in KV!Tornings(call[c])
             ELSE IF Through(c, j)' THEN store'[j] \in KV!Leavings(call[c])
             ELSE store'[j] = before[j]
  <2>1. CASE j = k
    BY <1>1, <1>2, <2>1, StoresAssumption DEF Through
  <2>2. CASE j # k
    <3>1. store'[j] = store[j] /\ j # call[c].at /\ j # call'[c].at
      BY <1>2, <2>2, StoresAssumption
    <3>2. Through(c, j)' <=> Through(c, j)
      BY <1>2, <2>2 DEF Through
    <3>3. IF Through(c, j) THEN store[j] \in KV!Leavings(call[c]) ELSE store[j] = before[j]
      BY <1>1, <3>1 DEF ChangingInv
    <3> QED
      BY <3>1, <3>2, <3>3
  <2> QED
    BY <2>1, <2>2
<1>5. call'[c].op = "clear" => \A j \in call'[c].todo : store'[j] # Absent
  BY <1>1, <1>2 DEF ChangingInv
<1>6. ~Doing(c, "raising")'
  BY <1>2 DEF Doing
<1>7. Absent' = Absent
  BY DEF Absent, KV!Absent
<1>8. ChangingInv(c)'
  BY <1>3, <1>4, <1>5, <1>6, <1>7 DEF ChangingInv
<1> QED
  BY <1>2, <1>8 DEF HolderInv

LEMMA TodoMoves ==
    ASSUME TypeOK, NEW c \in Callers, InCall(c), NEW k,
           call' = [call EXCEPT ![c].todo = @ \ {k}]
    PROVE  Moves(c, call[c].stage, call[c].todo \ {k}, call[c].at, call[c].answer)
<1>1. [call[c] EXCEPT !.todo = call[c].todo \ {k}]
        = Advanced(c, call[c].stage, call[c].todo \ {k}, call[c].at, call[c].answer)
  BY CallFields DEF Calls, Advanced
<1> QED
  BY <1>1, CallFields DEF Moves

LEMMA OpenMoves ==
    ASSUME TypeOK, NEW c \in Callers, InCall(c), NEW k \in Keys,
           call' = [call EXCEPT ![c].stage = "writing", ![c].at = k, ![c].todo = @ \ {k}]
    PROVE  Moves(c, "writing", call[c].todo \ {k}, k, call[c].answer)
<1> DEFINE x == call[c]
           y == [x EXCEPT !.stage = "writing"]
           z == [y EXCEPT !.at = k]
           rest == x.todo \ {k}
<1>1. y = Advanced(c, "writing", x.todo, x.at, x.answer)
  BY CallFields DEF Calls, Advanced
<1>2. call' = [call EXCEPT ![c] = [z EXCEPT !.todo = rest]]
  OBVIOUS
<1> HIDE DEF y, rest
<1>3. z = Advanced(c, "writing", x.todo, k, x.answer)
  BY <1>1 DEF Advanced
<1> HIDE DEF z
<1>4. [z EXCEPT !.todo = rest] = Advanced(c, "writing", rest, k, x.answer)
  BY <1>3 DEF Advanced
<1> QED
  BY <1>2, <1>4, CallFields DEF Moves, Stages, rest

LEMMA WriteMoves ==
    ASSUME TypeOK, NEW c \in Callers, InCall(c),
           call' = [call EXCEPT ![c].stage = "running", ![c].at = Nothing]
    PROVE  Moves(c, "running", call[c].todo, Nothing, call[c].answer)
<1> DEFINE x == call[c]
           y == [x EXCEPT !.stage = "running"]
<1>1. y = Advanced(c, "running", x.todo, x.at, x.answer)
  BY CallFields DEF Calls, Advanced
<1>2. call' = [call EXCEPT ![c] = [y EXCEPT !.at = Nothing]]
  OBVIOUS
<1> HIDE DEF y
<1>3. [y EXCEPT !.at = Nothing] = Advanced(c, "running", x.todo, Nothing, x.answer)
  BY <1>1 DEF Advanced
<1> QED
  BY <1>2, <1>3, CallFields DEF Moves, Stages

LEMMA OpenKeepsInv ==
    ASSUME StoresInv, NEW c \in Callers, NEW k \in Keys, FileOpen(c, k)
    PROVE  StoresInv'
<1>1. /\ InBody(c, "set", k) /\ store' = [store EXCEPT ![k] = BrokenEntry]
  BY DEF FileOpen
<1>2. /\ backend = "file" /\ c \in holding /\ Doing(c, "running") /\ InCall(c) /\ TypeOK
      /\ call[c].op = "set" /\ k \in call[c].keys
      /\ UNCHANGED <<backend, now>> /\ UNCHANGED managerVars
  BY <1>1, AtKey
<1>3. Changes(call[c].op)
  BY <1>2 DEF Changes
<1>4. Moves(c, "writing", call[c].todo \ {k}, k, call[c].answer)
  BY <1>2, OpenMoves DEF FileOpen
<1>5. store' \in [Keys -> Entries] /\ store'[k] = BrokenEntry
      /\ \A j \in Keys \ {k} : store'[j] = store[j]
  BY <1>1, <1>2, AbsentIsNone DEF TypeOK
<1>6. /\ call[c].todo \subseteq call[c].keys /\ call[c].answer = NoAnswer
  BY <1>2, <1>3, AtFiles
<1>7. ASSUME ~overlap PROVE HolderInv(c)'
  <2>1. /\ UNCHANGED <<now, before>> /\ backend = "file" /\ c \in holding
        /\ call[c].at = Nothing /\ k \in call[c].keys
    BY <1>1, <1>2, AtKey DEF managerVars
  <2>2. store'[k] \in KV!Tornings(call[c])
    BY <1>5 DEF KV!Tornings, BrokenEntry
  <2> QED
    BY <1>3, <1>4, <1>5, <1>7, <2>1, <2>2, OneMoreChanged
<1>8. call[c].todo \ {k} \subseteq call[c].keys /\ k \in call[c].keys \ (call[c].todo \ {k})
  BY <1>2, <1>6
<1> QED
  BY <1>2, <1>4, <1>5, <1>6, <1>7, <1>8, StoresAssumption, FileMoves

LEMMA WriteKeepsInv ==
    ASSUME StoresInv, NEW c \in Callers, FileWrite(c)
    PROVE  StoresInv'
<1> DEFINE k == call[c].at
<1>1. /\ backend = "file" /\ Doing(c, "writing")
      /\ UNCHANGED <<backend, now>> /\ UNCHANGED managerVars
  BY DEF FileWrite
<1>2. c \in holding
  BY <1>1, InFiles
<1>3. call[c].op = "set" /\ Through(c, k)
  BY <1>1, <1>2, AtFiles
<1>4. /\ InCall(c) /\ TypeOK /\ CallsInv /\ call[c].keys \in SUBSET Keys
      /\ call[c].todo \subseteq call[c].keys /\ Changes(call[c].op)
      /\ call[c].answer = NoAnswer
  BY <1>1, <1>2, <1>3, AtFiles DEF Changes
<1>5. k \in call[c].keys /\ k \in Keys /\ call[c].todo = call[c].todo \ {k}
  BY <1>3, <1>4 DEF Through
<1>6. Moves(c, "running", call[c].todo \ {k}, Nothing, call[c].answer)
  BY <1>4, <1>5, WriteMoves DEF FileWrite
<1>7. NewEntry(c) \in Entries /\ NewEntry(c) \in KV!Leavings(call[c])
  BY <1>3, <1>4, NewEntryKind
<1>8. store' \in [Keys -> Entries]
  BY <1>4, <1>5, <1>7 DEF FileWrite, TypeOK
<1>9. ASSUME ~overlap PROVE HolderInv(c)'
  <2>1. store' = [store EXCEPT ![k] = NewEntry(c)]
    BY <1>9 DEF FileWrite
  <2>2. store'[k] \in KV!Leavings(call[c]) /\ \A j \in Keys \ {k} : store'[j] = store[j]
    BY <1>4, <1>5, <1>7, <2>1 DEF TypeOK
  <2> HIDE DEF k
  <2> QED
    BY <1>1, <1>2, <1>4, <1>5, <1>6, <1>9, <2>2, OneMoreChanged DEF managerVars, k
<1> QED
  BY <1>1, <1>2, <1>4, <1>5, <1>6, <1>8, <1>9, FileMoves

\* Files are of no concern to the other backends.
LEMMA OnlyFiles ==
    ASSUME backend = "file", backend' = backend, TypeOK', CallsInv', FileInv'
    PROVE  StoresInv'
  BY DEF StoresInv, NoFilesInv, MemoryInv, RedisInv, ConstanceInv

\* Part of the file is there.
LEMMA TearKeepsInv ==
    ASSUME StoresInv, NEW c \in Callers, FileTear(c)
    PROVE  StoresInv'
<1> DEFINE k == call[c].at
           torn == [value |-> Broken, deadline |-> NewEntry(c).deadline]
<1>1. /\ backend = "file" /\ Doing(c, "writing") /\ UNCHANGED <<backend, now, call>>
      /\ UNCHANGED managerVars
      /\ store' = [store EXCEPT ![k] = [NewEntry(c) EXCEPT !.value = Broken]]
  BY DEF FileTear
<1>2. c \in holding
  BY <1>1, InFiles
<1>3. call[c].op = "set" /\ Through(c, k) /\ InCall(c) /\ TypeOK /\ CallsInv
      /\ call[c].keys \in SUBSET Keys
  BY <1>1, <1>2, AtFiles
<1>4. k \in Keys /\ Changes(call[c].op)
  BY <1>3 DEF Through, Changes
<1>5. NewEntry(c) \in Entries /\ NewEntry(c) # Absent /\ NewEntry(c) \in KV!Leavings(call[c])
  BY <1>3, NewEntryKind
<1>6. [NewEntry(c) EXCEPT !.value = Broken] = torn
  BY DEF NewEntry
<1>7. torn \in Entries /\ torn \in KV!Tornings(call[c])
  BY <1>5 DEF Entries, KV!Tornings
<1> HIDE DEF torn, k
<1>8. /\ store' \in [Keys -> Entries] /\ store'[k] = torn
      /\ \A j \in Keys \ {k} : store'[j] = store[j]
  BY <1>1, <1>3, <1>4, <1>6, <1>7 DEF TypeOK
<1>9. TypeOK'
  BY <1>1, <1>3, <1>8 DEF TypeOK, managerVars, Manager!LeaseTypeOK
<1>10. NoAnswer' = NoAnswer /\ Absent' = Absent
  BY DEF NoAnswer, Absent, KV!Absent
<1>11. CallsInv'
  BY <1>1, <1>3, <1>10 DEF CallsInv, CallInv, InCall, Doing
<1>12. ASSUME ~overlap PROVE HolderInv(c)'
  <2>1. ChangingInv(c)
    BY <1>1, <1>2, <1>4, <1>12, AtFiles DEF HolderInv
  <2>2. /\ KV!Leavings(call[c])' = KV!Leavings(call[c])
        /\ KV!Tornings(call[c])' = KV!Tornings(call[c])
    BY <1>1, SameLeavings, SameTornings
  <2>3. ASSUME NEW j \in Keys
        PROVE  IF j = call[c].at THEN store'[j] \in KV!Tornings(call[c])
               ELSE IF Through(c, j) THEN store'[j] \in KV!Leavings(call[c])
               ELSE store'[j] = before[j]
    BY <1>7, <1>8, <2>1 DEF ChangingInv, k
  <2>4. call[c].op # "clear"
    BY <1>3
  <2>5. ChangingInv(c)'
    BY <1>1, <2>1, <2>2, <2>3, <2>4 DEF ChangingInv, Doing, Through, managerVars
  <2> QED
    BY <1>1, <1>4, <2>5 DEF HolderInv
<1>13. FileInv'
  BY <1>1, <1>2, <1>10, <1>12 DEF StoresInv, FileInv, AtInv, InCall, Inside, Doing, Through,
     managerVars
<1> QED
  BY <1>1, <1>9, <1>11, <1>13, OnlyFiles

\* A file is unlinked.
LEMMA UnlinkKeepsInv ==
    ASSUME StoresInv, NEW c \in Callers, NEW op \in {"delete", "clear"}, NEW k,
           InBody(c, op, k), store' = [store EXCEPT ![k] = Absent],
           call' = [call EXCEPT ![c].todo = @ \ {k}]
    PROVE  StoresInv'
<1>1. /\ backend = "file" /\ c \in holding /\ Doing(c, "running") /\ InCall(c) /\ TypeOK
      /\ call[c].op = op /\ k \in Keys /\ k \in call[c].keys
      /\ UNCHANGED <<backend, now>> /\ UNCHANGED managerVars
  BY AtKey
<1>2. Changes(call[c].op) /\ call[c].stage = "running"
  BY <1>1 DEF Changes, Doing
<1>3. Moves(c, "running", call[c].todo \ {k}, call[c].at, call[c].answer)
  BY <1>1, <1>2, TodoMoves
<1>4. /\ store' \in [Keys -> Entries] /\ store'[k] = Absent
      /\ \A j \in Keys \ {k} : store'[j] = store[j]
  BY <1>1, AbsentIsNone DEF TypeOK
<1>5. call[c].todo \subseteq call[c].keys /\ call[c].answer = NoAnswer
  BY <1>1, <1>2, AtFiles
<1>6. Absent \in KV!Leavings(call[c])
  BY <1>1 DEF KV!Leavings, Absent
<1>7. ASSUME ~overlap PROVE HolderInv(c)'
  <2>1. /\ UNCHANGED <<now, before>> /\ backend = "file" /\ c \in holding
        /\ call[c].at = Nothing /\ k \in call[c].keys /\ Changes(call[c].op)
    BY <1>1, <1>2, AtKey DEF managerVars
  <2>2. store'[k] \in KV!Leavings(call[c])
    BY <1>4, <1>6
  <2> QED
    BY <1>3, <1>4, <1>7, <2>1, <2>2, OneMoreChanged
<1>8. call[c].todo \ {k} \subseteq call[c].keys
  BY <1>5
<1>9. call[c].at = Nothing
  BY AtKey
<1> QED
  BY <1>1, <1>3, <1>4, <1>5, <1>7, <1>8, <1>9, FileMoves

LEMMA ClearKeepsInv ==
    ASSUME StoresInv, NEW c \in Callers, NEW k \in Keys, FileClear(c, k)
    PROVE  StoresInv'
<1>1. InBody(c, "clear", k) /\ store' = [store EXCEPT ![k] = Absent]
  BY DEF FileClear
<1>2. CASE store[k] = Absent /\ Goto(c, "raising")
  <2>1. /\ backend = "file" /\ c \in holding /\ k \in call[c].todo /\ call[c].op = "clear"
        /\ TypeOK
    BY <1>1, AtKey
  <2>2. overlap
    <3> SUFFICES ASSUME ~overlap PROVE FALSE
      OBVIOUS
    <3>1. ChangingInv(c)
      BY <2>1, AtFiles DEF HolderInv, Changes
    <3> QED
      BY <1>2, <2>1, <3>1 DEF ChangingInv
  <2>3. store' \in [Keys -> Entries]
    BY <1>1, <2>1, AbsentIsNone DEF TypeOK
  <2> QED
    BY <1>1, <1>2, <2>2, <2>3, RaiseKeepsInv
<1>3. CASE call' = [call EXCEPT ![c].todo = @ \ {k}]
  BY <1>1, <1>3, UnlinkKeepsInv
<1> QED
  BY <1>2, <1>3 DEF FileClear

\* An exception is on its way out of a method, or a cancellation.
LEMMA OutKeepsInv ==
    ASSUME StoresInv, backend = "file", NEW c \in Callers, NEW stage \in {"refused", "cut"},
           Doing(c, "running") \/ (Doing(c, "writing") /\ stage = "refused"),
           Goto(c, stage), UNCHANGED <<backend, now, store>>, UNCHANGED managerVars
    PROVE  StoresInv'
<1>1. c \in holding
  BY InFiles
<1>2. /\ InCall(c) /\ TypeOK /\ call[c].todo \subseteq call[c].keys
      /\ Changes(call[c].op) => call[c].answer = NoAnswer
      /\ ~overlap => HolderInv(c)
      /\ Doing(c, "running") => call[c].at = Nothing
      /\ call[c].at # Nothing => call[c].op = "set" /\ Through(c, call[c].at)
  BY <1>1, AtFiles
<1>3. Moves(c, stage, call[c].todo, call[c].at, call[c].answer)
  BY <1>2, GotoMoves DEF Stages
<1>4. /\ call'[c].stage = stage /\ call'[c].todo = call[c].todo /\ call'[c].at = call[c].at
      /\ call'[c].op = call[c].op /\ call'[c].keys = call[c].keys
      /\ call'[c].value = call[c].value /\ call'[c].timeout = call[c].timeout
      /\ call'[c].began = call[c].began /\ call'[c].answer = call[c].answer
  BY <1>2, <1>3, MovedCall
<1>5. /\ KV!Leavings(call[c])' = KV!Leavings(call[c])
      /\ KV!Tornings(call[c])' = KV!Tornings(call[c])
      /\ \A j \in Keys : KV!Answers(call[c], j)' = KV!Answers(call[c], j)
  BY <1>4, SameLeavings, SameTornings, SameAnswers
<1>6. ~overlap => HolderInv(c)'
  <2>1. ReadingInv(c) => ReadingInv(c)'
    BY <1>4, <1>5 DEF ReadingInv, Doing, Through
  <2>2. ChangingInv(c) => ChangingInv(c)'
    BY <1>4, <1>5 DEF ChangingInv, Doing, Through, managerVars, Absent, KV!Absent
  <2> QED
    BY <1>2, <1>4, <2>1, <2>2 DEF HolderInv
<1> QED
  BY <1>1, <1>2, <1>3, <1>6, FileMoves DEF TypeOK, Through

LEMMA FileEnterKeepsInv ==
    ASSUME StoresInv, NEW c \in Callers, FileEnter(c)
    PROVE  StoresInv'
<1>1. /\ backend = "file" /\ Enter(c, "waiting", KV!Kinds, CacheValues, Timeouts)
      /\ UNCHANGED <<backend, now, store>> /\ UNCHANGED managerVars
      /\ TypeOK /\ CallsInv /\ "waiting" \in Stages
      /\ CacheValues \in SUBSET Values
  BY StoresAssumption DEF FileEnter, Enter, StoresInv, Stages
<1>2. PICK op \in KV!Kinds, K \in (SUBSET Keys) \ {{}}, v \in CacheValues \cup {Nothing},
           life \in Timeouts \cup {Infinity} : Begun(c, "waiting", op, K, v, life)
  BY <1>1, EnterCall
<1>3. /\ call[c] = Idle /\ call' \in [Callers -> {Idle} \cup Calls]
      /\ \A b \in Callers \ {c} : call'[b] = call[b]
      /\ call'[c].stage = "waiting" /\ call'[c].answer = NoAnswer /\ call'[c].at = Nothing
  BY <1>2 DEF Begun
<1>4. CallsInv'
  BY <1>1, EnterKeepsCalls
<1>5. TypeOK'
  BY <1>1, <1>3 DEF TypeOK, managerVars, Manager!LeaseTypeOK
<1>6. c \notin holding
  BY <1>1, <1>3, AtFiles DEF InCall
<1>7. FileInv'
  <2>1. \A d \in Callers : d \in holding' <=> Inside(d)'
    BY <1>1, <1>3, <1>6 DEF StoresInv, FileInv, Inside, Doing, managerVars
  <2>2. NoAnswer' = NoAnswer
    BY DEF NoAnswer
  <2>3. ASSUME NEW d \in Callers, InCall(d)', d \notin holding'
        PROVE  Doing(d, "waiting")' /\ call'[d].answer = NoAnswer /\ call'[d].at = Nothing
    BY <1>1, <1>3, <2>3 DEF StoresInv, FileInv, InCall, Doing, managerVars
  <2>4. ASSUME NEW d \in holding' PROVE AtInv(d)'
    BY <1>1, <1>3, <1>6, <2>4 DEF StoresInv, FileInv, AtInv, Doing, Through, managerVars,
       TypeOK, Manager!LeaseTypeOK
  <2>5. ~overlap' => \A d, e \in holding' : d = e
    BY <1>1 DEF StoresInv, FileInv, managerVars
  <2>6. ASSUME ~overlap', NEW d \in holding' PROVE HolderInv(d)'
    <3>1. d \in holding /\ ~overlap /\ d \in Callers \ {c}
      BY <1>1, <1>6, <2>6 DEF managerVars, TypeOK, Manager!LeaseTypeOK
    <3>2. HolderInv(d) /\ call'[d] = call[d]
      BY <1>1, <1>3, <3>1 DEF StoresInv, FileInv
    <3>3. /\ KV!Leavings(call[d])' = KV!Leavings(call[d])
          /\ KV!Tornings(call[d])' = KV!Tornings(call[d])
          /\ \A j \in Keys : KV!Answers(call[d], j)' = KV!Answers(call[d], j)
      BY <1>1, <3>1, <3>2, SameLeavings, SameTornings, SameAnswers
    <3>4. Absent' = Absent
      BY DEF Absent, KV!Absent
    <3>5. UNCHANGED <<store, before>>
      BY <1>1 DEF managerVars
    <3> QED
      BY <3>2, <3>3, <3>4, <3>5 DEF HolderInv, ReadingInv, ChangingInv, Doing, Through
  <2> QED
    BY <2>1, <2>2, <2>3, <2>4, <2>5, <2>6 DEF FileInv
<1> QED
  BY <1>1, <1>4, <1>5, <1>7, OnlyFiles

LEMMA StartMoves ==
    ASSUME StoresInv, NEW c \in Callers, InCall(c), StartBody(c)
    PROVE  /\ Moves(c, "running", NamesFor(c), call[c].at, call[c].answer)
           /\ NamesFor(c) \subseteq call[c].keys
<1>1. /\ TypeOK /\ call[c].keys \in SUBSET Keys
      /\ (call[c].op \in {"keys", "clear"} => call[c].keys = Keys)
  BY CallFields DEF StoresInv, CallsInv, CallInv
<1>2. NamesFor(c) \in SUBSET Keys /\ NamesFor(c) \subseteq call[c].keys
  BY <1>1 DEF NamesFor
<1> DEFINE x == call[c]
           y == [x EXCEPT !.stage = "running"]
           names == NamesFor(c)
<1>3. y = Advanced(c, "running", x.todo, x.at, x.answer)
  BY <1>1, CallFields DEF Calls, Advanced
<1>4. call' = [call EXCEPT ![c] = [y EXCEPT !.todo = names]]
  BY DEF StartBody
<1> HIDE DEF y, names
<1>5. [y EXCEPT !.todo = names] = Advanced(c, "running", names, x.at, x.answer)
  BY <1>3 DEF Advanced
<1> QED
  BY <1>1, <1>2, <1>4, <1>5, CallFields DEF Moves, Stages, names

\* A method alone in the lock, at its start.
LEMMA GrantedHolder ==
    ASSUME StoresInv, NEW c \in Callers, Granted(c), ~overlap'
    PROVE  HolderInv(c)'
<1>1. /\ backend = "file" /\ Doing(c, "waiting") /\ UNCHANGED <<now, store>>
      /\ Remember(c) /\ StartBody(c) /\ TypeOK /\ CallsInv
      /\ InCall(c) /\ c \notin holding
  BY InCallWhen DEF Granted, Manager!Grant, StoresInv, Stages
<1>2. /\ call[c].answer = NoAnswer /\ call[c].at = Nothing /\ call[c].keys \in SUBSET Keys
      /\ (call[c].op \in {"keys", "clear"} => call[c].keys = Keys)
  BY <1>1, CallFields DEF StoresInv, FileInv, CallsInv, CallInv
<1>3. /\ call'[c].stage = "running" /\ call'[c].todo = NamesFor(c)
      /\ call'[c].answer = call[c].answer /\ call'[c].op = call[c].op
      /\ call'[c].keys = call[c].keys /\ call'[c].at = Nothing
  BY <1>1, <1>2, StartMoves, MovedCall
<1>4. Absent' = Absent
  BY DEF Absent, KV!Absent
<1>5. \A k \in Keys : Through(c, k)' => store[k] = Absent
  BY <1>2, <1>3 DEF Through, NamesFor
<1>6. CASE Changes(call[c].op)
  <2>1. before' = store
    BY <1>1, <1>6 DEF Remember
  <2>2. \A k \in Keys : Through(c, k)' => call'[c].op = "clear"
    BY <1>2, <1>3, <1>6 DEF Through, NamesFor, Changes
  <2>3. call'[c].op = "clear" => Absent \in KV!Leavings(call[c])'
    BY DEF KV!Leavings, Absent, KV!Absent
  <2>4. call'[c].op = "clear" => \A k \in call'[c].todo : store[k] # Absent
    BY <1>3 DEF NamesFor
  <2>5. ChangingInv(c)'
    BY <1>1, <1>3, <1>4, <1>5, <2>1, <2>2, <2>3, <2>4, StoresAssumption DEF ChangingInv, Doing
  <2> QED
    BY <1>3, <1>6, <2>5 DEF HolderInv
<1>7. CASE ~Changes(call[c].op)
  <2>1. \A k \in Keys : call'[c].answer[k] = Nothing
    BY <1>2, <1>3 DEF NoAnswer
  <2>2. \A k \in Keys : Through(c, k)' => Nothing \in KV!Answers(call[c], k)'
    BY <1>1, <1>4, <1>5 DEF KV!Answers, Absent
  <2>3. call'[c].op = "keys" => \A k \in call'[c].todo : store[k] # Absent
    BY <1>3 DEF NamesFor
  <2>4. ReadingInv(c)'
    BY <1>1, <1>3, <1>4, <2>1, <2>2, <2>3 DEF ReadingInv, Doing
  <2> QED
    BY <1>3, <1>7, <2>4 DEF HolderInv
<1> QED
  BY <1>6, <1>7

LEMMA GrantedKeepsInv ==
    ASSUME StoresInv, NEW c \in Callers, Granted(c)
    PROVE  StoresInv'
<1>1. /\ backend = "file" /\ Doing(c, "waiting") /\ UNCHANGED <<backend, now, store, corrupt>>
      /\ overlap' = (overlap \/ holding # {}) /\ Remember(c) /\ StartBody(c)
      /\ holding' = holding \cup {c} /\ lease' = [holder |-> c, since |-> now]
      /\ TypeOK /\ CallsInv /\ InCall(c) /\ c \notin holding
  BY InCallWhen DEF Granted, Manager!Grant, StoresInv, Stages
<1>2. call[c].answer = NoAnswer /\ call[c].at = Nothing
  BY <1>1 DEF StoresInv, FileInv
<1>3. /\ Moves(c, "running", NamesFor(c), call[c].at, call[c].answer)
      /\ NamesFor(c) \subseteq call[c].keys
  BY <1>1, StartMoves
<1>4. /\ call' \in [Callers -> {Idle} \cup Calls]
      /\ \A d \in Callers \ {c} : call'[d] = call[d]
      /\ call'[c].stage = "running" /\ call'[c].at = Nothing
  BY <1>1, <1>2, <1>3, MovedCall
<1>5. CallsInv'
  BY <1>1, <1>2, <1>3, MoveKeepsCalls
<1>6. before' \in [Keys -> Entries]
  BY <1>1, AbsentIsNone DEF Remember, Nowhere, TypeOK
<1>7. TypeOK'
  BY <1>1, <1>4, <1>6 DEF TypeOK, Manager!LeaseTypeOK
<1>8. FileInv'
  <2>1. \A d \in Callers : d \in holding' <=> Inside(d)'
    BY <1>1, <1>4 DEF StoresInv, FileInv, Inside, Doing
  <2>2. NoAnswer' = NoAnswer
    BY DEF NoAnswer
  <2>3. ASSUME NEW d \in Callers, InCall(d)', d \notin holding'
        PROVE  Doing(d, "waiting")' /\ call'[d].answer = NoAnswer /\ call'[d].at = Nothing
    BY <1>1, <1>4, <2>3 DEF StoresInv, FileInv, InCall, Doing
  <2>4. ASSUME NEW d \in holding' PROVE AtInv(d)'
    BY <1>1, <1>2, <1>4, <2>4 DEF StoresInv, FileInv, AtInv, Doing, Through, TypeOK,
       Manager!LeaseTypeOK
  <2>5. ~overlap' => \A d, e \in holding' : d = e
    BY <1>1
  <2>6. ~overlap' => \A d \in holding' : HolderInv(d)'
    <3> SUFFICES ASSUME ~overlap', NEW d \in holding' PROVE HolderInv(d)'
      OBVIOUS
    <3>1. d = c
      BY <1>1
    <3> QED
      BY <3>1, GrantedHolder
  <2> QED
    BY <2>1, <2>2, <2>3, <2>4, <2>5, <2>6 DEF FileInv
<1> QED
  BY <1>1, <1>5, <1>7, <1>8, OnlyFiles

\* A method does not get the lock.
LEMMA WaitCutKeepsInv ==
    ASSUME StoresInv, NEW c \in Callers, WaitCut(c) \/ CrashEntering(c) \/ LockUnreadable(c)
    PROVE  StoresInv'
<1>1. /\ backend = "file" /\ Doing(c, "waiting") /\ Stop(c)
      /\ lease' \in {lease, Manager!NoLease} /\ corrupt' \in BOOLEAN
      /\ UNCHANGED <<backend, now, store, holding, before, overlap>> /\ TypeOK /\ CallsInv
  BY DEF WaitCut, CrashEntering, LockUnreadable, managerVars, StoresInv, TypeOK
<1>2. c \notin holding
  BY <1>1 DEF StoresInv, FileInv, Inside, Doing
<1>3. /\ call' \in [Callers -> {Idle} \cup Calls]
      /\ \A d \in Callers \ {c} : call'[d] = call[d]
      /\ call'[c] = Idle
  BY <1>1, StoppedCall
<1>4. CallsInv'
  BY <1>1, StopKeepsCalls
<1>5. TypeOK'
  <2>1. Manager!NoLease \in [holder: Callers \cup {Nobody}, since: Manager!Time]
    BY StoresAssumption DEF Manager!NoLease, Manager!Time
  <2> QED
    BY <1>1, <1>3, <2>1 DEF TypeOK, Manager!LeaseTypeOK
<1>6. FileInv'
  <2>1. \A d \in Callers : d \in holding' <=> Inside(d)'
    BY <1>1, <1>2, <1>3 DEF StoresInv, FileInv, Inside, Doing, Idle
  <2>2. NoAnswer' = NoAnswer
    BY DEF NoAnswer
  <2>3. ASSUME NEW d \in Callers, InCall(d)', d \notin holding'
        PROVE  Doing(d, "waiting")' /\ call'[d].answer = NoAnswer /\ call'[d].at = Nothing
    BY <1>1, <1>3, <2>3 DEF StoresInv, FileInv, InCall, Doing
  <2>4. ASSUME NEW d \in holding' PROVE AtInv(d)'
    BY <1>1, <1>2, <1>3, <2>4 DEF StoresInv, FileInv, AtInv, Doing, Through, TypeOK,
       Manager!LeaseTypeOK
  <2>5. ~overlap' => \A d, e \in holding' : d = e
    BY <1>1 DEF StoresInv, FileInv
  <2>6. ASSUME ~overlap', NEW d \in holding' PROVE HolderInv(d)'
    <3>1. d \in holding /\ ~overlap /\ d \in Callers \ {c}
      BY <1>1, <1>2, <2>6 DEF TypeOK, Manager!LeaseTypeOK
    <3>2. HolderInv(d) /\ call'[d] = call[d]
      BY <1>1, <1>3, <3>1 DEF StoresInv, FileInv
    <3>3. /\ KV!Leavings(call[d])' = KV!Leavings(call[d])
          /\ KV!Tornings(call[d])' = KV!Tornings(call[d])
          /\ \A j \in Keys : KV!Answers(call[d], j)' = KV!Answers(call[d], j)
      BY <1>1, <3>1, <3>2, SameLeavings, SameTornings, SameAnswers
    <3>4. Absent' = Absent
      BY DEF Absent, KV!Absent
    <3> QED
      BY <1>1, <3>2, <3>3, <3>4 DEF HolderInv, ReadingInv, ChangingInv, Doing, Through
  <2> QED
    BY <2>1, <2>2, <2>3, <2>4, <2>5, <2>6 DEF FileInv
<1> QED
  BY <1>1, <1>4, <1>5, <1>6, OnlyFiles

\* A method leaves the lock, in good order or not.
LEMMA LeaveKeepsInv ==
    ASSUME StoresInv, NEW c \in Callers, Leave(c) \/ Crash(c)
    PROVE  StoresInv'
<1>1. /\ backend = "file" /\ c \in holding /\ Stop(c) /\ holding' = holding \ {c}
      /\ UNCHANGED <<backend, now, store, corrupt>> /\ Forget /\ TypeOK /\ CallsInv
      /\ lease' \in {lease, Manager!NoLease}
  BY DEF Leave, Crash, Manager!GiveBack, Manager!Vanish, StoresInv
<1>2. /\ call' \in [Callers -> {Idle} \cup Calls]
      /\ \A d \in Callers \ {c} : call'[d] = call[d]
      /\ call'[c] = Idle
  BY <1>1, StoppedCall
<1>3. CallsInv'
  BY <1>1, StopKeepsCalls
<1>4. TypeOK'
  <2>1. Manager!NoLease \in [holder: Callers \cup {Nobody}, since: Manager!Time]
    BY StoresAssumption DEF Manager!NoLease, Manager!Time
  <2>2. before' \in [Keys -> Entries] /\ overlap' \in BOOLEAN
    BY <1>1, AbsentIsNone DEF Forget, Nowhere, TypeOK
  <2> QED
    BY <1>1, <1>2, <2>1, <2>2 DEF TypeOK, Manager!LeaseTypeOK
<1>5. FileInv'
  <2>1. \A d \in Callers : d \in holding' <=> Inside(d)'
    BY <1>1, <1>2 DEF StoresInv, FileInv, Inside, Doing, Idle
  <2>2. NoAnswer' = NoAnswer
    BY DEF NoAnswer
  <2>3. ASSUME NEW d \in Callers, InCall(d)', d \notin holding'
        PROVE  Doing(d, "waiting")' /\ call'[d].answer = NoAnswer /\ call'[d].at = Nothing
    BY <1>1, <1>2, <2>3 DEF StoresInv, FileInv, InCall, Doing
  <2>4. ASSUME NEW d \in holding' PROVE AtInv(d)'
    BY <1>1, <1>2, <2>4 DEF StoresInv, FileInv, AtInv, Doing, Through, TypeOK,
       Manager!LeaseTypeOK
  <2>5. ~overlap' => holding' = {}
    BY <1>1 DEF StoresInv, FileInv, Forget, TypeOK
  <2> QED
    BY <2>1, <2>2, <2>3, <2>4, <2>5 DEF FileInv
<1> QED
  BY <1>1, <1>3, <1>4, <1>5, OnlyFiles

LEMMA FileKeepsInv ==
    ASSUME StoresInv, NEW c \in Callers, FileCacheStep(c)
    PROVE  StoresInv'
<1>1. \A k \in Keys : FileDelete(c, k) => StoresInv'
  BY UnlinkKeepsInv DEF FileDelete
<1>2. BodyCut(c) \/ BodyRefused(c) \/ FileWriteFails(c) => StoresInv'
  BY OutKeepsInv DEF BodyCut, BodyRefused, FileWriteFails, Ready
<1> QED
  BY <1>1, <1>2, FileEnterKeepsInv, GrantedKeepsInv, WaitCutKeepsInv, GetKeepsInv,
     ListKeepsInv, OpenKeepsInv, ClearKeepsInv, TearKeepsInv, WriteKeepsInv, LeaveKeepsInv
     DEF FileCacheStep

-----------------------------------------------------------------------------
LEMMA ReturnKeepsInv ==
    ASSUME StoresInv, NEW c \in Callers, Return(c)
    PROVE  StoresInv'
<1>1. /\ Doing(c, "done") /\ Stop(c) /\ UNCHANGED <<backend, now, store>>
      /\ UNCHANGED managerVars /\ TypeOK
  BY DEF Return, StoresInv
<1>2. InCall(c)
  BY <1>1, InCallWhen DEF Stages
<1>3. backend # "file"
  BY <1>1, <1>2 DEF StoresInv, FileInv, Inside, Doing
<1> QED
  BY <1>1, <1>3, StopAside DEF Aside

LEMMA TickKeepsInv ==
    ASSUME StoresInv, Tick
    PROVE  StoresInv'
<1>1. /\ now < MaxTime /\ now' = now + 1 /\ UNCHANGED <<lease, holding>>
      /\ UNCHANGED <<backend, store, call, corrupt, before, overlap>> /\ TypeOK /\ CallsInv
  BY DEF Tick, Manager!LeaseTick, StoresInv
<1>2. now \in Nat /\ now' \in Nat /\ MaxTime \in Nat /\ now' \in 0 .. MaxTime
  BY <1>1, StoresAssumption DEF TypeOK, Manager!LeaseTypeOK, Manager!Time
<1>3. TypeOK'
  BY <1>1, <1>2 DEF TypeOK, Manager!LeaseTypeOK, Manager!Time
<1>4. CallsInv'
  <2> SUFFICES ASSUME NEW c \in Callers, InCall(c)' PROVE CallInv(c)'
    BY DEF CallsInv
  <2>1. InCall(c) /\ CallInv(c) /\ call'[c] = call[c]
    BY <1>1 DEF CallsInv, InCall
  <2>2. call[c].began \in Nat
    BY <1>1, <2>1, CallFields, StoresAssumption DEF Time
  <2>3. call[c].began <= now'
    BY <1>1, <1>2, <2>1, <2>2 DEF CallInv
  <2>4. NoAnswer' = NoAnswer
    BY DEF NoAnswer
  <2> QED
    BY <2>1, <2>3, <2>4 DEF CallInv, Doing
<1>5. Absent' = Absent /\ NoAnswer' = NoAnswer
  BY DEF Absent, KV!Absent, NoAnswer
<1>6. NoFilesInv' /\ MemoryInv' /\ RedisInv'
  BY <1>1, <1>5 DEF StoresInv, NoFilesInv, IsBroken, MemoryInv, RedisInv, InCall, Doing
<1>7. ConstanceInv'
  BY <1>1, <1>5 DEF StoresInv, ConstanceInv, SettingInv, InCall, Doing
<1>8. ASSUME backend = "file", NEW c \in holding, ~overlap PROVE HolderInv(c)'
  <2>1. /\ HolderInv(c) /\ c \in Callers /\ InCall(c)
    BY <1>8, AtFiles
  <2>2. call[c].began \in Nat
    BY <1>1, <2>1, CallFields, StoresAssumption DEF Time
  <2>3. KV!Leavings(call[c]) \subseteq KV!Leavings(call[c])'
    <3>1. call[c].began .. now \subseteq call[c].began .. now'
      BY <1>1, <1>2, <2>2
    <3> QED
      BY <1>1, <3>1 DEF KV!Leavings, KV!Deadline, KV!Absent
  <2>7. KV!Tornings(call[c]) \subseteq KV!Tornings(call[c])'
    BY <2>3 DEF KV!Tornings, KV!BrokenEntry
  <2>4. \A k \in Keys : KV!Answers(call[c], k) \subseteq KV!Answers(call[c], k)'
    <3> SUFFICES ASSUME NEW k \in Keys
                 PROVE  KV!Answers(call[c], k) \subseteq KV!Answers(call[c], k)'
      OBVIOUS
    <3>1. Expired(store[k]) /\ store[k] # Absent => Expired(store[k])'
      <4>1. store[k].deadline # Infinity /\ store[k] # Absent => store[k].deadline \in Nat
        BY <1>1, EntryKinds
      <4> QED
        BY <1>1, <1>2, <4>1 DEF Expired, KV!Expired
    <3> QED
      BY <1>1, <3>1 DEF KV!Answers, Expired, Absent, KV!Absent
  <2>5. ReadingInv(c) => ReadingInv(c)'
    BY <1>1, <1>5, <2>4 DEF ReadingInv, Doing, Through, IsBroken
  <2>6. ChangingInv(c) => ChangingInv(c)'
    BY <1>1, <1>5, <2>3, <2>7 DEF ChangingInv, Doing, Through
  <2> QED
    BY <1>1, <2>1, <2>5, <2>6 DEF HolderInv
<1>9. FileInv'
  BY <1>1, <1>5, <1>8 DEF StoresInv, FileInv, AtInv, InCall, Inside, Doing, Through
<1> QED
  BY <1>3, <1>4, <1>6, <1>7, <1>9 DEF StoresInv

LEMMA InitInv == Init => StoresInv
<1> SUFFICES ASSUME Init PROVE StoresInv
  OBVIOUS
<1>1. TypeOK
  <2>1. now \in Manager!Time /\ Manager!NoLease \in [holder: Callers \cup {Nobody},
                                                     since: Manager!Time]
    BY StoresAssumption DEF Init, Manager!LeaseInit, Manager!NoLease, Manager!Time
  <2> QED
    BY <2>1, AbsentIsNone DEF Init, Manager!LeaseInit, Manager!LeaseTypeOK, TypeOK, Nowhere
<1>2. \A c \in Callers : ~InCall(c) /\ \A stage \in Stages : ~Doing(c, stage)
  BY DEF Init, InCall, Doing, Idle, Stages
<1>3. holding = {} /\ \A k \in Keys : store[k] = Absent
  BY DEF Init, Manager!LeaseInit
<1>4. FileInv
  BY <1>2, <1>3 DEF FileInv, Inside, Stages
<1> QED
  BY <1>1, <1>2, <1>3, <1>4, AbsentIsNone
     DEF StoresInv, CallsInv, NoFilesInv, MemoryInv, RedisInv, ConstanceInv

LEMMA StepInv == StoresInv /\ [Next]_vars => StoresInv'
<1> SUFFICES ASSUME StoresInv, [Next]_vars PROVE StoresInv'
  OBVIOUS
<1>1. ASSUME NEW c \in Callers, Step(c) PROVE StoresInv'
  BY <1>1, FileKeepsInv, MemoryKeepsInv, RedisKeepsInv, ConstanceKeepsInv, ReturnKeepsInv
     DEF Step
<1>2. CASE \E k \in Keys : RedisEvict(k)
  BY <1>2, EvictKeepsInv
<1>3. CASE Tick
  BY <1>3, TickKeepsInv
<1>4. CASE UNCHANGED vars
  <2>1. Absent' = Absent /\ NoAnswer' = NoAnswer
    BY DEF Absent, KV!Absent, NoAnswer
  <2>2. TypeOK'
    BY <1>4 DEF StoresInv, TypeOK, vars, Manager!LeaseTypeOK
  <2>3. CallsInv' /\ NoFilesInv' /\ MemoryInv' /\ RedisInv'
    BY <1>4, <2>1 DEF StoresInv, CallsInv, CallInv, NoFilesInv, IsBroken, MemoryInv, RedisInv,
       InCall, Doing, vars
  <2>4. ConstanceInv'
    BY <1>4, <2>1 DEF StoresInv, ConstanceInv, SettingInv, InCall, Doing, vars
  <2>5. ASSUME backend = "file", NEW c \in holding, ~overlap PROVE HolderInv(c)'
    <3>1. HolderInv(c) /\ c \in Callers
      BY <2>5, AtFiles
    <3>2. /\ KV!Leavings(call[c])' = KV!Leavings(call[c])
          /\ KV!Tornings(call[c])' = KV!Tornings(call[c])
          /\ \A j \in Keys : KV!Answers(call[c], j)' = KV!Answers(call[c], j)
      BY <1>4, <3>1, SameLeavings, SameTornings, SameAnswers DEF vars
    <3> QED
      BY <1>4, <2>1, <3>1, <3>2
         DEF HolderInv, ReadingInv, ChangingInv, Doing, Through, IsBroken, vars
  <2>6. FileInv'
    BY <1>4, <2>1, <2>5 DEF StoresInv, FileInv, AtInv, InCall, Inside, Doing, Through, vars
  <2> QED
    BY <2>2, <2>3, <2>4, <2>6 DEF StoresInv
<1> QED
  BY <1>1, <1>2, <1>3, <1>4 DEF Next

\* StoresInv always holds: whatever backend the settings pick, a call keeps to what
\* it was given, and what FileCache has read or changed so far in its manager lock
\* is what one step could have read or changed, as long as nobody else is in it.
THEOREM StoresInvariance == Spec => []StoresInv
  BY InitInv, StepInv, PTL DEF Spec

-----------------------------------------------------------------------------
\* The values of all variables have their types.
THEOREM StoresTypes == Spec => []TypeOK
<1>1. StoresInv => TypeOK
  BY DEF StoresInv
<1> QED
  BY <1>1, StoresInvariance, PTL

\* A call whose key and value are good fails by itself, with a file system and a manager
\* lock that do their work, only when that lock has been shared, when a get meets a file
\* that was not written to its end, or when the row of a setting has been created meanwhile.
THEOREM FailuresHaveCause == Spec => []ErrorsHaveCause
<1>1. StoresInv => ErrorsHaveCause
  <2> SUFFICES ASSUME StoresInv, NEW c \in Callers, Doing(c, "raising")
               PROVE  IF backend = "file"
                      THEN \/ overlap
                           \/ /\ call[c].op = "get"
                              /\ \E k \in call[c].keys : IsBroken(store[k])
                      ELSE \A k \in call[c].keys : store[k] # Absent
    BY DEF ErrorsHaveCause
  <2>1. InCall(c) /\ backend \in {"file", "memory", "redis", "constance"}
    BY InCallWhen, StoresAssumption DEF StoresInv, TypeOK, Stages
  <2>2. CASE backend = "file" /\ ~overlap
    <3>1. c \in holding
      BY <2>2, InFiles
    <3>2. call[c].op \in KV!Kinds /\ HolderInv(c)
      BY <2>2, <3>1, AtFiles
    <3>3. ReadingInv(c) /\ ~Changes(call[c].op)
      BY <3>2 DEF HolderInv, ChangingInv
    <3> QED
      BY <2>2, <3>2, <3>3 DEF ReadingInv, Changes, KV!Kinds
  <2>3. CASE backend = "constance"
    <3>1. SettingInv(c)
      BY <2>1, <2>3 DEF StoresInv, ConstanceInv
    <3> QED
      BY <2>3, <3>1 DEF SettingInv, Doing
  <2>4. backend \notin {"memory", "redis"}
    BY <2>1 DEF StoresInv, MemoryInv, RedisInv, Doing
  <2> QED
    BY <2>1, <2>2, <2>3, <2>4
<1> QED
  BY <1>1, StoresInvariance, PTL

\* A cancelled method of FileCache that changes files leaves no file half-written: one
\* that is, is as it was before.
THEOREM CancellationLeavesWholeFiles == Spec => []CancelledNeverTears
<1>1. StoresInv => CancelledNeverTears
  <2> SUFFICES ASSUME StoresInv, NEW c \in Callers, Doing(c, "cut"), Changes(call[c].op),
                      ~overlap, NEW k \in Keys, IsBroken(store[k])
               PROVE  store[k] = before[k]
    BY DEF CancelledNeverTears
  <2>1. InCall(c) /\ backend \in {"file", "memory", "redis", "constance"}
    BY InCallWhen, StoresAssumption DEF StoresInv, TypeOK, Stages
  <2>2. backend = "file"
    <3>1. backend \notin {"memory", "redis"}
      BY <2>1 DEF StoresInv, MemoryInv, RedisInv, Doing
    <3>2. backend # "constance"
      BY <2>1 DEF StoresInv, ConstanceInv, SettingInv, Doing
    <3> QED
      BY <2>1, <3>1, <3>2
  <2>3. c \in holding
    BY <2>2, InFiles
  <2>4. /\ ChangingInv(c) /\ CallInv(c)
        /\ Doing(c, "writing") \/ Doing(c, "refused") \/ call[c].at = Nothing
    BY <2>1, <2>2, <2>3, AtFiles DEF StoresInv, FileInv, AtInv, HolderInv, CallsInv
  <2>5. \A e \in KV!Leavings(call[c]) : ~IsBroken(e)
    BY <2>4, StoresAssumption DEF CallInv, KV!Leavings, IsBroken, KV!Absent
  <2>6. k # call[c].at
    BY <2>4, StoresAssumption DEF Doing
  <2> QED
    BY <2>4, <2>5, <2>6 DEF ChangingInv
<1> QED
  BY <1>1, StoresInvariance, PTL
=============================================================================
